----------------------------- MODULE MCFlashTool -----------------------------
(***************************************************************************)
(* Instance of FlashTool for TLC.                                          *)
(***************************************************************************)
EXTENDS FlashTool
=============================================================================
