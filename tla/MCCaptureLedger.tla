--------------------------- MODULE MCCaptureLedger ---------------------------
(* Small instances of CaptureLedger for TLC.                                *)
EXTENDS CaptureLedger

CONSTANT cold
===============================================================================
