-------------------------- MODULE MCAgentSupervisor --------------------------
(***************************************************************************)
(* Instance of AgentSupervisor for TLC.                                    *)
(***************************************************************************)
EXTENDS AgentSupervisor
=============================================================================
