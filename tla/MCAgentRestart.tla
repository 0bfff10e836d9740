--------------------------- MODULE MCAgentRestart ---------------------------
(***************************************************************************)
(* An instance of AgentRestart for TLC.                                    *)
(***************************************************************************)
EXTENDS AgentRestart
=============================================================================
