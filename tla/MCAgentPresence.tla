-------------------------- MODULE MCAgentPresence --------------------------
(***************************************************************************)
(* An instance of AgentPresence for TLC: two Seeds and the leases the code *)
(* grants, with time in steps of six minutes.                              *)
(***************************************************************************)
EXTENDS AgentPresence

MCSeeds == <<"s1", "s2">>
=============================================================================
