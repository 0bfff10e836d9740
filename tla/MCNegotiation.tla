--------------------------- MODULE MCNegotiation ---------------------------
(***************************************************************************)
(* Instances of Negotiation for TLC: two calls, with or without a key, by  *)
(* one requester or two; both have the key k1, for different tasks; also   *)
(* for a capability that the agent lacks.                                  *)
(***************************************************************************)
EXTENDS Negotiation, TLC

Arg(requester, k, capability) ==
    [requester |-> requester, key |-> k, capability |-> capability]

MCSyncSkills == {"task.propose", "sync", "other"}
MCAsyncSkills == {"async"}

MCArgs == {
    Arg("alice", "k1", "sync"),
    Arg("bob",   "k1", "other"),
    Arg("alice", "k1", "none"),
    Arg("bob",   None, "async") }

MCSymmetry == Permutations(Call)
=============================================================================
