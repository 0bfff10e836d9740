---------------------------- MODULE MCA2AServer ----------------------------
(***************************************************************************)
(* Instances of A2AServer for TLC: two retries of one synchronous task     *)
(* under new message ids, two overlapping duplicates for a handler that    *)
(* suspends, and each way a message is refused.                            *)
(***************************************************************************)
EXTENDS A2AServer, TLC

Msg(sender, id, key, capability, contract) ==
    [sender |-> sender, id |-> id, key |-> key,
     capability |-> capability, contract |-> contract]

MCSyncSkills == {"task.propose", "sync"}
MCAsyncSkills == {"async"}

MCMessage == {
    Msg("alice", "id1", "k1", "task.propose", "unsigned"),
    Msg("alice", "id2", "k1", "sync", "signed"),
    Msg("alice", "id2", None, "sync", "badsig"),
    Msg("alice", "id3", "k2", "async", "none"),
    Msg(None,    "id4", "k2", "async", "none"),
    Msg(None,    "id5", "k1", "none", "none") }

MCSymmetry == Permutations(Request)
=============================================================================
