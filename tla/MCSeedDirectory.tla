-------------------------- MODULE MCSeedDirectory --------------------------
(***************************************************************************)
(* Instances of SeedDirectory for TLC: an agent that announces itself      *)
(* twice under its key, the same agent id under a second key, a second     *)
(* agent with two capabilities, an announce signed by the wrong key; and   *)
(* queries by range, by major version, by a list, with and without limit.  *)
(***************************************************************************)
EXTENDS SeedDirectory

Cap(id, major, minor) == [id |-> id, version |-> <<major, minor, 0>>]

Ann(a, k, signer, lease, status, caps) ==
    [agent_id |-> a, public_key |-> k, signer |-> signer,
     lease |-> lease, status |-> status, capabilities |-> caps]

MCAgent == {"a", "b"}
MCPublicKey == {"ka", "ka2", "kb"}

MCAnnouncement == {
    Ann("a", "ka",  "ka",  0, "AVAILABLE", <<Cap("echo", 1, 2)>>),
    Ann("a", "ka2", "ka2", 1, "AVAILABLE", <<Cap("echo", 2, 0)>>),
    Ann("b", "kb",  "kb",  9, "AVAILABLE", <<Cap("echo", 2, 1), Cap("echo", 1, 0)>>),
    Ann("b", "kb",  "ka",  1, "BUSY",      <<Cap("echo", 2, 1)>>) }

Constraint(op, major, minor, x) == [op |-> op, version |-> <<major, minor, 0>>, x |-> x]

Discover(version, max_results) ==
    [capability |-> "echo", version |-> version, max_results |-> max_results]

MCQuery == {
    Discover(<<>>, 1),
    Discover(<<>>, 0),
    Discover(<<>>, -1),
    Discover(<<Constraint("", 1, 0, TRUE)>>, 0),
    Discover(<<Constraint(">=", 1, 1, FALSE), Constraint("<", 2, 1, FALSE)>>, 0),
    Discover(<<Constraint("", 2, 0, TRUE), Constraint(">", 2, 0, FALSE)>>, 5),
    Discover(<<Constraint("<=", 1, 2, TRUE)>>, 0) }
=============================================================================
