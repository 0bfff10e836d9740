------------------------- MODULE MCArtifactExchange -------------------------
(***************************************************************************)
(* An instance of ArtifactExchange for TLC: two tasks, under a contract    *)
(* with one verifier whose key is known, one with a list of verifiers, or  *)
(* none, that share or do not share an artifact id and a file.             *)
(***************************************************************************)
EXTENDS ArtifactExchange, TLC

CONSTANTS requester, reviewer, reviewer2, \* agents
          k1, k2,                         \* keys
          t1, t2, i1, i2, p1, p2

MCTask == {t1, t2}
MCAgent == {Me, requester, reviewer, reviewer2}
MCKey == {k1, k2}
MCPath == {p1, p2}
MCId == {i1, i2}

NoKeys == [a \in MCAgent |-> None]

OneReviewer ==
    [requester |-> requester, executor |-> Me, verifier |-> reviewer, verifiers |-> {},
     party_keys |-> [NoKeys EXCEPT ![reviewer] = k2, ![requester] = k1],
     public_keys |-> [NoKeys EXCEPT ![reviewer] = k1]]

ListOfReviewers ==
    [requester |-> requester, executor |-> Me, verifier |-> None,
     verifiers |-> {reviewer2}, party_keys |-> NoKeys, public_keys |-> NoKeys]

NoContract ==
    [requester |-> None, executor |-> None, verifier |-> None, verifiers |-> {},
     party_keys |-> NoKeys, public_keys |-> NoKeys]

Deliveries(i, p, cs) ==
    [id : {i}, path : {p}, large : BOOLEAN, public_base : {TRUE}, contract : cs]

\* The second task may take the id, the file or both of the first.
MCPlans ==
    {(t1 :> d) @@ (t2 :> e) :
        d \in Deliveries(i1, p1, {OneReviewer, ListOfReviewers})
              \cup [id : {i1}, path : {p1}, large : BOOLEAN, public_base : {FALSE},
                    contract : {OneReviewer}],
        e \in UNION {Deliveries(i, p, {OneReviewer, NoContract}) : i \in MCId, p \in MCPath}}

\* Another host before the producer; a location of no use, another artifact's URL.
MCRoutes == {<<Elsewhere, i1>>, <<NotHttp, i2, i1>>}
=============================================================================
