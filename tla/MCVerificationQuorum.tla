------------------------ MODULE MCVerificationQuorum ------------------------
(***************************************************************************)
(* Instances of VerificationQuorum for TLC: terms of each policy, given    *)
(* and default quorums, names given twice, terms that are refused, and     *)
(* none.                                                                   *)
(***************************************************************************)
EXTENDS VerificationQuorum

MCReviewer == {"exe", "v1", "v2", "other"}

Term(policy, verifiers, verifier, passes) ==
    [required |-> TRUE, policy |-> policy, verifiers |-> verifiers,
     verifier_agent_id |-> verifier, required_passes |-> passes]

MCTerms == {
    [Term(None, <<>>, None, None) EXCEPT !.required = FALSE],
    Term(None, <<>>, "v1", None),
    Term("REQUESTER_SELECTS", <<"exe">>, "v1", None),
    Term("MULTI_VERIFIER", <<"v1">>, "v2", 2),
    Term("MULTI_VERIFIER", <<"v1", "v1">>, None, 2),
    Term("MULTI_VERIFIER", <<"v1", "exe">>, "v2", 2),
    Term("REPUTATION_WEIGHTED", <<"v1", "v2">>, "v1", None),
    Term("REPUTATION_WEIGHTED", <<"v1">>, "v2", None),
    Term("REPUTATION_WEIGHTED", <<"v1", "v1">>, None, None),
    Term("REPUTATION_WEIGHTED", <<"v1", "v2">>, "other", 1),
    Term("REPUTATION_WEIGHTED", <<"v1", "v2">>, None, 2) }
=============================================================================
