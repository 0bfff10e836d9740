------------------------- MODULE VerificationQuorum -------------------------
(***************************************************************************)
(* agent_network.verification_policy at work: which verification terms a   *)
(* contract may carry, and when the receipts collected for it make a       *)
(* quorum.                                                                 *)
(*                                                                         *)
(* The terms are validated when the requester makes its proposal, which    *)
(* may have filled an omitted count with apply_available_quorum, though    *)
(* nothing in the package does it for the requester; those of an           *)
(* executor's counter are signed as they come, so a contract may also      *)
(* carry terms that validate_verification refuses.  The executor delivers  *)
(* revisions of its artifact.  Receipts on any revision so far, for the    *)
(* contract or wrongly for the review's own, from anybody, reach the       *)
(* requester in any order, late and more than once, some not bound to a    *)
(* contract at all.  quorum_met is for the application to call, with the   *)
(* hash of the revision that it asks about or, the parameter being         *)
(* optional, without.                                                      *)
(***************************************************************************)
EXTENDS Integers, Sequences, FiniteSets, Functions

CONSTANTS
    Reviewer,     \* the agents that write receipts, the executor among them
    Executor,
    Terms,        \* verification dicts, see TermsAssumption
    MaxRevision,  \* bound: revisions of the artifact
    MaxReceipts,  \* bound: receipts collected
    None

ASSUME TermsAssumption ==
    \A v \in Terms :
        /\ DOMAIN v = {"required", "policy", "verifiers", "verifier_agent_id", "required_passes"}
        /\ v.required \in BOOLEAN
        /\ v.verifiers \in Seq(Reviewer)
        /\ v.verifier_agent_id \in Reviewer \cup {None}
        /\ v.required_passes \in Int \cup {None}

ASSUME ExecutorAssumption ==
    Executor \in Reviewer /\ None \notin Reviewer \cup Int

ASSUME BoundAssumption == MaxRevision \in Nat \ {0} /\ MaxReceipts \in Nat

VARIABLES
    verification,  \* TaskContract.verification
    revision,      \* of the artifact last delivered
    receipts       \* the receipts collected, in order

vars == <<verification, revision, receipts>>

Receipt ==
    [verifier : Reviewer, contract : {"work", "review"}, manifest : 1..MaxRevision,
     result : {"PASS", "FAIL"}]

-----------------------------------------------------------------------------
(* The terms *)

\* _named_verifiers, duplicates removed.
Named(v) == Range(v.verifiers) \cup ({v.verifier_agent_id} \ {None})

\* Mutant: names are counted with their duplicates.
NamesListed(v) == Len(v.verifiers) + IF v.verifier_agent_id = None THEN 0 ELSE 1

NameCount(v) == Cardinality(Named(v))

Policy(v) == IF v.policy = None THEN "REQUESTER_SELECTS" ELSE v.policy

\* `raw or default`, and `raw if raw is not None else default`, in Python.
Or(raw, default) == IF raw = None \/ raw = 0 THEN default ELSE raw
IfGiven(raw, default) == IF raw = None THEN default ELSE raw

\* Mutant: the executor is not looked for among the names.
QuorumOfAnyNames(v, passes, least) ==
    least <= NameCount(v) /\ least <= passes /\ passes <= NameCount(v)

QuorumOfNames(v, passes, least) ==
    /\ Executor \notin Named(v)
    /\ least <= NameCount(v)
    /\ least <= passes /\ passes <= NameCount(v)

\* validate_verification does not raise.
validate_verification(v) ==
    \/ ~v.required
    \/ /\ Policy(v) = "MULTI_VERIFIER"
       /\ QuorumOfNames(v, Or(v.required_passes, 0), 2)
    \/ /\ Policy(v) = "REPUTATION_WEIGHTED"
       /\ QuorumOfNames(v, IfGiven(v.required_passes, 1), 1)
    \/ /\ Policy(v) = "REQUESTER_SELECTS"
       /\ v.verifier_agent_id \notin {None, Executor}

\* Mutant: two are asked for only of more than two.
FilledFromThree(v) ==
    IF v.policy # "REPUTATION_WEIGHTED" THEN v
    ELSE [v EXCEPT !.required_passes = IfGiven(@, IF NameCount(v) > 2 THEN 2 ELSE 1)]

\* The names are written out and an omitted count filled in.
apply_available_quorum(v) ==
    IF v.policy # "REPUTATION_WEIGHTED" THEN v
    ELSE [v EXCEPT
            !.verifiers = IF v.verifier_agent_id = None THEN @ ELSE Append(@, v.verifier_agent_id),
            !.required_passes = IfGiven(@, IF NameCount(v) >= 2 THEN 2 ELSE 1)]

\* What a contract may carry.
Carried == Terms \cup {apply_available_quorum(v) : v \in Terms}

-----------------------------------------------------------------------------
(* The quorum *)

\* From canonical_policy; empty, which stands for everybody, if not required.
authorized_verifiers(v) == IF v.required THEN Named(v) ELSE {}

required_pass_count(v) ==
    LET passes == Or(v.required_passes, 1) IN
    IF ~v.required THEN 0 ELSE IF passes > 1 THEN passes ELSE 1

\* row lets its verifier qualify for this manifest of the contract's artifact, or
\* for any, if the caller leaves artifact_manifest_hash at its default of None.
Counts(v, row, manifest) ==
    /\ row.contract = "work"
    /\ manifest # None => row.manifest = manifest
    /\ row.result = "PASS"
    /\ authorized_verifiers(v) = {} \/ row.verifier \in authorized_verifiers(v)

\* Mutant: receipts are counted, not verifiers.
ReceiptsCounted(v, rows, manifest) ==
    {i \in DOMAIN rows : Counts(v, rows[i], manifest)}

qualifying_pass_verifiers(v, rows, manifest) ==
    {rows[i].verifier : i \in {j \in DOMAIN rows : Counts(v, rows[j], manifest)}}

quorum_met(v, rows, manifest) ==
    Cardinality(qualifying_pass_verifiers(v, rows, manifest)) >= required_pass_count(v)

-----------------------------------------------------------------------------

\* Mutant: every object among the artifacts is taken for a receipt.
AnyObject(obj) == TRUE

\* signed_verification_receipt wants all of SIGNED_RECEIPT_FIELDS.
SignedReceipt(obj) == obj.contract # None

\* What a review's task may hold.
Object == Receipt \cup
    [verifier : Reviewer, contract : {None}, manifest : 1..MaxRevision, result : {"PASS"}]

\* The proposal's own terms, or a counter's.
Init ==
    /\ verification \in Carried
    /\ revision = 1
    /\ receipts = <<>>

\* After a FAIL, or at will, the executor delivers again.
Deliver ==
    /\ revision < MaxRevision
    /\ revision' = revision + 1
    /\ UNCHANGED <<verification, receipts>>

\* The requester looks for a receipt in a review's task, that it may have seen
\* before, on some revision delivered so far.
Collect(obj) ==
    /\ SignedReceipt(obj)
    /\ obj.manifest <= revision
    /\ Len(receipts) < MaxReceipts
    /\ receipts' = Append(receipts, obj)
    /\ UNCHANGED <<verification, revision>>

Next == Deliver \/ \E obj \in Object : Collect(obj)

Spec == Init /\ [][Next]_vars

-----------------------------------------------------------------------------
(* Properties *)

TypeOK ==
    /\ verification \in Carried
    /\ revision \in 1..MaxRevision
    /\ receipts \in Seq(Receipt)

\* What a caller of quorum_met may give as artifact_manifest_hash: a revision, or
\* nothing.
Asked == (1..revision) \cup {None}

\* w has passed, under the work contract, the revision asked about; any, if none is.
Passed(w, asked) ==
    \E i \in DOMAIN receipts, m \in 1..revision :
        /\ asked \in {m, None}
        /\ receipts[i] = [verifier |-> w, contract |-> "work", manifest |-> m, result |-> "PASS"]

Verified(asked) == quorum_met(verification, receipts, asked)

\* The terms say who verifies, and a proposal may carry them.
NamesItsVerifiers(v) ==
    /\ v.required /\ validate_verification(v)
    /\ Policy(v) \in {"MULTI_VERIFIER", "REPUTATION_WEIGHTED"}

\* n named verifiers, all different, none the executor, have passed.
Earned(v, n, asked) ==
    \E W \in SUBSET (Named(v) \ {Executor}) :
        Cardinality(W) >= n /\ \A w \in W : Passed(w, asked)

\* What it takes to make a quorum of named verifiers, and what is enough: as many
\* of them as the terms say, all different, none the executor, each having passed
\* the very revision that is asked about, whatever was sent twice, late, for a
\* review's own contract, by strangers or on another revision.
\* In two cases this is less than the documents ask for.  The terms that a caller
\* wrote without required_passes take one verifier only, also of several.  And a
\* caller that gives no revision is told of passes of any: with those of an earlier
\* one the artifact last delivered counts as verified.
QuorumIsEarned ==
    NamesItsVerifiers(verification) =>
        \A asked \in Asked :
            Verified(asked) <=>
                Earned(verification, IfGiven(verification.required_passes, 1), asked)

\* "If omitted, default is 1 for one verifier and 2 when two or more are bound", and
\* "an explicit required_passes MUST NOT be lowered": so it is for requesters that
\* put their terms through apply_available_quorum before they propose them.
FilledCountIsEarned ==
    \A v \in Terms :
        /\ verification = apply_available_quorum(v)
        /\ v.policy = "REPUTATION_WEIGHTED" /\ NamesItsVerifiers(verification)
        => \A asked \in Asked :
             Verified(asked) =>
                 Earned(v, IfGiven(v.required_passes, IF NameCount(v) >= 2 THEN 2 ELSE 1), asked)

\* Terms that name their verifiers can be met: when all of them have passed the
\* revision last delivered, nothing is left that could keep it from VERIFIED.
UnanimityIsEnough ==
    /\ NamesItsVerifiers(verification)
    /\ \A w \in Named(verification) : Passed(w, revision)
    => Verified(revision)

\* "Executor MUST NOT be the verifier": its own receipts count for no terms that a
\* proposal may carry, except those of REQUESTER_SELECTS, which authorize the names
\* in verifiers although only verifier_agent_id was compared with the executor.
ExecutorCountsOnlyIfSelected ==
    /\ verification.required /\ validate_verification(verification)
    /\ \E asked \in Asked : Executor \in qualifying_pass_verifiers(verification, receipts, asked)
    => Policy(verification) = "REQUESTER_SELECTS" /\ Executor \in Range(verification.verifiers)
=============================================================================
