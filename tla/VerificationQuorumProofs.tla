---------------------- MODULE VerificationQuorumProofs ----------------------
(***************************************************************************)
(* Proofs about VerificationQuorum, for every set of reviewers and terms   *)
(* and any number of revisions and receipts.                               *)
(*                                                                         *)
(* What the sequence of receipts says is the set of verifiers that it      *)
(* qualifies, for one revision or, if the caller gives none, for any; the  *)
(* lemmas say which verifiers these are (Qualifying) and how many it takes *)
(* (PassCount).  The invariant is that receipts are receipts, on revisions *)
(* delivered by then.                                                      *)
(***************************************************************************)
EXTENDS VerificationQuorum, FiniteSetTheorems, TLAPS

Delivered == \A i \in DOMAIN receipts : receipts[i].manifest <= revision

\* The inductive invariant.
IInv == TypeOK /\ Delivered

LEMMA InitIInv == Init => IInv
BY BoundAssumption DEF Init, IInv, TypeOK, Delivered

LEMMA NextIInv == IInv /\ [Next]_vars => IInv'
<1> SUFFICES ASSUME IInv, [Next]_vars PROVE IInv'
  OBVIOUS
<1> USE BoundAssumption DEF IInv, TypeOK, Delivered
<1>1. ASSUME Deliver PROVE IInv'
  <2>1. \A i \in DOMAIN receipts : receipts[i] \in Receipt
    OBVIOUS
  <2>2. \A i \in DOMAIN receipts : receipts[i].manifest \in 1..MaxRevision
    BY <2>1 DEF Receipt
  <2> QED
    BY <1>1, <2>2 DEF Deliver
<1>2. ASSUME NEW obj \in Object, Collect(obj) PROVE IInv'
  <2>1. obj \in Receipt /\ obj.manifest <= revision
    BY <1>2 DEF Collect, SignedReceipt, Object
  <2>2. receipts' \in Seq(Receipt) /\ receipts' = Append(receipts, obj)
    BY <1>2, <2>1 DEF Collect
  <2>3. \A i \in DOMAIN receipts' :
          receipts'[i] = obj \/ (i \in DOMAIN receipts /\ receipts'[i] = receipts[i])
    BY <2>2
  <2> QED
    BY <1>2, <2>1, <2>2, <2>3 DEF Collect
<1>3. ASSUME UNCHANGED vars PROVE IInv'
  BY <1>3 DEF vars
<1> QED
  BY <1>1, <1>2, <1>3 DEF Next

LEMMA Invariant == Spec => []IInv
BY InitIInv, NextIInv, PTL DEF Spec

\* The receipts, revision and terms stay well formed.
THEOREM TypeCorrect == Spec => []TypeOK
BY Invariant, PTL DEF IInv

-----------------------------------------------------------------------------

LEMMA RangeOfAppend ==
  ASSUME NEW S, NEW s \in Seq(S), NEW e \in S
  PROVE  Range(Append(s, e)) = Range(s) \cup {e}
BY DEF Range

\* Filled terms are terms, with the names they had and a count.
LEMMA Filled ==
  ASSUME NEW v \in Terms
  PROVE  LET f == apply_available_quorum(v) IN
         /\ f.required = v.required /\ f.required \in BOOLEAN /\ f.policy = v.policy
         /\ f.verifiers \in Seq(Reviewer)
         /\ f.verifier_agent_id = v.verifier_agent_id
         /\ f.required_passes \in Int \cup {None}
         /\ v.policy = "REPUTATION_WEIGHTED" =>
              f.required_passes = IfGiven(v.required_passes, IF NameCount(v) >= 2 THEN 2 ELSE 1)
         /\ Named(f) = Named(v)
<1> DEFINE f == apply_available_quorum(v)
           n == IfGiven(v.required_passes, IF NameCount(v) >= 2 THEN 2 ELSE 1)
           names == IF v.verifier_agent_id = None THEN v.verifiers
                    ELSE Append(v.verifiers, v.verifier_agent_id)
<1>1. /\ DOMAIN v = {"required", "policy", "verifiers", "verifier_agent_id", "required_passes"}
      /\ v.required \in BOOLEAN /\ v.verifiers \in Seq(Reviewer)
      /\ v.verifier_agent_id \in Reviewer \cup {None}
      /\ v.required_passes \in Int \cup {None}
  BY TermsAssumption
<1>2. CASE v.policy # "REPUTATION_WEIGHTED"
  BY <1>1, <1>2 DEF apply_available_quorum
<1>3. CASE v.policy = "REPUTATION_WEIGHTED"
  <2>1. f = [v EXCEPT !.verifiers = names, !.required_passes = n]
    BY <1>3 DEF apply_available_quorum
  <2>2. n \in Int \cup {None} /\ names \in Seq(Reviewer)
    BY <1>1 DEF IfGiven
  <2>3. Range(names) \cup ({v.verifier_agent_id} \ {None}) = Named(v)
    <3>1. CASE v.verifier_agent_id = None
      BY <3>1 DEF Named
    <3>2. CASE v.verifier_agent_id # None
      BY <1>1, <3>2, RangeOfAppend DEF Named
    <3> QED
      BY <3>1, <3>2
  <2> HIDE DEF n, names, f
  <2>4. /\ f.verifiers = names /\ f.required_passes = n /\ f.required = v.required
        /\ f.policy = v.policy /\ f.verifier_agent_id = v.verifier_agent_id
    BY <1>1, <2>1
  <2>5. Named(f) = Named(v)
    BY <2>3, <2>4 DEF Named
  <2> QED
    BY <1>1, <2>2, <2>4, <2>5 DEF f, n
<1> QED
  BY <1>2, <1>3

\* What TermsAssumption says of terms is true of all that a contract may carry.
LEMMA CarriedTyped ==
  ASSUME NEW v \in Carried
  PROVE  /\ v.required \in BOOLEAN
         /\ v.verifiers \in Seq(Reviewer)
         /\ v.verifier_agent_id \in Reviewer \cup {None}
         /\ v.required_passes \in Int \cup {None}
BY TermsAssumption, Filled DEF Carried

\* How many passes terms ask for.
LEMMA PassCount ==
  ASSUME NEW v \in Carried
  PROVE  /\ required_pass_count(v) \in Nat
         /\ v.required => required_pass_count(v) >= 1
         /\ ~v.required => required_pass_count(v) = 0
         /\ v.required /\ v.required_passes \in Int => required_pass_count(v) >= v.required_passes
         /\ v.required /\ v.required_passes \in Int /\ v.required_passes >= 1
              => required_pass_count(v) = v.required_passes
         /\ v.required /\ v.required_passes = None => required_pass_count(v) = 1
BY CarriedTyped, ExecutorAssumption DEF required_pass_count, Or

\* Who qualifies: a verifier of a receipt that counts.
LEMMA Qualifying ==
  ASSUME NEW v \in Carried, NEW rows \in Seq(Receipt), NEW asked, NEW w
  PROVE  w \in qualifying_pass_verifiers(v, rows, asked) <=>
           /\ authorized_verifiers(v) = {} \/ w \in authorized_verifiers(v)
           /\ \E i \in DOMAIN rows :
                /\ rows[i].verifier = w /\ rows[i].contract = "work" /\ rows[i].result = "PASS"
                /\ asked # None => rows[i].manifest = asked
BY DEF qualifying_pass_verifiers, Counts

\* ... which is to say, it has passed.
LEMMA QualifyingPassed ==
  ASSUME IInv, NEW asked \in Asked, NEW w
  PROVE  w \in qualifying_pass_verifiers(verification, receipts, asked) <=>
           /\ \/ authorized_verifiers(verification) = {}
              \/ w \in authorized_verifiers(verification)
           /\ Passed(w, asked)
<1>1. /\ verification \in Carried /\ receipts \in Seq(Receipt) /\ revision \in Nat
      /\ None \notin Int
  BY ExecutorAssumption, BoundAssumption DEF IInv, TypeOK
<1>2. \A i \in DOMAIN receipts :
        receipts[i] \in Receipt /\ receipts[i].manifest \in 1..revision
  <2>1. \A i \in DOMAIN receipts : receipts[i] \in Receipt
    BY <1>1
  <2> QED
    BY <1>1, <2>1, BoundAssumption DEF IInv, Delivered, Receipt
<1>3. ASSUME NEW row \in Receipt, row.manifest \in 1..revision
      PROVE  (/\ row.verifier = w /\ row.contract = "work" /\ row.result = "PASS"
              /\ asked # None => row.manifest = asked)
             <=> \E m \in 1..revision :
                   /\ asked \in {m, None}
                   /\ row = [verifier |-> w, contract |-> "work", manifest |-> m, result |-> "PASS"]
  <2>1. row = [verifier |-> row.verifier, contract |-> row.contract,
               manifest |-> row.manifest, result |-> row.result]
    BY DEF Receipt
  <2>2. ASSUME row.verifier = w, row.contract = "work", row.result = "PASS",
               asked # None => row.manifest = asked
        PROVE  /\ asked \in {row.manifest, None}
               /\ row = [verifier |-> w, contract |-> "work",
                         manifest |-> row.manifest, result |-> "PASS"]
    BY <2>1, <2>2
  <2>3. ASSUME NEW m \in 1..revision, asked \in {m, None},
               row = [verifier |-> w, contract |-> "work", manifest |-> m, result |-> "PASS"]
        PROVE  /\ row.verifier = w /\ row.contract = "work" /\ row.result = "PASS"
               /\ asked # None => row.manifest = asked
    BY <2>3
  <2> QED
    BY <1>3, <2>2, <2>3
<1>4. (\E i \in DOMAIN receipts :
         /\ receipts[i].verifier = w /\ receipts[i].contract = "work"
         /\ receipts[i].result = "PASS"
         /\ asked # None => receipts[i].manifest = asked)
      <=> Passed(w, asked)
  BY <1>2, <1>3 DEF Passed
<1> QED
  BY <1>1, <1>4, Qualifying

LEMMA QualifyingFinite ==
  ASSUME NEW v \in Carried, NEW rows \in Seq(Receipt), NEW m
  PROVE  IsFiniteSet(qualifying_pass_verifiers(v, rows, m))
<1> DEFINE D == {j \in DOMAIN rows : Counts(v, rows[j], m)}
<1>1. IsFiniteSet(DOMAIN rows)
  BY FS_Interval
<1>2. IsFiniteSet(D)
  BY <1>1, FS_Subset
<1>3. IsFiniteSet({rows[i].verifier : i \in D})
  <2> DEFINE f == [i \in D |-> rows[i].verifier]
             R == {rows[i].verifier : i \in D}
  <2>1. f \in Surjection(D, R)
    BY DEF Surjection
  <2> HIDE DEF D, f, R
  <2>2. IsFiniteSet(R)
    BY <1>2, <2>1, FS_Surjection
  <2> QED
    BY <2>2 DEF R
<1> QED
  BY <1>3 DEF qualifying_pass_verifiers

LEMMA NamesFinite == ASSUME NEW v \in Carried PROVE IsFiniteSet(Named(v)) /\ NameCount(v) \in Nat
<1>1. v.verifiers \in Seq(Reviewer)
  BY CarriedTyped
<1>2. IsFiniteSet(Range(v.verifiers))
  <2> DEFINE s == v.verifiers
  <2>1. IsFiniteSet(DOMAIN s)
    BY <1>1, FS_Interval
  <2>2. s \in Surjection(DOMAIN s, Range(s))
    BY <1>1 DEF Surjection, Range
  <2> QED
    BY <2>1, <2>2, FS_Surjection
<1>3. IsFiniteSet({v.verifier_agent_id} \ {None})
  BY FS_Singleton, FS_Subset
<1> QED
  BY <1>2, <1>3, FS_Union, FS_CardinalityType DEF Named, NameCount

\* Terms of a policy with named verifiers that have passed validation name enough of
\* them, and not the executor.
LEMMA ValidNames ==
  ASSUME NEW v \in Carried, v.required, validate_verification(v),
         Policy(v) \in {"MULTI_VERIFIER", "REPUTATION_WEIGHTED"}
  PROVE  /\ Executor \notin Named(v)
         /\ NameCount(v) >= 1
         /\ required_pass_count(v) <= NameCount(v)
         /\ required_pass_count(v) = IfGiven(v.required_passes, 1)
<1>1. /\ v.required_passes \in Int \cup {None} /\ None \notin Int
      /\ NameCount(v) \in Nat
  BY CarriedTyped, ExecutorAssumption, NamesFinite
<1>2. CASE Policy(v) = "MULTI_VERIFIER"
  <2>1. QuorumOfNames(v, Or(v.required_passes, 0), 2)
    BY <1>2 DEF validate_verification
  <2> QED
    BY <1>1, <2>1 DEF QuorumOfNames, Or, IfGiven, required_pass_count
<1>3. CASE Policy(v) = "REPUTATION_WEIGHTED"
  <2>1. QuorumOfNames(v, IfGiven(v.required_passes, 1), 1)
    BY <1>3 DEF validate_verification
  <2> QED
    BY <1>1, <2>1 DEF QuorumOfNames, Or, IfGiven, required_pass_count
<1> QED
  BY <1>2, <1>3

\* Validated terms with named verifiers authorize somebody, and only them.
LEMMA NamesAuthorized ==
  ASSUME NEW v \in Carried, v.required, NameCount(v) >= 1
  PROVE  authorized_verifiers(v) = Named(v) /\ Named(v) # {}
BY FS_EmptySet DEF authorized_verifiers, NameCount

-----------------------------------------------------------------------------

\* When a quorum is met: for terms with named verifiers, for every caller.
LEMMA QuorumOfNamed ==
  ASSUME IInv, NamesItsVerifiers(verification), NEW asked \in Asked
  PROVE  Verified(asked) <=>
           Earned(verification, IfGiven(verification.required_passes, 1), asked)
<1> DEFINE v == verification
           Q == qualifying_pass_verifiers(v, receipts, asked)
           n == IfGiven(v.required_passes, 1)
<1>1. v \in Carried /\ receipts \in Seq(Receipt)
  BY DEF IInv, TypeOK
<1>2. /\ Executor \notin Named(v) /\ n = required_pass_count(v) /\ n \in Nat
      /\ authorized_verifiers(v) = Named(v) /\ Named(v) # {}
  BY <1>1, ValidNames, NamesAuthorized, PassCount DEF NamesItsVerifiers
<1>3. IsFiniteSet(Q) /\ Cardinality(Q) \in Nat
  BY <1>1, QualifyingFinite, FS_CardinalityType
<1>4. \A w : w \in Q <=> w \in Named(v) /\ Passed(w, asked)
  BY <1>1, <1>2, QualifyingPassed
<1>5. Verified(asked) <=> Cardinality(Q) >= n
  BY <1>2 DEF Verified, quorum_met
<1> HIDE DEF Q, n
<1>6. ASSUME Cardinality(Q) >= n PROVE Earned(v, n, asked)
  <2>1. Q \in SUBSET (Named(v) \ {Executor}) /\ \A w \in Q : Passed(w, asked)
    BY <1>2, <1>4
  <2> QED
    BY <1>6, <2>1 DEF Earned
<1>7. ASSUME Earned(v, n, asked) PROVE Cardinality(Q) >= n
  <2>1. PICK W \in SUBSET (Named(v) \ {Executor}) :
          Cardinality(W) >= n /\ \A w \in W : Passed(w, asked)
    BY <1>7 DEF Earned
  <2>2. W \subseteq Q
    BY <1>4, <2>1
  <2>3. Cardinality(W) \in Nat /\ Cardinality(W) <= Cardinality(Q)
    BY <1>3, <2>2, FS_Subset, FS_CardinalityType
  <2> QED
    BY <1>2, <1>3, <2>1, <2>3
<1> QED
  BY <1>5, <1>6, <1>7 DEF n

\* A quorum of named verifiers is met when, and only when, as many of them as the
\* terms say, or one if they say nothing, have passed under the work contract the
\* revision asked about, or any if none is asked about.
THEOREM QuorumsAreEarned == Spec => []QuorumIsEarned
<1>1. IInv => QuorumIsEarned
  BY QuorumOfNamed DEF QuorumIsEarned
<1> QED
  BY <1>1, Invariant, PTL

\* Terms that were put through apply_available_quorum take the count that they came
\* with, and without one two passes, or one of a single verifier.
THEOREM FilledCountsAreEarned == Spec => []FilledCountIsEarned
<1>1. IInv => FilledCountIsEarned
  <2> SUFFICES ASSUME IInv, NEW v \in Terms, verification = apply_available_quorum(v),
                      v.policy = "REPUTATION_WEIGHTED", NamesItsVerifiers(verification),
                      NEW asked \in Asked, Verified(asked)
               PROVE  Earned(v, IfGiven(v.required_passes, IF NameCount(v) >= 2 THEN 2 ELSE 1),
                             asked)
    BY DEF FilledCountIsEarned
  <2> DEFINE n == IfGiven(v.required_passes, IF NameCount(v) >= 2 THEN 2 ELSE 1)
  <2>1. verification.required_passes = n /\ Named(verification) = Named(v)
    BY Filled
  <2>2. n # None
    BY TermsAssumption, ExecutorAssumption DEF IfGiven
  <2>3. Earned(verification, IfGiven(verification.required_passes, 1), asked)
    BY QuorumOfNamed
  <2>4. Earned(verification, n, asked)
    BY <2>1, <2>2, <2>3 DEF IfGiven
  <2> QED
    BY <2>1, <2>4 DEF Earned
<1> QED
  BY <1>1, Invariant, PTL

\* Validated terms with named verifiers can always be met by all of them.
THEOREM UnanimitySuffices == Spec => []UnanimityIsEnough
<1>1. IInv => UnanimityIsEnough
  <2> DEFINE v == verification
             Q == qualifying_pass_verifiers(v, receipts, revision)
  <2> SUFFICES ASSUME IInv, NamesItsVerifiers(v), \A w \in Named(v) : Passed(w, revision)
               PROVE  Cardinality(Q) >= required_pass_count(v)
    BY DEF UnanimityIsEnough, Verified, quorum_met
  <2>1. v \in Carried /\ receipts \in Seq(Receipt) /\ revision \in Asked
    BY BoundAssumption DEF IInv, TypeOK, Asked
  <2>2. IsFiniteSet(Q) /\ Cardinality(Q) \in Nat /\ required_pass_count(v) \in Nat
    BY <2>1, QualifyingFinite, FS_CardinalityType, PassCount
  <2>3. /\ NameCount(v) \in Nat /\ required_pass_count(v) <= NameCount(v)
        /\ authorized_verifiers(v) = Named(v)
    BY <2>1, ValidNames, NamesFinite, NamesAuthorized DEF NamesItsVerifiers
  <2>4. Named(v) \subseteq Q
    BY <2>1, <2>3, QualifyingPassed
  <2>5. NameCount(v) <= Cardinality(Q)
    BY <2>2, <2>4, FS_Subset DEF NameCount
  <2> HIDE DEF Q
  <2> QED
    BY <2>2, <2>3, <2>5
<1> QED
  BY <1>1, Invariant, PTL

\* The executor's own passes count for no validated terms but those of a requester
\* that names it in a list of verifiers.
THEOREM ExecutorIsNotItsVerifier == Spec => []ExecutorCountsOnlyIfSelected
<1>1. IInv => ExecutorCountsOnlyIfSelected
  <2> DEFINE v == verification
  <2> SUFFICES ASSUME IInv, v.required, validate_verification(v),
                      NEW asked \in Asked,
                      Executor \in qualifying_pass_verifiers(v, receipts, asked)
               PROVE  Policy(v) = "REQUESTER_SELECTS" /\ Executor \in Range(v.verifiers)
    BY DEF ExecutorCountsOnlyIfSelected
  <2>1. v \in Carried /\ receipts \in Seq(Receipt)
    BY DEF IInv, TypeOK
  <2>2. Named(v) = {} \/ Executor \in Named(v)
    BY <2>1, Qualifying DEF authorized_verifiers
  <2>3. ASSUME Policy(v) \in {"MULTI_VERIFIER", "REPUTATION_WEIGHTED"} PROVE FALSE
    BY <2>1, <2>2, <2>3, ValidNames, NamesAuthorized
  <2>4. Policy(v) = "REQUESTER_SELECTS" /\ v.verifier_agent_id \notin {None, Executor}
    BY <2>3 DEF validate_verification
  <2>5. v.verifier_agent_id \in Named(v)
    BY <2>4 DEF Named
  <2> QED
    BY <2>2, <2>4, <2>5 DEF Named
<1> QED
  BY <1>1, Invariant, PTL
=============================================================================
