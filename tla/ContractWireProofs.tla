------------------------- MODULE ContractWireProofs -------------------------
(***************************************************************************)
(* Proofs about ContractWire, for every set of values and every limit up   *)
(* to which doubles are exact.                                             *)
(*                                                                         *)
(* All rests on one fact about the four conversions: what has travelled    *)
(* once travels on unchanged (ArrivedStays).  So the terms of a contract,  *)
(* which the executor signs as they arrived, and whatever the requester    *)
(* signs, stay as they are; only what the executor's own handler adds is   *)
(* signed before its first trip.                                           *)
(***************************************************************************)
EXTENDS ContractWire, TLAPS

\* A value before or after a trip.
Anything == Value \cup Arrived

\* A double holds every integer below Exact, and a value at or above it that a
\* double holds already.
LEMMA DoubleFacts ==
  ASSUME NEW n \in 0..(2 * Exact)
  PROVE  /\ Double(n) \in 0..(2 * Exact)
         /\ n < Exact => Double(n) = n
         /\ n >= Exact => Double(n) >= Exact /\ Double(n) % 2 = 0
         /\ n % 2 = 0 => Double(n) = n
BY ExactAssumption DEF Double

LEMMA ValueKinds ==
  ASSUME NEW v \in Anything
  PROVE  \/ \E n \in 0..(2 * Exact) : v = [kind |-> "int", n |-> n]
         \/ \E n \in 0..(2 * Exact) :
              v = [kind |-> "float", n |-> n] /\ (n >= Exact => n % 2 = 0)
         \/ v = [kind |-> "fraction", n |-> 0]
         \/ v = [kind |-> "text", n |-> 0]
         \/ v = [kind |-> "list", n |-> 0]
         \/ v = [kind |-> "tuple", n |-> 0]
<1>1. CASE v \in Value
  <2>1. CASE v \in [kind : Number, n : 0..(2 * Exact - 1)] /\ Amount(v)
    BY <2>1, ExactAssumption DEF Number, Amount
  <2>2. CASE v \in [kind : Other, n : {0}]
    BY <2>2 DEF Other
  <2> QED
    BY <1>1, <2>1, <2>2, ValueAssumption
<1>2. CASE v \in Arrived
  BY <1>2, ExactAssumption DEF Arrived
<1> QED
  BY <1>1, <1>2 DEF Anything

\* A trip in either direction ends among the arrived values, and changes those that
\* are not stable.
LEMMA TripFacts ==
  ASSUME NEW v \in Anything
  PROVE  /\ Requested(v) = Replied(v)
         /\ Replied(v) \in Arrived
         /\ Replied(v) = v <=> Stable(v)
<1> USE DEF Requested, Replied, skill_message_to_send_params, protobuf_message_to_dict,
           dict_to_protobuf_task, normalize_task_result
<1>1. CASE \E n \in 0..(2 * Exact) : v = [kind |-> "int", n |-> n]
  <2>1. PICK n \in 0..(2 * Exact) : v = [kind |-> "int", n |-> n]
    BY <1>1
  <2>2. Struct(jsonable(v)) = [kind |-> "float", n |-> Double(n)]
    BY <2>1 DEF Struct, jsonable, Number
  <2>3. CASE n < Exact
    <3>1. Replied(v) = v
      BY <2>1, <2>2, <2>3, DoubleFacts DEF restore_json_numbers
    <3> QED
      BY <2>1, <2>3, <3>1, ExactAssumption DEF Arrived, Stable
  <2>4. CASE n >= Exact
    <3>1. Replied(v) = [kind |-> "float", n |-> Double(n)]
      BY <2>1, <2>2, <2>4, DoubleFacts, ExactAssumption DEF restore_json_numbers
    <3>2. Double(n) \in Exact..(2 * Exact) /\ Double(n) % 2 = 0
      BY <2>4, DoubleFacts, ExactAssumption
    <3> QED
      BY <2>1, <2>4, <3>1, <3>2, ExactAssumption DEF Arrived, Stable
  <2> QED
    BY <2>3, <2>4, ExactAssumption
<1>2. CASE \E n \in 0..(2 * Exact) :
             v = [kind |-> "float", n |-> n] /\ (n >= Exact => n % 2 = 0)
  <2>1. PICK n \in 0..(2 * Exact) :
              v = [kind |-> "float", n |-> n] /\ (n >= Exact => n % 2 = 0)
    BY <1>2
  <2>2. Double(n) = n
    BY <2>1, DoubleFacts, ExactAssumption
  <2>3. Struct(jsonable(v)) = v
    BY <2>1, <2>2 DEF Struct, jsonable, Number
  <2>4. CASE n < Exact
    <3>1. Replied(v) = [kind |-> "int", n |-> n]
      BY <2>1, <2>3, <2>4 DEF restore_json_numbers
    <3> QED
      BY <2>1, <2>4, <3>1, ExactAssumption DEF Arrived, Stable
  <2>5. CASE n >= Exact
    <3>1. Replied(v) = v
      BY <2>1, <2>3, <2>5, ExactAssumption DEF restore_json_numbers
    <3> QED
      BY <2>1, <2>5, <3>1, ExactAssumption DEF Arrived, Stable
  <2> QED
    BY <2>4, <2>5, ExactAssumption
<1>3. CASE \E k \in {"fraction", "text", "list"} : v = [kind |-> k, n |-> 0]
  <2>1. Replied(v) = v
    BY <1>3 DEF Struct, jsonable, Number, restore_json_numbers
  <2> QED
    BY <1>3, <2>1 DEF Arrived, Stable
<1>4. CASE v = [kind |-> "tuple", n |-> 0]
  <2>1. Replied(v) = [kind |-> "text", n |-> 0]
    BY <1>4 DEF Struct, jsonable, Number, restore_json_numbers
  <2> QED
    BY <1>4, <2>1 DEF Arrived, Stable
<1> QED
  BY <1>1, <1>2, <1>3, <1>4, ValueKinds

\* What has travelled once travels on unchanged.
LEMMA ArrivedStays ==
  ASSUME NEW v \in Arrived
  PROVE  Stable(v) /\ Replied(v) = v /\ Requested(v) = v
<1>1. Stable(v)
  BY ExactAssumption DEF Arrived, Stable
<1> QED
  BY <1>1, TripFacts DEF Anything

-----------------------------------------------------------------------------

Stages == {"start", "offered", "countered", "answered", "ordered", "refused",
           "reviewed", "collected", "forwarded"}

Signed == {"answered", "ordered", "refused", "reviewed", "collected", "forwarded"}

Reviewed == {"reviewed", "collected", "forwarded"}

\* The executor has the requester's terms after one trip.
OfferArrived ==
    IF stage = "start"
    THEN proposal = None /\ offered = None
    ELSE proposal \in Anything /\ offered = Requested(proposal)

\* It signs them, and whatever its own handler adds.
SignedAsOffered ==
    IF stage \in Signed
    THEN /\ executor_signature.extra \in Value \cup {None}
         /\ executor_signature = [terms |-> offered, extra |-> executor_signature.extra,
                                  proposal_hash |-> offered]
    ELSE executor_signature = None

\* Where the contract is.
ContractTravels ==
    /\ stage \notin Signed => contract = None
    /\ stage = "answered" => contract = ContractReplied(executor_signature)
    /\ stage \in Signed \ {"answered"} =>
         /\ contract_hash = ContractReplied(executor_signature)
         /\ contract = ContractRequested(contract_hash)
    /\ stage = "refused" => contract # executor_signature
    /\ stage \in Reviewed => contract = executor_signature

\* A receipt is made over the contract that the executor has.
ReceiptTravels ==
    IF stage \in Reviewed
    THEN /\ signature \in Value
         /\ receipt = [contract_hash |-> contract, checks |-> Replied(signature)]
    ELSE receipt = None

\* The inductive invariant.
IInv == stage \in Stages /\ OfferArrived /\ SignedAsOffered /\ ContractTravels /\ ReceiptTravels

\* What a trip makes of a contract.
LEMMA ContractShape ==
  ASSUME NEW t, NEW x, NEW h
  PROVE  /\ ContractReplied([terms |-> t, extra |-> x, proposal_hash |-> h])
              = [terms |-> Replied(t),
                 extra |-> IF x = None THEN None ELSE Replied(x), proposal_hash |-> h]
         /\ ContractRequested([terms |-> t, extra |-> x, proposal_hash |-> h])
              = [terms |-> Requested(t),
                 extra |-> IF x = None THEN None ELSE Requested(x), proposal_hash |-> h]
BY DEF ContractReplied, ContractRequested

\* A contract over terms that have arrived, with nothing unstable added, stays.
LEMMA ContractTrips ==
  ASSUME NEW t \in Arrived, NEW x \in Anything \cup {None},
         x = None \/ Stable(x)
  PROVE  /\ ContractReplied([terms |-> t, extra |-> x, proposal_hash |-> t])
              = [terms |-> t, extra |-> x, proposal_hash |-> t]
         /\ ContractRequested([terms |-> t, extra |-> x, proposal_hash |-> t])
              = [terms |-> t, extra |-> x, proposal_hash |-> t]
<1>1. Replied(t) = t /\ Requested(t) = t
  BY ArrivedStays
<1>2. x # None => Replied(x) = x /\ Requested(x) = x
  BY TripFacts
<1> QED
  BY <1>1, <1>2, ContractShape

LEMMA InitIInv == Init => IInv
BY DEF Init, IInv, Stages, OfferArrived, SignedAsOffered, ContractTravels, ReceiptTravels,
       Signed, Reviewed

LEMMA NextIInv == IInv /\ [Next]_vars => IInv'
<1> SUFFICES ASSUME IInv, [Next]_vars PROVE IInv'
  OBVIOUS
<1> USE DEF IInv, Stages, OfferArrived, SignedAsOffered, ContractTravels, ReceiptTravels,
            Signed, Reviewed
<1>1. ASSUME NEW v \in Value, Propose(v) PROVE IInv'
  BY <1>1 DEF Propose, contracts, receipts, Anything
<1>2. ASSUME NEW v \in Value, Counter(v) PROVE IInv'
  <2>1. Replied(v) \in Arrived
    BY TripFacts DEF Anything
  <2> QED
    BY <1>2, <2>1 DEF Counter, contracts, receipts, Anything
<1>3. ASSUME NEW x \in Value \cup {None}, Answer(x) PROVE IInv'
  BY <1>3 DEF Answer, receipts
<1>4. ASSUME Order PROVE IInv'
  BY <1>4 DEF Order, receipts
<1>5. ASSUME Refuse PROVE IInv'
  BY <1>5 DEF Refuse, contracts, receipts
<1>6. ASSUME NEW c \in Value, Review(c) PROVE IInv'
  BY <1>6 DEF Review, contracts, ReceiptReplied
<1>7. ASSUME Collect PROVE IInv'
  BY <1>7 DEF Collect, contracts
<1>8. ASSUME Forward PROVE IInv'
  <2>1. Replied(signature) \in Arrived
    BY <1>8, TripFacts DEF Forward, Anything
  <2>2. receipt' = receipt
    BY <1>8, <2>1, ArrivedStays DEF Forward, ReceiptRequested
  <2> QED
    BY <1>8, <2>2 DEF Forward, contracts
<1>9. ASSUME UNCHANGED vars PROVE IInv'
  BY <1>9 DEF vars
<1> QED
  BY <1>1, <1>2, <1>3, <1>4, <1>5, <1>6, <1>7, <1>8, <1>9 DEF Next

LEMMA Invariant == Spec => []IInv
BY InitIInv, NextIInv, PTL DEF Spec

\* The terms that the executor signs have arrived.
LEMMA TermsArrived ==
  ASSUME IInv, stage # "start"
  PROVE  offered \in Arrived /\ (Stable(proposal) => offered = proposal)
BY TripFacts DEF IInv, OfferArrived

\* What the executor adds has arrived, or is nothing, when its answer has.
LEMMA ContractArrives ==
  ASSUME IInv, stage \in Signed
  PROVE  \E y \in Arrived \cup {None} :
           ContractReplied(executor_signature)
             = [terms |-> offered, extra |-> y, proposal_hash |-> offered]
<1> DEFINE x == executor_signature.extra
           y == IF x = None THEN None ELSE Replied(x)
<1>1. /\ offered \in Arrived /\ x \in Value \cup {None}
      /\ executor_signature = [terms |-> offered, extra |-> x, proposal_hash |-> offered]
  BY TermsArrived DEF IInv, SignedAsOffered, Signed
<1>2. y \in Arrived \cup {None}
  BY <1>1, TripFacts DEF Anything
<1>3. ContractReplied(executor_signature)
        = [terms |-> Replied(offered), extra |-> y, proposal_hash |-> offered]
  BY <1>1 DEF ContractReplied
<1>4. Replied(offered) = offered
  BY <1>1, ArrivedStays
<1> HIDE DEF y
<1> QED
  BY <1>2, <1>3, <1>4

\* From then on the contract travels unchanged.
LEMMA ContractStays ==
  ASSUME IInv, stage \in Signed
  PROVE  ContractRequested(ContractReplied(executor_signature))
           = ContractReplied(executor_signature)
<1>1. PICK y \in Arrived \cup {None} :
        ContractReplied(executor_signature)
          = [terms |-> offered, extra |-> y, proposal_hash |-> offered]
  BY ContractArrives
<1>2. offered \in Arrived
  BY TermsArrived DEF Signed
<1>3. y = None \/ Stable(y)
  BY ArrivedStays
<1> QED
  BY <1>1, <1>2, <1>3, ContractTrips DEF Anything

\* Everything that has travelled is an arrived value.
THEOREM TypeCorrect == Spec => []TypeOK
<1>1. IInv => TypeOK
  <2> SUFFICES ASSUME IInv PROVE TypeOK
    OBVIOUS
  <2>1. proposal \in Value \cup Arrived \cup {None} /\ offered \in Arrived \cup {None}
    BY TermsArrived DEF IInv, OfferArrived, Anything
  <2>2. ASSUME contract # None
        PROVE  contract.terms \in Arrived /\ contract.extra \in Arrived \cup {None}
    <3>1. stage \in Signed /\ contract = ContractReplied(executor_signature)
      BY <2>2, ContractStays DEF IInv, ContractTravels, Signed
    <3>2. PICK y \in Arrived \cup {None} :
            contract = [terms |-> offered, extra |-> y, proposal_hash |-> offered]
      BY <3>1, ContractArrives
    <3>3. offered \in Arrived
      BY <3>1, TermsArrived DEF Signed
    <3> QED
      BY <3>2, <3>3
  <2>3. receipt # None => receipt.checks \in Arrived
    BY TripFacts DEF IInv, ReceiptTravels, Anything
  <2> QED
    BY <2>1, <2>2, <2>3 DEF TypeOK
<1> QED
  BY <1>1, Invariant, PTL

\* Whatever a proposal or a counter holds, the executor accepts its own signature when
\* the contract comes back with the work; only something unstable that its own handler
\* has put in can make it refuse.
THEOREM OwnSignatureVerifies == Spec => []ContractIsAccepted
<1>1. IInv => ContractIsAccepted
  <2> SUFFICES ASSUME IInv, stage = "refused",
                      executor_signature.extra = None \/ Stable(executor_signature.extra)
               PROVE  FALSE
    BY DEF ContractIsAccepted
  <2> DEFINE x == executor_signature.extra
  <2>1. /\ offered \in Arrived /\ x \in Value \cup {None}
        /\ executor_signature = [terms |-> offered, extra |-> x, proposal_hash |-> offered]
    BY TermsArrived DEF IInv, SignedAsOffered, Signed
  <2>2. /\ ContractReplied(executor_signature) = executor_signature
        /\ ContractRequested(executor_signature) = executor_signature
    BY <2>1, ContractTrips DEF Anything
  <2> QED
    BY <2>2 DEF IInv, ContractTravels, Signed
<1> QED
  BY <1>1, Invariant, PTL

\* A contract's proposal_hash is that of the proposal its requester signed, unless the
\* proposal held something that its trip changed.
THEOREM ContractBindsProposal == Spec => []ProposalHashAgrees
<1>1. IInv => ProposalHashAgrees
  <2> SUFFICES ASSUME IInv, executor_signature # None, Stable(proposal)
               PROVE  executor_signature.proposal_hash = proposal
    BY DEF ProposalHashAgrees
  <2>1. /\ stage # "start"
        /\ executor_signature = [terms |-> offered, extra |-> executor_signature.extra,
                                 proposal_hash |-> offered]
    BY DEF IInv, SignedAsOffered, Signed
  <2> QED
    BY <2>1, TermsArrived
<1> QED
  BY <1>1, Invariant, PTL

\* A receipt names the contract by the requester's own hash of it.
LEMMA ReceiptNamesContract ==
  ASSUME IInv, receipt # None
  PROVE  receipt.contract_hash = contract_hash
<1>1. /\ stage \in Reviewed
      /\ receipt.contract_hash = contract
      /\ contract_hash = ContractReplied(executor_signature)
      /\ contract = ContractRequested(contract_hash)
  BY DEF IInv, ReceiptTravels, ContractTravels, Reviewed, Signed
<1> QED
  BY <1>1, ContractStays DEF Reviewed, Signed

\* A verdict is made when a receiver has the receipt, and says whether the checks
\* are stable.
VerdictsAgree ==
    /\ verdict = [w \in {"requester", "third"} |-> verdict[w]]
    /\ stage \notin {"collected", "forwarded"} => verdict["requester"] = None
    /\ stage \in {"collected", "forwarded"} => verdict["requester"] = Stable(signature)
    /\ stage # "forwarded" => verdict["third"] = None
    /\ stage = "forwarded" => verdict["third"] = Stable(signature)

\* The receipt's checks are what was signed iff that is stable, after one trip and
\* after two.
LEMMA ChecksVerify ==
  ASSUME IInv, stage \in Reviewed
  PROVE  /\ (receipt.checks = signature) = Stable(signature)
         /\ ReceiptRequested(receipt).checks = receipt.checks
<1>1. signature \in Value /\ receipt = [contract_hash |-> contract, checks |-> Replied(signature)]
  BY DEF IInv, ReceiptTravels
<1>2. (Replied(signature) = signature) <=> Stable(signature)
  BY <1>1, TripFacts DEF Anything
<1>3. Requested(Replied(signature)) = Replied(signature)
  BY <1>1, TripFacts, ArrivedStays DEF Anything
<1>4. (receipt.checks = signature) = Stable(signature)
  <2>1. receipt.checks = Replied(signature)
    BY <1>1
  <2>2. (receipt.checks = signature) <=> Stable(signature)
    BY <1>2, <2>1
  <2>3. Stable(signature) \in BOOLEAN
    BY DEF Stable
  <2> QED
    BY <2>2, <2>3, Zenon
<1>5. ReceiptRequested(receipt).checks = receipt.checks
  BY <1>1, <1>3 DEF ReceiptRequested
<1> QED
  BY <1>4, <1>5

LEMMA InitVerdicts == Init => VerdictsAgree
BY DEF Init, VerdictsAgree

LEMMA NextVerdicts == IInv /\ IInv' /\ VerdictsAgree /\ [Next]_vars => VerdictsAgree'
<1> SUFFICES ASSUME IInv, IInv', VerdictsAgree, [Next]_vars PROVE VerdictsAgree'
  OBVIOUS
<1>1. ASSUME NEW v \in Value, Propose(v) \/ Counter(v) PROVE VerdictsAgree'
  BY <1>1 DEF Propose, Counter, receipts, VerdictsAgree
<1>2. ASSUME NEW x \in Value \cup {None}, Answer(x) PROVE VerdictsAgree'
  BY <1>2 DEF Answer, receipts, VerdictsAgree
<1>3. ASSUME Order \/ Refuse PROVE VerdictsAgree'
  BY <1>3 DEF Order, Refuse, receipts, VerdictsAgree
<1>4. ASSUME NEW c \in Value, Review(c) PROVE VerdictsAgree'
  BY <1>4 DEF Review, VerdictsAgree
<1>5. ASSUME Collect PROVE VerdictsAgree'
  <2>1. (receipt.checks = signature) = Stable(signature)
    BY <1>5, ChecksVerify DEF Collect, Reviewed
  <2> QED
    BY <1>5, <2>1 DEF Collect, VerdictsAgree, Stable
<1>6. ASSUME Forward PROVE VerdictsAgree'
  <2>1. /\ (receipt.checks = signature) = Stable(signature)
        /\ ReceiptRequested(receipt).checks = receipt.checks
    BY <1>6, ChecksVerify DEF Forward, Reviewed
  <2> QED
    BY <1>6, <2>1 DEF Forward, VerdictsAgree, Stable
<1>7. ASSUME UNCHANGED vars PROVE VerdictsAgree'
  BY <1>7 DEF vars, VerdictsAgree, Stable
<1> QED
  BY <1>1, <1>2, <1>3, <1>4, <1>5, <1>6, <1>7 DEF Next

\* Every receiver comes to the same verdict, and every receipt names the contract that
\* its requester knows.
THEOREM ReceiptsAreGoodEverywhere == Spec => []ReceiptAgrees
<1>1. IInv /\ VerdictsAgree => ReceiptAgrees
  BY ReceiptNamesContract DEF VerdictsAgree, ReceiptAgrees
<1>2. Spec => []VerdictsAgree
  BY InitVerdicts, NextVerdicts, Invariant, PTL DEF Spec
<1> QED
  BY <1>1, <1>2, Invariant, PTL
=============================================================================
