---------------------------- MODULE ContractWire ----------------------------
(***************************************************************************)
(* What signatures and hashes are worth after the wire.  Proposals,        *)
(* contracts and receipts are signed as Python objects and travel as       *)
(* protobuf Structs, where every number is a double; restore_json_numbers  *)
(* makes integers of them again.  canonical_json writes 1 and 1.0          *)
(* differently, so an object that changes on its way no longer verifies.   *)
(*                                                                         *)
(* The requester proposes, the executor answers with a counter or with a   *)
(* signed contract, the requester signs it and orders the work (or its     *)
(* review), the receiver checks the executor's signature, a signed receipt *)
(* comes back and is passed on to a third agent.                           *)
(***************************************************************************)
EXTENDS Naturals

CONSTANTS
    Exact,  \* 2^53: integers below it are doubles exactly
    Value,  \* what applications put into objects
    None

\* Values by kind, numbers with their amount.  A double at or above Exact is a
\* multiple of 2, and Value keeps below 2 * Exact, where it is any.
Number == {"int", "float"}
Other == {"fraction", "text", "list", "tuple"}

Amount(v) == IF v.kind = "float" /\ v.n >= Exact THEN v.n % 2 = 0 ELSE TRUE

ASSUME ExactAssumption == Exact \in Nat \ {0} /\ Exact % 4 = 0

ASSUME ValueAssumption ==
    /\ \A v \in Value :
         \/ v \in [kind : Number, n : 0..(2 * Exact - 1)] /\ Amount(v)
         \/ v \in [kind : Other, n : {0}]
    /\ None \notin Value

VARIABLES
    stage,
    proposal,   \* the terms as the requester signed them
    offered,    \* the terms as the executor has them
    contract,   \* the contract where it is now: [terms, extra, proposal_hash]
    executor_signature, requester_signature,  \* what they were made over
    contract_hash,      \* the requester's, which it keeps
    receipt,    \* where it is now: [contract_hash, checks]
    signature,  \* what the receipt's signature was made over: its checks
    verdict     \* verdict[w]: did the receipt verify at w

vars == <<stage, proposal, offered, contract, executor_signature, requester_signature,
          contract_hash, receipt, signature, verdict>>

-----------------------------------------------------------------------------
(* The wire *)

\* Strings, numbers, lists and dicts stay what they are, the rest is str(value).
jsonable(v) == IF v.kind = "tuple" THEN [kind |-> "text", n |-> 0] ELSE v

\* The nearest double, the one with the even mantissa of two.
Double(n) ==
    IF n < Exact \/ n % 2 = 0 THEN n ELSE IF (n \div 2) % 2 = 0 THEN n - 1 ELSE n + 1

\* ParseDict into a Struct and MessageToDict out of it.
Struct(v) == IF v.kind \in Number THEN [kind |-> "float", n |-> Double(v.n)] ELSE v

\* Mutants: whatever the size; truncated.
RestoredAnyway(v) == IF v.kind = "float" THEN [v EXCEPT !.kind = "int"] ELSE v
Truncated(v) ==
    IF v.kind = "fraction" THEN [kind |-> "int", n |-> 0]
    ELSE IF v.kind = "float" /\ v.n < Exact THEN [v EXCEPT !.kind = "int"] ELSE v

restore_json_numbers(v) ==
    IF v.kind = "float" /\ v.n < Exact THEN [v EXCEPT !.kind = "int"] ELSE v

\* What the four conversions do to a value in a message's or a task's metadata, or
\* in a task's artifact.
skill_message_to_send_params(v) == jsonable(v)
protobuf_message_to_dict(v) == restore_json_numbers(Struct(v))
dict_to_protobuf_task(v) == Struct(jsonable(v))

\* Mutant: the numbers of an answer are left as they are.
Unrestored(v) == v

normalize_task_result(v) == restore_json_numbers(v)

\* A value of a request as the agent has it, one of an answer as the caller has it.
Requested(v) == protobuf_message_to_dict(skill_message_to_send_params(v))
Replied(v) == normalize_task_result(dict_to_protobuf_task(v))

\* A contract and a receipt in an answer and in a request; hashes are texts.
ContractReplied(c) ==
    [terms |-> Replied(c.terms), extra |-> IF c.extra = None THEN None ELSE Replied(c.extra),
     proposal_hash |-> c.proposal_hash]
ContractRequested(c) ==
    [terms |-> Requested(c.terms), extra |-> IF c.extra = None THEN None ELSE Requested(c.extra),
     proposal_hash |-> c.proposal_hash]
ReceiptReplied(r) == [r EXCEPT !.checks = Replied(@)]
ReceiptRequested(r) == [r EXCEPT !.checks = Requested(@)]

-----------------------------------------------------------------------------

Init ==
    /\ stage = "start"
    /\ proposal = None /\ offered = None
    /\ contract = None /\ executor_signature = None /\ requester_signature = None
    /\ contract_hash = None
    /\ receipt = None /\ signature = None
    /\ verdict = [w \in {"requester", "third"} |-> None]

contracts == <<contract, executor_signature, requester_signature, contract_hash>>
receipts == <<receipt, signature, verdict>>

\* The proposal is sent twice in one message; the metadata's copy is taken.
Propose(v) ==
    /\ stage = "start"
    /\ stage' = "offered"
    /\ proposal' = v
    /\ offered' = Requested(v)
    /\ UNCHANGED <<contracts, receipts>>

\* The executor counters with terms of its own; the requester signs them as they
\* arrive and sends them back.
Counter(v) ==
    /\ stage = "offered"
    /\ stage' = "countered"
    /\ proposal' = Replied(v)
    /\ offered' = Requested(proposal')
    /\ UNCHANGED <<contracts, receipts>>

\* The executor signs a contract over the terms it has; its own task.propose
\* handler may put something into it.  The answer is on its way.
Answer(x) ==
    /\ stage \in {"offered", "countered"}
    /\ stage' = "answered"
    /\ executor_signature' = [terms |-> offered, extra |-> x, proposal_hash |-> offered]
    /\ contract' = ContractReplied(executor_signature')
    /\ UNCHANGED <<proposal, offered, requester_signature, contract_hash, receipts>>

\* The requester signs what has arrived, keeps its hash, and sends it with the work.
Order ==
    /\ stage = "answered"
    /\ stage' = "ordered"
    /\ requester_signature' = contract
    /\ contract_hash' = contract
    /\ contract' = ContractRequested(contract)
    /\ UNCHANGED <<proposal, offered, executor_signature, receipts>>

\* handle_message: executor_signature mismatch.
Refuse ==
    /\ stage = "ordered" /\ contract # executor_signature
    /\ stage' = "refused"
    /\ UNCHANGED <<proposal, offered, contracts, receipts>>

\* The handler signs a receipt on the contract as it has it, with its checks.  A
\* signature leaves derived hashes out, contract_hash among them.
Review(c) ==
    /\ stage = "ordered" /\ contract = executor_signature
    /\ stage' = "reviewed"
    /\ signature' = c
    /\ receipt' = ReceiptReplied([contract_hash |-> contract, checks |-> c])
    /\ UNCHANGED <<proposal, offered, contracts, verdict>>

\* signed_verification_receipt, with the verifier's public key.
Collect ==
    /\ stage = "reviewed"
    /\ stage' = "collected"
    /\ verdict' = [verdict EXCEPT !["requester"] = (receipt.checks = signature)]
    /\ UNCHANGED <<proposal, offered, contracts, receipt, signature>>

\* The requester passes it on in the metadata of another message.
Forward ==
    /\ stage = "collected"
    /\ stage' = "forwarded"
    /\ receipt' = ReceiptRequested(receipt)
    /\ verdict' = [verdict EXCEPT !["third"] = (receipt'.checks = signature)]
    /\ UNCHANGED <<proposal, offered, contracts, signature>>

Next ==
    \/ \E v \in Value : Propose(v) \/ Counter(v) \/ Answer(v) \/ Review(v)
    \/ Answer(None)
    \/ Order \/ Refuse \/ Collect \/ Forward

Spec == Init /\ [][Next]_vars

-----------------------------------------------------------------------------
(* Properties *)

\* What can arrive: no double that an integer could stand for, no exact
\* integer of 2^53 or more.
Arrived ==
    [kind : {"int"}, n : 0..(Exact - 1)]
    \cup {v \in [kind : {"float"}, n : Exact..(2 * Exact)] : v.n % 2 = 0}
    \cup [kind : {"fraction", "text", "list"}, n : {0}]

TypeOK ==
    /\ proposal \in Value \cup Arrived \cup {None}
    /\ offered \in Arrived \cup {None}
    /\ contract # None =>
         contract.terms \in Arrived /\ contract.extra \in Arrived \cup {None}
    /\ receipt # None => receipt.checks \in Arrived

\* The values that the wire leaves alone: not 1.0, not 2^53 as an integer, no tuple.
Stable(v) ==
    \/ v.kind = "int" /\ v.n < Exact
    \/ v.kind = "float" /\ v.n >= Exact
    \/ v.kind \in {"fraction", "text", "list"}

\* The executor refuses its own signature only when its own handler put something
\* into the contract that the wire changes: never for what the requester proposed,
\* and never for a counter, whatever is in them.
ContractIsAccepted ==
    stage = "refused" => executor_signature.extra # None /\ ~Stable(executor_signature.extra)

\* "Contract MUST bind proposal_hash": it is the hash of the proposal that the
\* requester signed, unless that one held something that the wire changes.
ProposalHashAgrees ==
    executor_signature # None /\ Stable(proposal) =>
        executor_signature.proposal_hash = proposal

\* The ends agree on an honest receipt: it names the contract by the hash that the
\* requester keeps, although the two computed it at different ends of the wire, and
\* its first receiver and a later one come to the same verdict on its signature: it
\* verifies unless its checks held something that the wire changes.  This binds
\* nothing: contract_hash is outside the receipt's signature, so that a changed hash
\* would go unnoticed, and the verdict is on the checks alone.
ReceiptAgrees ==
    /\ receipt # None => receipt.contract_hash = contract_hash
    /\ \A w \in DOMAIN verdict : verdict[w] # None => verdict[w] = Stable(signature)
=============================================================================
