---------------------------- MODULE OnceService ----------------------------
(***************************************************************************)
(* What the protocol promises the sender of a task message ("Duplicate     *)
(* sender_agent_id + message_id is ignored.  Duplicate idempotency_key     *)
(* returns the first result"), with no clock, no event loop and no task    *)
(* state: a request carries a set of keys; it is either worked on, and     *)
(* then its own task becomes the outcome of each of its keys, or it gets   *)
(* the outcome one of its keys already has, or it is declined.             *)
(*                                                                         *)
(* Once is the set of keys for which the promise is made in full: work is  *)
(* completed under such a key only while the key has no outcome.           *)
(***************************************************************************)
CONSTANTS Request,   \* one delivery of a message to the service
          Key,       \* what makes two deliveries duplicates of each other
          KeySets,   \* the sets of keys a request can carry, each a subset of Key
          Once,      \* the keys worked on at most once, a subset of Key
          None

VARIABLES asked,     \* asked[r]: the keys request r carries, None before it came
          answer,    \* answer[r]: the request whose work answers r, None before
          outcome    \* outcome[k]: the request whose work key k stands for

vars == <<asked, answer, outcome>>

Init ==
    /\ asked   = [r \in Request |-> None]
    /\ answer  = [r \in Request |-> None]
    /\ outcome = [k \in Key |-> None]

\* The service begins to work on r.
Accept(r, K) ==
    /\ asked[r] = None
    /\ asked' = [asked EXCEPT ![r] = K]
    /\ UNCHANGED <<answer, outcome>>

\* The work on r is complete: it answers r and every later duplicate of r.
Complete(r) ==
    /\ asked[r] # None
    /\ answer[r] = None
    /\ \A k \in asked[r] \cap Once : outcome[k] = None
    /\ answer' = [answer EXCEPT ![r] = r]
    /\ outcome' = [k \in Key |-> IF k \in asked[r] THEN r ELSE outcome[k]]
    /\ UNCHANGED asked

\* r is a duplicate: it gets what the work done under one of its keys gave.
Recall(r, K) ==
    /\ asked[r] = None
    /\ \E k \in K : /\ outcome[k] # None
                    /\ answer' = [answer EXCEPT ![r] = outcome[k]]
    /\ asked' = [asked EXCEPT ![r] = K]
    /\ UNCHANGED outcome

\* r is refused: its answer is its own, and no duplicate will be given it.
Decline(r, K) ==
    /\ asked[r] = None
    /\ asked' = [asked EXCEPT ![r] = K]
    /\ answer' = [answer EXCEPT ![r] = r]
    /\ UNCHANGED outcome

\* Outcomes are not kept for ever: some lapse, or all are lost with the process.
Forget ==
    /\ DOMAIN outcome' = Key
    /\ \A k \in Key : outcome'[k] = outcome[k] \/ outcome'[k] = None
    /\ UNCHANGED <<asked, answer>>

Next ==
    \/ \E r \in Request, K \in KeySets :
          Accept(r, K) \/ Recall(r, K) \/ Decline(r, K)
    \/ \E r \in Request : Complete(r)
    \/ Forget

Spec == Init /\ [][Next]_vars

=============================================================================
