-------------------------- MODULE A2AServerProofs --------------------------
(***************************************************************************)
(* Proofs about A2AServer, for every set of requests and messages, every   *)
(* TTL and every clock bound.                                              *)
(*                                                                         *)
(* The argument.  A result that is not yet TTL old is still in every slot  *)
(* of its keys, in itself or replaced by a younger one (Kept): put() only  *)
(* ever moves an expiry later, purging drops only what has expired.  So a  *)
(* lookup that misses all keys of a message knows every earlier result     *)
(* under them to be TTL old (NoSequentialRerun).  A handler that never     *)
(* suspends moreover ends before any other result is stored                *)
(* (SyncRunsAlone), so what it saw at the lookup still holds when its own  *)
(* result is stored (SoloKeyHasOneLiveResult).                             *)
(*                                                                         *)
(* The refinement of OnceService maps a key's outcome to its slot while it *)
(* is live.  It needs to know that a slot holds a result of this process,  *)
(* for its time (StoreOK), and that a request is looked at once (Fresh).   *)
(* Then a lookup replays an outcome or finds none, a result replaces none  *)
(* under a key of OnceService's promise, and a purge is not seen.          *)
(***************************************************************************)
EXTENDS A2AServer, TLAPS

\* What is known of the requests whose result is stored.
DoneOK ==
    \A o \in done : phase[o] \in {"replied", "delivered"} /\ finish[o] <= now

\* A result younger than TTL is found under all its keys, or a younger one is.
Kept ==
    \A o \in done : \A k \in KeysOf(msg[o]) :
        finish[o] + TTL > now =>
            store[k] # None /\ store[k].expires >= finish[o] + TTL

\* What a handler call knew when it began.
SeenOK ==
    \A r \in Request :
        /\ seen[r] \subseteq done
        /\ start[r] <= now
        /\ phase[r] = "idle" => seen[r] = {}

\* While a handler that never suspends is being called, it is the only such
\* one and no result is stored.
SyncRunsAlone ==
    \A r \in Running :
        /\ Supported(msg[r])
        /\ msg[r].capability \in SyncSkills =>
             /\ seen[r] = done
             /\ \A q \in Running : msg[q].capability \in SyncSkills => q = r

\* The inductive invariant.
IInv ==
    /\ TypeOK
    /\ DoneOK
    /\ Kept
    /\ SeenOK
    /\ SyncRunsAlone
    /\ NoSequentialRerun
    /\ SoloKeyHasOneLiveResult

-----------------------------------------------------------------------------
(* Type correctness *)

\* The keys of a message are keys.
LEMMA KeysAreKeys == \A m \in Message : KeysOf(m) \subseteq Key
BY DEF Key

\* Dropping expired slots from a store leaves a store.
LEMMA LiveType ==
  ASSUME NEW s \in [Key -> Slot \cup {None}]
  PROVE  Live(s) \in [Key -> Slot \cup {None}]
BY DEF Live

\* A key that hits has a live slot in the store.
LEMMA HitIsLive ==
  ASSUME NEW m \in Message, NEW k \in Hit(m)
  PROVE  /\ k \in KeysOf(m) /\ k \in Key
         /\ store[k] # None /\ store[k].expires > now
<1>1. k \in KeysOf(m) /\ Live(store)[k] # None
  BY DEF Hit, KeysOf
<1>2. k \in Key
  BY <1>1, KeysAreKeys
<1> QED
  BY <1>1, <1>2 DEF Live

\* A message none of whose keys hits finds every slot of its keys empty or expired.
LEMMA MissIsDead ==
  ASSUME NEW m \in Message, Hit(m) = {}, NEW k \in KeysOf(m)
  PROVE  Live(store)[k] = None
BY DEF Hit, KeysOf

LEMMA TypeInit == Init => TypeOK
BY TimeAssumption DEF Init, TypeOK

LEMMA TypeStep == TypeOK /\ [Next]_vars => TypeOK'
<1> SUFFICES ASSUME TypeOK, [Next]_vars
             PROVE  TypeOK'
  OBVIOUS
<1> USE DEF TypeOK, Result
<1>p. ASSUME NEW m \in Message
      PROVE  Purged(m) \in [Key -> Slot \cup {None}]
  BY LiveType DEF Purged
<1>1. ASSUME NEW r \in Request, NEW m \in Message, RefuseUnsupported(r, m)
      PROVE  TypeOK'
  BY <1>1 DEF RefuseUnsupported, Answered, history
<1>2. ASSUME NEW r \in Request, NEW m \in Message, Replay(r, m)
      PROVE  TypeOK'
  <2>1. PICK k \in Hit(m) : Answered(r, m, store[k].task, tasks[store[k].task])
    BY <1>2 DEF Replay
  <2>2. store[k] \in Slot
    BY HitIsLive
  <2>3. store[k].task \in Request
    BY <2>2 DEF Slot
  <2> QED
    BY <1>2, <1>p, <2>1, <2>3 DEF Replay, Answered, history
<1>3. ASSUME NEW r \in Request, NEW m \in Message, RefuseContract(r, m)
      PROVE  TypeOK'
  BY <1>3, <1>p DEF RefuseContract, Answered, history
<1>4. ASSUME NEW r \in Request, NEW m \in Message, CallHandler(r, m)
      PROVE  TypeOK'
  BY <1>4, <1>p DEF CallHandler
<1>5. ASSUME NEW r \in Request, NEW s \in {"completed", "failed"}, HandlerReturns(r, s)
      PROVE  TypeOK'
  <2>1. Stored(r) \in [Key -> Slot \cup {None}]
    BY TimeAssumption DEF Stored, Slot
  <2>2. msg[r] \in Message
    BY <1>5 DEF HandlerReturns, Resumes
  <2> QED
    BY <1>5, <2>1, <2>2 DEF HandlerReturns, Resumes, Answered
<1>6. ASSUME NEW r \in Request, HandlerRaises(r)
      PROVE  TypeOK'
  BY <1>6 DEF HandlerRaises, Resumes, history
<1>7. ASSUME NEW r \in Request, Deliver(r)
      PROVE  TypeOK'
  BY <1>7 DEF Deliver, history
<1>8. ASSUME NEW r \in Request, Cancel(r)
      PROVE  TypeOK'
  BY <1>8 DEF Cancel, history
<1>9. CASE Tick
  BY <1>9 DEF Tick, server, history
<1>10. CASE Restart
  BY <1>10 DEF Restart
<1>11. CASE UNCHANGED vars
  BY <1>11 DEF vars, server, history
<1> QED
  BY <1>1, <1>2, <1>3, <1>4, <1>5, <1>6, <1>7, <1>8, <1>9, <1>10, <1>11 DEF Next

\* Every variable keeps its type.
THEOREM TypeCorrect == Spec => []TypeOK
BY TypeInit, TypeStep, PTL DEF Spec

-----------------------------------------------------------------------------
(* The inductive invariant *)

LEMMA InitIInv == Init => IInv
<1> SUFFICES ASSUME Init PROVE IInv
  OBVIOUS
<1>1. TypeOK
  BY TypeInit
<1>2. DoneOK /\ Kept /\ SeenOK /\ NoSequentialRerun
  BY DEF Init, DoneOK, Kept, SeenOK, NoSequentialRerun
<1>3. SyncRunsAlone
  BY DEF Init, SyncRunsAlone, Running
<1>4. SoloKeyHasOneLiveResult
  BY DEF Init, SoloKeyHasOneLiveResult, OneLiveResult
<1> QED
  BY <1>1, <1>2, <1>3, <1>4 DEF IInv

\* A step that neither calls a handler nor stores a result: it may give idle
\* requests their message, move requests towards their end, and purge.
QuietFor(r) ==
    \/ phase[r] = "idle" /\ phase'[r] \notin {"idle", "running"}
    \/ /\ msg'[r] = msg[r]
       /\ \/ phase'[r] = phase[r]
          \/ phase[r] = "running" /\ phase'[r] = "aborted"
          \/ phase[r] = "replied" /\ phase'[r] = "delivered"

Quiet ==
    /\ \A r \in Request : QuietFor(r)
    /\ store' = store \/ store' = Live(store)
    /\ now' \in Nat /\ now <= now'
    /\ UNCHANGED history

LEMMA QuietStep == IInv /\ TypeOK' /\ Quiet => IInv'
<1> SUFFICES ASSUME IInv, TypeOK', Quiet
             PROVE  IInv'
  OBVIOUS
<1> USE DEF history
<1>1. \A r \in Request : QuietFor(r)
  BY DEF Quiet
<1>2. UNCHANGED history /\ now' \in Nat /\ now <= now'
  BY DEF Quiet
<1>3. TypeOK /\ DoneOK /\ Kept /\ SeenOK /\ SyncRunsAlone
  BY DEF IInv
<1>4. \A o \in done : phase'[o] \in {"replied", "delivered"} /\ msg'[o] = msg[o]
  BY <1>1, <1>3 DEF DoneOK, TypeOK, QuietFor
<1>5. DoneOK'
  BY <1>2, <1>3, <1>4 DEF DoneOK, TypeOK
<1>6. Kept'
  <2> SUFFICES ASSUME NEW o \in done, NEW k \in KeysOf(msg[o]),
                      finish[o] + TTL > now'
               PROVE  store'[k] # None /\ store'[k].expires >= finish[o] + TTL
    BY <1>2, <1>4 DEF Kept
  <2>1. o \in Request /\ msg[o] \in Message /\ finish[o] \in Nat
    BY <1>3 DEF TypeOK, DoneOK
  <2>2. k \in Key
    BY <2>1, KeysAreKeys
  <2>3. finish[o] + TTL > now
    BY <1>2, <1>3, <2>1, TimeAssumption DEF TypeOK
  <2>4. store[k] # None /\ store[k].expires >= finish[o] + TTL
    BY <1>3, <2>3 DEF Kept
  <2>5. store[k].expires \in Nat
    BY <1>3, <2>2, <2>4 DEF TypeOK, Slot
  <2>6. Live(store)[k] = store[k]
    BY <1>3, <2>1, <2>2, <2>3, <2>4, <2>5, TimeAssumption DEF Live, TypeOK
  <2> QED
    BY <2>4, <2>6 DEF Quiet
<1>7. SeenOK'
  <2> SUFFICES ASSUME NEW q \in Request
               PROVE  /\ seen[q] \subseteq done
                      /\ start[q] <= now'
                      /\ phase'[q] = "idle" => seen[q] = {}
    BY <1>2 DEF SeenOK
  <2>1. phase'[q] = "idle" => phase[q] = "idle"
    BY <1>1 DEF QuietFor
  <2> QED
    BY <1>2, <1>3, <2>1 DEF SeenOK, TypeOK
<1>8. Running' \subseteq Running /\ \A q \in Running' : msg'[q] = msg[q]
  BY <1>1 DEF Running, QuietFor
<1>9. SyncRunsAlone'
  BY <1>2, <1>3, <1>8 DEF SyncRunsAlone, Supported
<1>10. NoSequentialRerun'
  <2> SUFFICES ASSUME NEW q \in Request, NEW o \in seen[q],
                      KeysOf(msg'[q]) \cap KeysOf(msg'[o]) # {}
               PROVE  finish[o] + TTL <= start[q]
    BY <1>2 DEF NoSequentialRerun, Share
  <2>1. o \in done /\ phase[q] # "idle"
    BY <1>3 DEF SeenOK
  <2>2. msg'[o] = msg[o] /\ msg'[q] = msg[q]
    BY <1>1, <1>4, <2>1 DEF QuietFor
  <2> QED
    BY <2>2 DEF IInv, NoSequentialRerun, Share
<1>11. SoloKeyHasOneLiveResult'
  BY <1>2, <1>4 DEF IInv, SoloKeyHasOneLiveResult, OneLiveResult, SoloKeys
<1> QED
  BY <1>5, <1>6, <1>7, <1>9, <1>10, <1>11 DEF IInv


\* The actions that are quiet.
LEMMA QuietActions ==
  ASSUME TypeOK, Tick \/ UNCHANGED vars
         \/ \E r \in Request :
              \/ \E m \in Message : RefuseUnsupported(r, m) \/ Replay(r, m) \/ RefuseContract(r, m)
              \/ HandlerRaises(r) \/ Deliver(r) \/ Cancel(r)
  PROVE  Quiet
<1> USE DEF TypeOK
<1>1. \A m \in Message : Purged(m) = store \/ Purged(m) = Live(store)
  BY DEF Purged
<1>2. ASSUME NEW r \in Request, NEW m \in Message,
             RefuseUnsupported(r, m) \/ Replay(r, m) \/ RefuseContract(r, m)
      PROVE  Quiet
  <2>1. phase[r] = "idle" /\ phase' = [phase EXCEPT ![r] = "replied"]
        /\ msg' = [msg EXCEPT ![r] = m]
    BY <1>2 DEF RefuseUnsupported, Replay, RefuseContract, Answered
  <2>2. store' = store \/ store' = Live(store)
    BY <1>1, <1>2 DEF RefuseUnsupported, Replay, RefuseContract
  <2>3. UNCHANGED <<now, history>>
    BY <1>2 DEF RefuseUnsupported, Replay, RefuseContract
  <2> QED
    BY <2>1, <2>2, <2>3 DEF Quiet, QuietFor
<1>3. ASSUME NEW r \in Request, HandlerRaises(r) \/ Deliver(r) \/ Cancel(r)
      PROVE  Quiet
  <2>1. UNCHANGED <<msg, store, now, history>>
    BY <1>3 DEF HandlerRaises, Deliver, Cancel
  <2>2. CASE HandlerRaises(r)
    BY <2>1, <2>2 DEF HandlerRaises, Resumes, Quiet, QuietFor
  <2>3. CASE Deliver(r)
    BY <2>1, <2>3 DEF Deliver, Quiet, QuietFor
  <2>4. CASE Cancel(r)
    BY <2>1, <2>4 DEF Cancel, Quiet, QuietFor
  <2> QED
    BY <1>3, <2>2, <2>3, <2>4
<1>4. ASSUME Tick \/ UNCHANGED vars
      PROVE  Quiet
  BY <1>4 DEF Tick, server, vars, history, Quiet, QuietFor
<1> QED
  BY <1>2, <1>3, <1>4

\* A handler is called only after every lookup missed.
LEMMA CallHandlerStep ==
  ASSUME IInv, TypeOK', NEW r \in Request, NEW m \in Message, CallHandler(r, m)
  PROVE  IInv'
<1>1. TypeOK /\ DoneOK /\ Kept /\ SeenOK /\ SyncRunsAlone
  BY DEF IInv
<1>2. /\ phase[r] = "idle" /\ phase' = [phase EXCEPT ![r] = "running"]
      /\ msg' = [msg EXCEPT ![r] = m]
      /\ seen' = [seen EXCEPT ![r] = done]
      /\ start' = [start EXCEPT ![r] = now]
      /\ UNCHANGED <<now, done, finish>>
  BY DEF CallHandler
<1>3. \A o \in done : o # r /\ o \in Request /\ msg'[o] = msg[o] /\ phase'[o] = phase[o]
  BY <1>1, <1>2 DEF DoneOK, TypeOK
<1>4. DoneOK'
  BY <1>1, <1>2, <1>3 DEF DoneOK
<1>5. ASSUME NEW o \in done, NEW k \in KeysOf(msg[o]), finish[o] + TTL > now
      PROVE  Live(store)[k] = store[k] /\ Live(store)[k] # None
  <2>1. msg[o] \in Message /\ finish[o] \in Nat
    BY <1>1, <1>3 DEF TypeOK, DoneOK
  <2>2. k \in Key
    BY <2>1, KeysAreKeys
  <2>3. store[k] # None /\ store[k].expires >= finish[o] + TTL
    BY <1>1, <1>5 DEF Kept
  <2>4. store[k].expires \in Nat
    BY <1>1, <2>2, <2>3 DEF TypeOK, Slot
  <2> QED
    BY <1>1, <1>5, <2>1, <2>2, <2>3, <2>4, TimeAssumption DEF Live, TypeOK
<1>6. Kept'
  <2>1. store' = store \/ store' = Live(store)
    BY DEF CallHandler, Purged
  <2> QED
    BY <1>1, <1>2, <1>3, <1>5, <2>1 DEF Kept
<1>7. SeenOK'
  BY <1>1, <1>2 DEF SeenOK, TypeOK
<1>8. SyncRunsAlone'
  <2>1. \A q \in Running : msg[q].capability \notin SyncSkills
    BY DEF CallHandler, LoopFree
  <2>2. Supported(m)
    BY DEF CallHandler
  <2>3. \A q \in Running' : q = r \/ (q \in Running /\ msg'[q] = msg[q])
    BY <1>1, <1>2 DEF Running, TypeOK
  <2>4. msg'[r] = m /\ seen'[r] = done'
    BY <1>1, <1>2 DEF TypeOK
  <2> QED
    BY <1>1, <2>1, <2>2, <2>3, <2>4 DEF SyncRunsAlone, Supported
<1>9. NoSequentialRerun'
  <2> SUFFICES ASSUME NEW q \in Request, NEW o \in seen'[q],
                      KeysOf(msg'[q]) \cap KeysOf(msg'[o]) # {}
               PROVE  finish[o] + TTL <= start'[q]
    BY <1>2 DEF NoSequentialRerun, Share
  <2>1. CASE q = r
    <3>1. o \in done /\ start'[q] = now /\ msg'[q] = m /\ msg'[o] = msg[o]
      BY <1>1, <1>2, <1>3, <2>1 DEF TypeOK
    <3>2. PICK k \in KeysOf(m) : k \in KeysOf(msg[o])
      BY <3>1
    <3>3. Hit(m) = {}
      BY DEF CallHandler
    <3>4. Live(store)[k] = None
      BY <3>2, <3>3, MissIsDead
    <3>5. ~(finish[o] + TTL > now)
      BY <1>5, <3>1, <3>2, <3>4
    <3> QED
      BY <1>1, <1>3, <3>1, <3>5, TimeAssumption DEF TypeOK
  <2>2. CASE q # r
    <3>1. o \in seen[q] /\ start'[q] = start[q] /\ msg'[q] = msg[q]
      BY <1>1, <1>2, <2>2 DEF TypeOK
    <3>2. msg'[o] = msg[o]
      BY <1>1, <1>3, <3>1 DEF SeenOK
    <3> QED
      BY <3>1, <3>2 DEF IInv, NoSequentialRerun, Share
  <2> QED
    BY <2>1, <2>2
<1>10. SoloKeyHasOneLiveResult'
  BY <1>2, <1>3 DEF IInv, SoloKeyHasOneLiveResult, OneLiveResult, SoloKeys
<1> QED
  BY <1>4, <1>6, <1>7, <1>8, <1>9, <1>10 DEF IInv

\* A result is stored under all keys of its request, over whatever is there.
LEMMA HandlerReturnsStep ==
  ASSUME IInv, TypeOK', NEW r \in Request, NEW s \in {"completed", "failed"},
         HandlerReturns(r, s)
  PROVE  IInv'
<1>1. TypeOK /\ DoneOK /\ Kept /\ SeenOK /\ SyncRunsAlone
  BY DEF IInv
<1>2. /\ phase[r] = "running" /\ phase' = [phase EXCEPT ![r] = "replied"]
      /\ msg' = [msg EXCEPT ![r] = msg[r]] /\ msg[r] \in Message
      /\ done' = done \cup {r}
      /\ finish' = [finish EXCEPT ![r] = now]
      /\ store' = Stored(r)
      /\ UNCHANGED <<now, start, seen>>
  BY <1>1 DEF HandlerReturns, Resumes, Answered, TypeOK
<1>3. msg' = msg /\ r \notin done
  BY <1>1, <1>2 DEF TypeOK, DoneOK
<1>4. \A o \in done : o # r /\ o \in Request /\ finish'[o] = finish[o] /\ phase'[o] = phase[o]
  BY <1>1, <1>2, <1>3 DEF TypeOK
<1>5. finish'[r] = now /\ phase'[r] = "replied"
  BY <1>1, <1>2 DEF TypeOK
<1>6. DoneOK'
  BY <1>1, <1>2, <1>4, <1>5 DEF DoneOK, TypeOK
<1>7. Kept'
  <2> SUFFICES ASSUME NEW o \in done', NEW k \in KeysOf(msg[o]), finish'[o] + TTL > now
               PROVE  store'[k] # None /\ store'[k].expires >= finish'[o] + TTL
    BY <1>2, <1>3 DEF Kept
  <2>1. o \in Request /\ msg[o] \in Message
    BY <1>1, <1>2 DEF TypeOK, DoneOK
  <2>2. k \in Key
    BY <2>1, KeysAreKeys
  <2>3. finish'[o] <= now /\ finish'[o] \in Nat /\ now \in Nat
    BY <1>1, <1>2, <1>4, <1>5 DEF DoneOK, TypeOK
  <2>4. CASE k \in KeysOf(msg[r])
    <3>1. store'[k] = [task |-> r, expires |-> now + TTL]
      BY <1>2, <2>2, <2>4 DEF Stored
    <3>2. store'[k] \in Slot
      BY <2>3, <3>1, TimeAssumption DEF Slot
    <3>3. store'[k].expires = now + TTL
      BY <3>1
    <3> QED
      BY <2>3, <3>2, <3>3, NoneAssumption, TimeAssumption
  <2>5. CASE k \notin KeysOf(msg[r])
    <3>1. store'[k] = store[k] /\ o \in done
      BY <1>2, <2>2, <2>5 DEF Stored
    <3> QED
      BY <1>1, <1>4, <3>1 DEF Kept
  <2> QED
    BY <2>4, <2>5
<1>8. SeenOK'
  BY <1>1, <1>2 DEF SeenOK, TypeOK
<1>9. Running' = Running \ {r}
  BY <1>1, <1>2 DEF Running, TypeOK
<1>10. \A q \in Running \ {r} : msg[q].capability \notin SyncSkills
  <2>1. r \in Running
    BY <1>2 DEF Running
  <2>2. CASE msg[r].capability \in SyncSkills
    BY <1>1, <2>1, <2>2 DEF SyncRunsAlone
  <2>3. CASE msg[r].capability \in AsyncSkills
    BY <2>3 DEF HandlerReturns, Resumes, LoopFree
  <2> QED
    BY <1>1, <2>1, <2>2, <2>3 DEF SyncRunsAlone, Supported, Handlers
<1>11. SyncRunsAlone'
  BY <1>1, <1>3, <1>9, <1>10 DEF SyncRunsAlone
<1>12. NoSequentialRerun'
  BY <1>1, <1>2, <1>3, <1>4 DEF IInv, NoSequentialRerun, Share, SeenOK
<1>13. ASSUME NEW p \in done, KeysOf(msg[r]) \cap KeysOf(msg[p]) \cap SoloKeys # {}
       PROVE  finish[p] + TTL <= now
  <2>1. msg[r].capability \notin AsyncSkills
    BY <1>2, <1>13 DEF SoloKeys
  <2>2. r \in Running
    BY <1>2 DEF Running
  <2>3. p \in seen[r]
    BY <1>1, <2>1, <2>2 DEF SyncRunsAlone, Supported, Handlers
  <2>4. finish[p] + TTL <= start[r]
    BY <1>13, <2>3 DEF IInv, NoSequentialRerun, Share
  <2>5. start[r] <= now /\ start[r] \in Nat /\ now \in Nat /\ finish[p] \in Nat
    BY <1>1, <1>4 DEF SeenOK, TypeOK
  <2> QED
    BY <2>4, <2>5, TimeAssumption
<1>14. SoloKeyHasOneLiveResult'
  <2> SUFFICES ASSUME NEW o \in done', NEW p \in done', o # p,
                      KeysOf(msg[o]) \cap KeysOf(msg[p]) \cap SoloKeys # {}
               PROVE  finish'[o] + TTL <= finish'[p] \/ finish'[p] + TTL <= finish'[o]
    BY <1>3 DEF SoloKeyHasOneLiveResult, OneLiveResult, SoloKeys
  <2>1. CASE o \in done /\ p \in done
    BY <1>4, <2>1 DEF IInv, SoloKeyHasOneLiveResult, OneLiveResult
  <2>2. CASE o = r /\ p \in done
    BY <1>4, <1>5, <1>13, <2>2
  <2>3. CASE p = r /\ o \in done
    BY <1>4, <1>5, <1>13, <2>3
  <2> QED
    BY <1>2, <2>1, <2>2, <2>3
<1> QED
  BY <1>6, <1>7, <1>8, <1>11, <1>12, <1>14 DEF IInv

\* With the process, what the invariant speaks of is gone.
LEMMA RestartStep == IInv /\ TypeOK' /\ Restart => IInv'
<1> SUFFICES ASSUME IInv, TypeOK', Restart
             PROVE  IInv'
  OBVIOUS
<1>1. TypeOK
  BY DEF IInv
<1>2. Running' = {}
  BY <1>1 DEF Restart, Running, TypeOK
<1>3. DoneOK' /\ Kept' /\ SyncRunsAlone'
  BY <1>2 DEF Restart, DoneOK, Kept, SyncRunsAlone
<1>4. SeenOK' /\ NoSequentialRerun'
  BY <1>1 DEF Restart, SeenOK, NoSequentialRerun, TypeOK
<1>5. SoloKeyHasOneLiveResult'
  BY DEF Restart, SoloKeyHasOneLiveResult, OneLiveResult
<1> QED
  BY <1>3, <1>4, <1>5 DEF IInv

LEMMA StepIInv == IInv /\ [Next]_vars => IInv'
<1> SUFFICES ASSUME IInv, [Next]_vars
             PROVE  IInv'
  OBVIOUS
<1>1. TypeOK /\ TypeOK'
  BY TypeStep DEF IInv
<1>2. ASSUME NEW r \in Request, NEW m \in Message, CallHandler(r, m)
      PROVE  IInv'
  BY <1>1, <1>2, CallHandlerStep
<1>3. ASSUME NEW r \in Request, NEW s \in {"completed", "failed"}, HandlerReturns(r, s)
      PROVE  IInv'
  BY <1>1, <1>3, HandlerReturnsStep
<1>4. ASSUME Restart
      PROVE  IInv'
  BY <1>1, <1>4, RestartStep
<1>5. ASSUME Tick \/ UNCHANGED vars
             \/ \E r \in Request :
                  \/ \E m \in Message :
                        RefuseUnsupported(r, m) \/ Replay(r, m) \/ RefuseContract(r, m)
                  \/ HandlerRaises(r) \/ Deliver(r) \/ Cancel(r)
      PROVE  IInv'
  BY <1>1, <1>5, QuietActions, QuietStep
<1> QED
  BY <1>2, <1>3, <1>4, <1>5 DEF Next

LEMMA Invariance == Spec => []IInv
BY InitIInv, StepIInv, PTL DEF Spec

\* No retry runs the handler again while a result under one of its keys is
\* younger than TTL, for any requests, messages and interleaving.
THEOREM SequentialRetriesAreReplayed == Spec => []NoSequentialRerun
<1>1. IInv => NoSequentialRerun
  BY DEF IInv
<1> QED
  BY <1>1, Invariance, PTL

\* Keys carried only by messages for handlers that never suspend have, at any
\* time, at most one result that is younger than TTL.
THEOREM SoloKeysReturnFirstResult == Spec => []SoloKeyHasOneLiveResult
<1>1. IInv => SoloKeyHasOneLiveResult
  BY DEF IInv
<1> QED
  BY <1>1, Invariance, PTL

-----------------------------------------------------------------------------
(* The refinement: what the abstract service needs besides *)

\* A request has a message from when it is first looked at, an answer only after.
Fresh ==
    \A r \in Request :
        /\ phase[r] = "idle" => msg[r] = None /\ reply[r] = None
        /\ phase[r] = "running" => reply[r] = None

\* A slot holds a result of this process, under one of its keys and for its time.
StoreOK ==
    \A k \in Key : store[k] # None =>
        /\ store[k].task \in done
        /\ store[k].expires = finish[store[k].task] + TTL
        /\ k \in KeysOf(msg[store[k].task])

LEMMA FreshStep == TypeOK /\ Fresh /\ [Next]_vars => Fresh'
<1> SUFFICES ASSUME TypeOK, Fresh, [Next]_vars
             PROVE  Fresh'
  OBVIOUS
<1> USE DEF TypeOK, Fresh
<1>1. ASSUME NEW r \in Request, NEW m \in Message,
             RefuseUnsupported(r, m) \/ Replay(r, m) \/ RefuseContract(r, m)
      PROVE  Fresh'
  <2>1. PICK o, s : Answered(r, m, o, s)
    BY <1>1 DEF RefuseUnsupported, Replay, RefuseContract
  <2> QED
    BY <2>1 DEF Answered
<1>2. ASSUME NEW r \in Request, NEW m \in Message, CallHandler(r, m)
      PROVE  Fresh'
  BY <1>2 DEF CallHandler
<1>3. ASSUME NEW r \in Request, NEW s \in {"completed", "failed"}, HandlerReturns(r, s)
      PROVE  Fresh'
  BY <1>3 DEF HandlerReturns, Resumes, Answered
<1>4. ASSUME NEW r \in Request, HandlerRaises(r) \/ Deliver(r) \/ Cancel(r)
      PROVE  Fresh'
  BY <1>4 DEF HandlerRaises, Resumes, Deliver, Cancel
<1>5. CASE Tick \/ Restart \/ UNCHANGED vars
  BY <1>5 DEF Tick, Restart, vars, server
<1> QED
  BY <1>1, <1>2, <1>3, <1>4, <1>5 DEF Next

\* Purging only empties slots; it is all that most steps do to them.
LEMMA StoreOKKept ==
  ASSUME TypeOK, StoreOK, store' = store \/ store' = Live(store),
         UNCHANGED <<done, finish>>, \A o \in done : msg'[o] = msg[o]
  PROVE  StoreOK'
BY DEF StoreOK, Live, TypeOK

LEMMA StoreOKStep == IInv /\ StoreOK /\ [Next]_vars => StoreOK'
<1> SUFFICES ASSUME IInv, StoreOK, [Next]_vars
             PROVE  StoreOK'
  OBVIOUS
<1>1. TypeOK /\ DoneOK
  BY DEF IInv
<1>2. ASSUME Quiet
      PROVE  StoreOK'
  <2>1. \A o \in done : msg'[o] = msg[o]
    BY <1>1, <1>2 DEF Quiet, QuietFor, DoneOK, TypeOK
  <2> QED
    BY <1>1, <1>2, <2>1, StoreOKKept DEF Quiet, history
<1>3. ASSUME NEW r \in Request, NEW m \in Message, CallHandler(r, m)
      PROVE  StoreOK'
  <2>1. \A o \in done : msg'[o] = msg[o]
    BY <1>1, <1>3 DEF CallHandler, DoneOK, TypeOK
  <2> QED
    BY <1>1, <1>3, <2>1, StoreOKKept DEF CallHandler, Purged
<1>4. ASSUME NEW r \in Request, NEW s \in {"completed", "failed"}, HandlerReturns(r, s)
      PROVE  StoreOK'
  <2>1. /\ msg' = msg /\ r \notin done
        /\ done' = done \cup {r} /\ finish' = [finish EXCEPT ![r] = now] /\ store' = Stored(r)
    BY <1>1, <1>4 DEF HandlerReturns, Resumes, Answered, TypeOK, DoneOK
  <2>2. \A o \in done : o # r /\ finish'[o] = finish[o]
    BY <1>1, <2>1 DEF TypeOK
  <2>3. finish'[r] = now
    BY <1>1, <2>1 DEF TypeOK
  <2> SUFFICES ASSUME NEW k \in Key, store'[k] # None
               PROVE  /\ store'[k].task \in done'
                      /\ store'[k].expires = finish'[store'[k].task] + TTL
                      /\ k \in KeysOf(msg[store'[k].task])
    BY <2>1 DEF StoreOK
  <2>4. CASE k \in KeysOf(msg[r])
    BY <2>1, <2>3, <2>4 DEF Stored
  <2>5. CASE k \notin KeysOf(msg[r])
    <3>1. store'[k] = store[k]
      BY <2>1, <2>5 DEF Stored
    <3> QED
      BY <2>1, <2>2, <3>1 DEF StoreOK
  <2> QED
    BY <2>4, <2>5
<1>5. CASE Restart
  BY <1>5 DEF Restart, StoreOK
<1> QED
  BY <1>1, <1>2, <1>3, <1>4, <1>5, QuietActions DEF Next

RInv == IInv /\ Fresh /\ StoreOK

LEMMA RInvariance == Spec => []RInv
<1>1. Init => RInv
  BY InitIInv DEF Init, RInv, Fresh, StoreOK
<1>2. RInv /\ [Next]_vars => RInv'
  BY StepIInv, FreshStep, StoreOKStep DEF RInv, IInv
<1> QED
  BY <1>1, <1>2, PTL DEF Spec

\* A request is answered with another one's task only if that task is a result of
\* this process, less than TTL old, under a key that the two share.
THEOREM AnswersAreLiveDuplicates == Spec => ReplayIsOfLiveDuplicate
<1>1. RInv /\ [Next]_vars =>
        [\A r \in Request :
           reply'[r] # reply[r] =>
              LET o == reply'[r].task IN
              o # r => /\ o \in done
                       /\ now < finish[o] + TTL
                       /\ KeysOf(msg'[r]) \cap KeysOf(msg[o]) # {}]_vars
  <2> SUFFICES ASSUME RInv, Next, NEW r \in Request, reply'[r] # reply[r], reply'[r].task # r
               PROVE  /\ reply'[r].task \in done
                      /\ now < finish[reply'[r].task] + TTL
                      /\ KeysOf(msg'[r]) \cap KeysOf(msg[reply'[r].task]) # {}
    OBVIOUS
  <2>1. TypeOK /\ StoreOK
    BY DEF RInv, IInv
  <2>2. PICK m \in Message : Replay(r, m)
    <3>1. ASSUME NEW q \in Request, NEW m \in Message,
                 RefuseUnsupported(q, m) \/ RefuseContract(q, m)
          PROVE  FALSE
      BY <2>1, <3>1 DEF RefuseUnsupported, RefuseContract, Answered, TypeOK
    <3>2. ASSUME NEW q \in Request, NEW m \in Message, Replay(q, m)
          PROVE  q = r
      BY <2>1, <3>2 DEF Replay, Answered, TypeOK
    <3>3. ASSUME NEW q \in Request, NEW s \in {"completed", "failed"}, HandlerReturns(q, s)
          PROVE  FALSE
      BY <2>1, <3>3 DEF HandlerReturns, Answered, TypeOK
    <3> QED
      BY <3>1, <3>2, <3>3 DEF Next, CallHandler, HandlerRaises, Deliver, Cancel, Tick, server,
                              Restart
  <2>3. PICK k \in Hit(m) : Answered(r, m, store[k].task, tasks[store[k].task])
    BY <2>2 DEF Replay
  <2>4. reply'[r].task = store[k].task /\ msg'[r] = m
    BY <2>1, <2>3 DEF Answered, TypeOK
  <2>5. k \in KeysOf(m) /\ k \in Key /\ store[k] # None /\ store[k].expires > now
    BY HitIsLive
  <2> QED
    BY <2>1, <2>4, <2>5 DEF StoreOK
<1> QED
  BY <1>1, RInvariance, PTL DEF Spec, ReplayIsOfLiveDuplicate

-----------------------------------------------------------------------------
(* The refinement: its steps *)

\* What the store looks like to the abstract service.
Outcome == [k \in Key |-> IF Live(store)[k] = None THEN None ELSE Live(store)[k].task]

Asked == [r \in Request |-> IF msg[r] = None THEN None ELSE KeysOf(msg[r])]

Answer == [r \in Request |-> IF reply[r] = None THEN None ELSE reply[r].task]

\* Purging does not show.
LEMMA PurgeIsHidden ==
  ASSUME store' = store \/ store' = Live(store), now' = now
  PROVE  Outcome' = Outcome
BY DEF Outcome, Live

\* What a request that is looked at for the first time brings and is answered.
LEMMA AnsweredShows ==
  ASSUME TypeOK, Fresh, NEW r \in Request, NEW m \in Message, NEW o \in Request,
         NEW s \in {"completed", "failed", "canceled", None}, phase[r] = "idle", Answered(r, m, o, s)
  PROVE  /\ Asked[r] = None /\ Asked' = [Asked EXCEPT ![r] = KeysOf(m)]
         /\ Answer' = [Answer EXCEPT ![r] = o]
<1>1. msg[r] = None
  BY DEF Fresh
<1>2. msg' = [msg EXCEPT ![r] = m] /\ reply' = [reply EXCEPT ![r] = [task |-> o, state |-> s]]
  BY DEF Answered
<1>3. m # None
  BY NoneAssumption
<1>4. [task |-> o, state |-> s] # None
  BY NoneAssumption DEF Result
<1>5. Asked[r] = None /\ Asked' = [Asked EXCEPT ![r] = KeysOf(m)]
  BY <1>1, <1>2, <1>3 DEF Asked, TypeOK
<1> QED
  BY <1>2, <1>4, <1>5 DEF Answer, TypeOK

LEMMA InitIsMapped == Init => Service!Init
BY DEF Init, Service!Init, Live

\* Requests that are refused, answered with a duplicate's task, or worked on.
LEMMA RequestIsMapped ==
  ASSUME TypeOK, Fresh, StoreOK, DoneOK, NEW r \in Request, NEW m \in Message,
         RefuseUnsupported(r, m) \/ Replay(r, m) \/ RefuseContract(r, m) \/ CallHandler(r, m)
  PROVE  Service!Next
<1> DEFINE K == KeysOf(m)
<1>1. phase[r] = "idle"
  BY DEF RefuseUnsupported, Replay, RefuseContract, CallHandler
<1>2. Outcome' = Outcome
  <2>1. store' = store \/ store' = Live(store)
    BY DEF RefuseUnsupported, Replay, RefuseContract, CallHandler, Purged
  <2>2. now' = now
    BY DEF RefuseUnsupported, Replay, RefuseContract, CallHandler
  <2> QED
    BY <2>1, <2>2, PurgeIsHidden
<1>3. CASE RefuseUnsupported(r, m) \/ RefuseContract(r, m)
  <2>1. Answered(r, m, r, "failed")
    BY <1>3 DEF RefuseUnsupported, RefuseContract
  <2>2. /\ Asked[r] = None /\ Asked' = [Asked EXCEPT ![r] = K]
        /\ Answer' = [Answer EXCEPT ![r] = r]
    BY <1>1, <2>1, AnsweredShows
  <2>3. Service!Decline(r, K)
    BY <1>2, <2>2 DEF Service!Decline, Asked, Answer, Outcome
  <2> QED
    BY <2>3 DEF Service!Next
<1>4. CASE Replay(r, m)
  <2>1. PICK k \in Hit(m) : Answered(r, m, store[k].task, tasks[store[k].task])
    BY <1>4 DEF Replay
  <2>2. k \in KeysOf(m) /\ k \in Key /\ store[k] # None /\ store[k].expires > now
    BY HitIsLive
  <2>3. store[k].task \in Request /\ tasks[store[k].task] \in {"completed", "failed", "canceled", None}
    BY <2>2 DEF TypeOK, Slot
  <2>4. /\ Asked[r] = None /\ Asked' = [Asked EXCEPT ![r] = K]
        /\ Answer' = [Answer EXCEPT ![r] = store[k].task]
    BY <1>1, <2>1, <2>3, AnsweredShows
  <2>5. Outcome[k] = store[k].task /\ Outcome[k] # None
    BY <2>2, <2>3, NoneAssumption DEF Outcome, Live
  <2>6. Service!Recall(r, K)
    BY <1>2, <2>2, <2>4, <2>5 DEF Service!Recall, Asked, Answer, Outcome
  <2> QED
    BY <2>6 DEF Service!Next
<1>5. CASE CallHandler(r, m)
  <2>1. Asked[r] = None /\ Asked' = [Asked EXCEPT ![r] = K] /\ Answer' = Answer
    BY <1>1, <1>5, NoneAssumption DEF CallHandler, Asked, Answer, Fresh, TypeOK
  <2>2. Service!Accept(r, K)
    BY <1>2, <2>1 DEF Service!Accept, Asked, Answer, Outcome
  <2> QED
    BY <2>2 DEF Service!Next
<1> QED
  BY <1>3, <1>4, <1>5

\* A result is the first of each of its keys that the promise is made for.
LEMMA ResultIsMapped ==
  ASSUME RInv, NEW r \in Request, NEW s \in {"completed", "failed"}, HandlerReturns(r, s)
  PROVE  Service!Complete(r)
<1>1. TypeOK /\ DoneOK /\ SeenOK /\ SyncRunsAlone /\ Fresh /\ StoreOK /\ NoSequentialRerun
  BY DEF RInv, IInv
<1>2. /\ phase[r] = "running" /\ r \in Running
      /\ msg' = msg /\ msg[r] \in Message /\ msg[r] # None /\ reply[r] = None
      /\ reply' = [reply EXCEPT ![r] = [task |-> r, state |-> s]]
      /\ store' = Stored(r) /\ now' = now
  BY <1>1, NoneAssumption DEF HandlerReturns, Resumes, Answered, TypeOK, Fresh, Running
<1>3. Asked[r] = KeysOf(msg[r]) /\ Asked[r] # None /\ Asked' = Asked
  BY <1>2, NoneAssumption DEF Asked
<1>4. Answer[r] = None /\ Answer' = [Answer EXCEPT ![r] = r]
  <2>1. [task |-> r, state |-> s] # None
    BY NoneAssumption DEF Result
  <2> QED
    BY <1>1, <1>2, <2>1 DEF Answer, TypeOK
<1>5. ASSUME NEW k \in KeysOf(msg[r]) \cap SoloKeys
      PROVE  Outcome[k] = None
  <2>1. k \in Key
    BY DEF SoloKeys
  <2>2. seen[r] = done
    BY <1>1, <1>2 DEF SoloKeys, SyncRunsAlone, Supported, Handlers
  <2>3. CASE store[k] = None
    BY <2>1, <2>3 DEF Outcome, Live
  <2>4. CASE store[k] # None
    <3> DEFINE o == store[k].task
    <3>1. o \in done /\ store[k].expires = finish[o] + TTL /\ k \in KeysOf(msg[o])
      BY <1>1, <2>1, <2>4 DEF StoreOK
    <3>2. finish[o] + TTL <= start[r]
      BY <1>1, <2>2, <3>1 DEF NoSequentialRerun, Share
    <3>3. start[r] <= now /\ start[r] \in Nat /\ now \in Nat /\ finish[o] \in Nat
      BY <1>1, <3>1 DEF SeenOK, TypeOK
    <3>4. ~(store[k].expires > now)
      BY <3>1, <3>2, <3>3, TimeAssumption
    <3> QED
      BY <2>1, <3>4 DEF Outcome, Live
  <2> QED
    BY <2>3, <2>4
<1>6. Outcome' = [k \in Key |-> IF k \in KeysOf(msg[r]) THEN r ELSE Outcome[k]]
  <2>1. ASSUME NEW k \in Key
        PROVE  Outcome'[k] = IF k \in KeysOf(msg[r]) THEN r ELSE Outcome[k]
    <3>1. CASE k \in KeysOf(msg[r])
      <4>1. store'[k] = [task |-> r, expires |-> now + TTL]
        BY <1>2, <3>1 DEF Stored
      <4>2. now + TTL > now /\ now + TTL \in Nat
        BY <1>1, TimeAssumption DEF TypeOK
      <4>3. store'[k] # None
        BY <4>1, <4>2, NoneAssumption DEF Slot
      <4> QED
        BY <1>2, <3>1, <4>1, <4>2, <4>3 DEF Outcome, Live
    <3>2. CASE k \notin KeysOf(msg[r])
      <4>1. store'[k] = store[k]
        BY <1>2, <3>2 DEF Stored
      <4> QED
        BY <1>2, <3>2, <4>1 DEF Outcome, Live
    <3> QED
      BY <3>1, <3>2
  <2> QED
    BY <2>1 DEF Outcome
<1> QED
  BY <1>3, <1>4, <1>5, <1>6 DEF Service!Complete, Asked, Answer, Outcome

\* What was promised lapses with time and with the process.
LEMMA LapseIsMapped == TypeOK /\ (Tick \/ Restart) => Service!Forget
<1> SUFFICES ASSUME TypeOK, Tick \/ Restart
             PROVE  Service!Forget
  OBVIOUS
<1>1. Asked' = Asked /\ Answer' = Answer
  BY DEF Tick, Restart, server, Asked, Answer
<1>2. ASSUME NEW k \in Key
      PROVE  Outcome'[k] = Outcome[k] \/ Outcome'[k] = None
  <2>1. CASE Tick
    <3>1. store' = store /\ now' = now + 1 /\ now \in Nat
      BY <2>1 DEF Tick, server, TypeOK
    <3>2. store[k] = None \/ store[k].expires \in Nat
      BY DEF TypeOK, Slot
    <3> QED
      BY <3>1, <3>2 DEF Outcome, Live
  <2>2. CASE Restart
    BY <2>2 DEF Restart, Outcome, Live
  <2> QED
    BY <2>1, <2>2
<1>3. DOMAIN Outcome' = Key
  BY DEF Outcome
<1> QED
  BY <1>1, <1>2, <1>3 DEF Service!Forget, Asked, Answer, Outcome

\* The loop's and the SDK's own steps do not show.
LEMMA RestIsHidden ==
  ASSUME TypeOK,
         UNCHANGED vars \/ \E r \in Request : HandlerRaises(r) \/ Deliver(r) \/ Cancel(r)
  PROVE  UNCHANGED Service!vars
<1>1. UNCHANGED <<msg, reply, store, now>>
  BY DEF vars, server, HandlerRaises, Deliver, Cancel
<1> QED
  BY <1>1 DEF Service!vars, Live

\* handle_message implements OnceService: whatever the requests, messages, handlers and
\* restarts, every answer is the request's own or that of a duplicate whose outcome has not
\* lapsed, and work completes under a solo key only while the key has no outcome.
THEOREM ImplementsOnceService == Spec => ServiceSpec
<1>1. RInv /\ [Next]_vars => [Service!Next]_(Service!vars)
  <2> SUFFICES ASSUME RInv, [Next]_vars
               PROVE  Service!Next \/ UNCHANGED Service!vars
    OBVIOUS
  <2>1. TypeOK /\ Fresh /\ StoreOK /\ DoneOK
    BY DEF RInv, IInv
  <2>2. ASSUME NEW r \in Request, NEW s \in {"completed", "failed"}, HandlerReturns(r, s)
        PROVE  Service!Next
    BY <2>2, ResultIsMapped DEF Service!Next
  <2>3. ASSUME Tick \/ Restart
        PROVE  Service!Next
    BY <2>1, <2>3, LapseIsMapped DEF Service!Next
  <2> QED
    BY <2>1, <2>2, <2>3, RequestIsMapped, RestIsHidden DEF Next
<1> QED
  BY <1>1, InitIsMapped, RInvariance, PTL DEF Spec, ServiceSpec, Service!Spec
=============================================================================
