------------------------- MODULE AgentPresenceProofs -------------------------
(***************************************************************************)
(* Proofs about AgentPresence, for every list of Seeds, every lease and    *)
(* step, and all bounds.                                                   *)
(*                                                                         *)
(* That the renew loop runs exactly while the agent is joined needs to be  *)
(* told apart by what each coroutine can be calling: the loop calls while  *)
(* its timer is at zero, and never join(), as joined is never empty then   *)
(* (CallsOK).  That the agent is listed as long as nothing fails rests on  *)
(* the lease outlasting the timer by a step (Fresh, Ahead), while a renew  *)
(* given up by a leave may still be handled.                               *)
(***************************************************************************)
EXTENDS AgentPresence, SequenceTheorems, FiniteSetTheorems, TLAPS

\* What a coroutine can be calling, and when.
CallsOK ==
    /\ call["app"] # None =>
         \/ call["app"].op = "join" /\ app = "starting"
         \/ call["app"].op = "leave" /\ app = "up"
    /\ call["loop"] # None => call["loop"].op = "renew" /\ timer = 0 /\ joined # {}

PresenceInv ==
    /\ TypeOK /\ CallsOK /\ JoinedIsRenewed
    /\ app \in {"starting", "stopped"} => attempts < StartAttempts
    /\ app = "up" <=> joined # {}
    /\ timer # None => timer <= Interval

-----------------------------------------------------------------------------
(* While nothing fails *)

\* The loop wakes at least a step before either lease is over.
RenewsInTime ==
    /\ Interval + Step <= Granted(LeaseSeconds)
    /\ Interval + Step <= DefaultLease

Calm == RenewsInTime /\ faults = 0 /\ restarts = 0

\* The Seed that is asked first, and in calm the only one that is asked.
First == Head(Seeds)

Fresh == entry[First].lease >= Interval + Step

\* The lease is ahead of the timer, so that a step leaves it above zero.
Ahead ==
    /\ entry[First].lease > 0
    /\ timer # None /\ timer > 0 => entry[First].lease >= timer + Step

AppHandled == call["app"] # None /\ call["app"].stage # "sent"

CalmInv ==
    /\ late \subseteq {"renew"} \X Seed
    /\ joined \subseteq {First}
    /\ \A c \in Caller : call[c] # None => Head(call[c].todo) = First
    /\ AppHandled /\ call["app"].op = "join" =>
         entry[First] # None /\ entry[First].available /\ Fresh
    /\ joined # {} /\ ~AppHandled =>
         /\ entry[First] # None /\ entry[First].available /\ Ahead
         /\ call["loop"] # None /\ call["loop"].stage # "sent" => Fresh

IInv == PresenceInv /\ (Calm => CalmInv)

-----------------------------------------------------------------------------
(* Seeds, leases and calls *)

LEMMA SeedFacts ==
  /\ Seeds \in Seq(Seed) \ {<<>>} /\ First \in Seed /\ Seed \subseteq STRING
  /\ Len(Seeds) \in Nat /\ DOMAIN Seeds = 1..Len(Seeds)
  /\ IsFiniteSet(Seed)
<1>1. /\ Seeds \in [1..Len(Seeds) -> STRING] /\ Len(Seeds) \in Nat /\ DOMAIN Seeds = 1..Len(Seeds)
  BY PresenceAssumption, LenProperties
<1>2. Seed = {Seeds[i] : i \in 1..Len(Seeds)} /\ Seed \subseteq STRING
  BY <1>1 DEF Seed, Range
<1>3. Seeds \in [1..Len(Seeds) -> Seed]
  BY <1>1, <1>2
<1>4. Seeds \in Seq(Seed)
  BY <1>1, <1>3, SeqDef
<1>5. First \in Seed
  BY <1>4, PresenceAssumption, HeadTailProperties DEF First
<1>6. IsFiniteSet(Seed)
  <2>1. Seeds \in Surjection(1..Len(Seeds), Seed)
    BY <1>2, <1>3 DEF Surjection
  <2>2. IsFiniteSet(1..Len(Seeds))
    BY <1>1, FS_Interval
  <2> QED
    BY <2>1, <2>2, FS_Surjection
<1> QED
  BY <1>1, <1>2, <1>4, <1>5, <1>6, PresenceAssumption

LEMMA LeaseFacts ==
  /\ Interval \in Nat /\ Interval > 0
  /\ Granted(LeaseSeconds) \in 0..MaxLease /\ DefaultLease \in 0..MaxLease
  /\ Step \in Nat /\ Step > 0
BY PresenceAssumption, LeaseAssumption DEF Interval, Granted

LEMMA MinusFacts ==
  ASSUME NEW t \in Nat
  PROVE  Minus(t) \in Nat /\ Minus(t) <= t
BY PresenceAssumption DEF Minus

\* What _message_any goes through: a joined Seed comes first.
LEMMA OrderFacts ==
  ASSUME joined \subseteq Seed, joined # {}, NEW todo \in MessageAnyOrders
  PROVE  todo \in Seq(Seed) \ {<<>>} /\ Head(todo) \in joined
<1>1. PICK front \in SetToSeqs(joined), rest \in Others : todo = front \o rest
  BY DEF MessageAnyOrders
<1>2. IsFiniteSet(joined) /\ Cardinality(joined) \in Nat
  BY SeedFacts, FS_Subset, FS_CardinalityType
<1>3. Cardinality(joined) > 0
  BY <1>2, FS_EmptySet
<1>4. front \in [1..Cardinality(joined) -> joined]
  BY DEF SetToSeqs
<1>5. front \in Seq(joined) /\ Len(front) = Cardinality(joined)
  BY <1>2, <1>4
<1>6. front \in Seq(Seed)
  BY <1>5, SeqMonotonic
<1>7. rest \in Seq(Seed)
  <2> DEFINE places == {i \in DOMAIN Seeds : Seeds[i] \notin joined}
  <2>1. PICK p \in SetToSeqs(places) : rest = [n \in DOMAIN p |-> Seeds[p[n]]]
    BY DEF Others
  <2>2. p \in [1..Cardinality(places) -> places]
    BY <2>1 DEF SetToSeqs
  <2>3. IsFiniteSet(DOMAIN Seeds)
    BY SeedFacts, FS_Interval
  <2>4. Cardinality(places) \in Nat
    BY <2>3, FS_Subset, FS_CardinalityType
  <2>5. \A i \in DOMAIN Seeds : Seeds[i] \in Seed
    BY DEF Seed, Range
  <2>6. rest \in [1..Cardinality(places) -> Seed]
    BY <2>1, <2>2, <2>5
  <2>7. \A k \in Nat : \A f \in [1..k -> Seed] : f \in Seq(Seed)
    OBVIOUS
  <2> QED
    BY <2>4, <2>6, <2>7
<1>8. todo \in Seq(Seed) /\ Len(todo) = Len(front) + Len(rest) /\ todo[1] = front[1]
      /\ Len(rest) \in Nat
  <2>1. Len(rest) \in Nat /\ Len(front) \in Nat
    BY <1>6, <1>7, LenProperties
  <2>2. /\ todo \in Seq(Seed) /\ Len(todo) = Len(front) + Len(rest)
        /\ \A i \in 1..Len(front) + Len(rest) :
             todo[i] = IF i <= Len(front) THEN front[i] ELSE rest[i - Len(front)]
    BY <1>1, <1>6, <1>7, ConcatProperties
  <2>3. 1 \in 1..Len(front) + Len(rest) /\ 1 <= Len(front)
    BY <1>2, <1>3, <1>5, <2>1
  <2> QED
    BY <2>1, <2>2, <2>3
<1>9. todo # <<>>
  BY <1>2, <1>3, <1>5, <1>8, EmptySeq
<1> QED
  BY <1>2, <1>3, <1>4, <1>8, <1>9

LEMMA CallFacts ==
  ASSUME NEW i \in Calls
  PROVE  i # None /\ Head(i.todo) \in Seed /\ i.todo \in Seq(Seed) /\ i.todo # <<>>
BY NoneAssumption, HeadTailProperties DEF Calls

LEMMA EntryFacts ==
  /\ \A e \in Entry : e # None /\ e.lease \in Nat
  /\ \A n \in Nat : n # None
BY LeaseAssumption, NoneAssumption DEF Entry

LEMMA JoinedEntry ==
  ASSUME NEW e, e = [available |-> TRUE, lease |-> Granted(LeaseSeconds)]
  PROVE  e \in Entry /\ e # None /\ e.available /\ e.lease = Granted(LeaseSeconds)
<1>1. e \in Entry
  BY LeaseFacts DEF Entry
<1>2. e.available /\ e.lease = Granted(LeaseSeconds)
  OBVIOUS
<1> QED
  BY <1>1, <1>2, EntryFacts

\* What each request makes of an entry.
LEMMA HandledFacts ==
  ASSUME NEW s \in Seed, entry \in [Seed -> Entry \cup {None}]
  PROVE  /\ Handled("join", s) = [available |-> TRUE, lease |-> Granted(LeaseSeconds)]
         /\ entry[s] # None => Handled("renew", s) = [entry[s] EXCEPT !.lease = DefaultLease]
         /\ entry[s] = None => Handled("renew", s) = None
         /\ \A op \in {"join", "renew", "leave"} : Handled(op, s) \in Entry \cup {None}
<1>1. Handled("join", s) = [available |-> TRUE, lease |-> Granted(LeaseSeconds)]
  BY DEF Handled
<1>2. entry[s] # None => Handled("renew", s) = [entry[s] EXCEPT !.lease = DefaultLease]
  BY DEF Handled, Accepts
<1>3. entry[s] = None => Handled("renew", s) = None
  BY DEF Handled, Accepts
<1>4. Handled("leave", s) \in {None, [available |-> FALSE, lease |-> 0]}
  BY DEF Handled, Accepts
<1>5. [available |-> TRUE, lease |-> Granted(LeaseSeconds)] \in Entry
      /\ [available |-> FALSE, lease |-> 0] \in Entry
  BY LeaseFacts, LeaseAssumption DEF Entry
<1>6. entry[s] # None => [entry[s] EXCEPT !.lease = DefaultLease] \in Entry
  BY LeaseFacts DEF Entry
<1> QED
  BY <1>1, <1>2, <1>3, <1>4, <1>5, <1>6

-----------------------------------------------------------------------------
(* The steps *)

\* A renew that is handled lengthens the first Seed's lease and changes nothing else.
LEMMA RenewFacts ==
  ASSUME entry \in [Seed -> Entry \cup {None}], RenewsInTime,
         entry[First] # None, entry[First].available,
         entry' = [entry EXCEPT ![First] = Handled("renew", First)]
  PROVE  entry'[First] # None /\ entry'[First].available /\ entry'[First].lease = DefaultLease
<1>1. First \in Seed /\ entry[First] \in Entry
  BY SeedFacts
<1>2. entry'[First] = [entry[First] EXCEPT !.lease = DefaultLease]
  BY <1>1, HandledFacts
<1>3. entry'[First] \in Entry
  BY <1>1, <1>2, LeaseFacts DEF Entry
<1>4. entry'[First].lease = DefaultLease /\ entry'[First].available = entry[First].available
  BY <1>1, <1>2 DEF Entry
<1> QED
  BY <1>3, <1>4, EntryFacts

LEMMA HandlesKeeps ==
  ASSUME IInv, NEW c \in Caller, SeedHandles(c)
  PROVE  IInv'
<1> DEFINE s == Head(call[c].todo)
           op == call[c].op
           stage == IF Accepts(op, s) THEN "accepted" ELSE "rejected"
<1>1. /\ call[c] # None /\ call[c].stage = "sent"
      /\ call' = [call EXCEPT ![c].stage = stage]
      /\ entry' = [entry EXCEPT ![s] = Handled(op, s)]
      /\ UNCHANGED <<late, app, attempts, joined, timer, faults, restarts>>
  BY DEF SeedHandles, counts
<1>2. TypeOK /\ call \in [Caller -> Calls \cup {None}] /\ entry \in [Seed -> Entry \cup {None}]
  BY DEF IInv, PresenceInv, TypeOK
<1>3. call[c] \in Calls /\ s \in Seed /\ op \in {"join", "renew", "leave"}
  BY <1>1, <1>2, CallFacts DEF Calls
<1>4. Handled(op, s) \in Entry \cup {None}
  BY <1>2, <1>3, HandledFacts
<1>5. stage \in {"accepted", "rejected"}
  OBVIOUS
<1> HIDE DEF stage
<1>6. /\ call'[c] \in Calls /\ call'[c].op = op /\ call'[c].todo = call[c].todo
      /\ call'[c].stage = stage
      /\ \A d \in Caller \ {c} : call'[d] = call[d]
  BY <1>1, <1>2, <1>3, <1>5 DEF Calls
<1>7. call' \in [Caller -> Calls \cup {None}] /\ call'[c] # None
  BY <1>1, <1>2, <1>6, CallFacts
<1>8. TypeOK'
  BY <1>1, <1>2, <1>4, <1>7 DEF TypeOK
<1>9. CallsOK'
  BY <1>1, <1>6 DEF IInv, PresenceInv, CallsOK
<1>10. PresenceInv'
  BY <1>1, <1>8, <1>9 DEF IInv, PresenceInv, JoinedIsRenewed
<1>11. ASSUME Calm
       PROVE  CalmInv'
  <2>0. RenewsInTime
    BY <1>11 DEF Calm
  <2>1. /\ late \subseteq {"renew"} \X Seed
        /\ joined \subseteq {First}
        /\ \A d \in Caller : call[d] # None => Head(call[d].todo) = First
    BY <1>11 DEF IInv, CalmInv
  <2>2. s = First
    BY <1>1, <2>1
  <2>3. \A d \in Caller : call'[d] # None => Head(call'[d].todo) = First
    BY <1>1, <1>6, <2>1
  <2>4. CASE c = "app" /\ op = "join"
    <3>1. entry'[First] = [available |-> TRUE, lease |-> Granted(LeaseSeconds)]
      BY <1>1, <1>2, <1>3, <2>2, <2>4, HandledFacts
    <3>2. entry'[First] # None /\ entry'[First].available /\ entry'[First].lease = Granted(LeaseSeconds)
      BY <3>1, JoinedEntry
    <3>3. joined' = {}
      BY <1>1, <2>4 DEF IInv, PresenceInv, CallsOK
    <3> QED
      BY <1>1, <2>0, <2>1, <2>3, <3>2, <3>3 DEF CalmInv, Fresh, RenewsInTime
  <2>5. CASE c = "app" /\ op # "join"
    <3>1. AppHandled' /\ call'["app"].op # "join"
      BY <1>5, <1>6, <1>7, <2>5 DEF AppHandled
    <3> QED
      BY <1>1, <2>1, <2>3, <3>1 DEF CalmInv
  <2>6. CASE c = "loop"
    <3>1. op = "renew" /\ timer = 0 /\ joined # {}
      BY <1>1, <2>6 DEF IInv, PresenceInv, CallsOK
    <3>2. call'["app"] = call["app"] /\ AppHandled' = AppHandled
      BY <1>6, <2>6 DEF AppHandled, Caller
    <3>3. AppHandled => call["app"].op # "join"
      BY <3>1 DEF IInv, PresenceInv, CallsOK, AppHandled
    <3>4. ~AppHandled => entry[First] # None /\ entry[First].available
      BY <1>11, <3>1 DEF IInv, CalmInv
    <3>5. ~AppHandled =>
            /\ entry'[First] # None /\ entry'[First].available
            /\ entry'[First].lease = DefaultLease
      BY <1>1, <1>2, <2>0, <2>2, <3>1, <3>4, RenewFacts
    <3>6. ~AppHandled => Ahead' /\ Fresh'
      BY <1>1, <2>0, <3>1, <3>5, LeaseFacts DEF Ahead, Fresh, RenewsInTime
    <3> QED
      BY <1>1, <2>1, <2>3, <3>2, <3>3, <3>5, <3>6 DEF CalmInv
  <2> QED
    BY <2>4, <2>5, <2>6 DEF Caller
<1> QED
  BY <1>1, <1>10, <1>11 DEF IInv, Calm

LEMMA LateKeeps ==
  ASSUME IInv, NEW op \in {"join", "renew", "leave"}, NEW s \in Seed,
         LateHandled(op, s)
  PROVE  IInv'
<1>1. /\ <<op, s>> \in late /\ late' = late \ {<<op, s>>}
      /\ entry' = [entry EXCEPT ![s] = Handled(op, s)]
      /\ UNCHANGED <<app, attempts, call, joined, timer, faults, restarts>>
  BY DEF LateHandled, agent, counts
<1>2. TypeOK /\ entry \in [Seed -> Entry \cup {None}]
  BY DEF IInv, PresenceInv, TypeOK
<1>3. Handled(op, s) \in Entry \cup {None}
  BY <1>2, HandledFacts
<1>4. TypeOK'
  BY <1>1, <1>2, <1>3 DEF TypeOK
<1>5. PresenceInv'
  BY <1>1, <1>4 DEF IInv, PresenceInv, CallsOK, JoinedIsRenewed
<1>6. ASSUME Calm
      PROVE  CalmInv'
  <2>1. CalmInv /\ RenewsInTime
    BY <1>6 DEF IInv, Calm
  <2>2. op = "renew"
    BY <1>1, <2>1 DEF CalmInv
  <2>3. AppHandled' = AppHandled
    BY <1>1 DEF AppHandled
  <2>4. CASE s # First
    <3>1. entry'[First] = entry[First]
      BY <1>1, <1>2, <2>4, SeedFacts
    <3> QED
      BY <1>1, <2>1, <2>3, <3>1 DEF CalmInv, Ahead, Fresh
  <2>5. CASE s = First
    <3>1. entry[First] # None /\ entry[First].available =>
            /\ entry'[First] # None /\ entry'[First].available
            /\ entry'[First].lease = DefaultLease
      BY <1>1, <1>2, <2>1, <2>2, <2>5, RenewFacts
    <3>2. timer # None => timer <= Interval /\ timer \in Nat
      BY <1>2 DEF IInv, PresenceInv, TypeOK
    <3>3. entry'[First].lease = DefaultLease => Fresh' /\ Ahead'
      BY <1>1, <2>1, <3>2, LeaseFacts DEF Fresh, Ahead, RenewsInTime
    <3> QED
      BY <1>1, <2>1, <2>3, <3>1, <3>3 DEF CalmInv
  <2> QED
    BY <2>4, <2>5
<1> QED
  BY <1>1, <1>5, <1>6 DEF IInv, Calm

LEMMA SeedRestartKeeps ==
  ASSUME IInv, NEW s \in Seed, SeedRestarts(s)
  PROVE  IInv'
<1>1. /\ restarts < MaxRestarts /\ restarts' = restarts + 1
      /\ entry' = [entry EXCEPT ![s] = None]
      /\ UNCHANGED <<late, app, attempts, call, joined, timer, faults>>
  BY DEF SeedRestarts, agent
<1>2. TypeOK' /\ restarts' > 0
  BY <1>1, PresenceAssumption DEF IInv, PresenceInv, TypeOK
<1> QED
  BY <1>1, <1>2 DEF IInv, PresenceInv, CallsOK, JoinedIsRenewed, Calm

LEMMA StartJoinKeeps == ASSUME IInv, StartJoin PROVE IInv'
<1>1. /\ app \in {"starting", "left"} /\ call["app"] = None /\ app' = "starting"
      /\ call' = [call EXCEPT !["app"] = JoinCall]
      /\ attempts' = IF app = "left" THEN 0 ELSE attempts
      /\ UNCHANGED <<entry, late, joined, timer, faults, restarts>>
  BY DEF StartJoin, counts
<1>2. TypeOK /\ call \in [Caller -> Calls \cup {None}]
  BY DEF IInv, PresenceInv, TypeOK
<1>3. JoinCall \in Calls /\ JoinCall.op = "join" /\ JoinCall.stage = "sent" /\ JoinCall.todo = Seeds
  BY SeedFacts DEF JoinCall, Call, Calls
<1>4. /\ call' \in [Caller -> Calls \cup {None}]
      /\ call'["app"] = JoinCall /\ call'["loop"] = call["loop"]
  BY <1>1, <1>2, <1>3 DEF Caller
<1>5. joined = {} /\ call["loop"] = None
  BY <1>1 DEF IInv, PresenceInv, CallsOK
<1>6. TypeOK' /\ (attempts' < StartAttempts)
  BY <1>1, <1>2, <1>4, PresenceAssumption DEF IInv, PresenceInv, TypeOK
<1>7. PresenceInv'
  BY <1>1, <1>3, <1>4, <1>5, <1>6 DEF IInv, PresenceInv, CallsOK, JoinedIsRenewed
<1>8. ASSUME Calm
      PROVE  CalmInv'
  BY <1>1, <1>3, <1>4, <1>5, <1>8 DEF IInv, CalmInv, AppHandled, First, Caller
<1> QED
  BY <1>1, <1>7, <1>8 DEF IInv, Calm

LEMMA StartLeaveKeeps == ASSUME IInv, StartLeave PROVE IInv'
<1>1. PICK todo \in MessageAnyOrders :
        /\ app = "up" /\ call["app"] = None
        /\ call' = [call EXCEPT !["app"] = Call("leave", todo)]
        /\ UNCHANGED <<entry, late, app, attempts, joined, timer, faults, restarts>>
  BY DEF StartLeave, counts
<1>2. TypeOK /\ call \in [Caller -> Calls \cup {None}] /\ joined # {} /\ joined \subseteq Seed
  BY <1>1 DEF IInv, PresenceInv, TypeOK
<1>3. todo \in Seq(Seed) \ {<<>>} /\ Head(todo) \in joined
  BY <1>2, OrderFacts
<1> DEFINE new == Call("leave", todo)
<1>4. new \in Calls /\ new.op = "leave" /\ new.stage = "sent" /\ new.todo = todo
  BY <1>3 DEF Call, Calls
<1> HIDE DEF new
<1>5. /\ call' \in [Caller -> Calls \cup {None}]
      /\ call'["app"] = new /\ call'["loop"] = call["loop"]
  BY <1>1, <1>2, <1>4 DEF Caller, new
<1>6. TypeOK'
  BY <1>1, <1>2, <1>5 DEF TypeOK
<1>7. PresenceInv'
  BY <1>1, <1>4, <1>5, <1>6 DEF IInv, PresenceInv, CallsOK, JoinedIsRenewed
<1>8. ASSUME Calm
      PROVE  CalmInv'
  <2>1. CalmInv /\ ~AppHandled /\ ~AppHandled'
    BY <1>1, <1>4, <1>5, <1>8 DEF IInv, AppHandled
  <2>2. \A c \in Caller : call'[c] # None => Head(call'[c].todo) = First
    BY <1>3, <1>4, <1>5, <2>1 DEF CalmInv, Caller
  <2> QED
    BY <1>1, <1>5, <2>1, <2>2 DEF CalmInv, Ahead, Fresh
<1> QED
  BY <1>1, <1>7, <1>8 DEF IInv, Calm

LEMMA WakesKeeps == ASSUME IInv, LoopWakes PROVE IInv'
<1>0. TypeOK /\ call \in [Caller -> Calls \cup {None}] /\ joined \subseteq Seed
  BY DEF IInv, PresenceInv, TypeOK
<1>1. timer = 0 /\ call["loop"] = None /\ joined # {}
  BY EntryFacts DEF LoopWakes, IInv, PresenceInv, JoinedIsRenewed
<1>2. PICK todo \in MessageAnyOrders :
        /\ call' = [call EXCEPT !["loop"] = Call("renew", todo)]
        /\ UNCHANGED <<entry, late, app, attempts, joined, timer, faults, restarts>>
  BY <1>1 DEF LoopWakes, counts
<1>3. todo \in Seq(Seed) \ {<<>>} /\ Head(todo) \in joined
  BY <1>0, <1>1, OrderFacts
<1> DEFINE new == Call("renew", todo)
<1>4. new \in Calls /\ new.op = "renew" /\ new.stage = "sent" /\ new.todo = todo
  BY <1>3 DEF Call, Calls
<1> HIDE DEF new
<1>5. /\ call' \in [Caller -> Calls \cup {None}]
      /\ call'["loop"] = new /\ call'["app"] = call["app"]
  BY <1>0, <1>2, <1>4 DEF Caller, new
<1>6. TypeOK'
  BY <1>0, <1>2, <1>5 DEF TypeOK
<1>7. PresenceInv'
  BY <1>1, <1>2, <1>4, <1>5, <1>6 DEF IInv, PresenceInv, CallsOK, JoinedIsRenewed
<1>8. ASSUME Calm
      PROVE  CalmInv'
  <2>1. CalmInv /\ AppHandled' = AppHandled
    BY <1>5, <1>8 DEF IInv, AppHandled
  <2>2. \A c \in Caller : call'[c] # None => Head(call'[c].todo) = First
    BY <1>3, <1>4, <1>5, <2>1 DEF CalmInv, Caller
  <2> QED
    BY <1>2, <1>4, <1>5, <2>1, <2>2 DEF CalmInv, Ahead, Fresh
<1> QED
  BY <1>2, <1>7, <1>8 DEF IInv, Calm

\* A failed attempt leaves calm behind; what it changes of the client is of no
\* consequence to where it is joined.
LEMMA FaultKeeps ==
  ASSUME IInv, NEW c \in Caller, Unreached(c) \/ TimesOut(c) \/ ReplyLost(c)
  PROVE  IInv'
<1>1. /\ call[c] # None /\ NextSeed(c) /\ UNCHANGED <<entry, restarts>>
      /\ faults < MaxFaults /\ faults' = faults + 1
      /\ late' \in {late, late \cup {<<call[c].op, Head(call[c].todo)>>}}
  BY DEF Unreached, TimesOut, ReplyLost, Fault
<1>2. TypeOK /\ call \in [Caller -> Calls \cup {None}] /\ call[c] \in Calls
  BY <1>1 DEF IInv, PresenceInv, TypeOK
<1>3. late' \in SUBSET Request
  <2>1. <<call[c].op, Head(call[c].todo)>> \in Request
    BY <1>2, CallFacts DEF Request, Calls
  <2> QED
    BY <1>1, <1>2, <2>1 DEF TypeOK
<1>4. faults' \in 0..MaxFaults /\ faults' # 0
  BY <1>1, <1>2, PresenceAssumption DEF TypeOK
<1>5. CASE Len(call[c].todo) > 1
  <2> DEFINE new == [call[c] EXCEPT !.todo = Tail(call[c].todo), !.stage = "sent"]
  <2>1. /\ call' = [call EXCEPT ![c] = new]
        /\ UNCHANGED <<app, attempts, joined, timer>>
    BY <1>1, <1>2, <1>5 DEF NextSeed
  <2>2. Tail(call[c].todo) \in Seq(Seed) \ {<<>>}
    <3>1. call[c].todo \in Seq(Seed) /\ call[c].todo # <<>>
      BY <1>2, CallFacts
    <3>2. Tail(call[c].todo) \in Seq(Seed) /\ Len(Tail(call[c].todo)) = Len(call[c].todo) - 1
          /\ Len(call[c].todo) \in Nat
      BY <3>1, HeadTailProperties, LenProperties
    <3>3. Len(call[c].todo) = 1 => ~(Len(call[c].todo) > 1)
      OBVIOUS
    <3>4. Tail(call[c].todo) = <<>> => Len(call[c].todo) = 1
      <4> DEFINE rest == Tail(call[c].todo)
      <4>1. Len(<<>>) = 0
        OBVIOUS
      <4>2. Len(rest) = Len(call[c].todo) - 1 /\ Len(call[c].todo) \in Nat
        BY <3>2
      <4> HIDE DEF rest
      <4>3. rest = <<>> => Len(call[c].todo) = 1
        BY <4>1, <4>2
      <4> QED
        BY <4>3 DEF rest
    <3> QED
      BY <1>5, <3>2, <3>3, <3>4
  <2>3. new \in Calls /\ new.op = call[c].op
    BY <1>2, <2>2 DEF Calls
  <2> HIDE DEF new
  <2>4. /\ call' \in [Caller -> Calls \cup {None}]
        /\ call'[c] = new /\ \A d \in Caller \ {c} : call'[d] = call[d]
    BY <1>2, <2>1, <2>3
  <2>5. TypeOK'
    BY <1>1, <1>2, <1>3, <1>4, <2>1, <2>4 DEF TypeOK
  <2>6. CallsOK'
    BY <1>1, <2>1, <2>3, <2>4 DEF IInv, PresenceInv, CallsOK
  <2> QED
    BY <1>4, <2>1, <2>5, <2>6 DEF IInv, PresenceInv, JoinedIsRenewed, Calm
<1>6. CASE ~(Len(call[c].todo) > 1)
  <2>1. Raised(c)
    BY <1>1, <1>6 DEF NextSeed
  <2>2. /\ call' = [call EXCEPT ![c] = None] /\ joined' = joined
        /\ timer' = IF c = "loop" THEN Interval ELSE timer
        /\ \/ /\ c = "app" /\ app = "starting" /\ attempts' = attempts + 1
              /\ app' = IF attempts + 1 < StartAttempts THEN app ELSE "gaveup"
           \/ UNCHANGED <<app, attempts>>
    BY <2>1 DEF Raised
  <2>3. /\ call' \in [Caller -> Calls \cup {None}]
        /\ call'[c] = None /\ \A d \in Caller \ {c} : call'[d] = call[d]
    BY <1>2, <2>2
  <2>4. /\ attempts' \in 0..StartAttempts
        /\ app' \in {"starting", "up", "gaveup", "left", "stopped"}
        /\ app' \in {"starting", "stopped"} => attempts' < StartAttempts
        /\ app' = app \/ (app = "starting" /\ app' = "gaveup" /\ c = "app")
    BY <1>2, <2>2, PresenceAssumption DEF IInv, PresenceInv, TypeOK
  <2>5. TypeOK'
    BY <1>1, <1>2, <1>3, <1>4, <2>2, <2>3, <2>4, LeaseFacts DEF TypeOK
  <2>6. CallsOK'
    BY <1>1, <2>2, <2>3, <2>4 DEF IInv, PresenceInv, CallsOK, Caller
  <2>7. JoinedIsRenewed' /\ (timer' # None => timer' <= Interval)
    BY <1>1, <2>2, LeaseFacts, EntryFacts DEF IInv, PresenceInv, JoinedIsRenewed, CallsOK
  <2> QED
    BY <1>4, <2>2, <2>4, <2>5, <2>6, <2>7 DEF IInv, PresenceInv, Calm
<1> QED
  BY <1>5, <1>6

LEMMA JoinReturnsKeeps == ASSUME IInv, NEW c \in Caller, JoinReturns(c) PROVE IInv'
<1> DEFINE s == Head(call[c].todo)
<1>1. /\ call[c] # None /\ call[c].op = "join" /\ call[c].stage = "accepted"
      /\ joined' = joined \cup {s}
      /\ timer' = IF c = "loop" THEN Interval ELSE StartedTimer
      /\ app' = IF c = "app" THEN "up" ELSE app
      /\ call' = [call EXCEPT ![c] = None]
      /\ UNCHANGED <<entry, late, attempts, faults, restarts>>
  BY DEF JoinReturns, counts
<1>2. TypeOK /\ call \in [Caller -> Calls \cup {None}] /\ s \in Seed
  BY <1>1, CallFacts DEF IInv, PresenceInv, TypeOK
<1>3. c = "app" /\ app = "starting" /\ joined = {} /\ timer = None /\ call["loop"] = None
  BY <1>1 DEF IInv, PresenceInv, CallsOK, JoinedIsRenewed, Caller
<1>4. joined' = {s} /\ timer' = Interval /\ app' = "up"
  BY <1>1, <1>3 DEF StartedTimer
<1>5. call' \in [Caller -> Calls \cup {None}] /\ call'["app"] = None /\ call'["loop"] = None
  BY <1>1, <1>2, <1>3 DEF Caller
<1>6. TypeOK'
  BY <1>1, <1>2, <1>4, <1>5, LeaseFacts DEF TypeOK
<1>7. PresenceInv'
  BY <1>4, <1>5, <1>6, LeaseFacts, EntryFacts DEF PresenceInv, CallsOK, JoinedIsRenewed
<1>8. ASSUME Calm
      PROVE  CalmInv'
  <2>1. /\ s = First /\ AppHandled /\ entry[First] # None /\ entry[First].available /\ Fresh
        /\ late \subseteq {"renew"} \X Seed
    BY <1>1, <1>3, <1>8 DEF IInv, CalmInv, AppHandled
  <2>2. entry[First].lease \in Nat
    BY <1>2, <2>1, SeedFacts, EntryFacts DEF TypeOK
  <2>3. Ahead'
    BY <1>1, <1>4, <2>1, <2>2, LeaseFacts DEF Ahead, Fresh
  <2> QED
    BY <1>1, <1>4, <1>5, <2>1, <2>3 DEF CalmInv, AppHandled, Caller
<1> QED
  BY <1>1, <1>7, <1>8 DEF IInv, Calm

LEMMA RenewReturnsKeeps == ASSUME IInv, NEW c \in Caller, RenewReturns(c) PROVE IInv'
<1>1. /\ call[c] # None /\ call[c].op = "renew" /\ call[c].stage # "sent"
      /\ timer' = Interval /\ call' = [call EXCEPT ![c] = None]
      /\ UNCHANGED <<entry, late, app, attempts, joined, faults, restarts>>
  BY DEF RenewReturns, counts
<1>2. TypeOK /\ call \in [Caller -> Calls \cup {None}]
  BY DEF IInv, PresenceInv, TypeOK
<1>3. c = "loop" /\ joined # {}
  BY <1>1 DEF IInv, PresenceInv, CallsOK, Caller
<1>4. call' \in [Caller -> Calls \cup {None}] /\ call'["app"] = call["app"] /\ call'["loop"] = None
  BY <1>1, <1>2, <1>3 DEF Caller
<1>5. TypeOK'
  BY <1>1, <1>2, <1>4, LeaseFacts DEF TypeOK
<1>6. PresenceInv'
  BY <1>1, <1>3, <1>4, <1>5, LeaseFacts, EntryFacts DEF IInv, PresenceInv, CallsOK, JoinedIsRenewed
<1>7. ASSUME Calm
      PROVE  CalmInv'
  <2>1. CalmInv /\ AppHandled' = AppHandled
    BY <1>4, <1>7 DEF IInv, AppHandled
  <2>2. ~AppHandled => entry[First] # None /\ entry[First].available /\ Fresh
    BY <1>1, <1>3, <2>1 DEF CalmInv
  <2>3. ~AppHandled => entry[First].lease \in Nat
    BY <1>2, <2>2, SeedFacts, EntryFacts DEF TypeOK
  <2>4. ~AppHandled => Ahead'
    BY <1>1, <2>2, <2>3, LeaseFacts DEF Ahead, Fresh
  <2>5. \A d \in Caller : call'[d] # None => Head(call'[d].todo) = First
    BY <1>4, <2>1 DEF CalmInv, Caller
  <2>6. AppHandled' => call'["app"].op # "join"
    BY <1>3, <1>4, <2>1 DEF IInv, PresenceInv, CallsOK, AppHandled
  <2> QED
    BY <1>1, <1>3, <1>4, <2>1, <2>2, <2>4, <2>5, <2>6 DEF CalmInv
<1> QED
  BY <1>1, <1>6, <1>7 DEF IInv, Calm

\* However it comes that no coroutine calls and no Seed is joined any more.
LEMMA GoneKeeps ==
  ASSUME IInv, joined' = {}, timer' = None, call' = [c \in Caller |-> None],
         app' \in {"starting", "left", "stopped"}, attempts' \in 0..StartAttempts,
         app' \in {"starting", "stopped"} => attempts' < StartAttempts,
         late' \in SUBSET Request, Calm => late' \subseteq {"renew"} \X Seed,
         UNCHANGED <<entry, faults, restarts>>
  PROVE  IInv'
<1>1. TypeOK'
  BY DEF IInv, PresenceInv, TypeOK
<1>2. PresenceInv'
  BY <1>1 DEF PresenceInv, CallsOK, JoinedIsRenewed, Caller
<1>3. Calm => CalmInv'
  BY DEF CalmInv, AppHandled, Caller
<1> QED
  BY <1>2, <1>3 DEF IInv, Calm

LEMMA LeaveReturnsKeeps == ASSUME IInv, LeaveReturns PROVE IInv'
<1>1. /\ joined' = {} /\ timer' = None /\ call' = [c \in Caller |-> None] /\ app' = "left"
      /\ late' = IF call["loop"] # None /\ call["loop"].stage = "sent"
                 THEN late \cup {<<call["loop"].op, Head(call["loop"].todo)>>} ELSE late
      /\ UNCHANGED <<entry, attempts, faults, restarts>>
  BY DEF LeaveReturns, CancelledTimer, counts
<1>2. TypeOK /\ call["loop"] \in Calls \cup {None}
  BY DEF IInv, PresenceInv, TypeOK, Caller
<1>3. call["loop"] # None =>
        /\ call["loop"].op = "renew" /\ Head(call["loop"].todo) \in Seed
        /\ <<"renew", Head(call["loop"].todo)>> \in Request
  BY <1>2, CallFacts DEF IInv, PresenceInv, CallsOK, Request
<1>4. late' \in SUBSET Request /\ (Calm => late' \subseteq {"renew"} \X Seed)
  BY <1>1, <1>2, <1>3 DEF TypeOK, IInv, CalmInv
<1> QED
  BY <1>1, <1>2, <1>4, GoneKeeps DEF TypeOK

LEMMA StopKeeps == ASSUME IInv, Stop \/ Start PROVE IInv'
<1>0. TypeOK /\ (Calm => late \subseteq {"renew"} \X Seed)
  BY DEF IInv, PresenceInv, CalmInv
<1>1. CASE Stop
  BY <1>0, <1>1, GoneKeeps, PresenceAssumption DEF Stop, counts, TypeOK
<1>2. CASE Start
  <2>1. /\ app = "stopped" /\ app' = "starting"
        /\ UNCHANGED <<entry, late, attempts, call, joined, timer, faults, restarts>>
    BY <1>2 DEF Start, counts
  <2>2. joined = {} /\ timer = None /\ call["app"] = None /\ call["loop"] = None
    BY <2>1 DEF IInv, PresenceInv, CallsOK, JoinedIsRenewed
  <2>3. call' = [c \in Caller |-> None]
    BY <1>0, <2>1, <2>2 DEF TypeOK, Caller
  <2>4. attempts < StartAttempts
    BY <2>1 DEF IInv, PresenceInv
  <2> QED
    BY <1>0, <2>1, <2>2, <2>3, <2>4, GoneKeeps DEF TypeOK
<1> QED
  BY <1>1, <1>2

LEMMA TickKeeps == ASSUME IInv, Tick PROVE IInv'
<1>1. /\ call["app"] = None /\ call["loop"] = None /\ app # "starting" /\ timer # 0
      /\ timer' = IF timer = None THEN None ELSE Minus(timer)
      /\ entry' = [s \in Seed |-> IF entry[s] = None THEN None
                                  ELSE [entry[s] EXCEPT !.lease = Minus(entry[s].lease)]]
      /\ UNCHANGED <<late, app, attempts, call, joined, faults, restarts>>
  BY DEF Tick, counts, Caller
<1>2. TypeOK
  BY DEF IInv, PresenceInv
<1>3. /\ timer # None => timer \in Nat /\ timer > 0 /\ timer' = Minus(timer) /\ timer' # None
                         /\ timer' \in Nat /\ timer' <= timer
      /\ timer = None => timer' = None
  BY <1>1, <1>2, MinusFacts, EntryFacts DEF TypeOK
<1>4. ASSUME NEW s \in Seed, entry[s] # None
      PROVE  [entry[s] EXCEPT !.lease = Minus(entry[s].lease)] \in Entry
  <2>1. entry[s] \in Entry /\ entry[s].lease \in 0..MaxLease
    BY <1>2, <1>4 DEF TypeOK, Entry
  <2>2. Minus(entry[s].lease) \in 0..MaxLease
    BY <2>1, MinusFacts, LeaseAssumption
  <2> QED
    BY <2>1, <2>2 DEF Entry
<1>5. TypeOK'
  <2>1. entry' \in [Seed -> Entry \cup {None}]
    BY <1>1, <1>4
  <2> QED
    BY <1>1, <1>2, <1>3, <2>1 DEF TypeOK
<1>6. PresenceInv'
  BY <1>1, <1>3, <1>5, LeaseFacts DEF IInv, PresenceInv, CallsOK, JoinedIsRenewed
<1>7. ASSUME Calm
      PROVE  CalmInv'
  <2>1. CalmInv /\ ~AppHandled /\ ~AppHandled'
    BY <1>1, <1>7 DEF IInv, AppHandled
  <2>2. CASE joined = {}
    BY <1>1, <2>1, <2>2 DEF CalmInv, Caller
  <2>3. CASE joined # {}
    <3>1. /\ entry[First] # None /\ entry[First].available
          /\ timer # None /\ entry[First].lease >= timer + Step
      BY <1>3, <2>1, <2>3 DEF CalmInv, Ahead, IInv, PresenceInv, JoinedIsRenewed
    <3>2. entry[First] \in Entry /\ First \in Seed /\ entry[First].lease \in Nat
      BY <1>2, <3>1, SeedFacts, EntryFacts DEF TypeOK
    <3>3. /\ entry'[First] = [entry[First] EXCEPT !.lease = Minus(entry[First].lease)]
          /\ entry'[First] # None
      BY <1>1, <1>4, <3>1, <3>2, EntryFacts
    <3>4. /\ entry'[First].lease = Minus(entry[First].lease)
          /\ entry'[First].available = entry[First].available
      BY <3>2, <3>3 DEF Entry
    <3>5. entry'[First].lease = entry[First].lease - Step
      BY <1>3, <3>1, <3>2, <3>4, LeaseFacts DEF Minus
    <3>6. timer' = 0 \/ timer' = timer - Step
      BY <1>3, <3>1 DEF Minus
    <3>7. Ahead'
      BY <1>3, <3>1, <3>2, <3>5, <3>6, LeaseFacts DEF Ahead
    <3> QED
      BY <1>1, <2>1, <3>1, <3>3, <3>4, <3>7 DEF CalmInv, Caller
  <2> QED
    BY <2>2, <2>3
<1> QED
  BY <1>1, <1>6, <1>7 DEF IInv, Calm

LEMMA InitInv == Init => IInv
<1> SUFFICES ASSUME Init PROVE IInv
  OBVIOUS
<1>1. TypeOK
  BY PresenceAssumption DEF Init, TypeOK
<1>2. PresenceInv
  BY <1>1, PresenceAssumption DEF Init, PresenceInv, CallsOK, JoinedIsRenewed, Caller
<1>3. CalmInv
  BY DEF Init, CalmInv, AppHandled, Caller
<1> QED
  BY <1>2, <1>3 DEF IInv

LEMMA NextInv == IInv /\ [Next]_vars => IInv'
<1> SUFFICES ASSUME IInv, [Next]_vars PROVE IInv'
  OBVIOUS
<1>1. CASE Next
  <2>1. CASE \E c \in Caller : \/ SeedHandles(c) \/ Returns(c)
                               \/ Unreached(c) \/ TimesOut(c) \/ ReplyLost(c)
    BY <2>1, HandlesKeeps, FaultKeeps, JoinReturnsKeeps, RenewReturnsKeeps, LeaveReturnsKeeps
    DEF Returns
  <2>2. CASE \E op \in {"join", "renew", "leave"}, s \in Seed : LateHandled(op, s)
    BY <2>2, LateKeeps
  <2>3. CASE \E s \in Seed : SeedRestarts(s)
    BY <2>3, SeedRestartKeeps
  <2> QED
    BY <1>1, <2>1, <2>2, <2>3, StartJoinKeeps, StartLeaveKeeps, WakesKeeps, StopKeeps, TickKeeps
    DEF Next
<1>2. CASE UNCHANGED vars
  <2>1. UNCHANGED <<entry, late, app, attempts, call, joined, timer, faults, restarts>>
    BY <1>2 DEF vars, agent, counts
  <2>2. PresenceInv'
    BY <2>1 DEF IInv, PresenceInv, TypeOK, CallsOK, JoinedIsRenewed
  <2>3. Calm' => CalmInv'
    BY <2>1 DEF IInv, Calm, CalmInv, AppHandled, Ahead, Fresh
  <2> QED
    BY <2>2, <2>3 DEF IInv
<1> QED
  BY <1>1, <1>2

LEMMA Invariant == Spec => []IInv
<1> QED
  BY InitInv, NextInv, PTL DEF Spec

-----------------------------------------------------------------------------
(* The theorems *)

\* Entries, requests, calls, timer and counters keep their types.
THEOREM TypeCorrect == Spec => []TypeOK
<1>1. IInv => TypeOK
  BY DEF IInv, PresenceInv
<1> QED
  BY <1>1, Invariant, PTL

\* However calls fail and are cut off by leave() and by the process's end, a renew
\* loop runs exactly while a Seed is joined.
THEOREM RenewedWhileJoined == Spec => []JoinedIsRenewed
<1>1. IInv => JoinedIsRenewed
  BY DEF IInv, PresenceInv
<1> QED
  BY <1>1, Invariant, PTL

\* With leases that outlast max(30, int(lease_seconds * 0.6)), the one asked for and
\* the one every renewal gets, a joined agent is listed without a gap as long as
\* no call fails and no Seed restarts.
THEOREM ListedWhilePresent == RenewsInTime => (Spec => []PresentIsListed)
<1> SUFFICES ASSUME RenewsInTime PROVE Spec => []PresentIsListed
  OBVIOUS
<1>1. ASSUME IInv
      PROVE  PresentIsListed
  <2> SUFFICES ASSUME Present, faults = 0, restarts = 0
               PROVE  \E s \in joined : Listed(s)
    BY DEF PresentIsListed
  <2>1. CalmInv /\ joined # {} /\ ~AppHandled
    BY <1>1 DEF IInv, Calm, Present, AppHandled
  <2>2. First \in joined /\ entry[First] # None /\ entry[First].available /\ entry[First].lease > 0
    BY <2>1 DEF CalmInv, Ahead
  <2> QED
    BY <2>2 DEF Listed
<1>2. IInv => PresentIsListed
  BY <1>1
<1> QED
  BY <1>2, Invariant, PTL

\* Which leases those are, with the constants of the code and time in seconds:
\* none given, or 31 seconds to one short of 50 minutes.
THEOREM LeasesRenewedInTime ==
  ASSUME MinLease = 30, DefaultLease = 1800, MaxLease = 7200, Step = 1
  PROVE  RenewsInTime <=> LeaseSeconds \in {0} \cup 31..2999
BY PresenceAssumption DEF RenewsInTime, Interval, Granted
=============================================================================
