------------------------ MODULE SeedDirectoryProofs ------------------------
(***************************************************************************)
(* Proofs about SeedDirectory, for every set of agents, keys and           *)
(* announcements, every requested lease and every choice of the lease      *)
(* limits.                                                                 *)
(*                                                                         *)
(* The invariants are not inductive.  That a listed agent was heard from   *)
(* needs to know, of the entries that are not listed, that a lease is      *)
(* granted from the moment the agent is heard (LeaseFromLastSeen); that a  *)
(* leave sticks needs the reason why a renewal does not undo it: the entry *)
(* stays OFFLINE (OfflineAfterLeave).  What discover answers in a state is *)
(* proved of its operators: OrderFacts and SliceFacts of the rows it       *)
(* returns, PartDecides and VersionDecides of the versions it accepts.     *)
(***************************************************************************)
EXTENDS SeedDirectory, FiniteSetTheorems, SequenceTheorems, WellFoundedInduction, TLAPS

\* A lease runs for at most MaxLease from when the agent was last heard, or was
\* ended by a leave.
LeaseFromLastSeen ==
    \A a \in Agent : agents[a] # None =>
        /\ agents[a].last_seen <= now
        /\ \/ agents[a].lease_expires_at <= now
           \/ agents[a].lease_expires_at <= agents[a].last_seen + MaxLease

\* An entry no announce stands behind is one of an agent that left.
OfflineAfterLeave ==
    \A a \in Agent : joinedBy[a] = None /\ agents[a] # None =>
        agents[a].availability = "OFFLINE"

\* The inductive invariant.
IInv == TypeOK /\ LeaseFromLastSeen /\ OfflineAfterLeave

\* The granted lease lies between the limits, whatever was requested.
LEMMA GrantedBounds ==
  ASSUME NEW requested \in Int
  PROVE  /\ Granted(requested) \in Nat
         /\ MinLease <= Granted(requested) /\ Granted(requested) <= MaxLease
BY LeaseAssumption DEF Granted

\* An entry made from an announcement.
LEMMA EntryFacts ==
  ASSUME NEW p \in Announcement, now \in Nat
  PROVE  /\ Entry(p) \in EntryType
         /\ Entry(p).public_key = p.public_key
         /\ Entry(p).last_seen = now
         /\ Entry(p).lease_expires_at <= now + MaxLease
<1>1. p.public_key \in PublicKey /\ p.lease \in Int
  BY AnnouncementAssumption
<1>2. Granted(p.lease) \in Nat /\ Granted(p.lease) <= MaxLease
  BY <1>1, GrantedBounds
<1> QED
  BY <1>1, <1>2, LeaseAssumption DEF Entry, EntryType

\* A renewed entry keeps all but its times.
LEMMA RenewedFacts ==
  ASSUME NEW e \in EntryType, now \in Nat
  PROVE  /\ Renewed(e) \in EntryType
         /\ Renewed(e).public_key = e.public_key
         /\ Renewed(e).availability = e.availability
         /\ Renewed(e).last_seen = now
         /\ Renewed(e).lease_expires_at = now + DefaultLease
<1> DEFINE C == {p.capabilities : p \in Announcement}
<1> DEFINE S == {p.status : p \in Announcement} \cup {"AVAILABLE", "OFFLINE"}
<1>1. e \in [public_key : PublicKey, capabilities : C, availability : S,
              lease_expires_at : Nat, last_seen : Nat]
  BY DEF EntryType
<1> HIDE DEF C, S
<1>2. now + DefaultLease \in Nat
  BY LeaseAssumption
<1>3. Renewed(e) \in [public_key : PublicKey, capabilities : C, availability : S,
                      lease_expires_at : Nat, last_seen : Nat]
  BY <1>1, <1>2 DEF Renewed
<1>4. Renewed(e) \in EntryType
  BY <1>3 DEF EntryType, C, S
<1> QED
  BY <1>1, <1>4 DEF Renewed

\* What leave makes of an entry.
Ended(e) == [e EXCEPT !.availability = "OFFLINE", !.lease_expires_at = now]

LEMMA EndedFacts ==
  ASSUME NEW e \in EntryType, now \in Nat
  PROVE  /\ Ended(e) \in EntryType
         /\ Ended(e).public_key = e.public_key
         /\ Ended(e).availability = "OFFLINE"
         /\ Ended(e).last_seen = e.last_seen
         /\ Ended(e).lease_expires_at = now
BY DEF Ended, EntryType

\* Each accepted message changes one agent's entry.
LEMMA JoinEffect ==
  ASSUME TypeOK, NEW p \in Announcement, join(p)
  PROVE  /\ p.agent_id \in Agent
         /\ agents' = [agents EXCEPT ![p.agent_id] = Entry(p)]
         /\ joinedBy' = [joinedBy EXCEPT ![p.agent_id] = p]
         /\ agents[p.agent_id] # None => agents[p.agent_id].public_key = p.public_key
         /\ UNCHANGED <<now, sent, left>>
BY AnnouncementAssumption DEF join, KeyAccepted

LEMMA RenewEffect ==
  ASSUME TypeOK, NEW a \in Agent, NEW k \in PublicKey, renew(a, k)
  PROVE  /\ agents[a] \in EntryType
         /\ agents' = [agents EXCEPT ![a] = Renewed(agents[a])]
         /\ UNCHANGED <<now, sent, joinedBy, left>>
BY DEF renew, Verified, TypeOK

LEMMA LeaveEffect ==
  ASSUME TypeOK, NEW a \in Agent, NEW k \in PublicKey, leave(a, k)
  PROVE  /\ agents[a] \in EntryType
         /\ agents' = [agents EXCEPT ![a] = Ended(agents[a])]
         /\ joinedBy' = [joinedBy EXCEPT ![a] = None]
         /\ left' = [left EXCEPT ![a] = now]
         /\ UNCHANGED <<now, sent>>
BY DEF leave, Verified, TypeOK, Ended

-----------------------------------------------------------------------------

LEMMA InitIInv == Init => IInv
BY DEF Init, Restarted, IInv, TypeOK, LeaseFromLastSeen, OfflineAfterLeave

LEMMA TypeStep == TypeOK /\ [Next]_vars => TypeOK'
<1> SUFFICES ASSUME TypeOK, [Next]_vars
             PROVE  TypeOK'
  OBVIOUS
<1>1. ASSUME NEW p \in Announcement, Announce(p)
      PROVE  TypeOK'
  BY <1>1 DEF Announce, TypeOK, EntryType
<1>2. ASSUME NEW p \in Announcement, join(p)
      PROVE  TypeOK'
  BY <1>2, JoinEffect, EntryFacts DEF TypeOK
<1>3. ASSUME NEW a \in Agent, NEW k \in PublicKey, renew(a, k)
      PROVE  TypeOK'
  BY <1>3, RenewEffect, RenewedFacts DEF TypeOK
<1>4. ASSUME NEW a \in Agent, NEW k \in PublicKey, leave(a, k)
      PROVE  TypeOK'
  BY <1>4, LeaveEffect, EndedFacts DEF TypeOK
<1>5. CASE Tick
  BY <1>5 DEF Tick, TypeOK
<1>6. CASE Restart
  BY <1>6 DEF Restart, Restarted, TypeOK
<1>7. CASE UNCHANGED vars
  BY <1>7 DEF vars, TypeOK
<1> QED
  BY <1>1, <1>2, <1>3, <1>4, <1>5, <1>6, <1>7 DEF Next

LEMMA StepIInv == IInv /\ [Next]_vars => IInv'
<1> SUFFICES ASSUME IInv, [Next]_vars
             PROVE  LeaseFromLastSeen' /\ OfflineAfterLeave'
  BY TypeStep DEF IInv
<1>0. TypeOK /\ LeaseFromLastSeen /\ OfflineAfterLeave
  BY DEF IInv
<1>t. now \in Nat /\ None \notin Announcement
  BY <1>0, NoneAssumption DEF TypeOK
<1>1. ASSUME NEW p \in Announcement, Announce(p)
      PROVE  LeaseFromLastSeen' /\ OfflineAfterLeave'
  BY <1>0, <1>1 DEF Announce, LeaseFromLastSeen, OfflineAfterLeave
<1>2. ASSUME NEW p \in Announcement, join(p)
      PROVE  LeaseFromLastSeen' /\ OfflineAfterLeave'
  <2> SUFFICES ASSUME NEW a \in Agent, agents'[a] # None
               PROVE  /\ agents'[a].last_seen <= now
                      /\ \/ agents'[a].lease_expires_at <= now
                         \/ agents'[a].lease_expires_at <= agents'[a].last_seen + MaxLease
                      /\ joinedBy'[a] = None => agents'[a].availability = "OFFLINE"
    BY <1>2, JoinEffect, <1>0 DEF LeaseFromLastSeen, OfflineAfterLeave
  <2>1. CASE a = p.agent_id
    <3>1. agents'[a] = Entry(p) /\ joinedBy'[a] = p
      BY <1>0, <1>2, <2>1, JoinEffect DEF TypeOK
    <3> QED
      BY <1>t, <3>1, EntryFacts
  <2>2. CASE a # p.agent_id
    <3>1. agents'[a] = agents[a] /\ joinedBy'[a] = joinedBy[a]
      BY <1>0, <1>2, <2>2, JoinEffect DEF TypeOK
    <3> QED
      BY <1>0, <3>1 DEF LeaseFromLastSeen, OfflineAfterLeave
  <2> QED
    BY <2>1, <2>2
<1>3. ASSUME NEW b \in Agent, NEW k \in PublicKey, renew(b, k) \/ leave(b, k)
      PROVE  LeaseFromLastSeen' /\ OfflineAfterLeave'
  <2>1. now' = now
    BY <1>3 DEF renew, leave
  <2> SUFFICES ASSUME NEW a \in Agent, agents'[a] # None
               PROVE  /\ agents'[a].last_seen <= now
                      /\ \/ agents'[a].lease_expires_at <= now
                         \/ agents'[a].lease_expires_at <= agents'[a].last_seen + MaxLease
                      /\ joinedBy'[a] = None => agents'[a].availability = "OFFLINE"
    BY <2>1 DEF LeaseFromLastSeen, OfflineAfterLeave
  <2>2. CASE a # b
    <3>1. agents'[a] = agents[a] /\ joinedBy'[a] = joinedBy[a]
      BY <1>0, <1>3, <2>2, RenewEffect, LeaveEffect DEF TypeOK
    <3> QED
      BY <1>0, <3>1 DEF LeaseFromLastSeen, OfflineAfterLeave
  <2>3. CASE a = b /\ renew(b, k)
    <3>1. agents[a] \in EntryType /\ agents'[a] = Renewed(agents[a]) /\ joinedBy'[a] = joinedBy[a]
      BY <1>0, <2>3, RenewEffect DEF TypeOK
    <3>2. agents[a] # None
      BY <2>3 DEF renew, Verified
    <3> QED
      BY <1>0, <1>t, <3>1, <3>2, RenewedFacts, LeaseAssumption DEF OfflineAfterLeave
  <2>4. CASE a = b /\ leave(b, k)
    <3>1. agents[a] \in EntryType /\ agents'[a] = Ended(agents[a])
      BY <1>0, <2>4, LeaveEffect DEF TypeOK
    <3>2. agents[a].last_seen <= now
      BY <1>0, <2>4 DEF leave, Verified, LeaseFromLastSeen
    <3> QED
      BY <1>t, <3>1, <3>2, EndedFacts
  <2> QED
    BY <1>3, <2>2, <2>3, <2>4
<1>4. CASE Tick
  <2> SUFFICES ASSUME NEW a \in Agent, agents[a] # None
               PROVE  /\ agents[a].last_seen <= now + 1
                      /\ \/ agents[a].lease_expires_at <= now + 1
                         \/ agents[a].lease_expires_at <= agents[a].last_seen + MaxLease
    BY <1>0, <1>4 DEF Tick, LeaseFromLastSeen, OfflineAfterLeave
  <2>1. agents[a] \in EntryType
    BY <1>0 DEF TypeOK
  <2> QED
    BY <1>0, <1>t, <2>1 DEF LeaseFromLastSeen, EntryType
<1>5. CASE Restart
  BY <1>5 DEF Restart, Restarted, LeaseFromLastSeen, OfflineAfterLeave
<1>6. CASE UNCHANGED vars
  BY <1>0, <1>6 DEF vars, LeaseFromLastSeen, OfflineAfterLeave
<1> QED
  BY <1>1, <1>2, <1>3, <1>4, <1>5, <1>6 DEF Next

LEMMA Invariance == Spec => []IInv
BY InitIInv, StepIInv, PTL DEF Spec

\* Every variable keeps its type, for any announcements and queries.
THEOREM TypeCorrect == Spec => []TypeOK
BY Invariance, PTL DEF IInv

\* An agent the Seed can list was heard from less than MaxLease ago, for every
\* requested lease and every order of joins, renewals and leaves.
THEOREM OnlyHeardAgentsAreListed == Spec => []ListedWasHeard
<1>1. IInv => ListedWasHeard
  <2> SUFFICES ASSUME IInv, NEW a \in Agent, Listable(a)
               PROVE  /\ agents[a].last_seen <= now
                      /\ now < agents[a].last_seen + MaxLease
    BY DEF ListedWasHeard
  <2>1. agents[a] \in EntryType /\ agents[a] # None /\ now \in Nat
    BY DEF IInv, TypeOK, Listable
  <2> QED
    BY <2>1, LeaseAssumption DEF IInv, LeaseFromLastSeen, Listable, EntryType
<1> QED
  BY <1>1, Invariance, PTL

\* No renewal lists an agent again after its leave was handled.
THEOREM RenewalsDoNotUndoLeave == Spec => []LeaveSticks
<1>1. IInv => LeaveSticks
  BY DEF IInv, OfflineAfterLeave, LeaveSticks, Listable
<1> QED
  BY <1>1, Invariance, PTL

\* While the Seed runs, an agent id stays with the key that joined under it.
THEOREM KeyStaysPinned == Spec => KeyIsPinned
<1>1. TypeOK /\ [Next]_vars =>
        [\A a \in Agent : agents[a] # None /\ agents'[a] # None =>
            agents'[a].public_key = agents[a].public_key]_vars
  <2> SUFFICES ASSUME TypeOK, Next, NEW a \in Agent, agents[a] # None, agents'[a] # None
               PROVE  agents'[a].public_key = agents[a].public_key
    OBVIOUS
  <2>t. now \in Nat
    BY DEF TypeOK
  <2>1. ASSUME NEW p \in Announcement, join(p)
        PROVE  agents'[a].public_key = agents[a].public_key
    <3>1. CASE a = p.agent_id
      <4>1. agents'[a] = Entry(p) /\ agents[a].public_key = p.public_key
        BY <2>1, <3>1, JoinEffect DEF TypeOK
      <4> QED
        BY <2>t, <4>1, EntryFacts
    <3>2. CASE a # p.agent_id
      BY <2>1, <3>2, JoinEffect DEF TypeOK
    <3> QED
      BY <3>1, <3>2
  <2>2. ASSUME NEW b \in Agent, NEW k \in PublicKey, renew(b, k) \/ leave(b, k)
        PROVE  agents'[a].public_key = agents[a].public_key
    <3>1. agents[b] \in EntryType
          /\ \/ agents' = [agents EXCEPT ![b] = Renewed(agents[b])]
             \/ agents' = [agents EXCEPT ![b] = Ended(agents[b])]
      BY <2>2, RenewEffect, LeaveEffect
    <3> QED
      BY <2>t, <3>1, RenewedFacts, EndedFacts DEF TypeOK
  <2>3. ASSUME (\E p \in Announcement : Announce(p)) \/ Tick
        PROVE  agents'[a].public_key = agents[a].public_key
    BY <2>3 DEF Announce, Tick
  <2>4. ASSUME Restart
        PROVE  agents'[a].public_key = agents[a].public_key
    BY <2>4 DEF Restart, Restarted
  <2> QED
    BY <2>1, <2>2, <2>3, <2>4 DEF Next
<1>2. IInv => TypeOK
  BY DEF IInv
<1> QED
  BY <1>1, <1>2, Invariance, PTL DEF Spec, KeyIsPinned

-----------------------------------------------------------------------------
(* What version_matches decides *)

LEMMA LeastExists ==
  ASSUME NEW n \in Nat, NEW S \in SUBSET (1..n), S # {}
  PROVE  Min(S) \in S
<1> DEFINE T == {1..k : k \in S}
<1>1. \A k \in S : (1..k) \in SUBSET (1..n)
  OBVIOUS
<1>2. T \subseteq SUBSET (1..n) /\ T # {}
  BY <1>1
<1>3. IsWellFoundedOn(StrictSubsetOrdering(1..n), SUBSET (1..n))
  <2>1. IsFiniteSet(1..n)
    BY FS_Interval
  <2>2. FiniteSubsetsOf(1..n) = SUBSET (1..n)
    BY <2>1, FS_FiniteSubsetsOfFinite
  <2> QED
    BY <2>2, FS_StrictSubsetOrderingWellFounded
<1>4. PICK X \in T : \A Y \in T : <<Y, X>> \notin StrictSubsetOrdering(1..n)
  <2> HIDE DEF T
  <2> QED
    BY <1>2, <1>3, WFMin
<1>5. PICK m \in S : X = 1..m
  OBVIOUS
<1>6. ASSUME NEW y \in S, y < m PROVE FALSE
  <2>1. (1..y) \in T /\ (1..y) \subseteq (1..m) /\ (1..y) # (1..m)
    BY <1>6
  <2> QED
    BY <1>2, <1>4, <1>5, <2>1 DEF StrictSubsetOrdering
<1>7. \A y \in S : m <= y
  BY <1>6
<1> QED
  BY <1>7 DEF Min

\* "2.x" describes the versions with that major number.
LEMMA MajorRange ==
  ASSUME NEW v \in Version, NEW part \in Part, part.x
  PROVE  InPart(v, part) <=> v[1] = part.version[1]
<1>1. v[1] \in Nat /\ v[2] \in Nat /\ v[3] \in Nat /\ part.version[1] \in Nat
  BY DEF Version, Part
<1> DEFINE major == part.version[1]
<1>2. Less(v, <<major, 0, 0>>) <=> v[1] < major
  BY <1>1 DEF Less
<1>3. Less(v, <<major + 1, 0, 0>>) <=> v[1] < major + 1
  BY <1>1 DEF Less
<1>4. InPart(v, part) <=> ~Less(v, <<major, 0, 0>>) /\ Less(v, <<major + 1, 0, 0>>)
  BY DEF InPart
<1> QED
  BY <1>1, <1>2, <1>3, <1>4

\* A part on its own is met or not, as its range says.
LEMMA PartDecides ==
  ASSUME NEW v \in Version, NEW part \in Part, part.x => part.op = ""
  PROVE  PartMatches(v, part) = IF InPart(v, part) THEN "yes" ELSE "no"
<1>1. CASE part.x
  BY <1>1, MajorRange DEF PartMatches, MajorOf, YesNo
<1>2. CASE ~part.x
  BY <1>2 DEF PartMatches, InPart, YesNo
<1> QED
  BY <1>1, <1>2

LEMMA PlainFacts ==
  ASSUME NEW parts \in Seq(Part), Plain(parts)
  PROVE  /\ DOMAIN parts = 1..Len(parts) /\ Len(parts) \in Nat
         /\ \A i \in 1..Len(parts) : parts[i] \in Part /\ (parts[i].x => parts[i].op = "")
         /\ parts # <<>> /\ parts[Len(parts)].x => Len(parts) = 1
<1>1. DOMAIN parts = 1..Len(parts) /\ Len(parts) \in Nat /\ \A i \in 1..Len(parts) : parts[i] \in Part
  OBVIOUS
<1>2. parts # <<>> => Len(parts) # 0
  OBVIOUS
<1>3. \A i \in 1..Len(parts) : parts[i].x => parts[i].op = ""
  <2>1. \A i \in DOMAIN parts : parts[i].x => parts[i].op = ""
    BY Zenon DEF Plain
  <2> QED
    BY <1>1, <2>1, Zenon
<1>4. parts # <<>> /\ parts[Len(parts)].x => Len(parts) = 1
  <2>1. Len(parts) > 1 => ~parts[Len(parts)].x
    BY Zenon DEF Plain
  <2>2. parts # <<>> => Len(parts) = 1 \/ Len(parts) > 1
    BY <1>1, <1>2
  <2> QED
    BY <2>1, <2>2, Zenon
<1> QED
  BY <1>1, <1>3, <1>4, Zenon

\* A plain constraint is decided as the set of versions it describes, and never
\* raises, however many parts it has.
LEMMA VersionDecides ==
  ASSUME NEW v \in Version, NEW parts \in Seq(Part), Plain(parts)
  PROVE  version_matches(v, parts) = IF InRange(v, parts) THEN "yes" ELSE "no"
<1>0. /\ DOMAIN parts = 1..Len(parts) /\ Len(parts) \in Nat
      /\ parts # <<>> /\ parts[Len(parts)].x => Len(parts) = 1
  BY PlainFacts
<1>1. \A i \in 1..Len(parts) : PartMatches(v, parts[i]) = IF InPart(v, parts[i]) THEN "yes" ELSE "no"
  BY PlainFacts, PartDecides
<1>2. CASE parts = <<>>
  <2>1. Len(parts) = 0
    BY <1>2
  <2> QED
    BY <1>0, <1>2, <2>1 DEF version_matches, InRange
<1>3. CASE parts # <<>> /\ parts[Len(parts)].x
  <2>1. Len(parts) = 1
    BY <1>0, <1>3
  <2>2. version_matches(v, parts) = MajorOf(v, parts[1])
    BY <1>3 DEF version_matches
  <2>3. PartMatches(v, parts[1]) = MajorOf(v, parts[1])
    BY <1>3, <2>1 DEF PartMatches
  <2>4. InRange(v, parts) <=> InPart(v, parts[1])
    BY <1>0, <2>1 DEF InRange
  <2> QED
    BY <1>0, <1>1, <2>1, <2>2, <2>3, <2>4
<1>4. CASE parts # <<>> /\ ~parts[Len(parts)].x
  <2> DEFINE unmet == {i \in DOMAIN parts : PartMatches(v, parts[i]) # "yes"}
  <2>1. version_matches(v, parts) = IF unmet = {} THEN "yes" ELSE PartMatches(v, parts[Min(unmet)])
    BY <1>4 DEF version_matches
  <2>2. unmet = {i \in 1..Len(parts) : ~InPart(v, parts[i])}
    BY <1>0, <1>1
  <2>3. InRange(v, parts) <=> unmet = {}
    BY <1>0, <2>2 DEF InRange
  <2>4. ASSUME unmet # {} PROVE PartMatches(v, parts[Min(unmet)]) = "no"
    <3>1. Min(unmet) \in unmet
      <4>1. unmet \in SUBSET (1..Len(parts))
        BY <2>2
      <4> HIDE DEF unmet
      <4> QED
        BY <1>0, <2>4, <4>1, LeastExists
    <3> QED
      BY <1>1, <2>2, <3>1
  <2> HIDE DEF unmet
  <2> QED
    BY <2>1, <2>3, <2>4
<1> QED
  BY <1>2, <1>3, <1>4

\* Whatever is compared with it, a plain constraint never raises.
LEMMA PlainNeverRaises ==
  ASSUME NEW v, NEW parts \in Seq(Part), Plain(parts)
  PROVE  version_matches(v, parts) # "raises"
<1>0. /\ DOMAIN parts = 1..Len(parts) /\ Len(parts) \in Nat
      /\ \A i \in 1..Len(parts) : parts[i].x => parts[i].op = ""
      /\ parts # <<>> /\ parts[Len(parts)].x => Len(parts) = 1
  BY PlainFacts
<1>1. \A i \in 1..Len(parts) : PartMatches(v, parts[i]) # "raises"
  BY <1>0 DEF PartMatches, MajorOf, YesNo
<1>2. CASE parts = <<>>
  BY <1>2 DEF version_matches
<1>3. CASE parts # <<>> /\ parts[Len(parts)].x
  <2>1. Len(parts) = 1
    BY <1>0, <1>3
  <2>2. version_matches(v, parts) = MajorOf(v, parts[1])
    BY <1>3 DEF version_matches
  <2>3. parts[1].op = ""
    <3>1. parts[1].x
      BY <1>3, <2>1, Zenon
    <3>2. 1 \in 1..Len(parts)
      BY <2>1
    <3> QED
      BY <1>0, <3>1, <3>2, Zenon
  <2> QED
    BY <2>2, <2>3 DEF MajorOf, YesNo
<1>4. CASE parts # <<>> /\ ~parts[Len(parts)].x
  <2> DEFINE unmet == {i \in DOMAIN parts : PartMatches(v, parts[i]) # "yes"}
  <2>1. version_matches(v, parts) = IF unmet = {} THEN "yes" ELSE PartMatches(v, parts[Min(unmet)])
    BY <1>4 DEF version_matches
  <2>2. unmet \in SUBSET (1..Len(parts))
    BY <1>0
  <2> HIDE DEF unmet
  <2>3. unmet # {} => Min(unmet) \in 1..Len(parts)
    BY <1>0, <2>2, LeastExists
  <2> QED
    BY <1>1, <2>1, <2>3
<1> QED
  BY <1>2, <1>3, <1>4

-----------------------------------------------------------------------------
(* What a query returns *)

\* An order of a finite set has each of its members once.
LEMMA OrderFacts ==
  ASSUME NEW S, IsFiniteSet(S), NEW s \in SetToSeqs(S)
  PROVE  /\ s \in Seq(S) /\ Len(s) = Cardinality(S) /\ Len(s) \in Nat
         /\ \A a \in S : \E i \in 1..Len(s) : s[i] = a
<1>1. Cardinality(S) \in Nat
  BY FS_CardinalityType
<1> DEFINE n == Cardinality(S)
<1>2. s \in [1..n -> S] /\ \A i, j \in 1..n : i # j => s[i] # s[j]
  BY DEF SetToSeqs
<1>3. s \in Seq(S) /\ Len(s) = n
  <2>1. \A k \in Nat : \A f \in [1..k -> S] : f \in Seq(S) /\ Len(f) = k
    OBVIOUS
  <2> QED
    BY <1>1, <1>2, <2>1
<1>4. s \in Injection(1..n, S)
  BY <1>2 DEF Injection, IsInjective
<1>5. Cardinality(1..n) = n
  BY <1>1, FS_Interval
<1>6. s \in Surjection(1..n, S)
  BY <1>4, <1>5, FS_Injection
<1> QED
  BY <1>1, <1>3, <1>6 DEF Surjection

\* The first rows of a sequence, when a limit is not negative.
LEMMA SliceFacts ==
  ASSUME NEW S, NEW s \in Seq(S), NEW limit \in Nat
  PROVE  LET rows == Slice(s, limit) IN
         /\ rows \in Seq(S)
         /\ Len(rows) = IF limit < Len(s) THEN limit ELSE Len(s)
         /\ \A i \in 1..Len(rows) : rows[i] = s[i]
<1> DEFINE n == IF limit < Len(s) THEN limit ELSE Len(s)
<1>1. n \in 0..Len(s) /\ Len(s) \in Nat
  OBVIOUS
<1>2. Slice(s, limit) = SubSeq(s, 1, n)
  BY DEF Slice
<1>3. \A i \in 1..n : s[i] \in S
  BY <1>1
<1> HIDE DEF n
<1>4. /\ SubSeq(s, 1, n) \in Seq(S)
      /\ Len(SubSeq(s, 1, n)) = n
      /\ \A i \in 1..n : SubSeq(s, 1, n)[i] = s[i]
  BY <1>1, <1>3, SubSeqProperties
<1> QED
  BY <1>2, <1>4 DEF n

LEMMA MinOfTwo ==
  ASSUME NEW m \in Int, NEW n \in Int
  PROVE  Min({m, n}) = IF n < m THEN n ELSE m
<1>1. \A k \in {m, n} : (\A j \in {m, n} : k <= j) => k = IF n < m THEN n ELSE m
  OBVIOUS
<1>2. \E k \in {m, n} : \A j \in {m, n} : k <= j
  OBVIOUS
<1> QED
  BY <1>1, <1>2 DEF Min

\* The rows of an answer are the first of an order, freshest first, of all agents
\* that are eligible.
LEMMA AnswerFacts ==
  ASSUME NEW q \in Query, NEW answer \in discover(q),
         answer.outcome = "completed", Limit(q) \in Nat
  PROVE  \E s \in SetToSeqs(Eligible(q)) :
            /\ Sorted(s) /\ s \in Seq(Eligible(q))
            /\ Len(s) = Cardinality(Eligible(q)) /\ Len(s) \in Nat
            /\ \A a \in Eligible(q) : \E i \in 1..Len(s) : s[i] = a
            /\ answer.rows \in Seq(Eligible(q))
            /\ Len(answer.rows) = IF Limit(q) < Len(s) THEN Limit(q) ELSE Len(s)
            /\ \A i \in 1..Len(answer.rows) : answer.rows[i] = s[i]
<1>1. IsFiniteSet(Eligible(q))
  BY AgentAssumption, FS_Subset DEF Eligible
<1>2. PICK s \in {t \in SetToSeqs(Eligible(q)) : Sorted(t)} : answer.rows = Slice(s, Limit(q))
  BY DEF discover
<1> QED
  BY <1>1, <1>2, OrderFacts, SliceFacts

\* However many agents there are, the rows are as many as the limit allows, and
\* none left out was seen later than one that is returned.
THEOREM RowsAreFreshest == Spec => []FreshestReturned
<1>1. TypeOK => FreshestReturned
  <2> SUFFICES ASSUME NEW q \in Query, NEW answer \in discover(q),
                      answer.outcome = "completed", q.max_results >= 0
               PROVE  /\ Len(answer.rows) = Min({Cardinality(Eligible(q)), Limit(q)})
                      /\ \A a \in Eligible(q) \ Range(answer.rows) : \A i \in DOMAIN answer.rows :
                            agents[a].last_seen <= agents[answer.rows[i]].last_seen
    BY DEF FreshestReturned
  <2>1. Limit(q) \in Nat
    BY QueryAssumption DEF Limit
  <2> DEFINE rows == answer.rows
  <2>2. PICK s \in SetToSeqs(Eligible(q)) :
            /\ Sorted(s) /\ s \in Seq(Eligible(q))
            /\ Len(s) = Cardinality(Eligible(q)) /\ Len(s) \in Nat
            /\ \A a \in Eligible(q) : \E i \in 1..Len(s) : s[i] = a
            /\ rows \in Seq(Eligible(q))
            /\ Len(rows) = IF Limit(q) < Len(s) THEN Limit(q) ELSE Len(s)
            /\ \A i \in 1..Len(rows) : rows[i] = s[i]
    BY <2>1, AnswerFacts
  <2> HIDE DEF rows
  <2>3. Len(rows) = Min({Cardinality(Eligible(q)), Limit(q)})
    BY <2>1, <2>2, MinOfTwo
  <2>4. ASSUME NEW a \in Eligible(q) \ Range(rows), NEW i \in DOMAIN rows
        PROVE  agents[a].last_seen <= agents[rows[i]].last_seen
    <3>1. PICK j \in 1..Len(s) : s[j] = a
      BY <2>2
    <3>2. i \in 1..Len(rows) /\ DOMAIN rows = 1..Len(rows) /\ DOMAIN s = 1..Len(s)
          /\ rows[i] = s[i]
      <4>1. DOMAIN rows = 1..Len(rows) /\ DOMAIN s = 1..Len(s)
        BY <2>2
      <4>2. i \in 1..Len(rows)
        BY <2>4, <4>1
      <4> QED
        BY <2>2, <4>1, <4>2
    <3>3. j > Len(rows)
      <4>1. ASSUME j \in 1..Len(rows) PROVE FALSE
        BY <2>2, <3>1, <3>2, <4>1 DEF Range
      <4> QED
        BY <2>1, <2>2, <4>1
    <3>4. i \in DOMAIN s /\ j \in DOMAIN s /\ i < j
      BY <2>1, <2>2, <3>2, <3>3
    <3>5. FreshestFirst(s[i], s[j])
      BY <2>2, <3>4 DEF Sorted
    <3> QED
      BY <3>1, <3>2, <3>5 DEF FreshestFirst
  <2> QED
    BY <2>3, <2>4 DEF rows
<1> QED
  BY <1>1, TypeCorrect, PTL

\* With room for every agent, an answer lists the agents, and only those, that have a
\* capability in the range that the constraint describes.
THEOREM RowsAreInRange == Spec => []RowsMeetConstraint
<1>1. TypeOK => RowsMeetConstraint
  <2> SUFFICES ASSUME TypeOK,
                      NEW q \in Query, Plain(q.version), Limit(q) >= Cardinality(Agent),
                      NEW answer \in discover(q), NEW a \in Agent
               PROVE  a \in Range(answer.rows) <=>
                        /\ Listable(a)
                        /\ \E i \in DOMAIN agents[a].capabilities :
                              LET c == agents[a].capabilities[i] IN
                              c.id = q.capability /\ InRange(c.version, q.version)
    BY DEF RowsMeetConstraint
  <2>0. q.version \in Seq(Part) /\ q.max_results \in Int
    BY QueryAssumption
  <2>1. answer.outcome = "completed"
    <3>1. ~Raises(q)
      BY <2>0, PlainNeverRaises DEF Raises
    <3> QED
      BY <3>1 DEF discover
  <2>2. Limit(q) \in Nat /\ Cardinality(Eligible(q)) \in Nat /\ Cardinality(Eligible(q)) <= Limit(q)
    <3>1. /\ Cardinality(Agent) \in Nat /\ Cardinality(Eligible(q)) \in Nat
          /\ Cardinality(Eligible(q)) <= Cardinality(Agent)
      <4>1. Eligible(q) \subseteq Agent
        BY DEF Eligible
      <4> QED
        BY <4>1, AgentAssumption, FS_Subset, FS_CardinalityType
    <3>2. Limit(q) \in Int
      BY <2>0 DEF Limit
    <3> QED
      BY <3>1, <3>2
  <2> DEFINE rows == answer.rows
  <2>3. PICK s \in SetToSeqs(Eligible(q)) :
            /\ s \in Seq(Eligible(q))
            /\ Len(s) = Cardinality(Eligible(q)) /\ Len(s) \in Nat
            /\ \A b \in Eligible(q) : \E i \in 1..Len(s) : s[i] = b
            /\ rows \in Seq(Eligible(q))
            /\ Len(rows) = IF Limit(q) < Len(s) THEN Limit(q) ELSE Len(s)
            /\ \A i \in 1..Len(rows) : rows[i] = s[i]
    BY <2>1, <2>2, AnswerFacts
  <2> HIDE DEF rows
  <2>4. Len(rows) = Len(s) /\ DOMAIN rows = 1..Len(rows)
    BY <2>2, <2>3
  <2>5. a \in Range(rows) <=> a \in Eligible(q)
    <3>1. ASSUME a \in Range(rows) PROVE a \in Eligible(q)
      BY <2>3, <2>4, <3>1 DEF Range
    <3>2. ASSUME a \in Eligible(q) PROVE a \in Range(rows)
      BY <2>3, <2>4, <3>2 DEF Range
    <3> QED
      BY <3>1, <3>2
  <2>6. ASSUME Listable(a), NEW i \in DOMAIN agents[a].capabilities
        PROVE  version_matches(agents[a].capabilities[i].version, q.version) # "no"
                 <=> InRange(agents[a].capabilities[i].version, q.version)
    <3>1. agents[a].capabilities[i].version \in Version
      <4>1. agents[a] \in EntryType
        BY <2>6 DEF TypeOK, Listable
      <4>2. PICK p \in Announcement : agents[a].capabilities = p.capabilities
        BY <4>1 DEF EntryType
      <4> QED
        BY <2>6, <4>2, AnnouncementAssumption
    <3> QED
      BY <2>0, <3>1, VersionDecides
  <2>7. a \in Eligible(q) <=>
          /\ Listable(a)
          /\ \E i \in DOMAIN agents[a].capabilities :
                /\ agents[a].capabilities[i].id = q.capability
                /\ InRange(agents[a].capabilities[i].version, q.version)
    BY <2>6 DEF Eligible, Decided
  <2> QED
    BY <2>5, <2>7 DEF rows
<1> QED
  BY <1>1, TypeCorrect, PTL
=============================================================================
