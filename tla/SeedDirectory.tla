--------------------------- MODULE SeedDirectory ---------------------------
(***************************************************************************)
(* The reference Seed: Handlers.join, renew, leave and discover over the   *)
(* in-memory ReferenceDirectory.                                           *)
(*                                                                         *)
(* Handlers never suspend, so each is one step; discover only reads.       *)
(* Messages reach them over HTTP from many agents: an announce may be      *)
(* delivered late, twice or never, and a renew or leave at any time.  The  *)
(* Seed's process may restart, and then knows nobody.  A key stands for an *)
(* Ed25519 key pair; a message verifies under a key iff that key signed    *)
(* it.                                                                     *)
(***************************************************************************)
EXTENDS Integers, Sequences, SequencesExt, CapabilityVersion, Lease

CONSTANTS
    Agent,         \* agent ids
    PublicKey,     \* public keys
    Announcement,  \* the signed announces ever made, see AnnouncementAssumption
    Query,         \* the discover queries made, see QueryAssumption
    MaxTime,       \* bound: the clock stops here
    None

ASSUME TimeAssumption == MaxTime \in Nat

ASSUME AgentAssumption == IsFiniteSet(Agent)

ASSUME AnnouncementAssumption ==
    \A p \in Announcement :
        /\ DOMAIN p = {"agent_id", "public_key", "signer", "lease", "status", "capabilities"}
        /\ p.agent_id \in Agent /\ p.public_key \in PublicKey /\ p.signer \in PublicKey
        /\ p.lease \in Int
        /\ \A i \in DOMAIN p.capabilities : p.capabilities[i].version \in Version

ASSUME NoneAssumption == None \notin Announcement

ASSUME QueryAssumption ==
    \A q \in Query :
        /\ DOMAIN q = {"capability", "version", "max_results"}
        /\ q.version \in Seq(Part)
        /\ q.max_results \in Int

VARIABLES
    agents,   \* ReferenceDirectory.agents
    now,      \* time.time()
    sent,     \* sent[p]: when announcement p was made, -1 before
    \* history of this process, read by no action
    joinedBy, \* joinedBy[a]: the announce that joined a, None before and after leave
    left      \* left[a]: when a's last leave was handled, or -1

vars == <<agents, now, sent, joinedBy, left>>

Restarted == [a \in Agent |-> None]

Init ==
    /\ agents = Restarted
    /\ now = 0
    /\ sent = [p \in Announcement |-> -1]
    /\ joinedBy = [a \in Agent |-> None]
    /\ left = [a \in Agent |-> -1]

-----------------------------------------------------------------------------
(* join, renew, leave *)

\* The announce verifies under the key it carries.
SignedAnnounce(p) == p.signer = p.public_key

\* Mutant: only the announce's own signature counts.
AnyKey(p) == TRUE

\* An agent id stays with the key that first joined under it.
KeyAccepted(p) ==
    agents[p.agent_id] # None => agents[p.agent_id].public_key = p.public_key

Entry(p) ==
    [public_key   |-> p.public_key,
     capabilities |-> p.capabilities,
     availability |-> p.status,
     lease_expires_at |-> now + Granted(p.lease),
     last_seen    |-> now]

\* An agent signs an announce (outside the Seed).
Announce(p) ==
    /\ sent[p] = -1
    /\ sent' = [sent EXCEPT ![p] = now]
    /\ UNCHANGED <<agents, now, joinedBy, left>>

\* Announcement p is delivered, for the first time or again.  A refused one
\* leaves the directory as it is.
join(p) ==
    /\ sent[p] # -1
    /\ SignedAnnounce(p) /\ KeyAccepted(p)
    /\ agents' = [agents EXCEPT ![p.agent_id] = Entry(p)]
    /\ joinedBy' = [joinedBy EXCEPT ![p.agent_id] = p]
    /\ UNCHANGED <<now, sent, left>>

\* A renew or leave for agent a, signed with key k, is accepted.
Verified(a, k) == agents[a] # None /\ agents[a].public_key = k

\* Mutant: a renewal also makes the agent available again.
RenewedAvailable(e) ==
    [e EXCEPT !.last_seen = now, !.lease_expires_at = now + DefaultLease,
              !.availability = "AVAILABLE"]

\* Mutant: the entry is replaced by its new lease.
RenewedLeaseOnly(e) ==
    [last_seen |-> now, lease_expires_at |-> now + DefaultLease]

\* The lease is the default one, whatever was granted at join.
Renewed(e) ==
    [e EXCEPT !.last_seen = now, !.lease_expires_at = now + DefaultLease]

renew(a, k) ==
    /\ Verified(a, k)
    /\ agents' = [agents EXCEPT ![a] = Renewed(@)]
    /\ UNCHANGED <<now, sent, joinedBy, left>>

leave(a, k) ==
    /\ Verified(a, k)
    /\ agents' = [agents EXCEPT ![a].availability = "OFFLINE", ![a].lease_expires_at = now]
    /\ joinedBy' = [joinedBy EXCEPT ![a] = None]
    /\ left' = [left EXCEPT ![a] = now]
    /\ UNCHANGED <<now, sent>>

-----------------------------------------------------------------------------
(* discover *)

Listable(a) ==
    /\ agents[a] # None
    /\ agents[a].lease_expires_at > now
    /\ agents[a].availability = "AVAILABLE"

\* What the loop over an entry's capabilities finds for query q: it stops at
\* the first one of that id whose version matches, or raises.
Decided(a, q) ==
    {i \in DOMAIN agents[a].capabilities :
        LET c == agents[a].capabilities[i] IN
        c.id = q.capability /\ version_matches(c.version, q.version) # "no"}

Descriptor(a, q) == agents[a].capabilities[Min(Decided(a, q))]

Raises(q) ==
    \E a \in Agent : /\ Listable(a)
                     /\ Decided(a, q) # {}
                     /\ version_matches(Descriptor(a, q).version, q.version) = "raises"

Eligible(q) == {a \in Agent : Listable(a) /\ Decided(a, q) # {}}

\* rows[:limit], with Python's reading of a negative limit.
Slice(rows, limit) ==
    LET n == IF limit >= 0 THEN limit ELSE Len(rows) + limit IN
    SubSeq(rows, 1, IF n < Len(rows) THEN n ELSE Len(rows))

\* Mutant: oldest first.
StalestFirst(a, b) == agents[a].last_seen <= agents[b].last_seen

\* The sort key is (-last_seen, agent_id); the order of ids is left open.
FreshestFirst(a, b) == agents[a].last_seen >= agents[b].last_seen

Sorted(rows) == \A i, j \in DOMAIN rows : i < j => FreshestFirst(rows[i], rows[j])

\* int(max_results or 10)
Limit(q) == IF q.max_results = 0 THEN 10 ELSE q.max_results

\* The answers a query may get now; it changes nothing.
discover(q) ==
    IF Raises(q)
    THEN {[outcome |-> "raised", rows |-> <<>>]}
    ELSE {[outcome |-> "completed", rows |-> Slice(rows, Limit(q))] :
              rows \in {s \in SetToSeqs(Eligible(q)) : Sorted(s)}}

-----------------------------------------------------------------------------

Tick ==
    /\ now < MaxTime
    /\ now' = now + 1
    /\ UNCHANGED <<agents, sent, joinedBy, left>>

\* The directory is memory only.
Restart ==
    /\ agents' = Restarted
    /\ joinedBy' = [a \in Agent |-> None]
    /\ left' = [a \in Agent |-> -1]
    /\ UNCHANGED <<now, sent>>

Next ==
    \/ \E p \in Announcement : Announce(p) \/ join(p)
    \/ \E a \in Agent, k \in PublicKey : renew(a, k) \/ leave(a, k)
    \/ Tick
    \/ Restart

Spec == Init /\ [][Next]_vars

-----------------------------------------------------------------------------
(* Properties *)

EntryType ==
    [public_key : PublicKey,
     capabilities : {p.capabilities : p \in Announcement},
     availability : {p.status : p \in Announcement} \cup {"AVAILABLE", "OFFLINE"},
     lease_expires_at : Nat,
     last_seen : Nat]

TypeOK ==
    /\ agents \in [Agent -> EntryType \cup {None}]
    /\ now \in Nat
    /\ sent \in [Announcement -> Nat \cup {-1}]
    /\ joinedBy \in [Agent -> Announcement \cup {None}]
    /\ left \in [Agent -> Nat \cup {-1}]

\* An agent the Seed can list was heard from, by an announce or a renewal,
\* less than the maximal lease ago, whatever leases were asked for.
ListedWasHeard ==
    \A a \in Agent :
        Listable(a) => /\ agents[a].last_seen <= now
                       /\ now < agents[a].last_seen + MaxLease

\* Once a leave is handled, no renewal that was still on its way, and no number
\* of them, lists the agent again: only another announce does.
LeaveSticks ==
    \A a \in Agent : joinedBy[a] = None => ~Listable(a)

\* ... and that announce is not one the agent made before it left.  Not so: the
\* Seed looks at neither timestamp nor nonce, so an announce that is delivered
\* late, or a second time, joins the agent again.
NoStaleAnnounce ==
    \A a \in Agent : joinedBy[a] # None => sent[joinedBy[a]] >= left[a]

\* While the Seed runs, an agent id stays with one key: no announce, renewal or
\* leave signed with another one changes what is known of it.
KeyIsPinned ==
    [][\A a \in Agent : agents[a] # None /\ agents'[a] # None =>
         agents'[a].public_key = agents[a].public_key]_vars

\* A query's rows are as fresh as can be: no eligible agent that is left out
\* was seen later than one that is returned, and none is left out needlessly.
FreshestReturned ==
    \A q \in Query : \A answer \in discover(q) :
        answer.outcome = "completed" /\ q.max_results >= 0 =>
            LET rows == answer.rows IN
            /\ Len(rows) = Min({Cardinality(Eligible(q)), Limit(q)})
            /\ \A a \in Eligible(q) \ Range(rows) : \A i \in DOMAIN rows :
                  agents[a].last_seen <= agents[rows[i]].last_seen

\* With room for every agent, an agent is returned iff one of its capabilities
\* lies in the range that the constraint, read as a set of versions, describes.
RowsMeetConstraint ==
    \A q \in Query : Plain(q.version) /\ Limit(q) >= Cardinality(Agent) =>
        \A answer \in discover(q) : \A a \in Agent :
            a \in Range(answer.rows) <=>
                /\ Listable(a)
                /\ \E i \in DOMAIN agents[a].capabilities :
                      LET c == agents[a].capabilities[i] IN
                      c.id = q.capability /\ InRange(c.version, q.version)
=============================================================================
