--------------------------- MODULE AgentPresence ---------------------------
(***************************************************************************)
(* One agent's presence on the network: the AgentNetwork client, that      *)
(* joins, renews and leaves, against the entries that its Seeds hold of    *)
(* it.                                                                     *)
(*                                                                         *)
(* Two coroutines of the agent call Seeds: the application (the start task *)
(* of the server's lifespan, then whatever calls leave and join) and the   *)
(* renew loop.  A call is a request, its handling by the Seed and a reply, *)
(* with the other coroutine, and late requests, running in between.  Each  *)
(* may fail: the Seed is not reached, its reply is lost, or the client     *)
(* times out and the request is handled later, if at all.                  *)
(*                                                                         *)
(* Times are in seconds and pass in steps of Step; calls are quick against *)
(* a step.  Entries and timers count down, so that time needs no bound.    *)
(***************************************************************************)
EXTENDS Lease, Sequences, SequencesExt

CONSTANTS
    Seeds,          \* AgentNetwork.seeds, in order
    LeaseSeconds,   \* AgentNetwork.lease_seconds
    Step,           \* seconds per tick
    StartAttempts,  \* how often the start task tries to join, 5 in the code
    MaxFaults,      \* bound: calls that fail
    MaxRestarts,    \* bound: restarts of a Seed
    None

ASSUME PresenceAssumption ==
    /\ Seeds \in Seq(STRING) /\ Seeds # <<>>
    /\ LeaseSeconds \in Nat /\ Step \in Nat \ {0} /\ StartAttempts \in Nat \ {0}
    /\ MaxFaults \in Nat /\ MaxRestarts \in Nat

Seed == Range(Seeds)
Caller == {"app", "loop"}

\* What a Seed holds of the agent, and a call that a coroutine is in.
Entry == [available : BOOLEAN, lease : 0..MaxLease]
Calls == [op : {"join", "renew", "leave"}, todo : Seq(Seed) \ {<<>>},
          stage : {"sent", "accepted", "rejected"}]

ASSUME NoneAssumption == None \notin Nat /\ None \notin Entry /\ None \notin Calls

VARIABLES
    entry,     \* entry[s]: what Seed s holds of the agent, None if nothing
    late,      \* requests <<op, seed>> the client gave up on, not handled yet
    app,       \* the application: "starting", "up", "gaveup", "left" or "stopped"
    attempts,  \* the start task's failed attempts to join
    call,      \* call[c]: the call coroutine c is in, None if in none
    joined,    \* AgentNetwork._joined
    timer,     \* seconds until _renew_task wakes, None if there is no such task
    \* bounds, that limit failures and are read by no other guard
    faults,    \* calls that failed
    restarts   \* Seeds restarted

agent == <<app, attempts, call, joined, timer>>
counts == <<faults, restarts>>
vars == <<entry, late, agent, counts>>

Init ==
    /\ entry = [s \in Seed |-> None]
    /\ late = {}
    /\ app = "starting" /\ attempts = 0
    /\ call = [c \in Caller |-> None]
    /\ joined = {}
    /\ timer = None
    /\ faults = 0 /\ restarts = 0

-----------------------------------------------------------------------------
(* The Seed: what a handled request makes of the entry *)

Listed(s) == entry[s] # None /\ entry[s].available /\ entry[s].lease > 0

\* A request is accepted: the Seed knows the agent, or it is an announce.
Accepts(op, s) == op = "join" \/ entry[s] # None

Handled(op, s) ==
    CASE op = "join"  -> [available |-> TRUE, lease |-> Granted(LeaseSeconds)]
      [] op = "renew" /\ Accepts(op, s) -> [entry[s] EXCEPT !.lease = DefaultLease]
      [] op = "leave" /\ Accepts(op, s) -> [available |-> FALSE, lease |-> 0]
      [] OTHER -> None

SeedHandles(c) ==
    /\ call[c] # None /\ call[c].stage = "sent"
    /\ LET s == Head(call[c].todo) op == call[c].op IN
         /\ call' = [call EXCEPT ![c].stage = IF Accepts(op, s) THEN "accepted" ELSE "rejected"]
         /\ entry' = [entry EXCEPT ![s] = Handled(op, s)]
    /\ UNCHANGED <<late, app, attempts, joined, timer, counts>>

\* A request the client no longer waits for is handled after all.
LateHandled(op, s) ==
    /\ <<op, s>> \in late
    /\ late' = late \ {<<op, s>>}
    /\ entry' = [entry EXCEPT ![s] = Handled(op, s)]
    /\ UNCHANGED <<agent, counts>>

\* The Seed's directory is memory only.
SeedRestarts(s) ==
    /\ restarts < MaxRestarts
    /\ restarts' = restarts + 1
    /\ entry' = [entry EXCEPT ![s] = None]
    /\ UNCHANGED <<late, agent, faults>>

-----------------------------------------------------------------------------
(* The client *)

Call(op, todo) == [op |-> op, todo |-> todo, stage |-> "sent"]

\* join() goes through the Seeds as they were configured.
JoinCall == Call("join", Seeds)

\* Mutant: the Seeds are tried in the configured order.
SeedsInOrder == {Seeds}

\* The Seeds that were not joined, in the configured order.
Others ==
    LET places == SetToSeqs({i \in DOMAIN Seeds : Seeds[i] \notin joined})
        ordered == {p \in places : \A m, n \in DOMAIN p : m < n => p[m] < p[n]}
    IN {[n \in DOMAIN p |-> Seeds[p[n]]] : p \in ordered}

\* _message_any: joined Seeds first, in any order, then the others.
MessageAnyOrders == {front \o rest : front \in SetToSeqs(joined), rest \in Others}

\* Mutant: renews when the lease is over.
IntervalWholeLease == IF LeaseSeconds > 30 THEN LeaseSeconds ELSE 30

\* max(30, int(lease_seconds * 0.6))
Interval ==
    LET i == (LeaseSeconds * 6) \div 10 IN IF i > 30 THEN i ELSE 30

\* Mutant: join() starts no loop.
NotStarted == timer

\* _start_renew: one loop is enough.
StartedTimer == IF timer = None THEN Interval ELSE timer

\* Mutant: leave() forgets to cancel the loop.
KeptTimer == timer

\* leave() cancels the loop.
CancelledTimer == None

\* The start task calls join(), at first and after each failure; a process
\* that left may call it again.
StartJoin ==
    /\ app \in {"starting", "left"}
    /\ call["app"] = None
    /\ call' = [call EXCEPT !["app"] = JoinCall]
    /\ app' = "starting"
    /\ attempts' = IF app = "left" THEN 0 ELSE attempts
    /\ UNCHANGED <<entry, late, joined, timer, counts>>

StartLeave ==
    /\ app = "up"
    /\ call["app"] = None
    /\ \E todo \in MessageAnyOrders : call' = [call EXCEPT !["app"] = Call("leave", todo)]
    /\ UNCHANGED <<entry, late, app, attempts, joined, timer, counts>>

\* The loop has slept its interval and renews.  With no Seed joined, it joins.
LoopWakes ==
    /\ timer = 0 /\ call["loop"] = None
    /\ IF joined = {}
       THEN call' = [call EXCEPT !["loop"] = JoinCall]
       ELSE \E todo \in MessageAnyOrders :
              call' = [call EXCEPT !["loop"] = Call("renew", todo)]
    /\ UNCHANGED <<entry, late, app, attempts, joined, timer, counts>>

\* The call of c ends in an exception: the loop goes back to sleep; a failed
\* start is tried again, or given up; a failed leave leaves all as it is.
Raised(c) ==
    /\ call' = [call EXCEPT ![c] = None]
    /\ timer' = IF c = "loop" THEN Interval ELSE timer
    /\ IF c = "app" /\ app = "starting"
       THEN /\ attempts' = attempts + 1
            /\ app' = IF attempts + 1 < StartAttempts THEN app ELSE "gaveup"
       ELSE UNCHANGED <<app, attempts>>
    /\ UNCHANGED joined

\* Mutant: the last Seed of the list is not treated as such.
NextSeedAlways(c) ==
    /\ call' = [call EXCEPT ![c].todo = Tail(@), ![c].stage = "sent"]
    /\ UNCHANGED <<app, attempts, joined, timer>>

\* The attempt at the first Seed of the list failed: on to the next one.
NextSeed(c) ==
    IF Len(call[c].todo) > 1
    THEN /\ call' = [call EXCEPT ![c].todo = Tail(@), ![c].stage = "sent"]
         /\ UNCHANGED <<app, attempts, joined, timer>>
    ELSE Raised(c)

Fault == faults < MaxFaults /\ faults' = faults + 1 /\ UNCHANGED restarts

\* The Seed is not reached.
Unreached(c) ==
    /\ call[c] # None /\ call[c].stage = "sent"
    /\ Fault /\ NextSeed(c)
    /\ UNCHANGED <<entry, late>>

\* The client times out; the request is still on its way.
TimesOut(c) ==
    /\ call[c] # None /\ call[c].stage = "sent"
    /\ Fault /\ NextSeed(c)
    /\ late' = late \cup {<<call[c].op, Head(call[c].todo)>>}
    /\ UNCHANGED entry

\* The request was handled, its reply is lost.
ReplyLost(c) ==
    /\ call[c] # None /\ call[c].stage \in {"accepted", "rejected"}
    /\ Fault /\ NextSeed(c)
    /\ UNCHANGED <<entry, late>>

\* join() got a completed task: the first Seed that accepts is enough.
JoinReturns(c) ==
    /\ call[c] # None /\ call[c].op = "join" /\ call[c].stage = "accepted"
    /\ joined' = joined \cup {Head(call[c].todo)}
    /\ timer' = IF c = "loop" THEN Interval ELSE StartedTimer
    /\ app' = IF c = "app" THEN "up" ELSE app
    /\ call' = [call EXCEPT ![c] = None]
    /\ UNCHANGED <<entry, late, attempts, counts>>

\* renew() got a task: failed raises, but the loop sleeps again either way, and
\* the other Seeds are not asked.
RenewReturns(c) ==
    /\ call[c] # None /\ call[c].op = "renew" /\ call[c].stage # "sent"
    /\ timer' = Interval
    /\ call' = [call EXCEPT ![c] = None]
    /\ UNCHANGED <<entry, late, app, attempts, joined, counts>>

\* leave() got a task, completed or failed, from one Seed: it forgets all of
\* them and cancels the loop, in whatever call that is.
LeaveReturns ==
    /\ call["app"] # None /\ call["app"].op = "leave" /\ call["app"].stage # "sent"
    /\ joined' = {}
    /\ timer' = CancelledTimer
    /\ app' = "left"
    /\ call' = [c \in Caller |-> None]
    /\ late' = IF call["loop"] # None /\ call["loop"].stage = "sent"
               THEN late \cup {<<call["loop"].op, Head(call["loop"].todo)>>} ELSE late
    /\ UNCHANGED <<entry, attempts, counts>>

\* The agent's process ends, without leaving.
Stop ==
    /\ app # "stopped"
    /\ app' = "stopped"
    /\ call' = [c \in Caller |-> None]
    /\ joined' = {} /\ timer' = None /\ attempts' = 0
    /\ UNCHANGED <<entry, late, counts>>

\* ... and is started again.
Start ==
    /\ app = "stopped"
    /\ app' = "starting"
    /\ UNCHANGED <<entry, late, attempts, call, joined, timer, counts>>

-----------------------------------------------------------------------------

Minus(t) == IF t > Step THEN t - Step ELSE 0

\* Time passes when nobody is about to act.
Tick ==
    /\ \A c \in Caller : call[c] = None
    /\ app # "starting"
    /\ timer # 0
    /\ timer' = IF timer = None THEN None ELSE Minus(timer)
    /\ entry' = [s \in Seed |-> IF entry[s] = None THEN None
                                ELSE [entry[s] EXCEPT !.lease = Minus(@)]]
    /\ UNCHANGED <<late, app, attempts, call, joined, counts>>

Returns(c) == JoinReturns(c) \/ RenewReturns(c) \/ (c = "app" /\ LeaveReturns)

Next ==
    \/ \E c \in Caller : \/ SeedHandles(c) \/ Returns(c)
                         \/ Unreached(c) \/ TimesOut(c) \/ ReplyLost(c)
    \/ \E op \in {"join", "renew", "leave"}, s \in Seed : LateHandled(op, s)
    \/ \E s \in Seed : SeedRestarts(s)
    \/ StartJoin \/ StartLeave \/ LoopWakes
    \/ Stop \/ Start
    \/ Tick

\* The event loop and the Seeds make progress and time passes; nothing is
\* assumed of the application, of failures, or of requests given up on.
Fairness ==
    /\ WF_vars(Tick)
    /\ WF_vars(LoopWakes)
    /\ WF_vars(app = "starting" /\ StartJoin)
    /\ \A c \in Caller : WF_vars(SeedHandles(c)) /\ WF_vars(Returns(c))

Spec == Init /\ [][Next]_vars /\ Fairness

-----------------------------------------------------------------------------
(* Properties *)

Request == {"join", "renew", "leave"} \X Seed

TypeOK ==
    /\ entry \in [Seed -> Entry \cup {None}]
    /\ late \in SUBSET Request
    /\ app \in {"starting", "up", "gaveup", "left", "stopped"}
    /\ attempts \in 0..StartAttempts
    /\ call \in [Caller -> Calls \cup {None}]
    /\ joined \in SUBSET Seed
    /\ timer = None \/ timer \in Nat
    /\ faults \in 0..MaxFaults /\ restarts \in 0..MaxRestarts

\* The agent counts itself present: it joined and is not leaving.
Present ==
    /\ app = "up" /\ joined # {}
    /\ call["app"] = None

\* As long as no call fails and no Seed restarts, an agent that joined is
\* listed by a Seed at every moment until it leaves: it renews in time.
PresentIsListed ==
    Present /\ faults = 0 /\ restarts = 0 => \E s \in joined : Listed(s)

\* The renew loop runs exactly while the agent is joined somewhere, so that a
\* joined agent is never forgotten and one that left never announced again.
JoinedIsRenewed == (timer # None) <=> (joined # {})

\* A leave was handled that the client does not know of: its reply was lost or
\* it was handled late.  Renewals leave the agent OFFLINE.
MarkedOffline(s) == entry[s] # None /\ ~entry[s].available

\* The Seed has restarted since it was joined.  The client does not notice: the
\* Seed rejects its renewals, and it joins again only when it is itself started
\* again.
Forgotten(s) == entry[s] = None

\* However calls fail, once they stop failing an agent that stays joined is
\* listed again, and from then on for good, unless a leave it had asked for was
\* handled without its knowing or a Seed it had joined forgot it.
PresenceReturns ==
    <>[]Present =>
        <>[](\E s \in joined : Listed(s) \/ MarkedOffline(s) \/ Forgotten(s))

\* An agent that left, stopped or gave up, by whatever sequence of failures, is
\* in the end listed by no Seed, also by those its leave did not reach.
AbsenceIsNoticed ==
    <>[](app \in {"left", "stopped", "gaveup"}) => <>[](\A s \in Seed : ~Listed(s))
=============================================================================
