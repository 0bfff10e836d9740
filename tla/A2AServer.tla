----------------------------- MODULE A2AServer -----------------------------
(***************************************************************************)
(* One agent's A2A endpoint: A2AServer.handle_message, the in-memory       *)
(* IdempotencyStore it owns, and the SkillAgentExecutor through which the  *)
(* A2A SDK calls it.                                                       *)
(*                                                                         *)
(* A request is one call of SkillAgentExecutor.execute.  The SDK gives     *)
(* each a fresh task id, so a request also names the task dict that        *)
(* handle_message builds for it; the store keeps that very dict, and a     *)
(* duplicate is answered with it.  Everything runs on one asyncio loop: a  *)
(* handler that never suspends keeps every other coroutine waiting, one    *)
(* that awaits lets them run between the lookup of the keys and the store  *)
(* of the result.                                                          *)
(***************************************************************************)
EXTENDS Integers, FiniteSets

CONSTANTS
    Request,      \* the calls of execute
    Message,      \* the messages clients send, see MessageAssumption
    SyncSkills,   \* capabilities whose handler returns without suspending
    AsyncSkills,  \* capabilities whose handler awaits something
    TTL,          \* IdempotencyStore.ttl_seconds, in ticks
    MaxTime,      \* bound: the clock stops here
    None

Handlers == SyncSkills \cup AsyncSkills

ASSUME SkillAssumption ==
    /\ "task.propose" \in SyncSkills      \* registered by __init__
    /\ SyncSkills \cap AsyncSkills = {}

ASSUME TimeAssumption == TTL \in Nat \ {0} /\ MaxTime \in Nat

ASSUME MessageAssumption ==
    \A m \in Message :
        /\ DOMAIN m = {"sender", "id", "key", "capability", "contract"}
        /\ m.contract \in {"none", "unsigned", "badsig", "signed"}

VARIABLES
    phase,   \* phase[r]: how far the call of execute is
    msg,     \* msg[r]: the message it brought, None before
    tasks,   \* A2AServer.tasks: state of the dict request r created
    store,   \* IdempotencyStore: a slot [task, expires] or None
    reply,   \* what r was answered: [task, state], None before
    now,     \* time.time()
    \* history since the process started, read by no action
    done,    \* the requests whose handler returned
    start,   \* start[r]: when r's handler was called
    finish,  \* finish[r]: when r's result was stored
    seen     \* seen[r]: done, as it was when r's handler was called

server == <<phase, msg, tasks, store, reply>>
history == <<done, start, finish, seen>>
vars == <<server, now, history>>

-----------------------------------------------------------------------------
(* Keys *)

\* get_message / put_message: only when both parts are there.
MessageKeys(m) ==
    IF m.sender # None /\ m.id # None THEN {<<"msg", m.sender, m.id>>} ELSE {}

IdemKeys(m) == IF m.key # None THEN {<<"idem", m.key>>} ELSE {}

KeysOf(m) == MessageKeys(m) \cup IdemKeys(m)

Key == UNION {KeysOf(m) : m \in Message}

Slot == [task : Request, expires : Nat]

Result == [task : Request, state : {"completed", "failed", "canceled", None}]

ASSUME NoneAssumption ==
    /\ None \notin Message /\ None \notin Request /\ None \notin Slot /\ None \notin Result
    /\ None \notin {KeysOf(m) : m \in Message}

\* Mutant: get() without _purge().
Unpurged(s) == s

\* The slots of s a lookup can still find: get() purges expires <= now first.
Live(s) == [k \in Key |-> IF s[k] # None /\ s[k].expires > now THEN s[k] ELSE None]

\* Mutant: only the message key is looked up.
HitMessageOnly(m) == {k \in MessageKeys(m) : Live(store)[k] # None}

\* handle_message looks up the message key, then the idempotency key.
Hit(m) ==
    LET Found(K) == {k \in K : Live(store)[k] # None} IN
    IF Found(MessageKeys(m)) # {} THEN Found(MessageKeys(m)) ELSE Found(IdemKeys(m))

\* The store after those lookups; without a key there is none, and no purge.
Purged(m) == IF KeysOf(m) = {} THEN store ELSE Live(store)

(* Mutants: what a plausible mistake would make of the definition that follows. *)

\* put() only when there is no message id to store under.
StoredUnderMessageId(r) ==
    LET K == IF MessageKeys(msg[r]) # {} THEN MessageKeys(msg[r]) ELSE KeysOf(msg[r]) IN
    [k \in Key |-> IF k \in K THEN [task |-> r, expires |-> now + TTL] ELSE store[k]]

\* The message is stored in place of the task.
StoredMessage(r) ==
    [k \in Key |-> IF k \in KeysOf(msg[r])
                   THEN [task |-> msg[r], expires |-> now + TTL]
                   ELSE store[k]]

\* put() under both keys, of the same dict, at the same time.
Stored(r) ==
    [k \in Key |-> IF k \in KeysOf(msg[r])
                   THEN [task |-> r, expires |-> now + TTL]
                   ELSE store[k]]

-----------------------------------------------------------------------------

Init ==
    /\ phase  = [r \in Request |-> "idle"]
    /\ msg    = [r \in Request |-> None]
    /\ tasks  = [r \in Request |-> None]
    /\ store  = [k \in Key |-> None]
    /\ reply  = [r \in Request |-> None]
    /\ now    = 0
    /\ done   = {}
    /\ start  = [r \in Request |-> 0]
    /\ finish = [r \in Request |-> 0]
    /\ seen   = [r \in Request |-> {}]

Running == {r \in Request : phase[r] = "running"}

\* Mutant: handlers are called on worker threads.
LoopAlwaysFree == TRUE

\* The event loop is free: no handler that never suspends is being called.
LoopFree == \A r \in Running : msg[r].capability \notin SyncSkills

Supported(m) == m.capability \in Handlers

\* The contract check; a proposal carries a contract still to be signed.
ContractAccepted(m) ==
    m.capability = "task.propose" \/ m.contract \in {"none", "signed"}

\* execute() returns to the SDK with the task of request o, in state s.
Answered(r, m, o, s) ==
    /\ msg' = [msg EXCEPT ![r] = m]
    /\ phase' = [phase EXCEPT ![r] = "replied"]
    /\ reply' = [reply EXCEPT ![r] = [task |-> o, state |-> s]]

\* No handler for the capability: refused before any key is looked at.
RefuseUnsupported(r, m) ==
    /\ LoopFree /\ phase[r] = "idle"
    /\ ~Supported(m)
    /\ tasks' = [tasks EXCEPT ![r] = "failed"]
    /\ Answered(r, m, r, "failed")
    /\ UNCHANGED <<store, now, history>>

\* A duplicate: the stored dict is returned as it is now.
Replay(r, m) ==
    /\ LoopFree /\ phase[r] = "idle"
    /\ Supported(m)
    /\ \E k \in Hit(m) : Answered(r, m, store[k].task, tasks[store[k].task])
    /\ store' = Purged(m)
    /\ UNCHANGED <<tasks, now, history>>

\* Unsigned contract, or one whose executor signature is not this agent's.
RefuseContract(r, m) ==
    /\ LoopFree /\ phase[r] = "idle"
    /\ Supported(m) /\ Hit(m) = {}
    /\ ~ContractAccepted(m)
    /\ store' = Purged(m)
    /\ tasks' = [tasks EXCEPT ![r] = "failed"]
    /\ Answered(r, m, r, "failed")
    /\ UNCHANGED <<now, history>>

\* handler(payload) is called; an async one may now suspend.
CallHandler(r, m) ==
    /\ LoopFree /\ phase[r] = "idle"
    /\ Supported(m) /\ Hit(m) = {}
    /\ ContractAccepted(m)
    /\ store' = Purged(m)
    /\ msg' = [msg EXCEPT ![r] = m]
    /\ phase' = [phase EXCEPT ![r] = "running"]
    /\ start' = [start EXCEPT ![r] = now]
    /\ seen' = [seen EXCEPT ![r] = done]
    /\ UNCHANGED <<tasks, reply, now, done, finish>>

\* When the coroutine of running request r gets the loop.
Resumes(r) ==
    /\ phase[r] = "running"
    /\ msg[r].capability \in AsyncSkills => LoopFree

\* The handler returned a HandlerResult, completed or failed: the task is
\* recorded and stored under the request's keys, whatever they hold by now.
HandlerReturns(r, s) ==
    /\ Resumes(r)
    /\ tasks' = [tasks EXCEPT ![r] = s]
    /\ store' = Stored(r)
    /\ Answered(r, msg[r], r, s)
    /\ done' = done \cup {r}
    /\ finish' = [finish EXCEPT ![r] = now]
    /\ UNCHANGED <<now, start, seen>>

\* The handler raised, returned something else, or its coroutine was
\* cancelled by the SDK: execute() raises and nothing is stored.
HandlerRaises(r) ==
    /\ Resumes(r)
    /\ phase' = [phase EXCEPT ![r] = "aborted"]
    /\ UNCHANGED <<msg, tasks, store, reply, now, history>>

\* The SDK has taken the task from the event queue and answers the client.
Deliver(r) ==
    /\ LoopFree
    /\ phase[r] = "replied"
    /\ phase' = [phase EXCEPT ![r] = "delivered"]
    /\ UNCHANGED <<msg, tasks, store, reply, now, history>>

\* SkillAgentExecutor.cancel, which the SDK calls for a task it has not yet
\* seen end.  Only the dict under this request's own task id is touched.
Cancel(r) ==
    /\ LoopFree
    /\ phase[r] \in {"running", "replied"}
    /\ tasks' = [tasks EXCEPT ![r] = IF tasks[r] # None THEN "canceled" ELSE None]
    /\ UNCHANGED <<phase, msg, store, reply, now, history>>

Tick ==
    /\ now < MaxTime
    /\ now' = now + 1
    /\ UNCHANGED <<server, history>>

\* The process ends and starts again: tasks and the store are memory only.
Restart ==
    /\ phase' = [r \in Request |-> IF phase[r] \in {"running", "replied"}
                                   THEN "aborted" ELSE phase[r]]
    /\ tasks' = [r \in Request |-> None]
    /\ store' = [k \in Key |-> None]
    /\ done'   = {}
    /\ start'  = [r \in Request |-> 0]
    /\ finish' = [r \in Request |-> 0]
    /\ seen'   = [r \in Request |-> {}]
    /\ UNCHANGED <<msg, reply, now>>

Next ==
    \/ \E r \in Request, m \in Message :
          \/ RefuseUnsupported(r, m)
          \/ Replay(r, m)
          \/ RefuseContract(r, m)
          \/ CallHandler(r, m)
    \/ \E r \in Request : \E s \in {"completed", "failed"} : HandlerReturns(r, s)
    \/ \E r \in Request : HandlerRaises(r) \/ Deliver(r) \/ Cancel(r)
    \/ Tick
    \/ Restart

Spec == Init /\ [][Next]_vars

-----------------------------------------------------------------------------
(* Properties *)

TypeOK ==
    /\ phase \in [Request -> {"idle", "running", "replied", "delivered", "aborted"}]
    /\ msg \in [Request -> Message \cup {None}]
    /\ \A r \in Request : phase[r] # "idle" => msg[r] \in Message
    /\ tasks \in [Request -> {"completed", "failed", "canceled", None}]
    /\ store \in [Key -> Slot \cup {None}]
    /\ reply \in [Request -> Result \cup {None}]
    /\ now \in Nat
    /\ done \in SUBSET Request
    /\ start \in [Request -> Nat]
    /\ finish \in [Request -> Nat]
    /\ seen \in [Request -> SUBSET Request]

Share(r, o) == KeysOf(msg[r]) \cap KeysOf(msg[o]) # {}

\* A retry never reaches the skill handler while the result of an earlier call
\* under one of its keys is younger than the store's TTL, however long either
\* handler was suspended and whatever ran in between.  (Earlier: its handler had
\* returned when the retry came, in the same process.)
NoSequentialRerun ==
    \A r \in Request : \A o \in seen[r] :
        Share(r, o) => finish[o] + TTL <= start[r]

\* Two results stored under one key of K have lifetimes that do not overlap, so
\* that whoever repeats the key meanwhile can only be given the first.
OneLiveResult(K) ==
    \A o, p \in done :
        o # p /\ KeysOf(msg[o]) \cap KeysOf(msg[p]) \cap K # {}
            => finish[o] + TTL <= finish[p] \/ finish[p] + TTL <= finish[o]

\* The keys that only messages for non-suspending handlers carry.
SoloKeys == {k \in Key : \A m \in Message :
                k \in KeysOf(m) => m.capability \notin AsyncSkills}

\* The protocol's promise "Duplicate idempotency_key returns the first result",
\* for handlers that never suspend.
SoloKeyHasOneLiveResult == OneLiveResult(SoloKeys)

\* The same promise for every handler: broken when two duplicates overlap in a
\* handler that awaits, for the second result replaces the first in the store.
DuplicateReturnsFirstResult ==
    OneLiveResult(UNION {IdemKeys(m) : m \in Message})

\* A request is answered with another request's task only if that one's handler
\* returned, in this process, less than TTL ago, and they share a key.
ReplayIsOfLiveDuplicate ==
    [][\A r \in Request :
         reply'[r] # reply[r] =>
            LET o == reply'[r].task IN
            o # r => /\ o \in done
                     /\ now < finish[o] + TTL
                     /\ KeysOf(msg'[r]) \cap KeysOf(msg[o]) # {}]_vars

\* handle_message implements the abstract service; a slot past its expiry is an
\* outcome already forgotten, though no lookup has purged it.
Service == INSTANCE OnceService WITH
    Once    <- SoloKeys,
    KeySets <- {KeysOf(m) : m \in Message},
    asked   <- [r \in Request |-> IF msg[r] = None THEN None ELSE KeysOf(msg[r])],
    answer  <- [r \in Request |-> IF reply[r] = None THEN None ELSE reply[r].task],
    outcome <- [k \in Key |-> IF Live(store)[k] = None THEN None ELSE Live(store)[k].task]

ServiceSpec == Service!Spec
=============================================================================
