---------------------------- MODULE Negotiation ----------------------------
(***************************************************************************)
(* Peer.propose_task against the agent it calls: the requester offers a    *)
(* proposal, may be countered and then accepts the counter, signs the      *)
(* contract it is answered with, and sends the work under it.              *)
(*                                                                         *)
(* The agent is A2AServer, instantiated below, with one request for each   *)
(* of a call's three messages.  The network loses and delays messages, and *)
(* the agent may restart: propose_task raises whenever the answer it waits *)
(* for does not come, what it sent may still be handled later, and its     *)
(* caller may call it again with the same idempotency key.                 *)
(*                                                                         *)
(* A contract is named by the request whose "task.propose" handler made    *)
(* it, a proposal by its call and revision.                                *)
(***************************************************************************)
EXTENDS Integers, FiniteSets

CONSTANTS
    Call,         \* the calls of propose_task
    Args,         \* what it is called with: [requester, key, capability]
    SyncSkills, AsyncSkills,  \* as in A2AServer
    MaxKeys,      \* bound: identities the agent has, one after the other
    None

ASSUME ArgsAssumption ==
    \A a \in Args : DOMAIN a = {"requester", "key", "capability"}  \* key None if omitted

ASSUME SkillAssumption ==
    /\ "task.propose" \in SyncSkills      \* as in A2AServer
    /\ SyncSkills \cap AsyncSkills = {}

ASSUME BoundAssumption == MaxKeys \in Nat \ {0}

Request == Call \X {"offer", "accept", "work"}

VARIABLES
    args,      \* args[c]: what call c was called with, None before
    call,      \* call[c]: where propose_task is
    sent,      \* the requests sent
    contract,  \* contract[c]: the contract signed by c's requester, or None
    made,      \* made[r]: what the propose handler run for r decided, or None
    result,    \* result[c]: what propose_task returned, None before
    key,       \* the agent's identity
    phase, msg, tasks, store, reply, now, done, start, finish, seen  \* A2AServer

client == <<args, call, sent, contract, result>>
agent == <<phase, msg, tasks, store, reply, now, done, start, finish, seen>>
vars == <<client, made, key, agent>>

-----------------------------------------------------------------------------
(* The messages of call c, made with arguments a *)

\* Mutant: the key defaults to one of the capability's own.
KeyPerCapability(c, a) ==
    IF a.key # None THEN <<"given", a.key>> ELSE <<"uuid", a.capability>>

\* text_message makes up a key when the caller gave none.
TaskKey(c, a) == IF a.key # None THEN <<"given", a.key>> ELSE <<"uuid", c>>

\* Mutant: the offer's messageId is the idempotency key, when there is one.
MessageIdFromKey(r, a) ==
    IF r[2] = "offer" /\ a.key # None THEN <<"given", a.key>> ELSE <<"id", r>>

\* An offer goes under its proposal's id, the other messages under uuids.
MessageId(r, a) == <<"id", r>>

Sent(r, a, signature) ==
    [sender |-> a.requester, id |-> MessageId(r, a),
     key |-> IF r[2] = "work" THEN TaskKey(r[1], a) ELSE None,
     capability |-> IF r[2] = "work" THEN a.capability ELSE "task.propose",
     contract |-> IF r[2] = "work" THEN signature ELSE "none"]

Message == {Sent(r, a, s) : r \in Request, a \in Args, s \in {"signed", "badsig"}}

Agent == INSTANCE A2AServer WITH TTL <- 1, MaxTime <- 0

\* What a propose handler leaves, and what propose_task returns.
Decision == [decision : {"ACCEPT", "REJECT", "COUNTER", "UNSIGNED"}, key : 1..MaxKeys]

Outcome == [task : Request, state : {"completed", "failed"}, contract : Request \cup {None}]

ASSUME NoneAssumption ==
    /\ None \notin Args /\ None \notin Request /\ None \notin Decision /\ None \notin Outcome
    /\ None \notin Message /\ None \notin Agent!Slot /\ None \notin Agent!Result
    /\ None \notin {Agent!KeysOf(m) : m \in Message}
    /\ None \notin {TaskKey(c, a) : c \in Call, a \in Args}

\* Request r as it comes to the agent: the executor's signature of a contract
\* verifies while the agent has the identity that it was made with.
MessageOf(r) ==
    Sent(r, args[r[1]], IF r[2] = "work" /\ made[contract[r[1]]].key # key
                        THEN "badsig" ELSE "signed")

Init ==
    /\ args = [c \in Call |-> None]
    /\ call = [c \in Call |-> "idle"]
    /\ sent = {}
    /\ contract = [c \in Call |-> None]
    /\ made = [r \in Request |-> None]
    /\ result = [c \in Call |-> None]
    /\ key = 1
    /\ Agent!Init

-----------------------------------------------------------------------------
(* The requester *)

Send(c, step, where) ==
    /\ call' = [call EXCEPT ![c] = where]
    /\ sent' = sent \cup {<<c, step>>}

Return(c, answer) ==
    /\ call' = [call EXCEPT ![c] = "returned"]
    /\ result' = [result EXCEPT ![c] =
                    [task |-> answer.task, state |-> answer.state, contract |-> contract[c]]]
    /\ UNCHANGED <<sent, contract>>

\* Mutant: the exception is swallowed, as report_unreachable does.
Swallow(c) ==
    /\ call' = [call EXCEPT ![c] = "returned"]
    /\ UNCHANGED <<sent, contract, result>>

Raise(c) ==
    /\ call' = [call EXCEPT ![c] = "raised"]
    /\ UNCHANGED <<sent, contract, result>>

propose_task(c, a) ==
    /\ call[c] = "idle"
    /\ args' = [args EXCEPT ![c] = a]
    /\ Send(c, "offer", "offering")
    /\ UNCHANGED <<contract, result, made, key, agent>>

\* Only the answer to the offer may be a counter.
Countered(c, o) == made[o].decision = "COUNTER" /\ call[c] = "offering"

\* The answer to the offer, or to the acceptance of a counter, comes: it leads
\* to another message, or ends the call.
Answered(c, r) ==
    /\ Agent!Deliver(r)
    /\ LET o == reply[r].task IN
       \/ /\ Countered(c, o)
          /\ Send(c, "accept", "accepting")
          /\ UNCHANGED <<contract, result>>
       \/ /\ made[o].decision = "REJECT"
          /\ Return(c, reply[r])
       \/ /\ made[o].decision = "ACCEPT"
          /\ contract' = [contract EXCEPT ![c] = o]
          /\ Send(c, "work", "working")
          /\ UNCHANGED result
       \/ /\ ~Countered(c, o) /\ made[o].decision \in {"COUNTER", "UNSIGNED"}
          /\ Raise(c)
    /\ UNCHANGED <<args, made, key>>

Offered(c) == call[c] = "offering" /\ Answered(c, <<c, "offer">>)

Accepted(c) == call[c] = "accepting" /\ Answered(c, <<c, "accept">>)

\* The work's task is returned, with this call's contract as its contract.
Worked(c) ==
    /\ call[c] = "working"
    /\ Agent!Deliver(<<c, "work">>)
    /\ Return(c, reply[<<c, "work">>])
    /\ UNCHANGED <<args, made, key>>

\* Message or answer lost, answered with an error, or too late.
GivesUp(c) ==
    /\ call[c] \in {"offering", "accepting", "working"}
    /\ Raise(c)
    /\ UNCHANGED <<args, made, key, agent>>

-----------------------------------------------------------------------------
(* The agent *)

\* A request sent reaches the agent, now or long after its sender gave up.
Arrives(r) ==
    /\ r \in sent
    /\ \/ Agent!Replay(r, MessageOf(r))
       \/ Agent!RefuseContract(r, MessageOf(r))
       \/ Agent!CallHandler(r, MessageOf(r))
    /\ UNCHANGED <<client, made, key>>

\* _handle_propose signs a contract for what the agent has a handler for and
\* rejects the rest.  An agent may have a "task.propose" handler of its own,
\* that also rejects, counters, or answers without a contract.
Decisions(c) ==
    IF args[c].capability \in (SyncSkills \cup AsyncSkills) \ {"task.propose"}
    THEN {"ACCEPT", "REJECT", "COUNTER", "UNSIGNED"} ELSE {"REJECT"}

\* The propose handler run for r returns.
Decides(r) ==
    /\ r \in sent /\ r[2] # "work"
    /\ \E d \in Decisions(r[1]) :
         /\ Agent!HandlerReturns(r, IF d = "REJECT" THEN "failed" ELSE "completed")
         /\ made' = [made EXCEPT ![r] = [decision |-> d, key |-> key]]
    /\ UNCHANGED <<client, key>>

\* The work handler run for r returns.
Works(r) ==
    /\ r[2] = "work"
    /\ \E s \in {"completed", "failed"} : Agent!HandlerReturns(r, s)
    /\ UNCHANGED <<client, made, key>>

Raises(r) == Agent!HandlerRaises(r) /\ UNCHANGED <<client, made, key>>

\* The agent restarts, with its identity or, its file lost, with a new one.
Restarts ==
    /\ Agent!Restart
    /\ key' \in {key, key + 1} /\ key' <= MaxKeys
    /\ UNCHANGED <<client, made>>

Next ==
    \/ \E c \in Call, a \in Args : propose_task(c, a)
    \/ \E c \in Call : Offered(c) \/ Accepted(c) \/ Worked(c) \/ GivesUp(c)
    \/ \E r \in Request : Arrives(r) \/ Decides(r) \/ Works(r) \/ Raises(r)
    \/ Restarts

Spec == Init /\ [][Next]_vars

-----------------------------------------------------------------------------
(* Properties *)

TypeOK ==
    /\ args \in [Call -> Args \cup {None}]
    /\ call \in [Call -> {"idle", "offering", "accepting", "working", "returned", "raised"}]
    /\ sent \in SUBSET Request
    /\ contract \in [Call -> Request \cup {None}]
    /\ made \in [Request -> Decision \cup {None}]
    /\ result \in [Call -> Outcome \cup {None}]
    /\ \A c \in Call : call[c] = "returned" <=> result[c] # None
    /\ key \in 1..MaxKeys
    /\ Agent!TypeOK

\* The work handler runs for a call only under a contract that the agent made
\* for this very call's last proposal, the counter if there was one, and that
\* the requester signed knowing it; never under another call's.
WorkIsAgreed ==
    \A c \in Call : phase[<<c, "work">>] # "idle" =>
        LET last == IF <<c, "accept">> \in sent THEN "accept" ELSE "offer" IN
        /\ contract[c] = <<c, last>>
        /\ made[<<c, last>>].decision = "ACCEPT"

\* What propose_task returns is the agent's answer to this call, or the work of
\* a call with the same key.  The agent asks nothing else of a key: whoever comes
\* by it is given that work, another requester too, and for another task; but no
\* call is, that was made without a key or under another one.
ResultIsOwnOrOfItsKey ==
    \A c \in Call : result[c] # None =>
        LET d == result[c].task[1] IN
        d = c \/ (/\ result[c].task[2] = "work"
                  /\ args[c].key # None /\ args[d].key = args[c].key)

\* Callers that use one key, however their messages were lost, delayed and
\* overtaken, are all given the work of one run of the handler, unless the agent
\* restarted in between or somebody may use the key for a handler that suspends:
\* its result, stored late, replaces the one that was there.  All calls end within
\* the 24 hours for which results are kept: the agent's clock is at rest here
\* (MaxTime is 0), and what happens at the end of the TTL is A2AServer's.
RetriesAgree ==
    \A c, d \in Call :
        /\ result[c] # None /\ result[c].task \in done /\ result[c].task[2] = "work"
        /\ result[d] # None /\ result[d].task \in done /\ result[d].task[2] = "work"
        /\ args[c].key # None /\ args[c].key = args[d].key
        /\ \A a \in Args : a.key = args[c].key => a.capability \notin AsyncSkills
        => result[c].task = result[d].task

\* The contract that propose_task returns with a task is the one under which
\* the work was done: a review of the task binds its receipt to it.
ResultNamesWorkContract ==
    \A c \in Call :
        result[c] # None /\ result[c].task[2] = "work" =>
            result[c].contract = contract[result[c].task[1]]
=============================================================================
