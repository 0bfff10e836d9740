------------------------- MODULE NegotiationProofs -------------------------
(***************************************************************************)
(* Proofs about Negotiation, for any calls, arguments, skills and          *)
(* identities.                                                             *)
(*                                                                         *)
(* The negotiation's agent is an A2AServer (AgentIsEndpoint), so what is   *)
(* proved of that module in A2AServerProofs holds of it and is used here.  *)
(* What the requester and the agent know of each other goes through the    *)
(* messages: what is handled is what was sent (AskedAsSent), an answer is  *)
(* to what was asked (AnsweredOwn, from the keys of messages: HitIsOwn), a *)
(* contract is what was answered to the last proposal (SignedAsAgreed).    *)
(* That retries agree is then the endpoint's promise of keys for handlers  *)
(* that do not suspend (GivenKeyIsSolo).                                   *)
(***************************************************************************)
EXTENDS Negotiation, TLAPS

\* The agent's endpoint, with what is proved about it.
AgentP == INSTANCE A2AServerProofs WITH TTL <- 1, MaxTime <- 0

-----------------------------------------------------------------------------
(* The endpoint's operators, under both names *)

LEMMA SameKeys ==
  /\ AgentP!Key = Agent!Key /\ AgentP!Slot = Agent!Slot /\ AgentP!Result = Agent!Result
  /\ \A m : AgentP!KeysOf(m) = Agent!KeysOf(m)
BY DEF AgentP!Key, Agent!Key, AgentP!KeysOf, Agent!KeysOf, AgentP!MessageKeys,
   Agent!MessageKeys, AgentP!IdemKeys, Agent!IdemKeys, AgentP!Slot, Agent!Slot,
   AgentP!Result, Agent!Result

LEMMA SameType == AgentP!TypeOK <=> Agent!TypeOK
BY SameKeys DEF AgentP!TypeOK, Agent!TypeOK

LEMMA SameLookups ==
  /\ \A m : AgentP!Hit(m) = Agent!Hit(m) /\ AgentP!Purged(m) = Agent!Purged(m)
  /\ \A m : AgentP!Supported(m) <=> Agent!Supported(m)
  /\ \A m : AgentP!ContractAccepted(m) <=> Agent!ContractAccepted(m)
  /\ \A r : AgentP!Stored(r) = Agent!Stored(r)
  /\ AgentP!LoopFree <=> Agent!LoopFree
<1>1. \A m : AgentP!Hit(m) = Agent!Hit(m) /\ AgentP!Purged(m) = Agent!Purged(m)
  <2>1. AgentP!Live(store) = Agent!Live(store)
    BY SameKeys DEF AgentP!Live, Agent!Live
  <2>2. \A m : AgentP!MessageKeys(m) = Agent!MessageKeys(m) /\ AgentP!IdemKeys(m) = Agent!IdemKeys(m)
    BY DEF AgentP!MessageKeys, Agent!MessageKeys, AgentP!IdemKeys, Agent!IdemKeys
  <2> QED
    BY SameKeys, <2>1, <2>2 DEF AgentP!Hit, Agent!Hit, AgentP!Purged, Agent!Purged
<1>2. \A r : AgentP!Stored(r) = Agent!Stored(r)
  BY SameKeys DEF AgentP!Stored, Agent!Stored
<1>3. AgentP!LoopFree <=> Agent!LoopFree
  BY DEF AgentP!LoopFree, Agent!LoopFree, AgentP!Running, Agent!Running
<1>4. /\ \A m : AgentP!Supported(m) <=> Agent!Supported(m)
      /\ \A m : AgentP!ContractAccepted(m) <=> Agent!ContractAccepted(m)
  BY DEF AgentP!Supported, Agent!Supported, AgentP!Handlers, Agent!Handlers,
   AgentP!ContractAccepted, Agent!ContractAccepted
<1> QED
  BY <1>1, <1>2, <1>3, <1>4

\* What the endpoint does with a request that comes.
LEMMA SameArrivals ==
  ASSUME NEW r \in Request, NEW m \in Message
  PROVE  /\ Agent!Replay(r, m) => AgentP!Replay(r, m)
         /\ Agent!RefuseContract(r, m) => AgentP!RefuseContract(r, m)
         /\ Agent!CallHandler(r, m) => AgentP!CallHandler(r, m)
<1>1. \A o, t : Agent!Answered(r, m, o, t) => AgentP!Answered(r, m, o, t)
  BY DEF AgentP!Answered, Agent!Answered
<1> USE SameLookups, SameKeys DEF AgentP!history, Agent!history
<1>2. Agent!Replay(r, m) => AgentP!Replay(r, m)
  BY <1>1 DEF AgentP!Replay, Agent!Replay
<1>3. Agent!RefuseContract(r, m) => AgentP!RefuseContract(r, m)
  BY <1>1 DEF AgentP!RefuseContract, Agent!RefuseContract
<1>4. Agent!CallHandler(r, m) => AgentP!CallHandler(r, m)
  BY DEF AgentP!CallHandler, Agent!CallHandler
<1> QED
  BY <1>2, <1>3, <1>4

\* What it does with one that came.
LEMMA SameEndings ==
  ASSUME NEW r \in Request, NEW s
  PROVE  /\ Agent!HandlerReturns(r, s) => AgentP!HandlerReturns(r, s)
         /\ Agent!HandlerRaises(r) => AgentP!HandlerRaises(r)
         /\ Agent!Deliver(r) => AgentP!Deliver(r)
<1>1. \A n, o, t : Agent!Answered(r, n, o, t) => AgentP!Answered(r, n, o, t)
  BY DEF AgentP!Answered, Agent!Answered
<1>2. Agent!Resumes(r) => AgentP!Resumes(r)
  BY SameLookups DEF AgentP!Resumes, Agent!Resumes
<1> USE SameLookups, SameKeys DEF AgentP!history, Agent!history
<1>3. Agent!HandlerReturns(r, s) => AgentP!HandlerReturns(r, s)
  BY <1>1, <1>2 DEF AgentP!HandlerReturns, Agent!HandlerReturns
<1>4. Agent!HandlerRaises(r) => AgentP!HandlerRaises(r)
  BY <1>2 DEF AgentP!HandlerRaises, Agent!HandlerRaises
<1>5. Agent!Deliver(r) => AgentP!Deliver(r)
  BY DEF AgentP!Deliver, Agent!Deliver
<1> QED
  BY <1>3, <1>4, <1>5

LEMMA SameRestart == Agent!Restart => AgentP!Restart
BY SameKeys DEF AgentP!Restart, Agent!Restart

-----------------------------------------------------------------------------
(* The agent is an endpoint *)

\* A request is sent by a call that has its arguments.
SentByCalls ==
    /\ args \in [Call -> Args \cup {None}]
    /\ DOMAIN call = Call
    /\ sent \subseteq Request
    /\ \A r \in sent : args[r[1]] # None
    /\ \A c \in Call : call[c] # "idle" => args[c] # None

LEMMA MessageFacts ==
  ASSUME SentByCalls, NEW r \in sent
  PROVE  r \in Request /\ MessageOf(r) \in Message
<1>1. r \in Request /\ args[r[1]] \in Args
  BY DEF SentByCalls, Request
<1> QED
  BY <1>1 DEF MessageOf, Message

LEMMA SentByCallsInvariant == Spec => []SentByCalls
<1>1. Init => SentByCalls
  BY DEF Init, SentByCalls
<1>2. SentByCalls /\ [Next]_vars => SentByCalls'
  <2> SUFFICES ASSUME SentByCalls, [Next]_vars
               PROVE  SentByCalls'
    OBVIOUS
  <2> USE DEF SentByCalls
  <2>1. ASSUME NEW c \in Call, NEW a \in Args, propose_task(c, a)
        PROVE  SentByCalls'
    BY <2>1, NoneAssumption DEF propose_task, Send, Request
  <2>2. ASSUME NEW c \in Call, GivesUp(c) \/ Worked(c)
        PROVE  SentByCalls'
    BY <2>2 DEF GivesUp, Worked, Raise, Return
  <2>3. ASSUME NEW c \in Call, NEW s \in {"offer", "accept"}, call[c] # "idle",
               Answered(c, <<c, s>>)
        PROVE  SentByCalls'
    BY <2>3 DEF Answered, Send, Return, Raise, Request
  <2>4. ASSUME NEW c \in Call, Offered(c) \/ Accepted(c)
        PROVE  SentByCalls'
    BY <2>3, <2>4 DEF Offered, Accepted
  <2>5. ASSUME UNCHANGED client
        PROVE  SentByCalls'
    BY <2>5 DEF client
  <2> QED
    BY <2>1, <2>2, <2>4, <2>5 DEF Next, Arrives, Decides, Works, Raises, Restarts, vars
<1> QED
  BY <1>1, <1>2, PTL DEF Spec

LEMMA StepIsEndpoints == SentByCalls /\ [Next]_vars => [AgentP!Next]_(AgentP!vars)
<1> SUFFICES ASSUME SentByCalls, [Next]_vars
             PROVE  [AgentP!Next]_(AgentP!vars)
  OBVIOUS
<1>1. ASSUME NEW r \in Request, Agent!Deliver(r) \/ Agent!HandlerRaises(r)
      PROVE  AgentP!Next
  BY <1>1, SameEndings DEF AgentP!Next
<1>2. ASSUME NEW r \in Request, Arrives(r)
      PROVE  AgentP!Next
  <2>1. r \in sent /\ MessageOf(r) \in Message
    BY <1>2, MessageFacts DEF Arrives
  <2>2. \/ AgentP!Replay(r, MessageOf(r))
        \/ AgentP!RefuseContract(r, MessageOf(r))
        \/ AgentP!CallHandler(r, MessageOf(r))
    BY <1>2, <2>1, SameArrivals DEF Arrives
  <2> QED
    BY <2>1, <2>2 DEF AgentP!Next
<1>3. ASSUME NEW r \in Request, NEW s \in {"completed", "failed"}, Agent!HandlerReturns(r, s)
      PROVE  AgentP!Next
  BY <1>3, SameEndings DEF AgentP!Next
<1>4. ASSUME NEW r \in Request, Decides(r) \/ Works(r) \/ Raises(r)
      PROVE  AgentP!Next
  BY <1>1, <1>3, <1>4 DEF Decides, Works, Raises
<1>5. ASSUME NEW c \in Call, Offered(c) \/ Accepted(c) \/ Worked(c)
      PROVE  AgentP!Next
  <2>1. \A s \in {"offer", "accept", "work"} : <<c, s>> \in Request
    BY DEF Request
  <2> QED
    BY <1>1, <1>5, <2>1 DEF Offered, Accepted, Worked, Answered
<1>6. CASE Restarts
  BY <1>6, SameRestart DEF Restarts, AgentP!Next
<1>7. ASSUME UNCHANGED agent
      PROVE  UNCHANGED AgentP!vars
  BY <1>7 DEF agent, AgentP!vars, AgentP!server, AgentP!history
<1>8. ASSUME NEW c \in Call, GivesUp(c) \/ (\E a \in Args : propose_task(c, a))
      PROVE  UNCHANGED agent
  BY <1>8 DEF GivesUp, propose_task
<1> QED
  BY <1>2, <1>4, <1>5, <1>6, <1>7, <1>8 DEF Next, vars

\* The agent that a requester negotiates with is an A2AServer, whose clients send the
\* messages of propose_task.
THEOREM AgentIsEndpoint == Spec => AgentP!Spec
<1>1. Init => AgentP!Init
  BY SameKeys DEF Init, Agent!Init, AgentP!Init
<1> QED
  BY <1>1, SentByCallsInvariant, StepIsEndpoints, PTL DEF Spec, AgentP!Spec

LEMMA EndpointInvariant == Spec => []AgentP!RInv
<1>1. /\ None \notin Message /\ None \notin Request /\ None \notin AgentP!Slot
         /\ None \notin AgentP!Result
      /\ None \notin {AgentP!KeysOf(m) : m \in Message}
  BY SameKeys, NoneAssumption
<1>2. \A m \in Message :
        /\ DOMAIN m = {"sender", "id", "key", "capability", "contract"}
        /\ m.contract \in {"none", "unsigned", "badsig", "signed"}
  BY DEF Message, Sent
<1>3. 1 \in Nat \ {0} /\ 0 \in Nat
  OBVIOUS
<1>4. /\ "task.propose" \in SyncSkills
      /\ SyncSkills \cap AsyncSkills = {}
  BY SkillAssumption
<1>5. AgentP!Spec => []AgentP!RInv
  BY <1>1, <1>2, <1>3, <1>4, AgentP!RInvariance
<1> QED
  BY <1>5, AgentIsEndpoint, PTL

-----------------------------------------------------------------------------
(* The inductive invariant *)

\* TypeOK, but for the agent's endpoint.
ClientTypes ==
    /\ args \in [Call -> Args \cup {None}]
    /\ call \in [Call -> {"idle", "offering", "accepting", "working", "returned", "raised"}]
    /\ sent \in SUBSET Request
    /\ contract \in [Call -> Request \cup {None}]
    /\ made \in [Request -> Decision \cup {None}]
    /\ result \in [Call -> Outcome \cup {None}]
    /\ \A c \in Call : call[c] = "returned" <=> result[c] # None
    /\ key \in 1..MaxKeys

\* A call's messages go out in their order, the work with a signed contract.
SentInOrder ==
    \A c \in Call :
        /\ call[c] = "idle" <=> args[c] = None
        /\ <<c, "offer">> \in sent <=> call[c] # "idle"
        /\ call[c] \in {"idle", "offering"} => <<c, "accept">> \notin sent
        /\ call[c] = "accepting" => <<c, "accept">> \in sent
        /\ <<c, "work">> \in sent <=> contract[c] # None
        /\ call[c] \in {"idle", "offering", "accepting"} => contract[c] = None

\* The call's last proposal.
Last(c) == <<c, IF <<c, "accept">> \in sent THEN "accept" ELSE "offer">>

\* What is signed is what the agent answered to that proposal.
SignedAsAgreed ==
    \A c \in Call : contract[c] # None =>
        /\ contract[c] = Last(c)
        /\ made[contract[c]] # None /\ made[contract[c]].decision = "ACCEPT"

\* The request r is answered by the task of o: its own, or of its retry.
Own(r, o) ==
    /\ {r, o} \subseteq sent
    /\ \/ o = r
       \/ /\ r[2] = "work" /\ o[2] = "work"
          /\ args[r[1]].key # None /\ args[o[1]].key = args[r[1]].key

ReturnedOwn ==
    \A c \in Call : result[c] # None =>
        \E s \in {"offer", "accept", "work"} : Own(<<c, s>>, result[c].task)

\* The agent handles what was sent.
AskedAsSent ==
    \A r \in Request : phase[r] # "idle" =>
        r \in sent /\ \E s \in {"signed", "badsig"} : msg[r] = Sent(r, args[r[1]], s)

\* A decision is made once, by the handler that ends.
DecidedOnce ==
    \A r \in Request : made[r] # None => phase[r] \notin {"idle", "running"}

\* An answer is to what was asked; to a proposal, it is a decision.
AnsweredOwn ==
    \A r \in Request :
        /\ phase[r] = "replied" => reply[r] # None
        /\ reply[r] # None =>
             /\ reply[r].state \in {"completed", "failed"}
             /\ Own(r, reply[r].task)
             /\ r[2] # "work" => made[r] # None

DoneHasState == \A o \in done : tasks[o] \in {"completed", "failed"}

NInv ==
    /\ ClientTypes /\ SentInOrder /\ SignedAsAgreed /\ ReturnedOwn
    /\ AskedAsSent /\ DecidedOnce /\ AnsweredOwn /\ DoneHasState
    /\ now = 0

LEMMA RequestFacts ==
  /\ \A r \in Request : /\ r[1] \in Call /\ r[2] \in {"offer", "accept", "work"}
                        /\ r = <<r[1], r[2]>>
  /\ \A c \in Call : \A s \in {"offer", "accept", "work"} : <<c, s>> \in Request
  /\ \A c, d \in Call : \A s, t : <<c, s>> = <<d, t>> <=> c = d /\ s = t
BY DEF Request

\* Only a call that began has sent anything.
LEMMA SendersBegan ==
  ASSUME NInv, NEW r \in sent
  PROVE  call[r[1]] # "idle" /\ args[r[1]] \in Args
<1>1. r \in Request
  BY DEF NInv, ClientTypes
<1>2. PICK c \in Call, s \in {"offer", "accept", "work"} : r = <<c, s>> /\ r[1] = c
  BY <1>1, RequestFacts
<1>3. call[c] # "idle"
  BY <1>2 DEF NInv, SentInOrder
<1> QED
  BY <1>2, <1>3 DEF NInv, SentInOrder, ClientTypes

LEMMA InitNInv == Init => NInv
<1> SUFFICES ASSUME Init
             PROVE  NInv
  OBVIOUS
<1> USE NoneAssumption, BoundAssumption DEF Init
<1>1. ClientTypes
  BY DEF ClientTypes
<1>2. SentInOrder /\ SignedAsAgreed /\ ReturnedOwn
  BY DEF SentInOrder, SignedAsAgreed, ReturnedOwn
<1>3. AskedAsSent /\ DecidedOnce /\ AnsweredOwn /\ DoneHasState /\ now = 0
  BY DEF AskedAsSent, DecidedOnce, AnsweredOwn, DoneHasState, Agent!Init
<1> QED
  BY <1>1, <1>2, <1>3 DEF NInv

-----------------------------------------------------------------------------
(* The requester's steps *)

\* What is known of the agent stays true while its clients send and take answers.
LEMMA AgentKept ==
  ASSUME NInv, AgentP!RInv,
         UNCHANGED <<made, msg, tasks, reply, now, done>>,
         \A r \in Request : \/ phase'[r] = phase[r]
                            \/ phase[r] = "replied" /\ phase'[r] = "delivered",
         sent \subseteq sent', \A r \in sent : args'[r[1]] = args[r[1]]
  PROVE  AskedAsSent' /\ DecidedOnce' /\ AnsweredOwn' /\ DoneHasState' /\ now' = 0
<1> USE DEF NInv
<1>1. AskedAsSent'
  BY DEF AskedAsSent
<1>2. DecidedOnce' /\ DoneHasState' /\ now' = 0
  BY DEF DecidedOnce, DoneHasState
<1>3. AnsweredOwn'
  BY DEF AnsweredOwn, Own
<1> QED
  BY <1>1, <1>2, <1>3

\* An answer taken is the answer of a task of the call's, or of its retry.
LEMMA DeliverFacts ==
  ASSUME NInv, AgentP!RInv, NEW r \in Request, Agent!Deliver(r)
  PROVE  /\ UNCHANGED <<msg, tasks, reply, now, done>>
         /\ \A q \in Request : \/ phase'[q] = phase[q]
                               \/ phase[q] = "replied" /\ phase'[q] = "delivered"
         /\ reply[r] # None /\ reply[r].state \in {"completed", "failed"}
         /\ Own(r, reply[r].task)
         /\ r[2] # "work" => reply[r].task = r /\ made[r] # None
<1>1. phase \in [Request -> {"idle", "running", "replied", "delivered", "aborted"}]
  BY DEF AgentP!RInv, AgentP!IInv, AgentP!TypeOK
<1>2. phase[r] = "replied" /\ phase' = [phase EXCEPT ![r] = "delivered"]
  BY DEF Agent!Deliver
<1>3. UNCHANGED <<msg, tasks, reply, now, done>>
  BY DEF Agent!Deliver, Agent!history
<1> QED
  BY <1>1, <1>2, <1>3 DEF NInv, AnsweredOwn, Own

\* The results so far stay the results of their calls.
LEMMA ResultsKept ==
  ASSUME NInv, NEW c \in Call, result'[c] = result[c],
         sent \subseteq sent', \A r \in sent : args'[r[1]] = args[r[1]]
  PROVE  result'[c] # None => \E s \in {"offer", "accept", "work"} : Own(<<c, s>>, result[c].task)'
BY DEF NInv, ReturnedOwn, Own

LEMMA ProposeStep ==
  ASSUME NInv, AgentP!RInv, NEW c \in Call, NEW a \in Args, propose_task(c, a)
  PROVE  NInv'
<1> USE DEF NInv
<1>1. ClientTypes'
  BY NoneAssumption DEF propose_task, Send, ClientTypes, Request
<1>2. \A r \in sent : args'[r[1]] = args[r[1]]
  BY SendersBegan DEF propose_task, ClientTypes
<1>3. \A d \in Call : \A s \in {"offer", "accept", "work"} :
        <<d, s>> \in sent' <=> <<d, s>> \in sent \/ (d = c /\ s = "offer")
  BY RequestFacts DEF propose_task, Send
<1>4. SentInOrder'
  <2>1. a # None /\ call[c] = "idle"
    BY NoneAssumption DEF propose_task
  <2>2. /\ args' = [args EXCEPT ![c] = a] /\ call' = [call EXCEPT ![c] = "offering"]
        /\ contract' = contract
    BY DEF propose_task, Send
  <2> SUFFICES ASSUME NEW d \in Call
               PROVE  SentInOrder!(d)'
    BY DEF SentInOrder
  <2>3. CASE d = c
    BY <1>3, <2>1, <2>2, <2>3 DEF ClientTypes, SentInOrder
  <2>4. CASE d # c
    BY <1>3, <2>2, <2>4 DEF ClientTypes, SentInOrder
  <2> QED
    BY <2>3, <2>4
<1>5. SignedAsAgreed'
  BY <1>3 DEF propose_task, Send, ClientTypes, SignedAsAgreed, Last
<1>6. ReturnedOwn'
  BY <1>2, ResultsKept DEF propose_task, Send, ReturnedOwn
<1>7. AskedAsSent' /\ DecidedOnce' /\ AnsweredOwn' /\ DoneHasState' /\ now' = 0
  BY <1>2, AgentKept DEF propose_task, Send, agent
<1> QED
  BY <1>1, <1>4, <1>5, <1>6, <1>7

LEMMA GivesUpStep ==
  ASSUME NInv, AgentP!RInv, NEW c \in Call,
         Raise(c), call[c] \in {"offering", "accepting", "working"},
         AskedAsSent' /\ DecidedOnce' /\ AnsweredOwn' /\ DoneHasState' /\ now' = 0,
         UNCHANGED <<args, made, key>>
  PROVE  NInv'
<1> USE DEF NInv, Raise
<1>1. ClientTypes'
  BY DEF ClientTypes
<1>2. SentInOrder'
  BY DEF ClientTypes, SentInOrder
<1>3. SignedAsAgreed' /\ ReturnedOwn'
  BY DEF SignedAsAgreed, Last, ReturnedOwn, Own
<1> QED
  BY <1>1, <1>2, <1>3

LEMMA ReturnStep ==
  ASSUME NInv, NEW c \in Call, NEW s \in {"offer", "accept", "work"},
         call[c] \in {"offering", "accepting", "working"},
         Return(c, reply[<<c, s>>]),
         reply[<<c, s>>].state \in {"completed", "failed"},
         Own(<<c, s>>, reply[<<c, s>>].task),
         AskedAsSent' /\ DecidedOnce' /\ AnsweredOwn' /\ DoneHasState' /\ now' = 0,
         UNCHANGED <<args, made, key>>
  PROVE  NInv'
<1> DEFINE a == [task |-> reply[<<c, s>>].task, state |-> reply[<<c, s>>].state,
                 contract |-> contract[c]]
<1>1. a \in Outcome
  BY DEF Outcome, Own, NInv, ClientTypes
<1>2. a # None
  BY <1>1, NoneAssumption
<1>3. /\ call' = [call EXCEPT ![c] = "returned"] /\ result' = [result EXCEPT ![c] = a]
      /\ UNCHANGED <<sent, contract>>
  BY DEF Return
<1>4. \A t : t = a.task => Own(<<c, s>>, t)'
  BY <1>3 DEF Own
<1> HIDE DEF a
<1> USE DEF NInv
<1>5. ClientTypes'
  BY <1>1, <1>2, <1>3 DEF ClientTypes
<1>6. SentInOrder'
  BY <1>3 DEF ClientTypes, SentInOrder
<1>7. SignedAsAgreed'
  BY <1>3 DEF SignedAsAgreed, Last
<1>8. ReturnedOwn'
  <2> SUFFICES ASSUME NEW d \in Call, result'[d] # None
               PROVE  \E t \in {"offer", "accept", "work"} : Own(<<d, t>>, result[d].task)'
    BY DEF ReturnedOwn
  <2>1. CASE d = c
    BY <1>3, <1>4, <2>1 DEF ClientTypes
  <2>2. CASE d # c
    BY <1>3, <2>2, ResultsKept DEF ClientTypes
  <2> QED
    BY <2>1, <2>2
<1> QED
  BY <1>5, <1>6, <1>7, <1>8

\* A counter is accepted: the acceptance is the call's last proposal.
LEMMA AcceptStep ==
  ASSUME NInv, NEW c \in Call, call[c] = "offering",
         Send(c, "accept", "accepting"), UNCHANGED <<contract, result, args, made, key>>,
         AskedAsSent' /\ DecidedOnce' /\ AnsweredOwn' /\ DoneHasState' /\ now' = 0
  PROVE  NInv'
<1> USE DEF NInv
<1>1. \A d \in Call : \A s \in {"offer", "accept", "work"} :
        <<d, s>> \in sent' <=> <<d, s>> \in sent \/ (d = c /\ s = "accept")
  BY RequestFacts DEF Send
<1>2. call' = [call EXCEPT ![c] = "accepting"] /\ sent \subseteq sent'
  BY DEF Send
<1>3. ClientTypes'
  BY <1>2 DEF Send, ClientTypes, Request
<1>4. SentInOrder'
  BY <1>1, <1>2 DEF ClientTypes, SentInOrder
<1>5. SignedAsAgreed'
  BY <1>1 DEF SentInOrder, SignedAsAgreed, Last
<1>6. ReturnedOwn'
  BY <1>2 DEF ReturnedOwn, Own
<1> QED
  BY <1>3, <1>4, <1>5, <1>6

\* The contract that comes with an acceptance of the last proposal is signed.
LEMMA SignStep ==
  ASSUME NInv, NEW c \in Call, NEW o \in Request, o = Last(c),
         call[c] \in {"offering", "accepting"},
         made[o] # None, made[o].decision = "ACCEPT",
         contract' = [contract EXCEPT ![c] = o],
         Send(c, "work", "working"), UNCHANGED <<result, args, made, key>>,
         AskedAsSent' /\ DecidedOnce' /\ AnsweredOwn' /\ DoneHasState' /\ now' = 0
  PROVE  NInv'
<1> USE DEF NInv
<1>1. \A d \in Call : \A s \in {"offer", "accept", "work"} :
        <<d, s>> \in sent' <=> <<d, s>> \in sent \/ (d = c /\ s = "work")
  BY RequestFacts DEF Send
<1>2. call' = [call EXCEPT ![c] = "working"] /\ sent \subseteq sent'
  BY DEF Send
<1>3. o # None
  BY NoneAssumption
<1>4. ClientTypes'
  BY <1>2 DEF Send, ClientTypes, Request
<1>5. SentInOrder'
  BY <1>1, <1>2, <1>3 DEF ClientTypes, SentInOrder
<1>6. SignedAsAgreed'
  <2>1. \A d \in Call : Last(d)' = Last(d)
    BY <1>1 DEF Last
  <2> QED
    BY <2>1 DEF ClientTypes, SignedAsAgreed
<1>7. ReturnedOwn'
  BY <1>2 DEF ReturnedOwn, Own
<1> QED
  BY <1>4, <1>5, <1>6, <1>7

\* An answer to a proposal, whatever it is.
LEMMA AnsweredStep ==
  ASSUME NInv, AgentP!RInv, NEW c \in Call, NEW s \in {"offer", "accept"},
         <<c, s>> = Last(c), call[c] \in {"offering", "accepting"}, Answered(c, <<c, s>>)
  PROVE  NInv'
<1> DEFINE r == <<c, s>>
<1>1. r \in Request /\ r[2] # "work"
  BY RequestFacts
<1>2. Agent!Deliver(r) /\ UNCHANGED <<args, made, key>>
  BY DEF Answered
<1>3. /\ reply[r].state \in {"completed", "failed"} /\ Own(r, reply[r].task)
      /\ reply[r].task = r /\ made[r] # None
  BY <1>1, <1>2, DeliverFacts
<1>4. \/ Countered(c, r) /\ Send(c, "accept", "accepting") /\ UNCHANGED <<contract, result>>
      \/ Return(c, reply[r])
      \/ /\ made[r].decision = "ACCEPT" /\ contract' = [contract EXCEPT ![c] = r]
         /\ Send(c, "work", "working") /\ UNCHANGED result
      \/ Raise(c)
  BY <1>3 DEF Answered
<1>5. sent \subseteq sent'
  BY <1>4 DEF Send, Return, Raise
<1>6. AskedAsSent' /\ DecidedOnce' /\ AnsweredOwn' /\ DoneHasState' /\ now' = 0
  BY <1>1, <1>2, <1>5, DeliverFacts, AgentKept
<1> HIDE DEF r
<1>7. CASE Countered(c, r) /\ Send(c, "accept", "accepting") /\ UNCHANGED <<contract, result>>
  BY <1>2, <1>6, <1>7, AcceptStep DEF Countered
<1>8. CASE Return(c, reply[r])
  BY <1>2, <1>3, <1>6, <1>8, ReturnStep DEF r
<1>9. CASE /\ made[r].decision = "ACCEPT" /\ contract' = [contract EXCEPT ![c] = r]
           /\ Send(c, "work", "working") /\ UNCHANGED result
  <2>1. r = Last(c)
    BY DEF r
  <2> QED
    BY <1>1, <1>2, <1>3, <1>6, <1>9, <2>1, SignStep
<1>10. CASE Raise(c)
  BY <1>2, <1>6, <1>10, GivesUpStep
<1> QED
  BY <1>4, <1>7, <1>8, <1>9, <1>10

LEMMA RequesterStep ==
  ASSUME NInv, AgentP!RInv, NEW c \in Call,
         Offered(c) \/ Accepted(c) \/ Worked(c) \/ GivesUp(c)
  PROVE  NInv'
<1>1. CASE Offered(c)
  <2>1. <<c, "offer">> = Last(c)
    BY <1>1 DEF NInv, SentInOrder, Last, Offered
  <2> QED
    BY <1>1, <2>1, AnsweredStep DEF Offered
<1>2. CASE Accepted(c)
  <2>1. <<c, "accept">> = Last(c)
    BY <1>2 DEF NInv, SentInOrder, Last, Accepted
  <2> QED
    BY <1>2, <2>1, AnsweredStep DEF Accepted
<1>3. CASE Worked(c)
  <2>1. <<c, "work">> \in Request
    BY RequestFacts
  <2>2. /\ call[c] = "working" /\ Agent!Deliver(<<c, "work">>)
        /\ Return(c, reply[<<c, "work">>]) /\ UNCHANGED <<args, made, key>>
    BY <1>3 DEF Worked
  <2>3. AskedAsSent' /\ DecidedOnce' /\ AnsweredOwn' /\ DoneHasState' /\ now' = 0
    BY <2>1, <2>2, DeliverFacts, AgentKept DEF Return
  <2> QED
    BY <2>1, <2>2, <2>3, DeliverFacts, ReturnStep
<1>4. CASE GivesUp(c)
  <2>1. AskedAsSent' /\ DecidedOnce' /\ AnsweredOwn' /\ DoneHasState' /\ now' = 0
    BY <1>4, AgentKept DEF GivesUp, Raise, agent
  <2> QED
    BY <1>4, <2>1, GivesUpStep DEF GivesUp
<1> QED
  BY <1>1, <1>2, <1>3, <1>4

-----------------------------------------------------------------------------
(* The agent's steps *)

\* What is known of the calls stays true while the agent handles requests: it
\* may decide more, but not otherwise.
LEMMA ClientKept ==
  ASSUME NInv, UNCHANGED client, key' \in 1..MaxKeys,
         made' \in [Request -> Decision \cup {None}],
         \A r \in Request : made[r] # None => made'[r] = made[r]
  PROVE  ClientTypes' /\ SentInOrder' /\ SignedAsAgreed' /\ ReturnedOwn'
<1> USE DEF NInv, client
<1>1. ClientTypes' /\ SentInOrder'
  BY DEF ClientTypes, SentInOrder
<1>2. SignedAsAgreed'
  BY DEF ClientTypes, SignedAsAgreed, Last
<1>3. ReturnedOwn'
  BY DEF ReturnedOwn, Own
<1> QED
  BY <1>1, <1>2, <1>3

\* Two messages share a key when they are one message, or the work of calls that
\* were given one key.
LEMMA SharedKeyIsOwn ==
  ASSUME NEW r \in Request, NEW o \in Request, NEW a \in Args, NEW b \in Args,
         NEW s, NEW t, NEW k \in Agent!KeysOf(Sent(r, a, s)), k \in Agent!KeysOf(Sent(o, b, t))
  PROVE  \/ o = r
         \/ /\ r[2] = "work" /\ o[2] = "work"
            /\ a.key # None /\ b.key = a.key
<1>1. CASE k \in Agent!MessageKeys(Sent(r, a, s))
  <2>1. k = <<"msg", a.requester, <<"id", r>>>>
    BY <1>1 DEF Agent!MessageKeys, Sent, MessageId
  <2>2. k \notin Agent!IdemKeys(Sent(o, b, t))
    BY <2>1 DEF Agent!IdemKeys
  <2>3. k = <<"msg", b.requester, <<"id", o>>>>
    BY <2>2 DEF Agent!KeysOf, Agent!MessageKeys, Sent, MessageId
  <2> QED
    BY <2>1, <2>3
<1>2. CASE k \in Agent!IdemKeys(Sent(r, a, s))
  <2>1. r[2] = "work" /\ k = <<"idem", TaskKey(r[1], a)>>
    BY <1>2 DEF Agent!IdemKeys, Sent
  <2>2. k \notin Agent!MessageKeys(Sent(o, b, t))
    BY <2>1 DEF Agent!MessageKeys
  <2>3. o[2] = "work" /\ k = <<"idem", TaskKey(o[1], b)>>
    BY <2>2 DEF Agent!KeysOf, Agent!IdemKeys, Sent
  <2>4. TaskKey(r[1], a) = TaskKey(o[1], b)
    BY <2>1, <2>3
  <2>5. (a.key # None /\ b.key = a.key) \/ r[1] = o[1]
    BY <2>4 DEF TaskKey
  <2> QED
    BY <2>1, <2>3, <2>5, RequestFacts
<1> QED
  BY <1>1, <1>2 DEF Agent!KeysOf

\* A lookup that hits finds a result of this call's or of its retry, and a
\* proposal never hits.
LEMMA HitIsOwn ==
  ASSUME NInv, AgentP!RInv, NEW r \in sent, phase[r] = "idle",
         NEW k \in Agent!Hit(MessageOf(r))
  PROVE  /\ store[k].task \in done
         /\ Own(r, store[k].task) /\ r[2] = "work"
<1> DEFINE o == store[k].task
           m == MessageOf(r)
<1>1. k \in Agent!KeysOf(m) /\ Agent!Live(store)[k] # None
  BY DEF Agent!Hit, Agent!KeysOf
<1>2. r \in Request /\ args[r[1]] \in Args /\ m \in Message
  BY SendersBegan DEF NInv, ClientTypes, MessageOf, Message
<1>3. k \in Agent!Key
  BY <1>1, <1>2 DEF Agent!Key
<1>4. store[k] # None
  BY <1>1, <1>3 DEF Agent!Live
<1>5. o \in done /\ k \in Agent!KeysOf(msg[o])
  BY <1>3, <1>4, SameKeys DEF AgentP!RInv, AgentP!StoreOK
<1>6. o \in Request /\ phase[o] # "idle"
  BY <1>5 DEF AgentP!RInv, AgentP!IInv, AgentP!DoneOK, AgentP!TypeOK
<1>7. o \in sent /\ \E t : msg[o] = Sent(o, args[o[1]], t)
  BY <1>6 DEF NInv, AskedAsSent
<1>8. args[o[1]] \in Args
  BY <1>7, SendersBegan
<1>9. \E s : m = Sent(r, args[r[1]], s)
  BY DEF MessageOf
<1> HIDE DEF o, m
<1>10. r[2] = "work" /\ o[2] = "work" /\ args[r[1]].key # None
       /\ args[o[1]].key = args[r[1]].key
  BY <1>1, <1>2, <1>5, <1>6, <1>7, <1>8, <1>9, SharedKeyIsOwn
<1>11. Own(r, o)
  BY <1>7, <1>10 DEF Own
<1> QED
  BY <1>5, <1>10, <1>11 DEF o

\* The endpoint's variables are functions on the requests.
LEMMA EndpointTypes ==
  ASSUME AgentP!RInv
  PROVE  /\ phase \in [Request -> {"idle", "running", "replied", "delivered", "aborted"}]
         /\ msg \in [Request -> Message \cup {None}]
         /\ tasks \in [Request -> {"completed", "failed", "canceled", None}]
         /\ reply \in [Request -> Agent!Result \cup {None}]
         /\ done \in SUBSET Request
         /\ \A o \in done : phase[o] \in {"replied", "delivered"}
         /\ \A r \in Request : reply[r] # None => phase[r] \notin {"idle", "running"}
BY SameKeys DEF AgentP!RInv, AgentP!IInv, AgentP!TypeOK, AgentP!DoneOK, AgentP!Fresh

\* The message a request brings is the one that was sent.
LEMMA BroughtAsSent == \A r \in Request : \E s \in {"signed", "badsig"} :
                         MessageOf(r) = Sent(r, args[r[1]], s)
BY DEF MessageOf

\* A request that comes is handled, or answered at once with a task of its own.
LEMMA ArrivesStep ==
  ASSUME NInv, AgentP!RInv, NEW r \in Request, Arrives(r)
  PROVE  NInv'
<1> DEFINE m == MessageOf(r)
<1>1. r \in sent /\ phase[r] = "idle" /\ UNCHANGED <<client, made, key, done, now>>
  BY DEF Arrives, Agent!Replay, Agent!RefuseContract, Agent!CallHandler, Agent!history
<1>2. \E s \in {"signed", "badsig"} : m = Sent(r, args[r[1]], s)
  BY BroughtAsSent
<1>3. ClientTypes' /\ SentInOrder' /\ SignedAsAgreed' /\ ReturnedOwn'
  BY <1>1, ClientKept DEF NInv, ClientTypes
<1>4. Own(r, r) /\ \A q, o \in Request : Own(q, o) => Own(q, o)'
  BY <1>1 DEF Own, client
<1> USE EndpointTypes DEF NInv
<1>5. ASSUME NEW o, NEW s \in {"completed", "failed"}, Own(r, o), r[2] = "work",
             Agent!Answered(r, m, o, s),
             tasks' = tasks \/ tasks' = [tasks EXCEPT ![r] = "failed"]
      PROVE  AskedAsSent' /\ DecidedOnce' /\ AnsweredOwn' /\ DoneHasState'
  <2>1. /\ msg' = [msg EXCEPT ![r] = m] /\ phase' = [phase EXCEPT ![r] = "replied"]
        /\ reply' = [reply EXCEPT ![r] = [task |-> o, state |-> s]]
    BY <1>5 DEF Agent!Answered
  <2> HIDE DEF m
  <2>2. AskedAsSent'
    BY <1>1, <1>2, <2>1 DEF AskedAsSent, client
  <2>3. DecidedOnce' /\ DoneHasState'
    BY <1>1, <1>5, <2>1 DEF DecidedOnce, DoneHasState
  <2>4. AnsweredOwn'
    <3> SUFFICES ASSUME NEW q \in Request
                 PROVE  AnsweredOwn!(q)'
      BY DEF AnsweredOwn
    <3>1. CASE q = r
      <4>1. reply'[r] = [task |-> o, state |-> s]
        BY <2>1
      <4>2. Own(q, reply[q].task)'
        BY <1>1, <1>5, <3>1, <4>1 DEF Own, client
      <4>3. reply'[r] # None
        <5>1. o \in Request
          BY <1>5 DEF Own, ClientTypes
        <5>2. reply'[r] \in Agent!Result
          BY <4>1, <5>1 DEF Agent!Result
        <5> QED
          BY <5>2, NoneAssumption
      <4> QED
        BY <1>5, <3>1, <4>1, <4>2, <4>3
    <3>2. CASE q # r
      <4>1. reply'[q] = reply[q] /\ phase'[q] = phase[q] /\ made'[q] = made[q]
        BY <1>1, <2>1, <3>2
      <4>2. Own(q, reply[q].task) => Own(q, reply[q].task)'
        BY <1>1, <4>1 DEF Own, client
      <4> QED
        BY <4>1, <4>2 DEF AnsweredOwn
    <3> QED
      BY <3>1, <3>2
  <2> QED
    BY <2>2, <2>3, <2>4
<1>6. CASE Agent!Replay(r, m)
  <2>1. PICK k \in Agent!Hit(m) : Agent!Answered(r, m, store[k].task, tasks[store[k].task])
    BY <1>6 DEF Agent!Replay
  <2>2. store[k].task \in done /\ Own(r, store[k].task) /\ r[2] = "work"
    BY <1>1, HitIsOwn
  <2>3. tasks[store[k].task] \in {"completed", "failed"} /\ tasks' = tasks
    BY <1>6, <2>2 DEF Agent!Replay, DoneHasState
  <2>4. AskedAsSent' /\ DecidedOnce' /\ AnsweredOwn' /\ DoneHasState'
    BY <1>5, <2>1, <2>2, <2>3
  <2> QED
    BY <1>1, <1>3, <2>4
<1>7. CASE Agent!RefuseContract(r, m)
  <2>1. /\ Agent!Answered(r, m, r, "failed") /\ tasks' = [tasks EXCEPT ![r] = "failed"]
        /\ ~Agent!ContractAccepted(m)
    BY <1>7 DEF Agent!RefuseContract
  <2>2. r[2] = "work"
    BY <1>2, <2>1 DEF Agent!ContractAccepted, Sent
  <2>3. AskedAsSent' /\ DecidedOnce' /\ AnsweredOwn' /\ DoneHasState'
    BY <1>4, <1>5, <2>1, <2>2
  <2> QED
    BY <1>1, <1>3, <2>3
<1>8. CASE Agent!CallHandler(r, m)
  <2>1. /\ msg' = [msg EXCEPT ![r] = m] /\ phase' = [phase EXCEPT ![r] = "running"]
        /\ UNCHANGED <<tasks, reply>>
    BY <1>8 DEF Agent!CallHandler
  <2> HIDE DEF m
  <2>2. AskedAsSent'
    BY <1>1, <1>2, <2>1 DEF AskedAsSent, client
  <2>3. DecidedOnce' /\ DoneHasState'
    BY <1>1, <2>1 DEF DecidedOnce, DoneHasState
  <2>4. AnsweredOwn'
    BY <1>1, <1>4, <2>1 DEF AnsweredOwn, Own, client
  <2> QED
    BY <1>1, <1>3, <2>2, <2>3, <2>4
<1> QED
  BY <1>6, <1>7, <1>8 DEF Arrives

\* A handler returns: the request is answered with a task of its own.
LEMMA ReturnsStep ==
  ASSUME NInv, AgentP!RInv, NEW r \in sent, NEW s \in {"completed", "failed"},
         Agent!HandlerReturns(r, s), UNCHANGED <<client, key>>,
         \/ made' = made /\ r[2] = "work"
         \/ \E d \in Decision : made' = [made EXCEPT ![r] = d]
  PROVE  NInv'
<1> USE EndpointTypes DEF NInv
<1>1. r \in Request /\ phase[r] = "running" /\ made[r] = None
  BY DEF ClientTypes, DecidedOnce, Agent!HandlerReturns, Agent!Resumes
<1>2. /\ msg' = [msg EXCEPT ![r] = msg[r]] /\ phase' = [phase EXCEPT ![r] = "replied"]
      /\ reply' = [reply EXCEPT ![r] = [task |-> r, state |-> s]]
      /\ tasks' = [tasks EXCEPT ![r] = s]
      /\ done' = done \cup {r} /\ now' = now
  BY DEF Agent!HandlerReturns, Agent!Answered
<1>3. /\ made' \in [Request -> Decision \cup {None}]
      /\ \A q \in Request : q # r => made'[q] = made[q]
      /\ r[2] # "work" => made'[r] # None
  BY <1>1, NoneAssumption DEF ClientTypes
<1>4. ClientTypes' /\ SentInOrder' /\ SignedAsAgreed' /\ ReturnedOwn'
  BY <1>1, <1>3, ClientKept DEF ClientTypes
<1>5. AskedAsSent'
  BY <1>1, <1>2 DEF AskedAsSent, client
<1>6. DecidedOnce' /\ DoneHasState'
  BY <1>1, <1>2, <1>3 DEF DecidedOnce, DoneHasState
<1>7. AnsweredOwn'
  <2> SUFFICES ASSUME NEW q \in Request
               PROVE  AnsweredOwn!(q)'
    BY DEF AnsweredOwn
  <2>1. CASE q = r
    <3>1. reply'[r] = [task |-> r, state |-> s]
      BY <1>1, <1>2
    <3>2. Own(q, reply[q].task)'
      BY <2>1, <3>1 DEF Own, client
    <3>3. reply'[r] # None
      <4>1. reply'[r] \in Agent!Result
        BY <1>1, <3>1 DEF Agent!Result
      <4> QED
        BY <4>1, NoneAssumption
    <3> QED
      BY <1>3, <2>1, <3>1, <3>2, <3>3
  <2>2. CASE q # r
    <3>1. reply'[q] = reply[q] /\ phase'[q] = phase[q] /\ made'[q] = made[q]
      BY <1>2, <1>3, <2>2
    <3>2. Own(q, reply[q].task) => Own(q, reply[q].task)'
      BY <3>1 DEF Own, client
    <3> QED
      BY <3>1, <3>2 DEF AnsweredOwn
  <2> QED
    BY <2>1, <2>2
<1> QED
  BY <1>2, <1>4, <1>5, <1>6, <1>7

\* A handler raises, or the agent restarts: nothing is answered.
LEMMA AbortStep ==
  ASSUME NInv, AgentP!RInv, UNCHANGED <<client, made, msg, reply, now>>, key' \in 1..MaxKeys,
         phase' \in [Request -> {"idle", "running", "replied", "delivered", "aborted"}],
         \A r \in Request : phase'[r] = phase[r] \/ (phase'[r] = "aborted" /\ phase[r] # "idle"),
         (tasks' = tasks /\ done' = done) \/ done' = {}
  PROVE  NInv'
<1> USE EndpointTypes DEF NInv
<1>1. ClientTypes' /\ SentInOrder' /\ SignedAsAgreed' /\ ReturnedOwn'
  BY ClientKept DEF ClientTypes
<1>2. AskedAsSent'
  BY DEF AskedAsSent, client
<1>3. DecidedOnce' /\ DoneHasState'
  BY DEF DecidedOnce, DoneHasState
<1>4. AnsweredOwn'
  BY DEF AnsweredOwn, Own, client
<1> QED
  BY <1>1, <1>2, <1>3, <1>4

LEMMA StepNInv == NInv /\ AgentP!RInv /\ [Next]_vars => NInv'
<1> SUFFICES ASSUME NInv, AgentP!RInv, [Next]_vars
             PROVE  NInv'
  OBVIOUS
<1>1. phase \in [Request -> {"idle", "running", "replied", "delivered", "aborted"}]
  BY EndpointTypes
<1>2. key \in 1..MaxKeys
  BY DEF NInv, ClientTypes
<1>3. ASSUME NEW r \in Request, Decides(r)
      PROVE  NInv'
  <2>1. PICK d \in Decisions(r[1]) :
          /\ Agent!HandlerReturns(r, IF d = "REJECT" THEN "failed" ELSE "completed")
          /\ made' = [made EXCEPT ![r] = [decision |-> d, key |-> key]]
    BY <1>3 DEF Decides
  <2>2. [decision |-> d, key |-> key] \in Decision
    BY <1>2 DEF Decision, Decisions
  <2> QED
    BY <1>3, <2>1, <2>2, ReturnsStep DEF Decides
<1>4. ASSUME NEW r \in Request, Works(r)
      PROVE  NInv'
  <2>1. r \in sent
    BY <1>4 DEF Works, Agent!HandlerReturns, Agent!Resumes, NInv, AskedAsSent
  <2> QED
    BY <1>4, <2>1, ReturnsStep DEF Works
<1>5. ASSUME NEW r \in Request, Raises(r)
      PROVE  NInv'
  <2>1. /\ phase[r] = "running" /\ phase' = [phase EXCEPT ![r] = "aborted"]
        /\ UNCHANGED <<client, made, key, msg, tasks, reply, now, done>>
    BY <1>5 DEF Raises, Agent!HandlerRaises, Agent!Resumes, Agent!history
  <2> QED
    BY <1>1, <1>2, <2>1, AbortStep
<1>6. CASE Restarts
  <2>1. /\ phase' = [r \in Request |-> IF phase[r] \in {"running", "replied"}
                                       THEN "aborted" ELSE phase[r]]
        /\ done' = {} /\ UNCHANGED <<client, made, msg, reply, now>>
        /\ key' \in {key, key + 1} /\ key' <= MaxKeys
    BY <1>6 DEF Restarts, Agent!Restart
  <2>2. key' \in 1..MaxKeys
    BY <1>2, <2>1, BoundAssumption
  <2> QED
    BY <1>1, <2>1, <2>2, AbortStep
<1>7. CASE UNCHANGED vars
  <2>1. UNCHANGED <<client, made, key, phase, msg, tasks, reply, now, done>>
    BY <1>7 DEF vars, agent
  <2> QED
    BY <1>1, <1>2, <2>1, AbortStep
<1> QED
  BY <1>3, <1>4, <1>5, <1>6, <1>7, ProposeStep, RequesterStep, ArrivesStep DEF Next

LEMMA Invariance == Spec => [](NInv /\ AgentP!RInv)
<1>1. Init => NInv
  BY InitNInv
<1>2. NInv /\ AgentP!RInv /\ [Next]_vars => NInv'
  BY StepNInv
<1> QED
  BY <1>1, <1>2, EndpointInvariant, PTL DEF Spec

-----------------------------------------------------------------------------
(* What a negotiation promises *)

\* Every variable keeps its type, and a call has returned when it has a result.
THEOREM TypeCorrect == Spec => []TypeOK
<1>1. NInv /\ AgentP!RInv => TypeOK
  BY SameType DEF NInv, ClientTypes, TypeOK, AgentP!RInv, AgentP!IInv
<1> QED
  BY <1>1, Invariance, PTL

\* The work handler runs for a call only under the contract that the agent made for
\* the call's last proposal and its requester signed, however often the agent
\* restarted and whatever messages came late.
THEOREM WorkRunsUnderItsContract == Spec => []WorkIsAgreed
<1>1. NInv /\ AgentP!RInv => WorkIsAgreed
  <2> SUFFICES ASSUME NInv, NEW c \in Call, phase[<<c, "work">>] # "idle"
               PROVE  /\ contract[c] = Last(c)
                      /\ made[Last(c)].decision = "ACCEPT"
    BY DEF WorkIsAgreed, Last
  <2>1. <<c, "work">> \in sent
    BY RequestFacts DEF NInv, AskedAsSent
  <2>2. contract[c] # None
    BY <2>1 DEF NInv, SentInOrder
  <2> QED
    BY <2>2 DEF NInv, SignedAsAgreed
<1> QED
  BY <1>1, Invariance, PTL

\* What propose_task returns is a task of its own call, or the work of a call that
\* was given the same idempotency key.
THEOREM ResultsAreOwnOrOfTheirKey == Spec => []ResultIsOwnOrOfItsKey
<1>1. NInv /\ AgentP!RInv => ResultIsOwnOrOfItsKey
  <2> SUFFICES ASSUME NInv, NEW c \in Call, result[c] # None
               PROVE  LET d == result[c].task[1] IN
                      d = c \/ (/\ result[c].task[2] = "work"
                                /\ args[c].key # None /\ args[d].key = args[c].key)
    BY DEF ResultIsOwnOrOfItsKey
  <2>1. PICK s \in {"offer", "accept", "work"} : Own(<<c, s>>, result[c].task)
    BY DEF NInv, ReturnedOwn
  <2> QED
    BY <2>1 DEF Own
<1> QED
  BY <1>1, Invariance, PTL

\* A key that is given only for work whose handler does not suspend is a key of
\* such messages only.
LEMMA GivenKeyIsSolo ==
  ASSUME NEW k, k # None, \A a \in Args : a.key = k => a.capability \notin AsyncSkills,
         <<"idem", <<"given", k>>>> \in AgentP!Key
  PROVE  <<"idem", <<"given", k>>>> \in AgentP!SoloKeys
<1> SUFFICES ASSUME NEW m \in Message, <<"idem", <<"given", k>>>> \in AgentP!KeysOf(m)
             PROVE  m.capability \notin AsyncSkills
  BY DEF AgentP!SoloKeys
<1>1. PICK r \in Request, a \in Args, s \in {"signed", "badsig"} : m = Sent(r, a, s)
  BY DEF Message
<1>2. <<"idem", <<"given", k>>>> \notin AgentP!MessageKeys(m)
  BY DEF AgentP!MessageKeys
<1>3. m.key # None /\ m.key = <<"given", k>>
  BY <1>2 DEF AgentP!KeysOf, AgentP!IdemKeys
<1>4. r[2] = "work" /\ TaskKey(r[1], a) = <<"given", k>>
  BY <1>1, <1>3 DEF Sent
<1>5. a.key = k
  BY <1>4 DEF TaskKey
<1> QED
  BY <1>1, <1>4, <1>5 DEF Sent

\* Of the work done under a given key, all is found under that key.
LEMMA WorkHasGivenKey ==
  ASSUME NInv, AgentP!RInv, NEW c \in Call, NEW k, k # None,
         result[c] # None, result[c].task \in done, result[c].task[2] = "work",
         args[c].key = k
  PROVE  <<"idem", <<"given", k>>>> \in AgentP!KeysOf(msg[result[c].task])
<1> DEFINE o == result[c].task
<1>1. PICK s \in {"offer", "accept", "work"} : Own(<<c, s>>, o)
  BY DEF NInv, ReturnedOwn
<1>2. args[o[1]].key = k
  BY <1>1 DEF Own
<1>3. o \in Request /\ phase[o] # "idle"
  BY EndpointTypes
<1>4. PICK t \in {"signed", "badsig"} : msg[o] = Sent(o, args[o[1]], t)
  BY <1>3 DEF NInv, AskedAsSent
<1>5. msg[o].key = <<"given", k>>
  BY <1>2, <1>4 DEF Sent, TaskKey
<1>6. <<"given", k>> = TaskKey(o[1], args[o[1]]) /\ o[1] \in Call /\ args[o[1]] \in Args
  BY <1>1, <1>2, <1>3, SendersBegan, RequestFacts DEF Own, TaskKey
<1>7. msg[o].key # None
  BY <1>5, <1>6, NoneAssumption
<1> QED
  BY <1>5, <1>7 DEF AgentP!KeysOf, AgentP!IdemKeys

\* Callers that retry under one key are all given the work of one run of the
\* handler, if none uses the key for a handler that suspends.
THEOREM RetriesAreGivenOneRun == Spec => []RetriesAgree
<1>1. NInv /\ AgentP!RInv => RetriesAgree
  <2> SUFFICES ASSUME NInv, AgentP!RInv, NEW c \in Call, NEW d \in Call,
                      result[c] # None, result[c].task \in done, result[c].task[2] = "work",
                      result[d] # None, result[d].task \in done, result[d].task[2] = "work",
                      args[c].key # None, args[c].key = args[d].key,
                      \A a \in Args : a.key = args[c].key => a.capability \notin AsyncSkills
               PROVE  result[c].task = result[d].task
    BY DEF RetriesAgree
  <2> DEFINE o == result[c].task
             p == result[d].task
             k == <<"idem", <<"given", args[c].key>>>>
  <2>1. k \in AgentP!KeysOf(msg[o]) /\ k \in AgentP!KeysOf(msg[p])
    BY WorkHasGivenKey
  <2>2. msg[o] \in Message
    BY EndpointTypes DEF AgentP!RInv, AgentP!IInv, AgentP!TypeOK
  <2>3. k \in AgentP!Key
    BY <2>1, <2>2 DEF AgentP!Key
  <2>4. k \in AgentP!SoloKeys
    BY <2>3, GivenKeyIsSolo
  <2>5. finish[o] = 0 /\ finish[p] = 0
    BY EndpointTypes DEF AgentP!RInv, AgentP!IInv, AgentP!TypeOK, AgentP!DoneOK, NInv
  <2> HIDE DEF o, p, k
  <2>6. ~(finish[o] + 1 <= finish[p]) /\ ~(finish[p] + 1 <= finish[o])
    BY <2>5
  <2>7. AgentP!SoloKeyHasOneLiveResult
    BY DEF AgentP!RInv, AgentP!IInv
  <2>8. o \in done /\ p \in done
    BY DEF o, p
  <2>9. o = p
    BY <2>1, <2>4, <2>6, <2>7, <2>8 DEF AgentP!SoloKeyHasOneLiveResult, AgentP!OneLiveResult
  <2> QED
    BY <2>9 DEF o, p
<1> QED
  BY <1>1, Invariance, PTL
=============================================================================
