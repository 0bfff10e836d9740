# Agent Network: a TLA+ verification project

This directory models the Python SDK of the LivingRuntime Agent Network
(`agent-network-sdk-python`), its reference Seed (`reference-seed`) and the example agent
(`examples/third-party-agent`). The models are written from the code; the documents under
`agent-network-spec/docs` are used only as the statements that the code is compared with.
`PROJECT.json` lists components, runs, mutants, the source lines of every definition, findings,
hazards and theorems; this file explains them.

Below, `a2a_server.py` and the like are files of
`src/agent-network-sdk-python/src/agent_network/`, and `app.py` is
`src/reference-seed/src/reference_seed/app.py`.

## 1. The system

An **agent** is one asyncio process. It serves an A2A endpoint (`A2AServer`, called by the A2A SDK
through `SkillAgentExecutor`), is a client of one or more Seeds (`AgentNetwork`) and calls other
agents directly (`Peer`). A **Seed** is an agent whose skills are a directory: join, renew, leave,
discover. All calls are HTTP requests that can be lost, time out at the caller and still be
handled later.

| Component | State | Operations | Hard part | What makes it correct |
|---|---|---|---|---|
| A2A endpoint, `a2a_server.py`, `a2a_official.py` | `tasks`, the store, suspended handlers | `handle_message` (refuse, replay, check contract, run handler, store), `cancel` | awaits between lookup and store; retries; cancellation of a dict the store shares | a retry is answered from the store, never worked on again |
| Idempotency store, `idempotency.py` | values, expiries; optionally SQLite | `get`, `put`, purge | expiry, restart, two keys for one task | what is replayed is live and is the duplicate's |
| Reference Seed, `app.py` | `agents`: key, lease, availability, last seen | `join`, `renew`, `leave`, `discover` | late and duplicate announces, races of renew and leave, leases running out, restart | who is listed is alive, has not left, and is who it was |
| Capability versions, `capability.py` | none | `version_matches`, `schema_validate` | precedence of `.x`, `,` and operators | a constraint is a set of versions |
| Presence client, `network.py`, lifespan of `a2a_server.py` | `_joined`, `_renew_task` | `join`, `renew`, `leave`, renew loop, start task | two coroutines, failover between Seeds, lost replies, restarts of a Seed | present agents are listed, absent ones not |
| Negotiation, `client.py`, `proposal.py`, `_handle_propose` | per call: proposal, contract | `propose_task`, `_handle_propose` | three messages, counters, retries, concurrent calls, lost identity | work is done under the contract both signed |
| Verification, `verification_policy.py`, `client.py` | terms, receipts | validate, collect, count | duplicate, late, foreign receipts; revisions, which a caller may leave out; defaults | a quorum is made of that many authorized passes of what was asked about |
| Artifacts, `artifact_ref.py`, `_publish_artifact`, `artifact_from_file` | `artifact_blobs`, the handlers' files | make a manifest, publish, authorize, fetch | a file that changes while its handler is suspended; one id for two tasks; restarts; several locations under one signature | the bytes fetched are the ones referenced, and parties and only they get them |
| Identity files, `crypto.py` | two files, the process's `Identity` | create, migrate, load, rotate, announce | a crash between or inside two writes | what was announced survives a restart |
| Persistent store, `idempotency.py` with a path | two dicts, SQLite rows | `get`, `put`, `run` | crashes between work and `put`, a failed insert, values without an expiry | kept results are replayed, and none but the last |
| Wire, `a2a_official.py`, `models.py`, `canonical_json` | proposal, contract and receipt in transit | the four conversions; sign, verify, hash | every number travels as a double | what one end signed verifies at the other |

Interactions: the presence client calls a Seed's `join`/`renew`/`leave`; the Seed is itself an
`A2AServer`, but these messages carry neither idempotency key nor sender, so nothing of them is
stored. `propose_task` calls the peer's `task.propose` handler and then its work handler, both
through `handle_message`. Work that needs verification is reviewed through `propose_task` again,
and the receipts found in the reviews' tasks are for `quorum_met` to count, which only the
application calls. A work handler's artifacts are published when it has returned, inside
`handle_message`, and downloaded with a GET that the Identity signs. Every message and task between two agents passes the wire conversions.

## 2. Modules

| Module | Models |
|---|---|
| `OnceService` | abstract: what the protocol promises the sender of a message (work once, replay the outcome) |
| `A2AServer` | the endpoint with its in-memory store; refines `OnceService` |
| `A2AServerProofs` | theorems about it |
| `Lease` | the lease a Seed grants |
| `CapabilityVersion` | `version_matches`, and versions-as-sets as its reference definition |
| `SeedDirectory` | the Seed |
| `SeedDirectoryProofs` | theorems about it |
| `AgentPresence` | the presence client with its view of several Seeds |
| `Negotiation` | `propose_task` composed with an instance of `A2AServer` |
| `VerificationQuorum` | verification terms and receipts |
| `ArtifactExchange` | artifacts from the file that a handler writes to the bytes that a download returns |
| `IdentityFiles` | `load_or_create` over the two identity files, and the running process's `Identity` |
| `PersistentStore` | `IdempotencyStore` with a path |
| `AgentRestart` | an agent that ends and starts again: `IdentityFiles` composed with `PersistentStore` |
| `ContractWire` | proposal, contract and receipt through the wire conversions |
| `AgentPresenceProofs`, `NegotiationProofs`, `AgentRestartProofs`, `VerificationQuorumProofs`, `ArtifactExchangeProofs`, `ContractWireProofs` | theorems about these; `NegotiationProofs` uses those of `A2AServerProofs` |
| `MC...` | the instances that TLC checks |

### A2AServer

One *request* is one call of `SkillAgentExecutor.execute`; the SDK gives each a fresh task id, so
the request also names its task dict. `phase` is how far the call is, `msg` its message, `tasks` is
`A2AServer.tasks`, `store` the `IdempotencyStore` (both keys of a message map to the same dict),
`reply` what was answered. Actions follow the early returns of `handle_message` in their order:
`RefuseUnsupported` (line 147, before any key is read), `Replay` (161-168), `RefuseContract`
(171-193), `CallHandler` (195-202). What comes after the `await` is an action of its own,
`HandlerReturns`, because other coroutines run in between when the handler suspends; `LoopFree` and
`Resumes` say when the event loop can run something else. `HandlerRaises` stands for an exception,
a wrong return type and a cancelled coroutine. `Cancel` is the SDK's cancel, which changes the
stored dict. `Restart` loses everything. The variables `done`, `start`, `finish`, `seen` are history
of the running process and occur in no guard.

### SeedDirectory

Each handler of `app.py` is an `async def` without an `await`, so one step. An announce is signed
once (`Announce`) and may be delivered any number of times, at any time (`join`). Renewals and
leaves are accepted from whoever holds the entry's key, at any time, which includes late and
repeated ones. `discover` reads only: it is an operator giving the set of answers possible in a
state (ids tie-break the sort, and their order is left open), and the invariants ask about every
query in every state.

### AgentPresence

The application and the renew loop each are in at most one call; a call is *sent*, then *accepted*
or *rejected* by the Seed at the head of its list, then returns. `Unreached`, `TimesOut` and
`ReplyLost` end the attempt and go on to the next Seed; after `TimesOut` the request stays in
`late` and may be handled at any time. `join` walks the configured Seeds, `renew` and `leave` walk
joined Seeds first (`_message_any`), in any order as `_joined` is a Python set. Leases and the
loop's sleep count down in steps of `Step` seconds, with the code's own numbers (1800, 7200,
`max(30, int(lease_seconds * 0.6))`).

### Negotiation

The composition: `Agent == INSTANCE A2AServer` with three requests for every call (offer, acceptance
of a counter, work), whose messages are those that `propose_task` builds. The requester's actions
wait for `Agent!Deliver`; `GivesUp` stands for every way in which `message_send` raises. A contract
is named by the request whose handler made it. `_handle_propose` accepts what the agent has a
handler for; an agent may register a `task.propose` handler of its own, which may also reject,
counter, or answer without a contract, and `Decisions` has all of these. `Restarts` keeps the
agent's identity or replaces it (a lost identity file); contracts signed before then no longer
verify.

### VerificationQuorum

`Init` picks any terms: those a proposal may carry have passed `validate_verification`, those of a
counter are signed as they come; both as they were written or put through `apply_available_quorum`,
which is there to complete terms and called by nothing. `Deliver` is a new artifact revision;
`Collect` puts one more object found in a review's task into the list that `quorum_met` reads.
`artifact_manifest_hash`, the revision that a caller asks about, is optional in
`qualifying_pass_verifiers` and `quorum_met`; `None` is a caller that leaves it out, for whom
`Counts` compares no revision. The properties ask about every revision delivered so far and about
`None` (`Asked`). Receipts always name a revision: `signed_verification_receipt` refuses others.

### ArtifactExchange

Bytes are named by the task that wrote them, and a SHA-256 is the bytes. A task's handler goes
through `Write`, `artifact_from_file` (or `json_artifact`, which does both at once) and
`HandlerReturns`, which publishes (`_publish_artifact`) and answers; in between it may be suspended,
another task may write the same path, and the workspace may be tidied up (`Remove`). Small files go
into the manifest, large ones (`INLINE_MAX_BYTES`) are read again at publication: `Raw`. Ids are
file stems, so two tasks may publish under one; `blobs` is `artifact_blobs`. The download is one
record, `fetch`: what was asked with which headers, the locations still to try, the result.
`materialize_artifact` takes bytes that are in the reference; `fetch_artifact` signs its headers once
and then goes through the locations, one action for each way a location can answer.
`authorize_artifact_get` is the producer's check: an admitted agent, a signature over this id by the
key known of it, a timestamp within five minutes. `References` are the references that may be around
after a delivery: the manifest itself, without its bytes, with others put in, with other locations,
and its `with_revision`.

### IdentityFiles, PersistentStore, AgentRestart

`load_or_create` is `Create` or `Load` and the writes that they leave to do; a write is `Truncate`
then `Fill`, since `write_text` opens its file and writes into it, and `Crash` may come between any
two of them. `Init` has files of every kind that a version of this package has left: none, one with
the private recovery key inside, one without any recovery key, two files. `Load` raises on a torn
file and on another agent's, and then nothing happens. `rotate` is written nowhere. A key is a
number, so two that differ are different. `enrolled` collects what announces have carried; each
announce's enrollment also has the hash of a recovery policy made for that announce
(`network.py:92`, `crypto.py:188`), and so is another object each time; the model leaves that hash
out.

`PersistentStore` is `get`, `put` and `run` as the code does them: `get` purges dicts and table by
their own clocks and copies a row's value into the dict of values, not into that of expiries; `put`
writes the dicts first and the row after, and the insert may fail. `AgentRestart` composes the two:
results are signed with the key of the running identity, a crash ends both, and the store opens
only once the identity is there.

### ContractWire

A value is an integer or a float with its amount, a number with a fraction, a text, a list or a
tuple; two values are equal iff `canonical_json` writes the same. The four conversions are operators
composed of `jsonable`, `Struct` (protobuf's doubles, rounded to even from 2^53 on) and
`restore_json_numbers`. One story is followed: `Propose`, perhaps `Counter`, `Answer` (the
executor's own handler may put a value into the contract), `Order`, then `Refuse` when the executor's
signature does not verify, or `Review`, `Collect`, `Forward` of a receipt. A signature or hash is
the object it was made over, without what `unsigned_payload` drops.

## 3. Runs

Deadlock is checked except where the program may stop: every call of `propose_task` has ended
(`negotiation`), all receipts are in (`verification_quorum`), the receipt has been forwarded or the
work refused (`wire_conversion`), and in `agent_restart` a torn identity file with which the agent
never starts again, once the clock and the keys are used up.

| Run | Shows | Bounds |
|---|---|---|
| `a2a_server` | `NoSequentialRerun`, `SoloKeyHasOneLiveResult`, `ReplayIsOfLiveDuplicate`, refinement of `OnceService` | 3 requests, 6 messages, TTL 1, clock 0..1 |
| `a2a_server_overlap` | violation of `DuplicateReturnsFirstResult` | same |
| `seed_directory` | `ListedWasHeard`, `LeaveSticks`, `KeyIsPinned`, `FreshestReturned`, `RowsMeetConstraint` | 2 agents, 3 keys, 4 announces, 7 queries, clock 0..3, leases 1..3 |
| `seed_stale_announce` | violation of `NoStaleAnnounce` | clock 0..1 |
| `agent_presence` | `PresentIsListed`, `JoinedIsRenewed`, `PresenceReturns`, `AbsenceIsNoticed` | 2 Seeds, 2 failed calls, 1 Seed restart, 2 start attempts |
| `agent_presence_long_lease` | violation of `PresentIsListed` with `lease_seconds` 7200 | same |
| `negotiation` | `WorkIsAgreed`, `ResultIsOwnOrOfItsKey`, `RetriesAgree` | 2 calls, 4 kinds of arguments, 2 identities |
| `negotiation_retry` | violation of `ResultNamesWorkContract` | same |
| `verification_quorum` | `QuorumIsEarned`, `FilledCountIsEarned`, `UnanimityIsEnough`, `ExecutorCountsOnlyIfSelected` | 11 terms, each also filled, 4 reviewers, 2 revisions, 3 receipts |
| `agent_restart` | `IdentityIsKept`, `EnrolledKeysAreOnDisk`, `ReplayStillVerifies`, `KeptResultIsNotRerun`, `AnswerIsLastResult` | 2 agent ids, 5 key pairs, 1 idempotency key, TTL 1, 3 results, clock 0..3 |
| `artifact_exchange` | `FetchedIsReferenced`, `OnlyPartiesAreServed`, `BlobIsAsDelivered`, `PartyGetsItsArtifact` | 2 tasks, 4 agents, 2 keys, 2 ids, 2 paths, 3 contracts, any number of restarts and downloads |
| `wire_conversion` | `ContractIsAccepted`, `ProposalHashAgrees`, `ReceiptAgrees` | every integer and float below 2 * `Exact`, with `Exact` (2^53 in the code) 4; a value of each other kind |

Why the bounds are enough. Three requests make the shortest story in which one result is stored,
expires or is replaced, and is asked for again; TTL 1 with a clock of 0..1 has both live and expired
slots, and the expiry test is at its boundary. In the Seed every lease length relative to the
clamps occurs and leases run out within the clock. In `agent_presence` time needs no bound: leases
and timers count down and stop at 0, so the state space is finite and runs are infinite, as liveness
requires; `MaxFaults` and `MaxRestarts` bound how often calls fail, 2 and 1 being enough for a call
to fail at both Seeds and for one failure to hit the retry of another. Two calls are enough for one
retry or for two strangers, and for one stranger under the other's key: `k1` is given to two
requesters, for different tasks. Three receipts are two for a quorum of two and one that must not count.
Five key pairs are two for a created identity, two for a rotated or a second created one, and one
for a recovery key that is replaced; three results and a clock of 0..3 let a row be written, read
back into a later process, and outlive its TTL there. Two tasks are the fewest that can take each
other's artifact id or file, and downloads change nothing, so one at a time is as good as many. With
`MaxSkew` 0, a clock that is behind, right, or ahead by 1 has a header too old, in time and too
young. `Exact` 4 has what 2^53 has: exact integers below, even doubles above, and ties between two of
them that round down and up.

Every property has a mutant in `PROJECT.json`: a plausible mistake in one definition, kept next to
that definition in the module (`StoredUnderMessageId`, `IntervalWholeLease`, `ReceiptsCounted`, ...),
with which TLC finds the property violated.

**Fairness** (only `AgentPresence` needs it). Weak fairness of `Tick`: time passes. Of `LoopWakes`
and of a start task that is pending: the event loop runs a coroutine whose sleep is over. Of
`SeedHandles` and of the returns, per caller: a Seed that was reached handles a request, and the
coroutine whose reply is there resumes. Nothing is assumed of the application (it need never leave or
start), of failures, or of requests that were given up on. `PresenceReturns` names two cases in
which the code does not recover: the Seed forgot the agent (its renewals are rejected for ever and
nothing joins again), and a leave was handled whose reply was lost.

**Findings**, with the quoted lines, are under `findings` in `PROJECT.json`. Four are what the
violation runs show: overlapping duplicates replace the first result; stale announces are accepted
after a leave; leases above 3000 s lapse between renewals; a retried `propose_task` labels the first
call's work with a second contract. Two are disagreements about quorums that need no behaviour to
show, only the equivalence that `QuorumIsEarned` states of the code in the passing run
`verification_quorum`. An omitted `required_passes` takes one pass, also of two or more verifiers,
where the supplement says two; `FilledCountIsEarned` shows that requesters that complete their terms
with `apply_available_quorum` get the supplement's count. And a caller of `quorum_met` that leaves
`artifact_manifest_hash` out is told that a new revision has the quorum of an earlier one, where the
trust model says that receipts of a previous revision must not satisfy a later one; with the hash
they do not. Two more disagreements that the models carry: `REQUESTER_SELECTS` terms may let the
executor verify itself (the exception that `ExecutorCountsOnlyIfSelected` names); every announce
carries another `identity.enrollment`, where the supplement has one per agent id (see
`IdentityFiles` above).

**What the properties leave out.** Each exception is in the property's formula and comment. The
larger ones: a key of another requester gives that requester's work, of another task even
(`ResultIsOwnOrOfItsKey` says what is left); `RetriesAgree` is about calls within the TTL, the
agent's clock being at rest in `negotiation`; neither looks at the identity that a contract was
signed under; `OnlyPartiesAreServed` speaks of tasks that alone write their file, and
`PartyGetsItsArtifact` of references with the manifest's own location; `ReceiptAgrees` is agreement between
the ends on honest receipts, as `contract_hash` is outside a receipt's signature; what is claimed of
operational keys excepts rotation, of enrolled keys the migration of old files; the quorums are those
of validated terms, and of a negative `limit` of `discover` nothing is claimed. The notes of the
hazards in `PROJECT.json` say the same at each line.

## 4. Proofs

The proof modules are checked by TLAPS to the last leaf. Every invariant and action property of a
passing run is a theorem, and so is the refinement of `OnceService`; only the two liveness
properties are not. The theorems hold for all values of the constants that satisfy the named
`ASSUME`s, of the module and of those it instantiates:

* messages, announces, queries, terms and plans are records of the stated fields; TTLs and steps are
  positive, the lease bounds are ordered, `None` and the like are not values that a variable holds
  otherwise, a way to fail is not an artifact's bytes, and places that are no producer's
  (`Elsewhere`, `NotHttp`) are not ids;
* `SeedDirectory`: there are finitely many agents, since `discover` sorts them; versions are triples
  of naturals and constraints sequences of parts, which is what `parse_version` makes of text;
* `AgentRestart`: `MaxKeys >= 2`, because the files may be those of an earlier process that made two;
* `Negotiation`: what `A2AServer` assumes of its messages is proved of those that `propose_task`
  sends, except that `None` is none of them.

One theorem has a hypothesis, see `ListedWhilePresent`.

### A2AServerProofs

`TypeCorrect`; `SequentialRetriesAreReplayed` (`NoSequentialRerun`); `SoloKeysReturnFirstResult`
(`SoloKeyHasOneLiveResult`); `AnswersAreLiveDuplicates` (`ReplayIsOfLiveDuplicate`);
`ImplementsOnceService` (`ServiceSpec`).

Neither invariant is inductive: that a lookup misses says something of earlier results only because
of `Kept`, that a result younger than TTL is under all its keys, or a younger one is. `SyncRunsAlone`
adds that while a non-suspending handler is called nothing is stored, so what it saw at its lookup
still holds when its own result is stored. `IInv` is their conjunction; every action but
`CallHandler`, `HandlerReturns` and `Restart` leaves the history alone and only purges the store or
advances the clock (`Quiet`), and one lemma covers all of these.

For the other two, `StoreOK` (a slot holds a result of this process, under one of its keys and for
its time) and `Fresh` (a request is looked at once, and has no answer before it has ended) are
inductive beside it. The refinement maps a request to the keys it asked with and the task it was
answered with, and a key to the task in its live slot. A lookup that hits is the service's replay, a
result its completion, time and restarts its forgetting; all else is a stutter (`PurgeIsHidden`,
`RestIsHidden`).

### SeedDirectoryProofs

`TypeCorrect`; `OnlyHeardAgentsAreListed` (`ListedWasHeard`); `RenewalsDoNotUndoLeave`
(`LeaveSticks`); `KeyStaysPinned` (`KeyIsPinned`); `RowsAreFreshest` (`FreshestReturned`);
`RowsAreInRange` (`RowsMeetConstraint`).

`IInv` adds that a lease never runs more than `MaxLease` past `last_seen` and that an agent that left
is offline or gone; lemmas `JoinEffect`, `RenewEffect` and `LeaveEffect` state what each handler does
to one entry. The last two theorems are about the operators in a well-typed state: `OrderFacts` and
`SliceFacts` say that an answer begins an ordering of the eligible agents by `last_seen`, and is as
long as Python's slice makes it, also for a negative limit; `PartDecides` and `VersionDecides` that
`version_matches` decides membership in the set of versions that a plain constraint describes. That
`all()` stops at the first part that is not met needs a least element of a set of indices, which
`LeastExists` gets from well-founded induction.

### NegotiationProofs

`AgentIsEndpoint`; `TypeCorrect`; `WorkRunsUnderItsContract` (`WorkIsAgreed`);
`ResultsAreOwnOrOfTheirKey` (`ResultIsOwnOrOfItsKey`); `RetriesAreGivenOneRun` (`RetriesAgree`).

`AgentIsEndpoint` says that every behaviour of the negotiation is one of `A2AServer`, with the
messages of `propose_task` and the clock at rest, so that the invariants proved there hold of its
agent. What is added, `NInv`, is about the messages between the two: a call's messages go out in
their order (`SentInOrder`), what the agent handles is what was sent (`AskedAsSent`), a decision is
made once (`DecidedOnce`), an answer is to what was asked (`AnsweredOwn`) and a contract is what was
answered to the call's last proposal (`SignedAsAgreed`). `AnsweredOwn` is where keys matter:
`HitIsOwn` shows that a lookup can hit only for work, and then only a result of a call that was given
the same key. That retries agree is then `SoloKeyHasOneLiveResult` of the endpoint, as the key that
they were given is one that only messages for non-suspending handlers carry (`GivenKeyIsSolo`).
For that, `RetriesAgree` asks the handlers of *all* arguments with that key not to suspend: with
another call of that key for a suspending handler in flight, its late result replaces the first
one in the store, and a later retry is given that.

### AgentPresenceProofs

`TypeCorrect`; `RenewedWhileJoined` (`JoinedIsRenewed`); `ListedWhilePresent` (`PresentIsListed`);
`LeasesRenewedInTime`.

That a renew loop runs exactly while a Seed is joined needs `CallsOK`, what each of the two coroutines
can be calling and when. `PresentIsListed` is about the time in which nothing has failed (`Calm`):
`CalmInv` says then that no Seed but the first is asked or joined, and that the lease it holds of a
joined agent outlasts the loop's timer. It holds under `RenewsInTime`: the lease asked for and the
default lease, which is what renewals get, are at least one `Step` longer than the renew interval.
`LeasesRenewedInTime` computes what that means with the code's numbers: `lease_seconds` is not
given, or between 31 and 2999. The run `agent_presence_long_lease` shows what happens beyond.

### AgentRestartProofs

`TypeCorrect`; `AgentStaysItself` (`IdentityIsKept`); `AnnouncedKeysAreOnDisk`
(`EnrolledKeysAreOnDisk`); `ReplaysVerify` (`ReplayStillVerifies`); `KeptResultsAreNotRerun`
(`KeptResultIsNotRerun`); `AnswersAreLastResults` (`AnswerIsLastResult`).

`load_or_create` is followed write by write: `WritesOK` says at each point of a start, cut off or
not, which of the two files, or the process, has what the other still needs. What was announced is
tied to the files by `KeyAnnounced` and `RecoveryAnnounced`, each as long as nobody has taken a file
away. For the store, that no kept result is worked on again rests on `KeptOK`: a row that was written is
there for its TTL, since the lookup before a call leaves the key without any (`CallingOK`) and `put`
never overwrites a young one. What is replayed rests on `LastOK`: whatever dict and table hold of a
key is its last result.

### ArtifactExchangeProofs

`TypeCorrect`; `OnlyReferencedBytes` (`FetchedIsReferenced`); `PartiesOnly` (`OnlyPartiesAreServed`);
`PublishedAsDelivered` (`BlobIsAsDelivered`); `PartiesAreServed` (`PartyGetsItsArtifact`).

Who may have an id's bytes and which bytes they are is decided in different steps, perhaps of
different tasks; `IInv` ties them by the path: in files, manifests, blobs and answers there are only
bytes of tasks with the same path as the one whose contract decides (`FilesByPath`,
`ManifestsByPath`, `BlobsByPath`, `SentByPath`). A task that alone writes its path is then that task.
For the delivery, `DataInv` follows manifests and files (`UnchangedFiles`: a file not touched since
its manifest was made holds what the manifest says), and `ServeInv` what is there for a download
(`LatestIsThere`). `FailureIsExplained` goes through the ways a download ends.

### VerificationQuorumProofs

`TypeCorrect`; `QuorumsAreEarned` (`QuorumIsEarned`); `FilledCountsAreEarned`
(`FilledCountIsEarned`); `UnanimitySuffices` (`UnanimityIsEnough`); `ExecutorIsNotItsVerifier`
(`ExecutorCountsOnlyIfSelected`). The invariant is that no receipt is of a revision yet to come. The
rest is about the operators: `Filled` (what `apply_available_quorum` makes of terms),
`QualifyingPassed` (which verifiers a list of receipts qualifies, for a revision or for none),
`PassCount` (how many it takes) and `ValidNames` (validated terms name that many, and not the
executor). `QuorumOfNamed` puts them together, in both directions: those that qualify are such a set
of named verifiers, and every such set is among those that qualify.

### ContractWireProofs

`TypeCorrect`; `OwnSignatureVerifies` (`ContractIsAccepted`); `ContractBindsProposal`
(`ProposalHashAgrees`); `ReceiptsAreGoodEverywhere` (`ReceiptAgrees`), for any `Exact` that is a
multiple of 4. All follow from `ArrivedStays`, that what has travelled once travels on unchanged, and
from an invariant that says of contract and receipt how many trips they have made.

### Only model-checked

`PresenceReturns` and `AbsenceIsNoticed` of `AgentPresence`: liveness under fairness is out of the
prover's reach. The violations of the four violation runs are what TLC finds in their instances; no
theorem states that they are violated.

## 5. Not modelled

Cryptography is ideal: a signature verifies iff it was made with that key over that content, and
hashes do not collide. Left out:

* Agent cards (`a2a_card.py`): built and checked by pure functions; `announce_from_card` and
  `verify_signed_agent_card` are called by nothing in the repository. `official_agent_card` fills
  in defaults.
* `discover`, `connect`, `require` and `report_unreachable` of the client, which keep no state, and
  `schema_validate`, a pure check of payload shapes.
* `errors.py`: a table of codes, and a predicate on them that no code path consults before it acts.
* Recovery and revocation messages of `crypto.py`, which nothing sends, and `FileKeyProvider`,
  which only holds a path.
* The text and file parts of messages, and task states, in the conversions: no property is about
  them.
* The second attempt of `A2AClient.message_send` with the 0.3 method: it is made only after the
  agent said that it does not know the method, so nothing was handled before.
* The Seed's ledger, federation, evidence and anchoring: they exist in the documents only.

## 6. Plan

1. Done: all modules of section 2, and a theorem for every invariant, action property and refinement
   that the passing runs check.
2. Next: abstract specifications of what the Seed promises a client and the client its application,
   and their refinement by `SeedDirectory` and `AgentPresence`; `DuplicateReturnsFirstResult` for
   runs of handlers that do not overlap; a Seed's restart in `ListedWhilePresent`.
