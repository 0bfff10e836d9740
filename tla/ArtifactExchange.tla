-------------------------- MODULE ArtifactExchange --------------------------
(***************************************************************************)
(* Artifacts from the handler that makes them to the agent that downloads  *)
(* them: artifact_from_file in a handler, _publish_artifact when the       *)
(* handler has returned, GET /artifacts/{id}, and fetch_artifact over the  *)
(* locations of a reference.                                               *)
(*                                                                         *)
(* The bytes that a task writes are named by the task; two tasks write     *)
(* different bytes, and a SHA-256 is the bytes themselves.  The producer   *)
(* is the agent Me.  Downloads change nothing, so one is followed at a     *)
(* time, and nothing else happens between its end and its result's use.    *)
(***************************************************************************)
EXTENDS Integers, Sequences

CONSTANTS
    Task,       \* tasks of the producer, each delivering one artifact
    Agent, Key,
    Me,         \* the producer
    Path,       \* files that the handlers write
    Id,         \* artifact ids; also the producer's URL of that artifact
    Elsewhere,  \* a location at another host
    NotHttp,    \* a location that is neither http nor https
    Plans,      \* what the tasks may be about to deliver: a set of functions
    Routes,     \* lists of locations that others may put into a reference
    Ahead,      \* how far the downloader's clock may be ahead
    MaxSkew,    \* ARTIFACT_GET_MAX_SKEW; older headers are all alike
    None

Contract == [requester : Agent \cup {None}, executor : Agent \cup {None},
             verifier : Agent \cup {None}, verifiers : SUBSET Agent,
             party_keys : [Agent -> Key \cup {None}],    \* metadata.party_keys
             public_keys : [Agent -> Key \cup {None}]]   \* <role>_public_key

Delivery == [id : Id, path : Path, large : BOOLEAN, public_base : BOOLEAN,
             contract : Contract]

ASSUME ExchangeAssumption ==
    /\ Me \in Agent
    /\ Plans \subseteq [Task -> Delivery]
    /\ Routes \subseteq Seq(Id \cup {Elsewhere, NotHttp})
    /\ Elsewhere \notin Id /\ NotHttp \notin Id
    /\ Ahead \subseteq Nat /\ MaxSkew \in Nat
    /\ None \notin Agent \cup Key

VARIABLES
    plan,
    file,      \* what each path holds
    phase,     \* how far a task's handler is
    manifest,  \* manifest[t]: the ArtifactManifest of task t
    blobs,     \* artifact_blobs
    fetch,     \* the download
    \* history, read by no action
    order,     \* the tasks that this process has published, in that order
    changed    \* tasks whose file was touched between manifest and publication

producer == <<plan, file, phase, manifest, blobs>>
history == <<order, changed>>
vars == <<producer, fetch, history>>

Ref == [id : Id, sha256 : Task, inline : Task \cup {None},
        locations : Seq(Id \cup {Elsewhere, NotHttp})]
Blob == [data : Task, sha256 : Task, allowed : SUBSET Agent,
         party_keys : [Agent -> Key \cup {None}]]
Failure == {"ARTIFACT_NOT_FOUND", "ARTIFACT_HASH_MISMATCH", "raised"}

\* The bytes of an artifact are none of the ways in which a download fails; what is
\* not there is neither bytes, nor a failure, nor a blob.
ASSUME FailureAssumption ==
    Task \cap (Failure \cup {None}) = {} /\ None \notin Failure \cup Blob

Init ==
    /\ plan \in Plans
    /\ file = [p \in Path |-> None]
    /\ phase = [t \in Task |-> "started"]
    /\ manifest = [t \in Task |-> None]
    /\ blobs = [i \in Id |-> None]
    /\ fetch = None
    /\ order = <<>>
    /\ changed = {}

-----------------------------------------------------------------------------
(* The producer *)

\* The tasks that have a manifest of path p and have not published it.
Waiting(p) == {t \in Task : phase[t] = "made" /\ plan[t].path = p}

\* The manifest of what the task's file holds, c: the bytes are in it unless they
\* exceed INLINE_MAX_BYTES, and its URL is if the handler knows the public base.
ManifestOf(t, c) ==
    [id |-> plan[t].id,
     sha256 |-> c,
     inline |-> IF plan[c].large THEN None ELSE c,
     locations |-> IF plan[t].public_base THEN <<plan[t].id>> ELSE <<>>]

\* The handler writes its file and may then wait for something else.
Write(t) ==
    /\ phase[t] = "started"
    /\ file' = [file EXCEPT ![plan[t].path] = t]
    /\ phase' = [phase EXCEPT ![t] = "written"]
    /\ changed' = changed \cup Waiting(plan[t].path)
    /\ UNCHANGED <<plan, manifest, blobs, fetch, order>>

\* Raises when the file is gone: then the task delivers nothing.
artifact_from_file(t) ==
    /\ phase[t] = "written" /\ file[plan[t].path] # None
    /\ manifest' = [manifest EXCEPT ![t] = ManifestOf(t, file[plan[t].path])]
    /\ phase' = [phase EXCEPT ![t] = "made"]
    /\ UNCHANGED <<plan, file, blobs, fetch, history>>

\* Writes and reads its file in one step, under an id and a path of its own.
json_artifact(t) ==
    /\ phase[t] = "started"
    /\ \A u \in Task \ {t} : plan[u].id # plan[t].id /\ plan[u].path # plan[t].path
    /\ file' = [file EXCEPT ![plan[t].path] = t]
    /\ manifest' = [manifest EXCEPT ![t] = ManifestOf(t, t)]
    /\ phase' = [phase EXCEPT ![t] = "made"]
    /\ UNCHANGED <<plan, blobs, fetch, history>>

\* Mutant: only verification.verifier_agent_id is looked at.
OneVerifier(c) == {c.requester, c.executor, Me, c.verifier} \ {None}

Allowed(c) == ({c.requester, c.executor, Me, c.verifier} \cup c.verifiers) \ {None}

party_keys(c) ==
    [a \in Agent |->
       IF a \in {c.requester, c.executor, c.verifier} /\ c.public_keys[a] # None
       THEN c.public_keys[a] ELSE c.party_keys[a]]

\* Mutant: the file is preferred to the bytes in the manifest.
FileFirst(t) == file[plan[t].path]

\* The bytes published: the manifest's own, else what its path holds by now.
Raw(t) == IF manifest[t].inline # None THEN manifest[t].inline ELSE file[plan[t].path]

\* Mutants: published even so; whoever was admitted to the id before still is.
PublishedAnyway(t) ==
    [blobs EXCEPT ![plan[t].id] =
       [data |-> Raw(t), sha256 |-> manifest[t].sha256,
        allowed |-> Allowed(plan[t].contract), party_keys |-> party_keys(plan[t].contract)]]

AdmissionsAdded(t) ==
    IF Raw(t) = None THEN blobs
    ELSE [PublishedAnyway(t) EXCEPT ![plan[t].id].allowed =
            @ \cup IF blobs[plan[t].id] = None THEN {} ELSE blobs[plan[t].id].allowed]

\* Whatever the id pointed to before is replaced.
_publish_artifact(t) ==
    IF Raw(t) = None THEN blobs
    ELSE [blobs EXCEPT ![plan[t].id] =
            [data |-> Raw(t), sha256 |-> manifest[t].sha256,
             allowed |-> Allowed(plan[t].contract),
             party_keys |-> party_keys(plan[t].contract)]]

\* The handler has returned: handle_message publishes and answers.
HandlerReturns(t) ==
    /\ phase[t] = "made"
    /\ blobs' = _publish_artifact(t)
    /\ phase' = [phase EXCEPT ![t] = "answered"]
    /\ order' = IF Raw(t) = None THEN order ELSE Append(order, t)
    /\ UNCHANGED <<plan, file, manifest, fetch, changed>>

\* The workspace is tidied up.
Remove(p) ==
    /\ file[p] # None
    /\ file' = [file EXCEPT ![p] = None]
    /\ changed' = changed \cup Waiting(p)
    /\ UNCHANGED <<plan, phase, manifest, blobs, fetch, order>>

\* Blobs are kept in memory only; running handlers are lost.
Restart ==
    /\ blobs' = [i \in Id |-> None]
    /\ phase' = [t \in Task |-> IF phase[t] = "answered" THEN "answered" ELSE "lost"]
    /\ order' = <<>>
    /\ UNCHANGED <<plan, file, manifest, fetch, changed>>

-----------------------------------------------------------------------------
(* The download *)

\* Mutant: the body is taken as it comes.
Unchecked(ref, c) == c

Checked(ref, c) == IF c = ref.sha256 THEN c ELSE "ARTIFACT_HASH_MISMATCH"

\* with_revision: the reference to the next revision, with other bytes.
with_revision(ref, c) == [ref EXCEPT !.sha256 = c, !.inline = c]

\* References that may be around once m is delivered: m; m with the bytes left
\* out or others put in, or with other locations; its next revision.
References(m) ==
    {m, [m EXCEPT !.inline = None]}
    \cup {[m EXCEPT !.inline = None, !.locations = s] : s \in Routes}
    \cup {[m EXCEPT !.inline = c] : c \in Task}
    \cup {with_revision(m, c) : c \in {d \in Task : ~plan[d].large}}

\* materialize_artifact: the bytes in a reference are taken before any location.
materialize_artifact(ref) ==
    /\ fetch = None /\ ref.inline # None
    /\ fetch' = [ref |-> ref, agent |-> None, key |-> None, age |-> 0, todo |-> <<>>,
                 sent |-> None, result |-> Checked(ref, ref.inline)]
    /\ UNCHANGED <<producer, history>>

ResultOf(todo) == IF todo = <<>> THEN "ARTIFACT_NOT_FOUND" ELSE None

\* Without them: headers signed once, by a clock that may be ahead, for all
\* locations.
fetch_artifact(ref, a, k, ahead) ==
    /\ fetch = None /\ ref.inline = None
    /\ fetch' = [ref |-> ref, agent |-> a, key |-> k, age |-> -ahead, todo |-> ref.locations,
                 sent |-> None, result |-> ResultOf(ref.locations)]
    /\ UNCHANGED <<producer, history>>

Skipped(f) == [f EXCEPT !.todo = Tail(@), !.result = ResultOf(Tail(f.todo))]

\* authorize_artifact_get for the location of artifact i.
authorize_artifact_get(i, f) ==
    LET known == blobs[i].party_keys[f.agent] IN
    /\ f.agent \in blobs[i].allowed
    /\ f.age \in -MaxSkew..MaxSkew
    /\ known \in {None, f.key}
    /\ f.ref.id = i  \* or the signature is for another artifact

Fetching == fetch # None /\ fetch.result = None

\* artifacts_get answers; what has a status of 400 or more is passed over.
AskProducer ==
    /\ Fetching /\ Head(fetch.todo) \in Id
    /\ LET i == Head(fetch.todo) IN
         fetch' = IF blobs[i] # None /\ authorize_artifact_get(i, fetch)
                  THEN [fetch EXCEPT !.sent = blobs[i].data,
                                     !.result = Checked(fetch.ref, blobs[i].data)]
                  ELSE Skipped(fetch)
    /\ UNCHANGED <<producer, history>>

\* Another host answers as it likes.
AskElsewhere ==
    /\ Fetching /\ Head(fetch.todo) = Elsewhere
    /\ \/ \E c \in Task : fetch' = [fetch EXCEPT !.result = Checked(fetch.ref, c)]
       \/ fetch' = Skipped(fetch)
    /\ UNCHANGED <<producer, history>>

PassOver ==
    /\ Fetching /\ Head(fetch.todo) = NotHttp
    /\ fetch' = Skipped(fetch)
    /\ UNCHANGED <<producer, history>>

\* No connection, or a timeout: the exception ends the whole download.
Unreached ==
    /\ Fetching /\ Head(fetch.todo) # NotHttp
    /\ fetch' = [fetch EXCEPT !.result = "raised"]
    /\ UNCHANGED <<producer, history>>

Tick ==
    /\ Fetching /\ fetch.age <= MaxSkew
    /\ fetch' = [fetch EXCEPT !.age = @ + 1]
    /\ UNCHANGED <<producer, history>>

\* The caller of fetch_artifact goes on.
Returns ==
    /\ fetch' = None
    /\ UNCHANGED <<producer, history>>

-----------------------------------------------------------------------------

ProducerStep ==
    \/ \E t \in Task :
         Write(t) \/ artifact_from_file(t) \/ json_artifact(t) \/ HandlerReturns(t)
    \/ \E p \in Path : Remove(p)
    \/ Restart

DownloadStep ==
    \/ \E t \in {u \in Task : phase[u] = "answered"} : \E ref \in References(manifest[t]) :
         \/ materialize_artifact(ref)
         \/ \E a \in Agent, k \in Key, ahead \in Ahead : fetch_artifact(ref, a, k, ahead)
    \/ AskProducer \/ AskElsewhere \/ PassOver \/ Unreached
    \/ Tick

Next ==
    IF fetch # None /\ fetch.result # None THEN Returns ELSE ProducerStep \/ DownloadStep

Spec == Init /\ [][Next]_vars

-----------------------------------------------------------------------------
(* Properties *)

TypeOK ==
    /\ plan \in Plans
    /\ file \in [Path -> Task \cup {None}]
    /\ phase \in [Task -> {"started", "written", "made", "answered", "lost"}]
    /\ \A t \in Task : manifest[t] = None \/ manifest[t] \in Ref
    /\ blobs \in [Id -> Blob \cup {None}]
    /\ fetch # None => /\ fetch.ref \in Ref
                       /\ fetch.result \in Task \cup Failure \cup {None}
    /\ changed \subseteq Task

\* No other task writes the file of t.
Alone(t) == \A u \in Task \ {t} : plan[u].path # plan[t].path

\* "Downloaders MUST hash-check": whatever became of the artifact at its id since
\* the reference was made, and whatever a host answers, fetch_artifact returns the
\* bytes that the reference names or none.
FetchedIsReferenced ==
    fetch # None /\ fetch.result \in Task => fetch.result = fetch.ref.sha256

\* "The producer admits only TaskContract parties": the bytes of a task go to
\* parties of that task's contract and, where the key of one is known, to that
\* key, also when tasks share an artifact id and publish in any order.  Only tasks
\* that alone write their file are spoken of: one whose handler writes the path of
\* another contract's task has that task publish its bytes (parties of the other
\* contract may then have them), and nothing is claimed of it.
OnlyPartiesAreServed ==
    fetch # None /\ fetch.sent # None /\ Alone(fetch.sent) =>
        LET c == plan[fetch.sent].contract IN
        /\ fetch.agent \in {Me, c.requester, c.executor, c.verifier} \cup c.verifiers
        /\ party_keys(c)[fetch.agent] \in {None, fetch.key}

\* The producer's blob is what its manifest says, but for a file that was too
\* large for the manifest and was rewritten before the handler returned.
BlobIsAsDelivered ==
    \A i \in Id : blobs[i] # None /\ blobs[i].data # blobs[i].sha256 =>
        /\ plan[blobs[i].sha256].large
        /\ \E t \in changed : plan[t].id = i /\ manifest[t].sha256 = blobs[i].sha256

\* t is published, and nothing else under its id since.
Latest(t) ==
    \E n \in 1..Len(order) :
        /\ order[n] = t
        /\ \A l \in n + 1..Len(order) : plan[order[l]].id # plan[t].id

Authentic(t, f) ==
    LET c == plan[t].contract IN
    /\ f.agent \in {Me, c.requester, c.executor, c.verifier} \cup c.verifiers
    /\ party_keys(c)[f.agent] \in {None, f.key}
    /\ f.age \in -MaxSkew..MaxSkew

\* A party that downloads what was delivered to it, in time and with its own key,
\* is answered with it.  It fails only when there is no way to it (too large for
\* the manifest, no URL), its file was touched before it was published, another
\* task has published under its id since, or the producer restarted.
PartyGetsItsArtifact ==
    [][\A t \in Task :
         /\ fetch' \notin {fetch, None} /\ phase[t] = "answered" /\ fetch'.ref = manifest[t]
         /\ fetch'.result \in Failure \ {"raised"}
         => /\ manifest[t].inline = None
            /\ \/ ~Authentic(t, fetch')
               \/ manifest[t].locations = <<>>
               \/ t \in changed
               \/ ~Latest(t)]_vars
=============================================================================
