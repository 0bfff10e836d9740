----------------------- MODULE ArtifactExchangeProofs -----------------------
(***************************************************************************)
(* Proofs about ArtifactExchange, for every set of tasks, plans, agents,   *)
(* keys and locations.                                                     *)
(*                                                                         *)
(* Who is served with which bytes is decided far apart: a task is admitted *)
(* to by its own contract, and its bytes come from a file that others may  *)
(* write, by way of a manifest that is made before, under an id that       *)
(* others may take.  What holds it together is the path: bytes are only    *)
(* ever in files, manifests and blobs of tasks with the path of the task   *)
(* that wrote them (SamePath).                                             *)
(*                                                                         *)
(* That a party gets what was delivered to it follows a task whose file is *)
(* left alone from its manifest to its blob (UnchangedFiles and, for the   *)
(* last that was published under its id, LatestIsThere); a download of it  *)
(* that fails has one of the reasons the code knows (FailureIsExplained).  *)
(***************************************************************************)
EXTENDS ArtifactExchange, TLAPS

SamePath(t, u) == plan[t].path = plan[u].path

\* The variables are functions of their index sets, and a download has its fields.
Shapes ==
    /\ plan \in [Task -> Delivery]
    /\ file \in [Path -> Task \cup {None}]
    /\ phase = [t \in Task |-> phase[t]]
    /\ manifest = [t \in Task |-> manifest[t]]
    /\ blobs = [i \in Id |-> blobs[i]]
    /\ fetch # None =>
         fetch = [ref |-> fetch.ref, agent |-> fetch.agent, key |-> fetch.key,
                  age |-> fetch.age, todo |-> fetch.todo, sent |-> fetch.sent,
                  result |-> fetch.result]

FilesByPath == \A p \in Path : file[p] # None => plan[file[p]].path = p

ManifestsByPath ==
    \A t \in Task :
        phase[t] = "made" =>
            (manifest[t].inline # None =>
                manifest[t].inline \in Task /\ SamePath(manifest[t].inline, t))

\* What is published, or has been sent, is of a task with the path of one whose
\* contract decides about it.
BlobsByPath ==
    \A i \in Id : blobs[i] # None =>
        \E u \in Task :
            /\ SamePath(blobs[i].data, u)
            /\ blobs[i].allowed = Allowed(plan[u].contract)
            /\ blobs[i].party_keys = party_keys(plan[u].contract)

SentByPath ==
    fetch # None /\ fetch.sent # None =>
        \E u \in Task :
            /\ SamePath(fetch.sent, u)
            /\ fetch.agent \in Allowed(plan[u].contract)
            /\ party_keys(plan[u].contract)[fetch.agent] \in {None, fetch.key}

\* The inductive invariant.
IInv ==
    /\ Shapes /\ FilesByPath /\ ManifestsByPath /\ BlobsByPath /\ SentByPath
    /\ FetchedIsReferenced

LEMMA DeliveryFacts ==
  ASSUME plan \in [Task -> Delivery], NEW t \in Task
  PROVE  plan[t].id \in Id /\ plan[t].path \in Path
BY DEF Delivery

LEMMA CheckedFacts ==
  ASSUME NEW ref, NEW c, Checked(ref, c) \in Task
  PROVE  Checked(ref, c) = ref.sha256
BY FailureAssumption DEF Checked, Failure

LEMMA ResultOfFacts == ASSUME NEW todo PROVE ResultOf(todo) \notin Task
BY FailureAssumption DEF ResultOf, Failure

LEMMA InitIInv == Init => IInv
BY ExchangeAssumption DEF Init, IInv, Shapes, FilesByPath, ManifestsByPath, BlobsByPath,
   SentByPath, FetchedIsReferenced

\* What the producer does leaves the download alone.
LEMMA ProducerIInv == ASSUME IInv, ProducerStep PROVE IInv'
<1>1. /\ plan' = plan /\ fetch' = fetch
  BY DEF ProducerStep, Write, artifact_from_file, json_artifact, HandlerReturns, Remove, Restart
<1>2. SentByPath' /\ FetchedIsReferenced'
  BY <1>1 DEF IInv, SentByPath, FetchedIsReferenced, SamePath
\* A new manifest's bytes are those of its own path.
<1>0. ASSUME NEW t \in Task, NEW c \in Task, SamePath(c, t),
             manifest' = [manifest EXCEPT ![t] = ManifestOf(t, c)],
             phase' = [phase EXCEPT ![t] = "made"]
      PROVE  /\ ManifestsByPath'
             /\ phase' = [u \in Task |-> phase'[u]]
             /\ manifest' = [u \in Task |-> manifest'[u]]
  <2>1. /\ phase' = [u \in Task |-> phase'[u]]
        /\ manifest' = [u \in Task |-> manifest'[u]]
    BY <1>0 DEF IInv, Shapes
  <2>2. ManifestOf(t, c).inline \in {None, c}
    BY DEF ManifestOf
  <2>3. SUFFICES ASSUME NEW u \in Task, phase'[u] = "made", manifest'[u].inline # None
                 PROVE  /\ manifest'[u].inline \in Task
                        /\ plan'[manifest'[u].inline].path = plan'[u].path
    BY <2>1 DEF ManifestsByPath, SamePath
  <2>4. CASE u = t
    <3>1. manifest'[u] = ManifestOf(t, c)
      BY <1>0, <2>4 DEF IInv, Shapes
    <3> QED
      BY <1>0, <1>1, <2>2, <2>3, <2>4, <3>1 DEF SamePath
  <2>5. CASE u # t
    <3>1. manifest'[u] = manifest[u] /\ phase'[u] = phase[u]
      BY <1>0, <2>5 DEF IInv, Shapes
    <3> QED
      BY <1>1, <2>3, <3>1 DEF IInv, ManifestsByPath, SamePath
  <2> QED
    BY <2>4, <2>5
<1> USE DEF IInv, Shapes, FilesByPath, BlobsByPath, SamePath
<1>3. ASSUME NEW t \in Task, Write(t) PROVE IInv'
  BY <1>1, <1>2, <1>3, DeliveryFacts, FailureAssumption DEF Write, ManifestsByPath
<1>4. ASSUME NEW t \in Task, artifact_from_file(t) PROVE IInv'
  <2>1. file[plan[t].path] \in Task /\ SamePath(file[plan[t].path], t)
    BY <1>4, DeliveryFacts DEF artifact_from_file
  <2>2. /\ ManifestsByPath'
        /\ phase' = [u \in Task |-> phase'[u]]
        /\ manifest' = [u \in Task |-> manifest'[u]]
    BY <1>0, <1>4, <2>1 DEF artifact_from_file
  <2> QED
    BY <1>1, <1>2, <1>4, <2>2 DEF artifact_from_file
<1>5. ASSUME NEW t \in Task, json_artifact(t) PROVE IInv'
  <2>1. /\ ManifestsByPath'
        /\ phase' = [u \in Task |-> phase'[u]]
        /\ manifest' = [u \in Task |-> manifest'[u]]
    BY <1>0, <1>5 DEF json_artifact
  <2>2. FilesByPath' /\ file' \in [Path -> Task \cup {None}]
    BY <1>1, <1>5, DeliveryFacts DEF json_artifact
  <2> QED
    BY <1>1, <1>2, <1>5, <2>1, <2>2 DEF json_artifact
<1>6. ASSUME NEW t \in Task, HandlerReturns(t) PROVE IInv'
  <2>1. Raw(t) # None => SamePath(Raw(t), t)
    BY <1>6, DeliveryFacts DEF HandlerReturns, Raw, ManifestsByPath
  <2>2. BlobsByPath' /\ blobs' = [i \in Id |-> blobs'[i]]
    <3>1. CASE Raw(t) = None
      BY <1>1, <1>6, <3>1 DEF HandlerReturns, _publish_artifact
    <3>2. CASE Raw(t) # None
      <4> DEFINE b == [data |-> Raw(t), sha256 |-> manifest[t].sha256,
                       allowed |-> Allowed(plan[t].contract),
                       party_keys |-> party_keys(plan[t].contract)]
      <4>1. blobs' = [blobs EXCEPT ![plan[t].id] = b] /\ plan[t].id \in Id
        BY <1>6, <3>2, DeliveryFacts DEF HandlerReturns, _publish_artifact
      <4>2. SamePath(b.data, t) /\ b.allowed = Allowed(plan[t].contract)
            /\ b.party_keys = party_keys(plan[t].contract)
        BY <2>1, <3>2
      <4> HIDE DEF b
      <4>3. ASSUME NEW i \in Id, blobs'[i] # None
            PROVE  \E u \in Task : /\ plan[blobs'[i].data].path = plan[u].path
                                    /\ blobs'[i].allowed = Allowed(plan[u].contract)
                                    /\ blobs'[i].party_keys = party_keys(plan[u].contract)
        <5>1. CASE i = plan[t].id
          BY <4>1, <4>2, <5>1
        <5>2. CASE i # plan[t].id
          BY <4>1, <4>3, <5>2
        <5> QED
          BY <5>1, <5>2
      <4> QED
        BY <1>1, <4>1, <4>3
    <3> QED
      BY <3>1, <3>2
  <2> QED
    BY <1>1, <1>2, <1>6, <2>2 DEF HandlerReturns, ManifestsByPath
<1>7. ASSUME NEW p \in Path, Remove(p) PROVE IInv'
  BY <1>1, <1>2, <1>7 DEF Remove, ManifestsByPath
<1>8. ASSUME Restart PROVE IInv'
  BY <1>1, <1>2, <1>8 DEF Restart, ManifestsByPath
<1> QED
  BY <1>3, <1>4, <1>5, <1>6, <1>7, <1>8 DEF ProducerStep

\* A download leaves the producer alone.
LEMMA DownloadIInv == ASSUME IInv, DownloadStep \/ Returns PROVE IInv'
<1>1. UNCHANGED producer
  BY DEF DownloadStep, Returns, materialize_artifact, fetch_artifact, AskProducer, AskElsewhere,
         PassOver, Unreached, Tick
<1> DEFINE Fetched == /\ fetch' # None =>
                           fetch' = [ref |-> fetch'.ref, agent |-> fetch'.agent,
                                     key |-> fetch'.key, age |-> fetch'.age,
                                     todo |-> fetch'.todo, sent |-> fetch'.sent,
                                     result |-> fetch'.result]
                      /\ SentByPath' /\ FetchedIsReferenced'
<1>2. ASSUME Fetched PROVE IInv'
  BY <1>1, <1>2 DEF IInv, Shapes, FilesByPath, ManifestsByPath, BlobsByPath, SamePath, producer
<1> USE <1>1 DEF IInv, Shapes, SentByPath, SamePath, FetchedIsReferenced, producer
<1>3. ASSUME NEW ref, materialize_artifact(ref) PROVE Fetched
  BY <1>3, CheckedFacts DEF materialize_artifact
<1>4. ASSUME NEW ref, NEW a, NEW k, NEW ahead, fetch_artifact(ref, a, k, ahead) PROVE Fetched
  <2>1. /\ fetch' = [ref |-> fetch'.ref, agent |-> fetch'.agent, key |-> fetch'.key,
                     age |-> fetch'.age, todo |-> fetch'.todo, sent |-> fetch'.sent,
                     result |-> fetch'.result]
        /\ fetch'.sent = None /\ fetch'.result \notin Task
    BY <1>4, ResultOfFacts DEF fetch_artifact
  <2> QED
    BY <2>1
<1>5. ASSUME fetch # None, fetch' = Skipped(fetch) PROVE Fetched
  BY <1>5, ResultOfFacts DEF Skipped
<1>6. ASSUME AskProducer PROVE Fetched
  <2> DEFINE i == Head(fetch.todo)
  <2>0. fetch # None
    BY <1>6 DEF AskProducer, Fetching
  <2>1. CASE fetch' = Skipped(fetch)
    <3> HIDE DEF Fetched
    <3> QED
      BY <1>5, <2>0, <2>1
  <2>2. CASE /\ blobs[i] # None /\ authorize_artifact_get(i, fetch)
             /\ fetch' = [fetch EXCEPT !.sent = blobs[i].data,
                                       !.result = Checked(fetch.ref, blobs[i].data)]
    <3>1. i \in Id
      BY <1>6 DEF AskProducer
    <3>2. PICK u \in Task :
            /\ plan[blobs[i].data].path = plan[u].path
            /\ blobs[i].allowed = Allowed(plan[u].contract)
            /\ blobs[i].party_keys = party_keys(plan[u].contract)
      BY <2>2, <3>1 DEF BlobsByPath
    <3>3. /\ fetch.agent \in Allowed(plan[u].contract)
          /\ party_keys(plan[u].contract)[fetch.agent] \in {None, fetch.key}
      BY <2>2, <3>2 DEF authorize_artifact_get
    <3>4. fetch' = [ref |-> fetch.ref, agent |-> fetch.agent, key |-> fetch.key,
                    age |-> fetch.age, todo |-> fetch.todo, sent |-> blobs[i].data,
                    result |-> Checked(fetch.ref, blobs[i].data)]
      BY <1>6, <2>2 DEF AskProducer, Fetching
    <3>5. FetchedIsReferenced'
      BY <3>4, CheckedFacts
    <3>6. SentByPath'
      <4>1. fetch'.sent = blobs[i].data /\ fetch'.agent = fetch.agent /\ fetch'.key = fetch.key
        BY <3>4
      <4>2. plan' = plan
        BY <1>1
      <4> HIDE <1>1 DEF IInv, Shapes, FetchedIsReferenced, producer
      <4> QED
        BY <3>2, <3>3, <4>1, <4>2 DEF SentByPath
    <3>7. fetch' = [ref |-> fetch'.ref, agent |-> fetch'.agent, key |-> fetch'.key,
                    age |-> fetch'.age, todo |-> fetch'.todo, sent |-> fetch'.sent,
                    result |-> fetch'.result]
      BY <3>4
    <3> HIDE <1>1 DEF SentByPath, FetchedIsReferenced, IInv, Shapes, producer
    <3> QED
      BY <3>5, <3>6, <3>7
  <2> HIDE DEF Fetched
  <2> QED
    BY <1>6, <2>1, <2>2 DEF AskProducer
<1>7. ASSUME AskElsewhere PROVE Fetched
  <2>1. CASE fetch' = Skipped(fetch)
    BY <1>5, <1>7, <2>1 DEF AskElsewhere, Fetching
  <2>2. ASSUME NEW c \in Task, fetch' = [fetch EXCEPT !.result = Checked(fetch.ref, c)]
        PROVE  Fetched
    BY <1>7, <2>2, CheckedFacts DEF AskElsewhere, Fetching
  <2> QED
    BY <1>7, <2>1, <2>2 DEF AskElsewhere
<1>8. ASSUME PassOver PROVE Fetched
  BY <1>5, <1>8 DEF PassOver, Fetching
<1>9. ASSUME Unreached PROVE Fetched
  BY <1>9, FailureAssumption DEF Unreached, Fetching, Failure
<1>10. ASSUME Tick PROVE Fetched
  BY <1>10 DEF Tick, Fetching
<1>11. ASSUME Returns PROVE Fetched
  BY <1>11 DEF Returns
<1> QED
  BY <1>2, <1>3, <1>4, <1>6, <1>7, <1>8, <1>9, <1>10, <1>11 DEF DownloadStep

LEMMA Invariant == Spec => []IInv
<1>1. IInv /\ [Next]_vars => IInv'
  <2>1. IInv /\ Next => IInv'
    BY ProducerIInv, DownloadIInv DEF Next
  <2>2. IInv /\ UNCHANGED vars => IInv'
    BY DEF vars, producer, IInv, Shapes, FilesByPath, ManifestsByPath, BlobsByPath, SentByPath,
           SamePath, FetchedIsReferenced
  <2> QED
    BY <2>1, <2>2
<1> QED
  BY <1>1, InitIInv, PTL DEF Spec

\* fetch_artifact returns the bytes that its reference names or none, whatever became
\* of the artifact since and whatever hosts answer.
THEOREM OnlyReferencedBytes == Spec => []FetchedIsReferenced
BY Invariant, PTL DEF IInv

\* The bytes of a task whose file no other task writes go to parties of its own
\* contract, under the keys known of them, whoever takes its artifact id.
THEOREM PartiesOnly == Spec => []OnlyPartiesAreServed
<1>1. IInv => OnlyPartiesAreServed
  <2> SUFFICES ASSUME IInv, fetch # None, fetch.sent # None, Alone(fetch.sent)
               PROVE  LET c == plan[fetch.sent].contract IN
                      /\ fetch.agent \in {Me, c.requester, c.executor, c.verifier} \cup c.verifiers
                      /\ party_keys(c)[fetch.agent] \in {None, fetch.key}
    BY DEF OnlyPartiesAreServed
  <2>1. PICK u \in Task :
          /\ SamePath(fetch.sent, u)
          /\ fetch.agent \in Allowed(plan[u].contract)
          /\ party_keys(plan[u].contract)[fetch.agent] \in {None, fetch.key}
    BY DEF IInv, SentByPath
  <2>2. u = fetch.sent
    BY <2>1 DEF Alone, SamePath
  <2> QED
    BY <2>1, <2>2 DEF Allowed
<1> QED
  BY <1>1, Invariant, PTL

-----------------------------------------------------------------------------
(* What is published is what was delivered *)

\* A manifest made by t: of t's artifact, with its bytes in it unless they are large.
ManifestIsOf(t) ==
    /\ manifest[t] \in Ref
    /\ manifest[t].id = plan[t].id
    /\ plan[manifest[t].sha256].large => manifest[t].inline = None
    /\ ~plan[manifest[t].sha256].large => manifest[t].inline = manifest[t].sha256
    /\ manifest[t].locations \in {<<>>, <<plan[t].id>>}

ManifestsAreOfTheirTasks ==
    \A t \in Task : phase[t] \in {"made", "answered"} => ManifestIsOf(t)

\* Only a task that has made its manifest can find its file changed, and one that
\* has not found it changed still has in it what the manifest says.
ChangedAreMade == \A t \in changed : phase[t] \notin {"started", "written"}

UnchangedFiles ==
    \A t \in Task : phase[t] = "made" /\ t \notin changed =>
        file[plan[t].path] = manifest[t].sha256

DataInv ==
    /\ TypeOK
    /\ ManifestsAreOfTheirTasks /\ ChangedAreMade /\ UnchangedFiles
    /\ BlobIsAsDelivered

LEMMA PlanFacts ==
  ASSUME DataInv, NEW t \in Task
  PROVE  /\ plan[t] = [id |-> plan[t].id, path |-> plan[t].path, large |-> plan[t].large,
                       public_base |-> plan[t].public_base, contract |-> plan[t].contract]
         /\ plan[t].id \in Id /\ plan[t].path \in Path /\ plan[t].contract \in Contract
BY ExchangeAssumption DEF DataInv, TypeOK, Delivery

LEMMA ContractFacts ==
  ASSUME NEW c \in Contract
  PROVE  Allowed(c) \subseteq Agent /\ party_keys(c) \in [Agent -> Key \cup {None}]
BY ExchangeAssumption DEF Contract, Allowed, party_keys

\* A manifest of any bytes meets what is said of its task's manifests.
LEMMA ManifestOfFacts ==
  ASSUME DataInv, NEW t \in Task, NEW c \in Task
  PROVE  LET m == ManifestOf(t, c) IN
         /\ m \in Ref /\ m.id = plan[t].id /\ m.sha256 = c
         /\ plan[c].large => m.inline = None
         /\ ~plan[c].large => m.inline = c
         /\ m.locations \in {<<>>, <<plan[t].id>>}
<1>1. plan[t].id \in Id
  BY PlanFacts
<1>2. <<>> \in Seq(Id \cup {Elsewhere, NotHttp}) /\ <<plan[t].id>> \in Seq(Id \cup {Elsewhere, NotHttp})
  BY <1>1
<1> QED
  BY <1>1, <1>2 DEF ManifestOf, Ref

\* What is published of t is of the bytes in the manifest, or else of what the file
\* holds by now.
LEMMA RawFacts ==
  ASSUME DataInv, NEW t \in Task, phase[t] = "made", Raw(t) # None
  PROVE  /\ manifest[t] \in Ref /\ manifest[t].id = plan[t].id
         /\ Raw(t) \in Task
         /\ Raw(t) # manifest[t].sha256 =>
              plan[manifest[t].sha256].large /\ t \in changed
<1>1. ManifestIsOf(t)
  BY DEF DataInv, ManifestsAreOfTheirTasks
<1>2. manifest[t].sha256 \in Task /\ manifest[t].sha256 # None
  BY <1>1, FailureAssumption DEF ManifestIsOf, Ref
<1>3. file[plan[t].path] \in Task \cup {None}
  BY PlanFacts DEF DataInv, TypeOK
<1> QED
  BY <1>1, <1>2, <1>3 DEF ManifestIsOf, Raw, DataInv, UnchangedFiles

LEMMA InitDataInv == Init => DataInv
BY DEF Init, DataInv, TypeOK, ManifestsAreOfTheirTasks, ChangedAreMade, UnchangedFiles,
   BlobIsAsDelivered

LEMMA ProducerDataInv == ASSUME IInv, DataInv, ProducerStep PROVE DataInv'
<1>1. /\ plan' = plan /\ fetch' = fetch
  BY DEF ProducerStep, Write, artifact_from_file, json_artifact, HandlerReturns, Remove, Restart
\* A step of a task that makes its manifest.
<1>2. ASSUME NEW t \in Task, NEW c \in Task, phase[t] \in {"started", "written"},
             manifest' = [manifest EXCEPT ![t] = ManifestOf(t, c)],
             phase' = [phase EXCEPT ![t] = "made"],
             file' \in [Path -> Task \cup {None}],
             file'[plan[t].path] = c,
             \A u \in Task : phase[u] = "made" => file'[plan[u].path] = file[plan[u].path],
             blobs' = blobs, changed' = changed
      PROVE  DataInv'
  <2>1. /\ phase'[t] = "made" /\ manifest'[t] = ManifestOf(t, c)
        /\ \A u \in Task \ {t} : phase'[u] = phase[u] /\ manifest'[u] = manifest[u]
        /\ phase' \in [Task -> {"started", "written", "made", "answered", "lost"}]
    BY <1>2 DEF DataInv, TypeOK, IInv, Shapes
  <2>2. t \notin changed
    BY <1>2 DEF DataInv, ChangedAreMade
  <2>3. TypeOK'
    BY <1>1, <1>2, <2>1, ManifestOfFacts DEF DataInv, TypeOK
  <2>4. ManifestsAreOfTheirTasks'
    BY <1>1, <2>1, ManifestOfFacts DEF DataInv, ManifestsAreOfTheirTasks, ManifestIsOf
  <2>5. ChangedAreMade'
    BY <1>2, <2>1, <2>2 DEF DataInv, ChangedAreMade, TypeOK
  <2>6. UnchangedFiles'
    BY <1>1, <1>2, <2>1, ManifestOfFacts DEF DataInv, UnchangedFiles
  <2>7. BlobIsAsDelivered'
    <3>1. \A u \in changed : u \in Task /\ manifest'[u] = manifest[u]
      BY <2>1, <2>2 DEF DataInv, TypeOK
    <3> QED
      BY <1>1, <1>2, <3>1 DEF DataInv, BlobIsAsDelivered
  <2> QED
    BY <2>3, <2>4, <2>5, <2>6, <2>7 DEF DataInv
\* A step that changes files and marks who waits with them.
<1>3. ASSUME NEW p \in Path, NEW c \in Task \cup {None},
             file' = [file EXCEPT ![p] = c], changed' = changed \cup Waiting(p),
             manifest' = manifest, blobs' = blobs,
             phase' \in [Task -> {"started", "written", "made", "answered", "lost"}],
             \A u \in Task : phase'[u] # phase[u] => phase[u] = "started" /\ phase'[u] = "written"
      PROVE  DataInv'
  <2>0. \A u \in Waiting(p) : u \in Task /\ phase[u] = "made"
    BY DEF Waiting
  <2>1. TypeOK'
    BY <1>1, <1>3, <2>0 DEF DataInv, TypeOK
  <2>2. ManifestsAreOfTheirTasks'
    BY <1>1, <1>3 DEF DataInv, ManifestsAreOfTheirTasks, ManifestIsOf
  <2>3. ChangedAreMade'
    BY <1>3, <2>0 DEF DataInv, ChangedAreMade, TypeOK
  <2>4. UnchangedFiles'
    <3> SUFFICES ASSUME NEW u \in Task, phase'[u] = "made", u \notin changed'
                 PROVE  file'[plan[u].path] = manifest[u].sha256
      BY <1>1, <1>3 DEF UnchangedFiles
    <3>1. phase[u] = "made" /\ u \notin changed /\ plan[u].path # p
      BY <1>3 DEF Waiting
    <3> QED
      BY <1>3, <3>1, PlanFacts DEF DataInv, UnchangedFiles, TypeOK
  <2>5. BlobIsAsDelivered'
    BY <1>1, <1>3 DEF DataInv, BlobIsAsDelivered
  <2> QED
    BY <2>1, <2>2, <2>3, <2>4, <2>5 DEF DataInv
<1>4. ASSUME NEW t \in Task, Write(t) PROVE DataInv'
  BY <1>3, <1>4, PlanFacts DEF Write, DataInv, TypeOK
<1>5. ASSUME NEW t \in Task, artifact_from_file(t) PROVE DataInv'
  <2>1. file[plan[t].path] \in Task
    BY <1>5, PlanFacts DEF artifact_from_file, DataInv, TypeOK
  <2>2. file' \in [Path -> Task \cup {None}] /\ blobs' = blobs /\ changed' = changed
    BY <1>5 DEF artifact_from_file, DataInv, TypeOK, history
  <2> QED
    BY <1>2, <1>5, <2>1, <2>2 DEF artifact_from_file
<1>6. ASSUME NEW t \in Task, json_artifact(t) PROVE DataInv'
  <2>1. /\ file' \in [Path -> Task \cup {None}] /\ file'[plan[t].path] = t
        /\ \A u \in Task : phase[u] = "made" => file'[plan[u].path] = file[plan[u].path]
    BY <1>6, PlanFacts DEF json_artifact, DataInv, TypeOK
  <2>2. blobs' = blobs /\ changed' = changed
    BY <1>6 DEF json_artifact, history
  <2> QED
    BY <1>2, <1>6, <2>1, <2>2 DEF json_artifact
<1>7. ASSUME NEW t \in Task, HandlerReturns(t) PROVE DataInv'
  <2>1. /\ phase'[t] = "answered" /\ \A u \in Task \ {t} : phase'[u] = phase[u]
        /\ phase' \in [Task -> {"started", "written", "made", "answered", "lost"}]
        /\ manifest' = manifest /\ file' = file /\ changed' = changed
    BY <1>7 DEF HandlerReturns, DataInv, TypeOK
  <2>2. ManifestsAreOfTheirTasks'
    BY <1>1, <1>7, <2>1 DEF HandlerReturns, DataInv, ManifestsAreOfTheirTasks, ManifestIsOf
  <2>3. ChangedAreMade' /\ UnchangedFiles'
    BY <1>1, <1>7, <2>1 DEF HandlerReturns, DataInv, ChangedAreMade, UnchangedFiles
  <2>4. blobs' \in [Id -> Blob \cup {None}] /\ BlobIsAsDelivered'
    <3>1. CASE Raw(t) = None
      BY <1>1, <1>7, <2>1, <3>1 DEF HandlerReturns, _publish_artifact, DataInv, TypeOK,
         BlobIsAsDelivered
    <3>2. CASE Raw(t) # None
      <4> DEFINE b == [data |-> Raw(t), sha256 |-> manifest[t].sha256,
                       allowed |-> Allowed(plan[t].contract),
                       party_keys |-> party_keys(plan[t].contract)]
      <4>1. blobs' = [blobs EXCEPT ![plan[t].id] = b] /\ plan[t].id \in Id
        BY <1>7, <3>2, PlanFacts DEF HandlerReturns, _publish_artifact
      <4>2. b \in Blob /\ b.sha256 = manifest[t].sha256
            /\ (b.data # b.sha256 => plan[manifest[t].sha256].large /\ t \in changed)
        BY <1>7, <3>2, RawFacts, PlanFacts, ContractFacts DEF HandlerReturns, Blob, Ref
      <4> HIDE DEF b
      <4>3. blobs' \in [Id -> Blob \cup {None}]
        BY <4>1, <4>2 DEF DataInv, TypeOK
      <4>4. ASSUME NEW i \in Id, blobs'[i] # None, blobs'[i].data # blobs'[i].sha256
            PROVE  /\ plan[blobs'[i].sha256].large
                   /\ \E u \in changed : plan[u].id = i /\ manifest[u].sha256 = blobs'[i].sha256
        <5>1. CASE i = plan[t].id
          BY <4>1, <4>2, <4>4, <5>1 DEF DataInv, TypeOK
        <5>2. CASE i # plan[t].id
          BY <4>1, <4>4, <5>2 DEF DataInv, TypeOK, BlobIsAsDelivered
        <5> QED
          BY <5>1, <5>2
      <4> QED
        BY <1>1, <2>1, <4>3, <4>4 DEF BlobIsAsDelivered
    <3> QED
      BY <3>1, <3>2
  <2> QED
    BY <1>1, <2>1, <2>2, <2>3, <2>4 DEF DataInv, TypeOK
<1>8. ASSUME NEW p \in Path, Remove(p) PROVE DataInv'
  BY <1>3, <1>8 DEF Remove, DataInv, TypeOK
<1>9. ASSUME Restart PROVE DataInv'
  <2>1. /\ \A t \in Task : phase'[t] = IF phase[t] = "answered" THEN "answered" ELSE "lost"
        /\ phase' \in [Task -> {"started", "written", "made", "answered", "lost"}]
        /\ manifest' = manifest /\ file' = file /\ changed' = changed
        /\ blobs' = [i \in Id |-> None]
    BY <1>9 DEF Restart
  <2>2. ManifestsAreOfTheirTasks' /\ ChangedAreMade' /\ UnchangedFiles'
    BY <1>1, <2>1 DEF DataInv, TypeOK, ManifestsAreOfTheirTasks, ManifestIsOf, ChangedAreMade,
       UnchangedFiles
  <2> QED
    BY <1>1, <2>1, <2>2 DEF DataInv, TypeOK, BlobIsAsDelivered
<1> QED
  BY <1>4, <1>5, <1>6, <1>7, <1>8, <1>9 DEF ProducerStep

\* References are made of manifests that were delivered.
LEMMA ReferenceFacts ==
  ASSUME DataInv, NEW m \in Ref, NEW ref \in References(m)
  PROVE  ref \in Ref
<1>1. \A s \in Routes : s \in Seq(Id \cup {Elsewhere, NotHttp})
  BY ExchangeAssumption
<1> QED
  BY <1>1 DEF References, with_revision, Ref

LEMMA ResultFacts ==
  ASSUME NEW r
  PROVE  /\ \A ref \in Ref, c \in Task : Checked(ref, c) \in Task \cup Failure
         /\ ResultOf(r) \in Failure \cup {None}
BY DEF Checked, ResultOf, Failure

LEMMA DownloadDataInv == ASSUME IInv, DataInv, DownloadStep \/ Returns PROVE DataInv'
<1>1. UNCHANGED <<producer, history>>
  BY DEF DownloadStep, Returns, materialize_artifact, fetch_artifact, AskProducer, AskElsewhere,
         PassOver, Unreached, Tick
<1> DEFINE Fetched == fetch' # None => /\ fetch'.ref \in Ref
                                       /\ fetch'.result \in Task \cup Failure \cup {None}
<1>2. ASSUME Fetched PROVE DataInv'
  BY <1>1, <1>2 DEF DataInv, TypeOK, ManifestsAreOfTheirTasks, ManifestIsOf, ChangedAreMade,
     UnchangedFiles, BlobIsAsDelivered, producer, history
<1>3. ASSUME NEW t \in {u \in Task : phase[u] = "answered"} PROVE manifest[t] \in Ref
  BY <1>3 DEF DataInv, ManifestsAreOfTheirTasks, ManifestIsOf
<1>4. ASSUME NEW ref \in Ref, materialize_artifact(ref) PROVE Fetched
  <2>1. ref.inline \in Task
    BY <1>4 DEF materialize_artifact, Ref
  <2> QED
    BY <1>4, <2>1, ResultFacts DEF materialize_artifact
<1>5. ASSUME NEW ref \in Ref, NEW a, NEW k, NEW ahead, fetch_artifact(ref, a, k, ahead)
      PROVE  Fetched
  BY <1>5, ResultFacts DEF fetch_artifact
<1>6. fetch # None => /\ fetch.ref \in Ref
                      /\ fetch = [ref |-> fetch.ref, agent |-> fetch.agent, key |-> fetch.key,
                                  age |-> fetch.age, todo |-> fetch.todo, sent |-> fetch.sent,
                                  result |-> fetch.result]
                      /\ fetch.result \in Task \cup Failure \cup {None}
  BY DEF DataInv, TypeOK, IInv, Shapes
<1>7. ASSUME fetch # None, fetch' = Skipped(fetch) PROVE Fetched
  <2>1. fetch'.ref = fetch.ref /\ fetch'.result = ResultOf(Tail(fetch.todo))
    BY <1>6, <1>7 DEF Skipped
  <2> QED
    BY <1>6, <1>7, <2>1, ResultFacts
<1>8. ASSUME NEW c \in Task, fetch # None, fetch'.ref = fetch.ref,
             fetch'.result = Checked(fetch.ref, c)
      PROVE  Fetched
  BY <1>6, <1>8, ResultFacts
<1>9. ASSUME AskProducer PROVE Fetched
  <2> DEFINE i == Head(fetch.todo)
  <2>1. CASE fetch' = Skipped(fetch)
    BY <1>7, <1>9, <2>1 DEF AskProducer, Fetching
  <2>2. CASE /\ blobs[i] # None
             /\ fetch' = [fetch EXCEPT !.sent = blobs[i].data,
                                       !.result = Checked(fetch.ref, blobs[i].data)]
    <3>1. blobs[i].data \in Task
      BY <1>9, <2>2 DEF AskProducer, DataInv, TypeOK, Blob
    <3>2. fetch # None /\ fetch'.ref = fetch.ref /\ fetch'.result = Checked(fetch.ref, blobs[i].data)
      BY <1>6, <1>9, <2>2 DEF AskProducer, Fetching
    <3> QED
      BY <1>8, <3>1, <3>2
  <2> QED
    BY <1>9, <2>1, <2>2 DEF AskProducer
<1>10. ASSUME AskElsewhere PROVE Fetched
  <2>1. CASE fetch' = Skipped(fetch)
    BY <1>7, <1>10, <2>1 DEF AskElsewhere, Fetching
  <2>2. ASSUME NEW c \in Task, fetch' = [fetch EXCEPT !.result = Checked(fetch.ref, c)]
        PROVE  Fetched
    <3>1. fetch # None /\ fetch'.ref = fetch.ref /\ fetch'.result = Checked(fetch.ref, c)
      BY <1>6, <1>10, <2>2 DEF AskElsewhere, Fetching
    <3> QED
      BY <1>8, <3>1
  <2> QED
    BY <1>10, <2>1, <2>2 DEF AskElsewhere
<1>11. ASSUME PassOver PROVE Fetched
  BY <1>7, <1>11 DEF PassOver, Fetching
<1>12. ASSUME Unreached PROVE Fetched
  BY <1>6, <1>12 DEF Unreached, Fetching, Failure
<1>13. ASSUME Tick PROVE Fetched
  BY <1>6, <1>13 DEF Tick, Fetching
<1>14. ASSUME Returns PROVE Fetched
  BY <1>14 DEF Returns
<1> HIDE DEF Fetched
<1> QED
  BY <1>2, <1>3, <1>4, <1>5, <1>9, <1>10, <1>11, <1>12, <1>13, <1>14, ReferenceFacts DEF DownloadStep

LEMMA DataInvariant == Spec => []DataInv
<1>1. IInv /\ DataInv /\ [Next]_vars => DataInv'
  <2>1. IInv /\ DataInv /\ Next => DataInv'
    BY ProducerDataInv, DownloadDataInv DEF Next
  <2>2. DataInv /\ UNCHANGED vars => DataInv'
    BY DEF vars, producer, history, DataInv, TypeOK, ManifestsAreOfTheirTasks, ManifestIsOf,
           ChangedAreMade, UnchangedFiles, BlobIsAsDelivered
  <2> QED
    BY <2>1, <2>2
<1> QED
  BY <1>1, InitDataInv, Invariant, PTL DEF Spec

\* Every variable keeps its type, for any tasks, plans and locations.
THEOREM TypeCorrect == Spec => []TypeOK
BY DataInvariant, PTL DEF DataInv

\* What the producer serves under an id is what the manifest of the task says that
\* published it, unless the bytes were too large for the manifest and the task's file
\* was touched before its handler returned.
THEOREM PublishedAsDelivered == Spec => []BlobIsAsDelivered
BY DataInvariant, PTL DEF DataInv

-----------------------------------------------------------------------------
(* A party gets what was delivered to it *)

Location == Id \cup {Elsewhere, NotHttp}

\* A download under way has no bytes of its own and somewhere left to ask; with one
\* location it has not asked there yet.
DownloadsAsk ==
    fetch # None /\ fetch.result = None =>
        /\ fetch.ref.inline = None
        /\ fetch.agent \in Agent
        /\ fetch.todo \in Seq(Location) /\ fetch.todo # <<>>
        /\ Len(fetch.ref.locations) <= 1 => fetch.todo = fetch.ref.locations

PublishedInOrder ==
    /\ order \in Seq(Task)
    /\ \A n \in 1..Len(order) : phase[order[n]] = "answered"

\* What was published last under an id, from a file left alone, is what is there.
LatestIsThere ==
    \A t \in Task : Latest(t) /\ t \notin changed =>
        blobs[plan[t].id] = [data |-> manifest[t].sha256, sha256 |-> manifest[t].sha256,
                             allowed |-> Allowed(plan[t].contract),
                             party_keys |-> party_keys(plan[t].contract)]

ServeInv == DownloadsAsk /\ PublishedInOrder /\ LatestIsThere

LEMMA InitServeInv == Init => ServeInv
<1> SUFFICES ASSUME Init PROVE ServeInv
  OBVIOUS
<1>1. order = <<>> /\ fetch = None
  BY DEF Init
<1>2. Len(order) = 0
  BY <1>1
<1> QED
  BY <1>1, <1>2 DEF ServeInv, DownloadsAsk, PublishedInOrder, LatestIsThere, Latest

LEMMA ProducerServeInv == ASSUME IInv, DataInv, ServeInv, ProducerStep PROVE ServeInv'
<1>1. /\ plan' = plan /\ fetch' = fetch
  BY DEF ProducerStep, Write, artifact_from_file, json_artifact, HandlerReturns, Remove, Restart
<1>2. DownloadsAsk'
  BY <1>1 DEF ServeInv, DownloadsAsk
<1>3. \A n \in 1..Len(order) : order[n] \in Task /\ phase[order[n]] = "answered"
  BY DEF ServeInv, PublishedInOrder
\* A step that publishes nothing, of tasks not yet published.
<1>4. ASSUME order' = order, blobs' = blobs,
             \A t \in Task : phase[t] = "answered" =>
                /\ phase'[t] = "answered" /\ manifest'[t] = manifest[t]
                /\ t \in changed => t \in changed'
      PROVE  ServeInv'
  <2>1. PublishedInOrder'
    BY <1>3, <1>4 DEF ServeInv, PublishedInOrder
  <2>2. LatestIsThere'
    <3> SUFFICES ASSUME NEW t \in Task, Latest(t)', t \notin changed'
                 PROVE  blobs'[plan'[t].id] =
                          [data |-> manifest'[t].sha256, sha256 |-> manifest'[t].sha256,
                           allowed |-> Allowed(plan'[t].contract),
                           party_keys |-> party_keys(plan'[t].contract)]
      BY DEF LatestIsThere
    <3>1. Latest(t)
      BY <1>1, <1>4 DEF Latest
    <3>2. phase[t] = "answered"
      BY <1>3, <3>1 DEF Latest
    <3>3. t \notin changed
      BY <1>4, <3>2 DEF DataInv, TypeOK
    <3> QED
      BY <1>1, <1>4, <3>1, <3>2, <3>3 DEF ServeInv, LatestIsThere
  <2> QED
    BY <1>2, <2>1, <2>2 DEF ServeInv
<1>5. ASSUME NEW t \in Task, Write(t) PROVE ServeInv'
  <2>1. \A u \in Task : phase[u] = "answered" => phase'[u] = "answered"
    BY <1>5 DEF Write, DataInv, TypeOK
  <2> QED
    BY <1>4, <1>5, <2>1 DEF Write
<1>6. ASSUME NEW t \in Task, artifact_from_file(t) PROVE ServeInv'
  BY <1>4, <1>6 DEF artifact_from_file, history, DataInv, TypeOK, IInv, Shapes
<1>7. ASSUME NEW t \in Task, json_artifact(t) PROVE ServeInv'
  BY <1>4, <1>7 DEF json_artifact, history, DataInv, TypeOK, IInv, Shapes
<1>8. ASSUME NEW t \in Task, HandlerReturns(t) PROVE ServeInv'
  <2>1. /\ phase[t] = "made"
        /\ phase' \in [Task -> {"started", "written", "made", "answered", "lost"}]
        /\ phase'[t] = "answered" /\ \A u \in Task \ {t} : phase'[u] = phase[u]
        /\ manifest' = manifest /\ changed' = changed
    BY <1>8 DEF HandlerReturns, DataInv, TypeOK
  <2>2. CASE Raw(t) = None
    BY <1>4, <1>8, <2>1, <2>2 DEF HandlerReturns, _publish_artifact
  <2>3. CASE Raw(t) # None
    <3> DEFINE b == [data |-> Raw(t), sha256 |-> manifest[t].sha256,
                     allowed |-> Allowed(plan[t].contract),
                     party_keys |-> party_keys(plan[t].contract)]
    <3>1. /\ blobs' = [blobs EXCEPT ![plan[t].id] = b] /\ plan[t].id \in Id
          /\ blobs \in [Id -> Blob \cup {None}]
      BY <1>8, <2>3, PlanFacts DEF HandlerReturns, _publish_artifact, DataInv, TypeOK
    <3>2. t \notin changed => Raw(t) = manifest[t].sha256
      BY <2>1, <2>3, RawFacts
    <3>3. /\ order' = Append(order, t) /\ order \in Seq(Task)
          /\ order' \in Seq(Task) /\ Len(order') = Len(order) + 1 /\ Len(order) \in Nat
          /\ order'[Len(order) + 1] = t
          /\ \A n \in 1..Len(order) : order'[n] = order[n]
      BY <1>8, <2>3 DEF HandlerReturns, ServeInv, PublishedInOrder
    <3>4. PublishedInOrder'
      BY <1>3, <2>1, <3>3 DEF PublishedInOrder
    <3> HIDE DEF b
    <3>5. ASSUME NEW u \in Task, Latest(u)', u \notin changed'
          PROVE  blobs'[plan[u].id] = [data |-> manifest[u].sha256, sha256 |-> manifest[u].sha256,
                                       allowed |-> Allowed(plan[u].contract),
                                       party_keys |-> party_keys(plan[u].contract)]
      <4>1. PICK n \in 1..Len(order') :
              /\ order'[n] = u
              /\ \A l \in n + 1..Len(order') : plan'[order'[l]].id # plan'[u].id
        BY <3>5 DEF Latest
      <4>2. CASE n = Len(order) + 1
        <5>1. u = t
          BY <3>3, <4>1, <4>2
        <5> QED
          BY <2>1, <3>1, <3>2, <3>5, <5>1 DEF b
      <4>3. CASE n # Len(order) + 1
        <5>1. n \in 1..Len(order) /\ Len(order) + 1 \in n + 1..Len(order')
          BY <3>3, <4>3
        <5>2. plan[t].id # plan[u].id
          BY <1>1, <3>3, <4>1, <5>1
        <5>3. Latest(u)
          BY <1>1, <3>3, <4>1, <5>1 DEF Latest
        <5> QED
          BY <2>1, <3>1, <3>5, <5>2, <5>3 DEF ServeInv, LatestIsThere
      <4> QED
        BY <4>2, <4>3
    <3>6. LatestIsThere'
      BY <1>1, <2>1, <3>5 DEF LatestIsThere
    <3> QED
      BY <1>2, <3>4, <3>6 DEF ServeInv
  <2> QED
    BY <2>2, <2>3
<1>9. ASSUME NEW p \in Path, Remove(p) PROVE ServeInv'
  BY <1>4, <1>9 DEF Remove
<1>10. ASSUME Restart PROVE ServeInv'
  <2>1. order' = <<>>
    BY <1>10 DEF Restart
  <2>2. Len(order') = 0
    BY <2>1
  <2> QED
    BY <1>2, <2>1, <2>2 DEF ServeInv, PublishedInOrder, LatestIsThere, Latest
<1> QED
  BY <1>5, <1>6, <1>7, <1>8, <1>9, <1>10 DEF ProducerStep

LEMMA DownloadServeInv == ASSUME IInv, DataInv, ServeInv, DownloadStep \/ Returns PROVE ServeInv'
<1>1. UNCHANGED <<producer, history>>
  BY DEF DownloadStep, Returns, materialize_artifact, fetch_artifact, AskProducer, AskElsewhere,
         PassOver, Unreached, Tick
<1>2. ASSUME DownloadsAsk' PROVE ServeInv'
  BY <1>1, <1>2 DEF ServeInv, PublishedInOrder, LatestIsThere, Latest, producer, history
<1>3. ASSUME NEW t \in {u \in Task : phase[u] = "answered"} PROVE manifest[t] \in Ref
  BY <1>3 DEF DataInv, ManifestsAreOfTheirTasks, ManifestIsOf
<1>4. ASSUME NEW ref \in Ref, materialize_artifact(ref) PROVE DownloadsAsk'
  <2>1. ref.inline \in Task
    BY <1>4 DEF materialize_artifact, Ref
  <2> QED
    BY <1>4, <2>1, FailureAssumption, ResultFacts DEF materialize_artifact, DownloadsAsk, Checked,
       Failure
<1>5. ASSUME NEW ref \in Ref, NEW a \in Agent, NEW k, NEW ahead, fetch_artifact(ref, a, k, ahead)
      PROVE  DownloadsAsk'
  <2>1. ref.locations \in Seq(Location)
    BY DEF Ref, Location
  <2>2. fetch'.result = None => ref.locations # <<>>
    BY <1>5, FailureAssumption DEF fetch_artifact, ResultOf, Failure
  <2> QED
    BY <1>5, <2>1, <2>2 DEF fetch_artifact, DownloadsAsk
<1>6. fetch # None =>
        fetch = [ref |-> fetch.ref, agent |-> fetch.agent, key |-> fetch.key,
                 age |-> fetch.age, todo |-> fetch.todo, sent |-> fetch.sent,
                 result |-> fetch.result]
  BY DEF IInv, Shapes
<1>7. ASSUME Fetching, fetch' = Skipped(fetch) PROVE DownloadsAsk'
  <2>1. /\ fetch'.ref = fetch.ref /\ fetch'.agent = fetch.agent /\ fetch'.todo = Tail(fetch.todo)
        /\ fetch'.result = ResultOf(Tail(fetch.todo))
    BY <1>6, <1>7 DEF Fetching, Skipped
  <2>2. /\ fetch.todo \in Seq(Location) /\ fetch.todo # <<>>
        /\ fetch.ref.inline = None /\ fetch.agent \in Agent
        /\ Len(fetch.ref.locations) <= 1 => fetch.todo = fetch.ref.locations
    BY <1>7 DEF Fetching, ServeInv, DownloadsAsk
  <2>3. fetch'.result = None => Tail(fetch.todo) # <<>>
    BY <2>1, FailureAssumption DEF ResultOf, Failure
  <2>4. Len(fetch.todo) <= 1 => Tail(fetch.todo) = <<>>
    BY <2>2
  <2>5. Tail(fetch.todo) \in Seq(Location)
    BY <2>2
  <2> QED
    BY <2>1, <2>2, <2>3, <2>4, <2>5 DEF DownloadsAsk
<1>8. ASSUME fetch'.result # None PROVE DownloadsAsk'
  BY <1>8 DEF DownloadsAsk
<1>9. ASSUME NEW c \in Task PROVE Checked(fetch.ref, c) # None
  BY FailureAssumption DEF Checked, Failure
<1>10. ASSUME AskProducer PROVE DownloadsAsk'
  <2> DEFINE i == Head(fetch.todo)
  <2>1. CASE fetch' = Skipped(fetch)
    BY <1>7, <1>10, <2>1 DEF AskProducer
  <2>2. CASE /\ blobs[i] # None
             /\ fetch' = [fetch EXCEPT !.sent = blobs[i].data,
                                       !.result = Checked(fetch.ref, blobs[i].data)]
    <3>1. blobs[i].data \in Task
      BY <1>10, <2>2 DEF AskProducer, DataInv, TypeOK, Blob
    <3>2. fetch'.result = Checked(fetch.ref, blobs[i].data)
      BY <1>6, <1>10, <2>2 DEF AskProducer, Fetching
    <3> QED
      BY <1>8, <1>9, <3>1, <3>2
  <2> QED
    BY <1>10, <2>1, <2>2 DEF AskProducer
<1>11. ASSUME AskElsewhere PROVE DownloadsAsk'
  <2>1. CASE fetch' = Skipped(fetch)
    BY <1>7, <1>11, <2>1 DEF AskElsewhere
  <2>2. ASSUME NEW c \in Task, fetch' = [fetch EXCEPT !.result = Checked(fetch.ref, c)]
        PROVE  DownloadsAsk'
    <3>1. fetch'.result = Checked(fetch.ref, c)
      BY <1>6, <1>11, <2>2 DEF AskElsewhere, Fetching
    <3> QED
      BY <1>8, <1>9, <3>1
  <2> QED
    BY <1>11, <2>1, <2>2 DEF AskElsewhere
<1>12. ASSUME PassOver PROVE DownloadsAsk'
  BY <1>7, <1>12 DEF PassOver
<1>13. ASSUME Unreached PROVE DownloadsAsk'
  <2>1. fetch'.result = "raised"
    BY <1>6, <1>13 DEF Unreached, Fetching
  <2> QED
    BY <1>8, <2>1, FailureAssumption DEF Failure
<1>14. ASSUME Tick PROVE DownloadsAsk'
  <2>1. /\ fetch'.ref = fetch.ref /\ fetch'.agent = fetch.agent /\ fetch'.todo = fetch.todo
        /\ fetch'.result = fetch.result /\ Fetching
    BY <1>6, <1>14 DEF Tick, Fetching
  <2> QED
    BY <2>1 DEF ServeInv, DownloadsAsk, Fetching
<1>15. ASSUME Returns PROVE DownloadsAsk'
  BY <1>15 DEF Returns, DownloadsAsk
<1> QED
  BY <1>2, <1>3, <1>4, <1>5, <1>10, <1>11, <1>12, <1>13, <1>14, <1>15, ReferenceFacts
     DEF DownloadStep

LEMMA ServeInvariant == Spec => []ServeInv
<1>1. IInv /\ DataInv /\ ServeInv /\ [Next]_vars => ServeInv'
  <2>1. IInv /\ DataInv /\ ServeInv /\ Next => ServeInv'
    BY ProducerServeInv, DownloadServeInv DEF Next
  <2>2. ServeInv /\ UNCHANGED vars => ServeInv'
    BY DEF vars, producer, history, ServeInv, DownloadsAsk, PublishedInOrder, LatestIsThere, Latest
  <2> QED
    BY <2>1, <2>2
<1> QED
  BY <1>1, InitServeInv, Invariant, DataInvariant, PTL DEF Spec

\* A download of what was delivered fails, connections aside, only where it had to.
LEMMA FailureIsExplained ==
  ASSUME IInv, DataInv, ServeInv, [Next]_vars,
         NEW t \in Task, fetch' \notin {fetch, None}, phase[t] = "answered",
         fetch'.ref = manifest[t], fetch'.result \in Failure \ {"raised"}
  PROVE  /\ manifest[t].inline = None
         /\ \/ ~Authentic(t, fetch')
            \/ manifest[t].locations = <<>>
            \/ t \in changed
            \/ ~Latest(t)
<1> DEFINE Explained == /\ manifest[t].inline = None
                        /\ \/ ~Authentic(t, fetch')
                           \/ manifest[t].locations = <<>>
                           \/ t \in changed
                           \/ ~Latest(t)
<1>1. DownloadStep
  BY DEF Next, vars, Returns, ProducerStep, Write, artifact_from_file, json_artifact,
         HandlerReturns, Remove, Restart
<1>2. ManifestIsOf(t)
  BY DEF DataInv, ManifestsAreOfTheirTasks
<1>3. /\ manifest[t].sha256 \in Task
      /\ manifest[t].inline # None => manifest[t].inline = manifest[t].sha256
      /\ manifest[t].locations # <<>> => manifest[t].locations = <<plan[t].id>>
      /\ manifest[t].id = plan[t].id /\ plan[t].id \in Id
  BY <1>2, PlanFacts DEF ManifestIsOf, Ref
<1>4. fetch # None =>
        fetch = [ref |-> fetch.ref, agent |-> fetch.agent, key |-> fetch.key,
                 age |-> fetch.age, todo |-> fetch.todo, sent |-> fetch.sent,
                 result |-> fetch.result]
  BY DEF IInv, Shapes
<1>5. ASSUME NEW ref, materialize_artifact(ref) PROVE Explained
  <2>1. fetch'.ref = ref /\ fetch'.result = Checked(ref, ref.inline) /\ ref.inline # None
    BY <1>5 DEF materialize_artifact
  <2>2. fetch'.result = manifest[t].sha256
    BY <1>3, <2>1 DEF Checked
  <2> QED
    BY <1>3, <2>2, FailureAssumption
<1>6. ASSUME NEW ref, NEW a, NEW k, NEW ahead, fetch_artifact(ref, a, k, ahead) PROVE Explained
  <2>1. fetch'.ref = ref /\ fetch'.result = ResultOf(ref.locations) /\ ref.inline = None
    BY <1>6 DEF fetch_artifact
  <2> QED
    BY <2>1, FailureAssumption DEF ResultOf
\* Under way, the only location asked is the producer's URL of the artifact.
<1>7. ASSUME Fetching, fetch'.ref = fetch.ref
      PROVE  /\ manifest[t].inline = None
             /\ manifest[t].locations # <<>> =>
                  Head(fetch.todo) = plan[t].id /\ fetch.agent \in Agent
  <2>1. /\ fetch.ref.inline = None /\ fetch.agent \in Agent
        /\ Len(fetch.ref.locations) <= 1 => fetch.todo = fetch.ref.locations
    BY <1>7 DEF Fetching, ServeInv, DownloadsAsk
  <2>2. ASSUME manifest[t].locations # <<>>
        PROVE  fetch.todo = <<plan[t].id>>
    <3>1. fetch.ref.locations = <<plan[t].id>>
      BY <1>3, <1>7, <2>2
    <3>2. Len(<<plan[t].id>>) = 1
      OBVIOUS
    <3> QED
      BY <2>1, <3>1, <3>2
  <2> QED
    BY <1>7, <2>1, <2>2
<1>8. ASSUME AskProducer PROVE Explained
  <2> DEFINE i == Head(fetch.todo)
  <2> DEFINE c == plan[t].contract
  <2>1. fetch # None /\ Fetching
    BY <1>8 DEF AskProducer, Fetching
  <2>2. /\ fetch'.ref = fetch.ref /\ fetch'.agent = fetch.agent /\ fetch'.key = fetch.key
        /\ fetch'.age = fetch.age
    BY <1>4, <1>8, <2>1 DEF AskProducer, Skipped
  <2>3. SUFFICES ASSUME manifest[t].locations # <<>>, t \notin changed, Latest(t),
                        Authentic(t, fetch')
                 PROVE  FALSE
    BY <1>7, <2>1, <2>2
  <2>4. i = plan[t].id /\ fetch.agent \in Agent
    BY <1>7, <2>1, <2>2, <2>3
  <2>5. blobs[i] = [data |-> manifest[t].sha256, sha256 |-> manifest[t].sha256,
                    allowed |-> Allowed(c), party_keys |-> party_keys(c)]
    BY <2>3, <2>4 DEF ServeInv, LatestIsThere
  <2>6. blobs[i] # None
    <3>1. Allowed(c) \subseteq Agent /\ party_keys(c) \in [Agent -> Key \cup {None}]
      BY PlanFacts, ContractFacts
    <3> QED
      BY <1>3, <2>5, <3>1, FailureAssumption DEF Blob
  <2>7. authorize_artifact_get(i, fetch)
    <3>1. fetch.agent \in Allowed(c)
      BY <2>2, <2>3, <2>4, ExchangeAssumption DEF Authentic, Allowed
    <3>2. fetch.age \in -MaxSkew..MaxSkew /\ party_keys(c)[fetch.agent] \in {None, fetch.key}
      BY <2>2, <2>3 DEF Authentic
    <3>3. fetch.ref.id = i
      BY <1>3, <2>2, <2>4
    <3> QED
      BY <2>5, <3>1, <3>2, <3>3 DEF authorize_artifact_get
  <2>8. fetch'.result = Checked(fetch.ref, blobs[i].data)
    BY <1>4, <1>8, <2>1, <2>6, <2>7 DEF AskProducer
  <2>9. fetch'.result = manifest[t].sha256
    <3>1. fetch.ref = manifest[t]
      BY <2>2
    <3> HIDE DEF i
    <3>2. blobs[i].data = manifest[t].sha256
      BY <2>5
    <3> QED
      BY <2>8, <3>1, <3>2 DEF Checked
  <2> QED
    BY <1>3, <2>9, FailureAssumption
<1>9. ASSUME AskElsewhere \/ PassOver PROVE Explained
  <2>1. Fetching /\ Head(fetch.todo) \notin Id
    BY <1>9, ExchangeAssumption DEF AskElsewhere, PassOver
  <2>2. fetch'.ref = fetch.ref
    BY <1>4, <1>9 DEF AskElsewhere, PassOver, Skipped, Fetching
  <2> QED
    BY <1>3, <1>7, <2>1, <2>2
<1>10. ~Unreached
  <2>1. Unreached => fetch'.result = "raised"
    BY <1>4 DEF Unreached, Fetching
  <2> QED
    BY <2>1
<1>11. ~Tick
  <2>1. Tick => fetch'.result = None
    BY <1>4 DEF Tick, Fetching
  <2> QED
    BY <2>1, FailureAssumption
<1> HIDE DEF Explained
<1>12. Explained
  BY <1>1, <1>5, <1>6, <1>8, <1>9, <1>10, <1>11 DEF DownloadStep
<1> QED
  BY <1>12 DEF Explained

\* A party that downloads what was delivered to it, in time and with its own key, is
\* answered with it, unless there is no way to it, its file was touched too early,
\* another task has taken its id, or the producer restarted.
THEOREM PartiesAreServed == Spec => PartyGetsItsArtifact
<1> DEFINE Served ==
      \A t \in Task :
         /\ fetch' \notin {fetch, None} /\ phase[t] = "answered" /\ fetch'.ref = manifest[t]
         /\ fetch'.result \in Failure \ {"raised"}
         => /\ manifest[t].inline = None
            /\ \/ ~Authentic(t, fetch')
               \/ manifest[t].locations = <<>>
               \/ t \in changed
               \/ ~Latest(t)
<1>1. IInv /\ DataInv /\ ServeInv /\ [Next]_vars => [Served]_vars
  BY FailureIsExplained
<1> QED
  BY <1>1, Invariant, DataInvariant, ServeInvariant, PTL DEF Spec, PartyGetsItsArtifact
=============================================================================
