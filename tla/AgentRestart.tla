---------------------------- MODULE AgentRestart ----------------------------
(***************************************************************************)
(* An agent whose process ends and starts again: what it was and what it   *)
(* did, on disk.  Its identity comes from IdentityFiles; the results of    *)
(* its work, each signed with the operational key, are kept in a           *)
(* PersistentStore that the application opens once the identity is loaded. *)
(***************************************************************************)
EXTENDS Naturals, Sequences

CONSTANTS
    AgentId, MaxKeys, Torn,  \* see IdentityFiles
    Key, TTL,                \* see PersistentStore
    MaxRuns,                 \* bound: calls of the work function that return
    MaxTime,                 \* bound: the clock stops here
    None

ASSUME BoundAssumption ==
    /\ MaxKeys \in Nat /\ MaxKeys >= 2  \* an earlier process has made two
    /\ TTL \in Nat \ {0} /\ MaxRuns \in Nat /\ MaxTime \in Nat

VARIABLES
    file, recovery, ident, writes, made, enrolled, legacy, upset,  \* IdentityFiles
    values, expires, rows, calling, now, last, kept, answer,       \* PersistentStore
    runs                                                           \* results so far

Files == INSTANCE IdentityFiles

\* A result: which run made it, and the key it is signed with.
Signed == [run : 1..MaxRuns, signer : 1..MaxKeys]

Store == INSTANCE PersistentStore WITH Value <- Signed

ASSUME NoneAssumption ==
    /\ None \notin Key /\ None # Torn /\ None \notin Nat /\ Torn \notin Nat
    /\ None \notin Signed /\ None \notin Store!Result
    /\ None \notin [value : Signed, expires_at : Nat] /\ None \notin [key : Key, value : Signed]
    /\ None \notin Files!Identity(Nat)
    /\ None \notin Files!FileRecord(Nat) /\ Torn \notin Files!FileRecord(Nat)

fileVars == <<file, recovery, ident, writes, made, enrolled, legacy, upset>>
storeVars == <<values, expires, rows, calling, last, kept, answer, runs>>
vars == <<fileVars, storeVars, now>>

Init == Files!Init /\ Store!Init /\ now = 0 /\ runs = 0

Starts ==
    /\ \/ \E a \in AgentId : Files!Create(a) \/ Files!Load(a)
       \/ Files!Truncate
       \/ Files!Fill
    /\ UNCHANGED <<storeVars, now>>

Announces == Files!Announce /\ UNCHANGED <<storeVars, now>>

Rotates == Files!rotate /\ UNCHANGED <<storeVars, now>>

Works ==
    /\ Files!Up
    /\ \/ \E k \in Key : (Store!Hit(k) \/ Store!Call(k)) /\ UNCHANGED runs
       \/ /\ runs < MaxRuns
          /\ runs' = runs + 1
          /\ \E inserted \in BOOLEAN :
               Store!Put([run |-> runs', signer |-> ident.key], inserted)
       \/ Store!Raise /\ UNCHANGED runs
    /\ UNCHANGED fileVars

Crashes == Files!Crash /\ Store!Crash /\ UNCHANGED runs

LosesFile ==
    /\ Files!FileLost \/ Files!RecoveryLost
    /\ UNCHANGED <<storeVars, now>>

Tick ==
    /\ now < MaxTime
    /\ now' = now + 1
    /\ UNCHANGED <<fileVars, storeVars>>

Next == Starts \/ Announces \/ Rotates \/ Works \/ Crashes \/ LosesFile \/ Tick

Spec == Init /\ [][Next]_vars

-----------------------------------------------------------------------------
(* Properties; those of the parts are theirs. *)

TypeOK == Files!TypeOK /\ Store!TypeOK /\ now \in Nat /\ runs \in 0..MaxRuns

IdentityIsKept == Files!IdentityIsKept
EnrolledKeysAreOnDisk == Files!EnrolledKeysAreOnDisk
KeptResultIsNotRerun == Store!KeptResultIsNotRerun
AnswerIsLastResult == Store!AnswerIsLastResult

\* What the store replays after a restart is signed with the key that the agent
\* has now: the two files of the identity and the database never come apart, as
\* an agent that cannot read its identity does not start with another.
ReplayStillVerifies ==
    Files!Undisturbed({"file", "rotated"}) /\ Files!Up /\ answer # None =>
        answer.value.signer = ident.key
=============================================================================
