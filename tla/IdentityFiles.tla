--------------------------- MODULE IdentityFiles ---------------------------
(***************************************************************************)
(* An agent's identity on disk: Identity.load_or_create with its identity  *)
(* file and its recovery file, the Identity of the running process, and    *)
(* the enrollment that every announce of it carries.                       *)
(*                                                                         *)
(* write_text truncates its file and then fills it; a process that ends in *)
(* between leaves a file that json.loads refuses.  A key pair is a number; *)
(* a file holds an operational key with the private part, and the recovery *)
(* key with or without.                                                    *)
(***************************************************************************)
EXTENDS Naturals, Sequences

CONSTANTS
    AgentId,  \* the ids a process may be configured with
    MaxKeys,  \* bound: key pairs generated
    Torn,     \* content of a file that was truncated and not filled
    None

VARIABLES
    file,      \* <path>.json: None, Torn or a FileRecord
    recovery,  \* <path>.recovery.json: None, Torn or the recovery key
    ident,     \* the process's Identity; None: no process
    writes,    \* writes that load_or_create still has to do, in order
    made,      \* key pairs generated so far
    \* history, read by no action
    enrolled,  \* the identity.enrollment objects sent
    legacy,    \* the files were made by an earlier version
    upset      \* what has happened that files cannot survive

disk == <<file, recovery>>
history == <<enrolled, legacy, upset>>
vars == <<disk, ident, writes, made, history>>

FileRecord(K) == [agent : AgentId, key : K, rec : K \cup {None}, private : BOOLEAN]
Identity(K) == [agent : AgentId, key : K, rec : K, epoch : Nat]

\* to_record() leaves the recovery key's private part out.
to_record(i) == [agent |-> i.agent, key |-> i.key, rec |-> i.rec, private |-> FALSE]

-----------------------------------------------------------------------------

\* No files, those of an earlier version that kept the recovery key's private
\* part in the identity file or knew no recovery keys, or those of this one.
Init ==
    /\ \E a \in AgentId, r \in {2, None}, p \in BOOLEAN :
         file \in {None, [agent |-> a, key |-> 1, rec |-> r, private |-> p /\ r # None]}
    /\ recovery \in IF file # None /\ file.rec # None
                    THEN IF file.private THEN {None, 2} ELSE {2}
                    ELSE {None}
    /\ ident = None
    /\ writes = <<>>
    /\ made = IF file = None THEN 0 ELSE 2
    /\ enrolled = IF file # None /\ file.rec # None
                  THEN {[agent |-> file.agent, key |-> 1, rec |-> 2]} ELSE {}
    /\ legacy = (file # None /\ (file.private \/ recovery = None))
    /\ upset = {}

Up == ident # None /\ writes = <<>>

\* Mutant: a file that cannot be read counts as none.
Unreadable(f) == f \in {None, Torn}

Absent(f) == f = None

CreateWrites(i) == <<[to |-> "file", data |-> to_record(i)],
                     [to |-> "recovery", data |-> i.rec]>>

\* Generates an identity, whatever the recovery file holds.
Create(a) ==
    /\ ident = None /\ Absent(file)
    /\ made + 2 <= MaxKeys
    /\ ident' = [agent |-> a, key |-> made + 1, rec |-> made + 2, epoch |-> 1]
    /\ writes' = CreateWrites(ident')
    /\ made' = made + 2
    /\ UNCHANGED <<disk, history>>

\* Mutant: the public part is taken for the key.
PublicRecoveryKey(f, r) == IF r # None THEN r ELSE f.rec

\* from_record: the recovery file's key, else the identity file's; without a
\* private part of either, __post_init__ generates one.
RecoveryKey(f, r) == IF r # None THEN r ELSE IF f.private THEN f.rec ELSE made + 1

Migrates(f, r) == f.private \/ r = None

\* Mutant: the identity file loses its private recovery key first.
FileFirst(i) == CreateWrites(i)

MigrateWrites(i) == <<[to |-> "recovery", data |-> i.rec],
                      [to |-> "file", data |-> to_record(i)]>>

\* Reads both files; raises on a torn one or another agent's.
Load(a) ==
    /\ ident = None /\ ~Absent(file)
    /\ file # Torn /\ recovery # Torn /\ file.agent = a
    /\ LET rec == RecoveryKey(file, recovery) IN
         /\ rec = made + 1 => made < MaxKeys
         /\ ident' = [agent |-> a, key |-> file.key, rec |-> rec, epoch |-> 1]
         /\ made' = IF rec = made + 1 THEN rec ELSE made
         /\ writes' = IF Migrates(file, recovery) THEN MigrateWrites(ident') ELSE <<>>
    /\ UNCHANGED <<disk, history>>

\* The next write's open(..., "w").
Truncate ==
    /\ ident # None /\ writes # <<>>
    /\ \/ Head(writes).to = "file" /\ file # Torn /\ file' = Torn /\ UNCHANGED recovery
       \/ Head(writes).to = "recovery" /\ recovery # Torn /\ recovery' = Torn /\ UNCHANGED file
    /\ UNCHANGED <<ident, writes, made, history>>

\* Its content is there when the file is closed.
Fill ==
    /\ ident # None /\ writes # <<>>
    /\ LET w == Head(writes) IN
         \/ w.to = "file" /\ file = Torn /\ file' = w.data /\ UNCHANGED recovery
         \/ w.to = "recovery" /\ recovery = Torn /\ recovery' = w.data /\ UNCHANGED file
    /\ writes' = Tail(writes)
    /\ UNCHANGED <<ident, made, history>>

\* enrollment_message, but for its recovery_policy_hash: that is the hash of a
\* policy made for the announce, with its time, and another one at each announce.
Enrollment(i) == [agent |-> i.agent, key |-> i.key, rec |-> i.rec]

Announce ==
    /\ Up
    /\ enrolled' = enrolled \cup {Enrollment(ident)}
    /\ UNCHANGED <<disk, ident, writes, made, legacy, upset>>

\* Mutant: the recovery key that generate() made is not replaced.
RotatedAll(i) == [i EXCEPT !.key = made + 1, !.rec = made + 2, !.epoch = @ + 1]

Rotated(i) == [i EXCEPT !.key = made + 1, !.epoch = @ + 1]

\* The application goes on with ident.rotate(), which is written nowhere.
rotate ==
    /\ Up /\ made + 2 <= MaxKeys
    /\ ident' = Rotated(ident)
    /\ made' = made + 2
    /\ upset' = upset \cup {"rotated"}
    /\ UNCHANGED <<disk, writes, enrolled, legacy>>

Crash ==
    /\ ident # None
    /\ ident' = None
    /\ writes' = <<>>
    /\ UNCHANGED <<disk, made, history>>

\* The operator moves or loses a file while no process runs.
FileLost ==
    /\ ident = None /\ file # None
    /\ file' = None
    /\ upset' = upset \cup {"file"}
    /\ UNCHANGED <<recovery, ident, writes, made, enrolled, legacy>>

RecoveryLost ==
    /\ ident = None /\ recovery # None
    /\ recovery' = None
    /\ upset' = upset \cup {"recovery"}
    /\ UNCHANGED <<file, ident, writes, made, enrolled, legacy>>

-----------------------------------------------------------------------------
(* Properties *)

TypeOK ==
    /\ file \in FileRecord(1..MaxKeys) \cup {None, Torn}
    /\ recovery \in (1..MaxKeys) \cup {None, Torn}
    /\ ident \in Identity(1..MaxKeys) \cup {None}
    /\ Len(writes) <= 2
    /\ made \in 0..MaxKeys
    /\ enrolled \subseteq [agent : AgentId, key : 1..MaxKeys, rec : 1..MaxKeys]
    /\ legacy \in BOOLEAN
    /\ upset \subseteq {"file", "recovery", "rotated"}

Undisturbed(what) == upset \cap what = {}

\* "Keep the identity file across restarts", "Recovery keys are not rotated": whoever
\* keeps it is the same agent under the same operational key at every announce,
\* whatever start was cut off where; a start that cannot tell refuses.  (A rotated
\* key is in no file.)  And while both files are kept all announces carry the same
\* recovery key, over rotations, restarts, cut-off starts and migrations.
IdentityIsKept ==
    \A d, e \in enrolled :
        /\ Undisturbed({"file", "rotated"}) => d.agent = e.agent /\ d.key = e.key
        /\ Undisturbed({"file", "recovery"}) => d.rec = e.rec

\* What has been announced can be loaded again, as long as both files are kept: no
\* crash at any point loses the recovery key, which is written to one file before
\* the other is touched, nor the operational key under files of this version.  (A
\* migration that is cut off while it rewrites the identity file does lose that one.)
EnrolledKeysAreOnDisk ==
    Undisturbed({"file", "recovery"}) =>
        \A e \in enrolled :
            /\ \/ recovery = e.rec
               \/ file \notin {None, Torn} /\ file.private /\ file.rec = e.rec
            /\ ~legacy /\ Undisturbed({"rotated"}) =>
                 /\ file \notin {None, Torn} /\ file.key = e.key /\ file.agent = e.agent
                 /\ recovery = e.rec
=============================================================================
