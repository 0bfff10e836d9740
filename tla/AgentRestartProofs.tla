------------------------- MODULE AgentRestartProofs -------------------------
(***************************************************************************)
(* Proofs about AgentRestart, for all ids, keys, bounds and TTLs.          *)
(*                                                                         *)
(* load_or_create is followed write by write (WritesOK): until both files  *)
(* are whole again, one of them, or the process, has what the other needs. *)
(* What was announced is tied to the file, to the process and to the       *)
(* recovery file, as long as those are kept (KeyAnnounced,                 *)
(* RecoveryAnnounced).  For the store, that a result is not written over   *)
(* while it is young rests on the lookup before the call: it empties the   *)
(* key's slots (CallingOK), so that whatever is in dict or table is of the *)
(* key's last result (LastOK).                                             *)
(***************************************************************************)
EXTENDS AgentRestart, TLAPS

\* What is left to write once the first of two writes is done.
CreatedWrites(i) == <<[to |-> "recovery", data |-> i.rec]>>
MigratedWrites(i) == <<[to |-> "file", data |-> Files!to_record(i)]>>

\* The identity file holds a whole record.
Held == file \notin {None, Torn}

\* How far load_or_create is.
Creating == ident # None /\ writes = Files!CreateWrites(ident)
Created == ident # None /\ writes = CreatedWrites(ident)
Migrating == ident # None /\ writes = Files!MigrateWrites(ident)
Migrated == ident # None /\ writes = MigratedWrites(ident)

WritesOK ==
    /\ ident = None => writes = <<>>
    /\ Creating \/ Created \/ Migrating \/ Migrated \/ writes = <<>>
    /\ Creating => file \in {None, Torn}
    /\ Created \/ Migrating \/ Files!Up => Held
    /\ Migrating => file.private \/ recovery \in {None, Torn}
    /\ Migrated => file # None
    /\ Migrated \/ Files!Up => recovery = ident.rec

\* A file of the earlier version with the recovery key in it.
PrivateOK ==
    Held /\ file.private =>
        /\ file.rec # None
        /\ recovery \in {None, Torn, file.rec}
        /\ ident # None => ident.rec = file.rec

FileAgrees ==
    "rotated" \notin upset /\ ident # None /\ Held =>
        file.agent = ident.agent /\ file.key = ident.key

NotYetAnnounced ==
    "file" \notin upset /\ (file = None \/ Creating \/ Created) => enrolled = {}

\* What was announced is what the file says, and the process.
KeyAnnounced ==
    Files!Undisturbed({"file", "rotated"}) =>
        \A e \in enrolled :
            /\ Held => e.agent = file.agent /\ e.key = file.key
            /\ ident # None => e.agent = ident.agent /\ e.key = ident.key

RecoveryAnnounced ==
    Files!Undisturbed({"file", "recovery"}) =>
        \A e \in enrolled :
            /\ \/ recovery = e.rec
               \/ recovery \in {None, Torn} /\ Held /\ file.private /\ file.rec = e.rec
            /\ ident # None => ident.rec = e.rec

\* Files of this version are complete once they have been announced.
NotLegacy ==
    ~legacy =>
        /\ Held => ~file.private
        /\ Files!Undisturbed({"file", "recovery"}) /\ enrolled # {} => Held /\ writes = <<>>

\* The inductive invariant of the files.
FilesInv ==
    /\ Files!TypeOK /\ WritesOK /\ PrivateOK /\ FileAgrees /\ NotYetAnnounced
    /\ KeyAnnounced /\ RecoveryAnnounced /\ NotLegacy /\ Files!IdentityIsKept

-----------------------------------------------------------------------------
(* The writes *)

LEMMA SequenceFacts ==
  ASSUME NEW a, NEW b
  PROVE  /\ Head(<<a, b>>) = a /\ Tail(<<a, b>>) = <<b>>
         /\ Head(<<b>>) = b /\ Tail(<<b>>) = <<>>
         /\ Len(<<a, b>>) = 2 /\ Len(<<b>>) = 1 /\ Len(<<>>) = 0
<1>1. /\ Len(<<a, b>>) = 2 /\ Len(<<b>>) = 1 /\ Len(<<>>) = 0
      /\ Head(<<a, b>>) = a /\ Head(<<b>>) = b
  OBVIOUS
<1>2. Tail(<<a, b>>) = <<b>>
  OBVIOUS
<1>3. Tail(<<b>>) = <<>>
  OBVIOUS
<1> QED
  BY <1>1, <1>2, <1>3

\* The first write of each list, what is left after it, and how to tell them apart.
LEMMA WriteFacts ==
  ASSUME NEW i
  PROVE  /\ Head(Files!CreateWrites(i)) = [to |-> "file", data |-> Files!to_record(i)]
         /\ Head(CreatedWrites(i)) = [to |-> "recovery", data |-> i.rec]
         /\ Head(Files!MigrateWrites(i)) = [to |-> "recovery", data |-> i.rec]
         /\ Head(MigratedWrites(i)) = [to |-> "file", data |-> Files!to_record(i)]
         /\ Tail(Files!CreateWrites(i)) = CreatedWrites(i) /\ Tail(CreatedWrites(i)) = <<>>
         /\ Tail(Files!MigrateWrites(i)) = MigratedWrites(i) /\ Tail(MigratedWrites(i)) = <<>>
         /\ Len(Files!CreateWrites(i)) = 2 /\ Len(CreatedWrites(i)) = 1
         /\ Len(Files!MigrateWrites(i)) = 2 /\ Len(MigratedWrites(i)) = 1 /\ Len(<<>>) = 0
BY SequenceFacts DEF Files!CreateWrites, Files!MigrateWrites, CreatedWrites, MigratedWrites

\* So a process is at one place of load_or_create only.
LEMMA PlaceFacts ==
  ASSUME NEW i
  PROVE  /\ Files!CreateWrites(i) \notin {CreatedWrites(i), Files!MigrateWrites(i), MigratedWrites(i), <<>>}
         /\ CreatedWrites(i) \notin {Files!MigrateWrites(i), MigratedWrites(i), <<>>}
         /\ Files!MigrateWrites(i) \notin {MigratedWrites(i), <<>>}
         /\ MigratedWrites(i) # <<>>
<1>1. /\ Head(Files!CreateWrites(i)).to = "file" /\ Head(MigratedWrites(i)).to = "file"
      /\ Head(CreatedWrites(i)).to = "recovery"
      /\ Head(Files!MigrateWrites(i)).to = "recovery"
  <2>1. /\ Head(Files!CreateWrites(i)) = [to |-> "file", data |-> Files!to_record(i)]
        /\ Head(MigratedWrites(i)) = [to |-> "file", data |-> Files!to_record(i)]
        /\ Head(CreatedWrites(i)) = [to |-> "recovery", data |-> i.rec]
        /\ Head(Files!MigrateWrites(i)) = [to |-> "recovery", data |-> i.rec]
    BY WriteFacts
  <2> QED
    BY <2>1
<1>2. /\ Len(Files!CreateWrites(i)) = 2 /\ Len(CreatedWrites(i)) = 1 /\ Len(<<>>) = 0
      /\ Len(Files!MigrateWrites(i)) = 2 /\ Len(MigratedWrites(i)) = 1
  BY WriteFacts
<1> QED
  BY <1>1, <1>2

-----------------------------------------------------------------------------
(* The files *)

LEMMA InitFiles == Files!Init => FilesInv
<1> SUFFICES ASSUME Files!Init PROVE FilesInv
  OBVIOUS
<1>0. PICK a \in AgentId, r \in {2, None}, p \in BOOLEAN :
        file \in {None, [agent |-> a, key |-> 1, rec |-> r, private |-> p /\ r # None]}
  BY DEF Files!Init
<1>1. file = None \/ (Held /\ file \in Files!FileRecord(1..MaxKeys))
  <2>1. [agent |-> a, key |-> 1, rec |-> r, private |-> p /\ r # None] \in Files!FileRecord(1..MaxKeys)
    BY BoundAssumption DEF Files!FileRecord
  <2>2. Files!FileRecord(1..MaxKeys) \subseteq Files!FileRecord(Nat)
    BY DEF Files!FileRecord
  <2> QED
    BY <1>0, <2>1, <2>2, NoneAssumption DEF Held
<1>2. Held => file.key = 1 /\ file.agent = a /\ file.rec \in {2, None} /\ (file.private => file.rec = 2)
  <2> SUFFICES ASSUME Held
               PROVE  file.key = 1 /\ file.agent = a /\ file.rec \in {2, None}
                      /\ (file.private => file.rec = 2)
    OBVIOUS
  <2>1. file = [agent |-> a, key |-> 1, rec |-> r, private |-> p /\ r # None]
    BY <1>0 DEF Held
  <2>2. file.key = 1 /\ file.agent = a /\ file.rec = r
    BY <2>1
  <2>3. file.private = (p /\ r # None)
    BY <2>1, Zenon
  <2> QED
    BY <2>2, <2>3
<1>3. ident = None /\ writes = <<>> /\ upset = {}
  BY DEF Files!Init
<1>4. recovery \in {None, 2} /\ (Held /\ file.rec = 2 /\ recovery = None => file.private)
      /\ (~Held \/ file.rec = None => recovery = None)
  BY <1>1, NoneAssumption DEF Files!Init, Held
<1>5. enrolled = IF Held /\ file.rec # None
                 THEN {[agent |-> file.agent, key |-> 1, rec |-> 2]} ELSE {}
  BY <1>1 DEF Files!Init, Held
<1>6. Files!TypeOK
  BY <1>1, <1>3, <1>4, BoundAssumption DEF Files!Init, Files!TypeOK
<1>7. WritesOK
  BY <1>3 DEF WritesOK, Creating, Created, Migrating, Migrated, Files!Up
<1>8. PrivateOK /\ FileAgrees /\ NotYetAnnounced
  BY <1>1, <1>2, <1>3, <1>4, <1>5, NoneAssumption
  DEF PrivateOK, FileAgrees, NotYetAnnounced, Creating, Created, Held
<1>9. KeyAnnounced /\ RecoveryAnnounced /\ Files!IdentityIsKept
  BY <1>1, <1>2, <1>3, <1>4, <1>5, NoneAssumption
  DEF KeyAnnounced, RecoveryAnnounced, Files!IdentityIsKept
<1>10. NotLegacy
  BY <1>1, <1>2, <1>3, <1>4, <1>5, NoneAssumption DEF NotLegacy, Files!Init, Held
<1> QED
  BY <1>6, <1>7, <1>8, <1>9, <1>10 DEF FilesInv

LEMMA IdentityFacts ==
  ASSUME NEW i \in Files!Identity(1..MaxKeys)
  PROVE  i # None /\ Files!to_record(i) \in Files!FileRecord(1..MaxKeys)
         /\ Files!to_record(i) \notin {None, Torn}
         /\ Files!to_record(i).agent = i.agent /\ Files!to_record(i).key = i.key
         /\ Files!to_record(i).rec = i.rec /\ ~Files!to_record(i).private
<1>1. Files!Identity(1..MaxKeys) \subseteq Files!Identity(Nat)
  BY DEF Files!Identity
<1>2. Files!FileRecord(1..MaxKeys) \subseteq Files!FileRecord(Nat)
  BY DEF Files!FileRecord
<1>3. Files!to_record(i) \in Files!FileRecord(1..MaxKeys)
  BY DEF Files!FileRecord, Files!Identity, Files!to_record
<1>4. /\ Files!to_record(i).agent = i.agent /\ Files!to_record(i).key = i.key
      /\ Files!to_record(i).rec = i.rec /\ ~Files!to_record(i).private
  BY DEF Files!to_record
<1> QED
  BY <1>1, <1>2, <1>3, <1>4, NoneAssumption

LEMMA RecoveryFacts ==
  ASSUME NEW k \in 1..MaxKeys
  PROVE  k \notin {None, Torn}
BY NoneAssumption

LEMMA CreateFiles == ASSUME FilesInv, NEW a \in AgentId, Files!Create(a) PROVE FilesInv'
<1>1. /\ file = None /\ ident = None /\ ~Held
      /\ ident' = [agent |-> a, key |-> made + 1, rec |-> made + 2, epoch |-> 1]
      /\ writes' = Files!CreateWrites(ident') /\ made' = made + 2 /\ made + 2 <= MaxKeys
      /\ UNCHANGED <<file, recovery, enrolled, legacy, upset>>
  BY DEF Files!Create, Files!Absent, Files!disk, Files!history, Held
<1>2. ident' \in Files!Identity(1..MaxKeys)
  BY <1>1, BoundAssumption DEF FilesInv, Files!TypeOK, Files!Identity
<1>3. ident' # None
  BY <1>2, IdentityFacts
<1>4. Creating' /\ ~Created' /\ ~Migrating' /\ ~Migrated' /\ writes' # <<>> /\ Len(writes') = 2
  BY <1>1, <1>3, PlaceFacts, WriteFacts DEF Creating, Created, Migrating, Migrated
<1>5. Files!TypeOK'
  <2>1. made' \in 0..MaxKeys /\ Len(writes') <= 2
    BY <1>1, <1>4, BoundAssumption DEF FilesInv, Files!TypeOK
  <2> QED
    BY <1>1, <1>2, <2>1 DEF FilesInv, Files!TypeOK
<1>6. WritesOK'
  BY <1>1, <1>3, <1>4 DEF WritesOK, Files!Up
<1>7. "file" \notin upset => enrolled = {}
  BY <1>1 DEF FilesInv, NotYetAnnounced
<1>8. PrivateOK' /\ FileAgrees' /\ NotYetAnnounced'
  BY <1>1, <1>7 DEF PrivateOK, FileAgrees, NotYetAnnounced, Held
<1>9. KeyAnnounced' /\ RecoveryAnnounced' /\ Files!IdentityIsKept'
  BY <1>1, <1>7 DEF FilesInv, KeyAnnounced, RecoveryAnnounced, Files!IdentityIsKept,
                    Files!Undisturbed
<1>10. NotLegacy'
  BY <1>1, <1>7 DEF NotLegacy, Files!Undisturbed, Held
<1> QED
  BY <1>5, <1>6, <1>8, <1>9, <1>10 DEF FilesInv

LEMMA LoadFiles == ASSUME FilesInv, NEW a \in AgentId, Files!Load(a) PROVE FilesInv'
<1> DEFINE rec == Files!RecoveryKey(file, recovery)
<1>1. /\ Held /\ ident = None /\ recovery # Torn /\ file.agent = a
      /\ ident' = [agent |-> a, key |-> file.key, rec |-> rec, epoch |-> 1]
      /\ writes' = IF Files!Migrates(file, recovery) THEN Files!MigrateWrites(ident') ELSE <<>>
      /\ UNCHANGED <<file, recovery, enrolled, legacy, upset>>
  BY DEF Files!Load, Files!Absent, Files!disk, Files!history, Held
<1>2. file \in Files!FileRecord(1..MaxKeys) /\ made \in 0..MaxKeys
  BY <1>1 DEF FilesInv, Files!TypeOK, Held
<1>3. /\ rec \in 1..MaxKeys /\ made' \in 0..MaxKeys
      /\ recovery # None => rec = recovery
      /\ file.private => rec = file.rec
  <2>1. rec = IF recovery # None THEN recovery ELSE IF file.private THEN file.rec ELSE made + 1
    BY DEF Files!RecoveryKey
  <2>2. (rec = made + 1 => made < MaxKeys) /\ made' = IF rec = made + 1 THEN rec ELSE made
    BY DEF Files!Load
  <2>3. recovery # None => recovery \in 1..MaxKeys
    BY <1>1 DEF FilesInv, Files!TypeOK
  <2>4. file.private => file.rec \in 1..MaxKeys /\ recovery \in {None, file.rec}
    BY <1>1, <1>2 DEF FilesInv, PrivateOK, Files!FileRecord
  <2> QED
    BY <1>2, <2>1, <2>2, <2>3, <2>4, BoundAssumption
<1>4. ident' \in Files!Identity(1..MaxKeys)
  BY <1>1, <1>2, <1>3 DEF Files!Identity, Files!FileRecord
<1>5. /\ ident' # None /\ ident'.rec = rec /\ ident'.key = file.key /\ ident'.agent = file.agent
  BY <1>1, <1>4, IdentityFacts
<1>6. /\ ~Creating' /\ ~Created' /\ ~Migrated' /\ Len(writes') <= 2
      /\ Migrating' <=> file.private \/ recovery = None
      /\ writes' = <<>> <=> ~(file.private \/ recovery = None)
  <2>1. CASE Files!Migrates(file, recovery)
    <3>1. writes' = Files!MigrateWrites(ident')
      BY <1>1, <2>1
    <3>2. ~Creating' /\ ~Created' /\ ~Migrated' /\ Migrating' /\ writes' # <<>>
      BY <1>5, <3>1, PlaceFacts DEF Creating, Created, Migrating, Migrated
    <3>3. Len(writes') <= 2
      <4>1. Len(Files!MigrateWrites(ident')) = 2
        BY WriteFacts
      <4> QED
        BY <3>1, <4>1
    <3> QED
      BY <2>1, <3>2, <3>3 DEF Files!Migrates
  <2>2. CASE ~Files!Migrates(file, recovery)
    <3>1. writes' = <<>>
      BY <1>1, <2>2
    <3>2. /\ ~Creating' /\ ~Created' /\ ~Migrated' /\ Len(writes') <= 2 /\ ~Migrating'
      BY <1>5, <3>1, PlaceFacts, WriteFacts DEF Creating, Created, Migrating, Migrated
    <3> QED
      BY <2>2, <3>1, <3>2 DEF Files!Migrates
  <2> QED
    BY <2>1, <2>2
<1>7. Files!TypeOK'
  BY <1>1, <1>3, <1>4, <1>6 DEF FilesInv, Files!TypeOK
<1>8. WritesOK'
  BY <1>1, <1>3, <1>5, <1>6 DEF WritesOK, Files!Up, Held
<1>9. PrivateOK' /\ FileAgrees' /\ NotYetAnnounced'
  BY <1>1, <1>3, <1>5, <1>6 DEF FilesInv, PrivateOK, FileAgrees, NotYetAnnounced, Held
<1>10. KeyAnnounced' /\ Files!IdentityIsKept'
  BY <1>1, <1>5 DEF FilesInv, KeyAnnounced, Files!IdentityIsKept, Files!Undisturbed, Held
<1>11. RecoveryAnnounced'
  <2> SUFFICES ASSUME Files!Undisturbed({"file", "recovery"}), NEW e \in enrolled
               PROVE  /\ \/ recovery = e.rec
                         \/ recovery \in {None, Torn} /\ Held /\ file.private /\ file.rec = e.rec
                      /\ rec = e.rec
    BY <1>1, <1>5 DEF RecoveryAnnounced, Files!Undisturbed, Held
  <2>1. \/ recovery = e.rec
        \/ recovery \in {None, Torn} /\ Held /\ file.private /\ file.rec = e.rec
    BY DEF FilesInv, RecoveryAnnounced
  <2>2. e.rec # None
    BY RecoveryFacts DEF FilesInv, Files!TypeOK
  <2> QED
    BY <1>3, <2>1, <2>2
<1>12. NotLegacy'
  <2> SUFFICES ASSUME ~legacy, Files!Undisturbed({"file", "recovery"}), enrolled # {}
               PROVE  writes' = <<>>
    BY <1>1 DEF FilesInv, NotLegacy, Files!Undisturbed, Held
  <2>1. ~file.private
    BY <1>1 DEF FilesInv, NotLegacy
  <2>2. PICK e \in enrolled : recovery = e.rec
    BY <2>1 DEF FilesInv, RecoveryAnnounced
  <2>3. recovery # None
    BY <2>2, RecoveryFacts DEF FilesInv, Files!TypeOK
  <2> QED
    BY <1>6, <2>1, <2>3
<1> QED
  BY <1>7, <1>8, <1>9, <1>10, <1>11, <1>12 DEF FilesInv

\* What a first write is, and what is left when it is done.
LEMMA FirstWrite ==
  ASSUME FilesInv, ident # None, writes # <<>>
  PROVE  /\ Creating \/ Created \/ Migrating \/ Migrated
         /\ Creating \/ Migrated =>
              Head(writes) = [to |-> "file", data |-> Files!to_record(ident)]
         /\ Created \/ Migrating => Head(writes) = [to |-> "recovery", data |-> ident.rec]
         /\ Creating => Tail(writes) = CreatedWrites(ident)
         /\ Migrating => Tail(writes) = MigratedWrites(ident)
         /\ Created \/ Migrated => Tail(writes) = <<>>
         /\ ident \in Files!Identity(1..MaxKeys)
<1>1. Creating \/ Created \/ Migrating \/ Migrated
  BY DEF FilesInv, WritesOK
<1>2. ident \in Files!Identity(1..MaxKeys)
  BY DEF FilesInv, Files!TypeOK
<1> QED
  BY <1>1, <1>2, WriteFacts DEF Creating, Created, Migrating, Migrated

LEMMA Places ==
  /\ Creating => ~Created /\ ~Migrating /\ ~Migrated /\ ~Files!Up
  /\ Created => ~Migrating /\ ~Migrated /\ ~Files!Up
  /\ Migrating => ~Migrated /\ ~Files!Up
  /\ Migrated => ~Files!Up
BY PlaceFacts DEF Creating, Created, Migrating, Migrated, Files!Up

LEMMA TruncateFiles == ASSUME FilesInv, Files!Truncate PROVE FilesInv'
<1>1. /\ ident # None /\ writes # <<>>
      /\ UNCHANGED <<ident, writes, made, enrolled, legacy, upset>>
      /\ \/ Head(writes).to = "file" /\ file # Torn /\ file' = Torn /\ UNCHANGED recovery
         \/ Head(writes).to = "recovery" /\ recovery # Torn /\ recovery' = Torn /\ UNCHANGED file
  BY DEF Files!Truncate, Files!history
<1>2. Files!TypeOK'
  BY <1>1 DEF FilesInv, Files!TypeOK
<1>3. /\ Creating' <=> Creating
      /\ Created' <=> Created
      /\ Migrating' <=> Migrating
      /\ Migrated' <=> Migrated
      /\ ~Files!Up /\ ~Files!Up'
  BY <1>1 DEF Creating, Created, Migrating, Migrated, Files!Up
<1>4. Files!IdentityIsKept'
  BY <1>1 DEF FilesInv, Files!IdentityIsKept, Files!Undisturbed
<1>5. CASE Creating \/ Migrated
  <2>1. file' = Torn /\ recovery' = recovery /\ ~Held'
    BY <1>1, <1>5, FirstWrite DEF Held
  <2>2. WritesOK' /\ PrivateOK' /\ FileAgrees'
    BY <1>1, <1>3, <1>5, <2>1, Places, NoneAssumption DEF FilesInv, WritesOK, PrivateOK, FileAgrees
  <2>3. NotYetAnnounced' /\ KeyAnnounced'
    BY <1>1, <1>3, <2>1, NoneAssumption DEF FilesInv, NotYetAnnounced, KeyAnnounced, Files!Undisturbed
  <2>4. ASSUME Files!Undisturbed({"file", "recovery"}), NEW e \in enrolled
        PROVE  recovery = e.rec
    <3>1. Migrated
      BY <1>5, <2>4 DEF FilesInv, NotYetAnnounced, Files!Undisturbed
    <3> QED
      BY <1>1, <2>4, <3>1 DEF FilesInv, RecoveryAnnounced, WritesOK
  <2>5. RecoveryAnnounced'
    BY <1>1, <2>1, <2>4 DEF FilesInv, RecoveryAnnounced, Files!Undisturbed
  <2>6. NotLegacy'
    BY <1>1, <2>1 DEF FilesInv, NotLegacy, Files!Undisturbed
  <2> QED
    BY <1>2, <1>4, <2>2, <2>3, <2>5, <2>6 DEF FilesInv
<1>6. CASE Created \/ Migrating
  <2>1. recovery' = Torn /\ file' = file /\ (Held' <=> Held)
    BY <1>1, <1>6, FirstWrite DEF Held
  <2>2. WritesOK' /\ PrivateOK' /\ FileAgrees'
    BY <1>1, <1>3, <1>6, <2>1, Places DEF FilesInv, WritesOK, PrivateOK, FileAgrees
  <2>3. NotYetAnnounced' /\ KeyAnnounced'
    BY <1>1, <1>3, <2>1 DEF FilesInv, NotYetAnnounced, KeyAnnounced, Files!Undisturbed
  <2>4. ASSUME Files!Undisturbed({"file", "recovery"}), NEW e \in enrolled
        PROVE  Held /\ file.private /\ file.rec = e.rec
    <3>1. Migrating
      BY <1>6, <2>4 DEF FilesInv, NotYetAnnounced, Files!Undisturbed
    <3>2. Held /\ (file.private \/ recovery \in {None, Torn})
      BY <3>1 DEF FilesInv, WritesOK
    <3>3. e.rec \notin {None, Torn}
      BY <2>4, RecoveryFacts DEF FilesInv, Files!TypeOK
    <3>4. file.private
      BY <2>4, <3>2, <3>3 DEF FilesInv, RecoveryAnnounced
    <3>5. ident.rec = e.rec /\ ident.rec = file.rec
      BY <1>1, <2>4, <3>2, <3>4 DEF FilesInv, RecoveryAnnounced, PrivateOK
    <3> QED
      BY <3>2, <3>4, <3>5
  <2>5. RecoveryAnnounced'
    BY <1>1, <2>1, <2>4 DEF FilesInv, RecoveryAnnounced, Files!Undisturbed
  <2>6. NotLegacy'
    BY <1>1, <2>1 DEF FilesInv, NotLegacy, Files!Undisturbed
  <2> QED
    BY <1>2, <1>4, <2>2, <2>3, <2>5, <2>6 DEF FilesInv
<1> QED
  BY <1>1, <1>5, <1>6, FirstWrite

LEMMA FillFiles == ASSUME FilesInv, Files!Fill PROVE FilesInv'
<1> DEFINE record == Files!to_record(ident)
<1>1. /\ ident # None /\ writes # <<>> /\ writes' = Tail(writes)
      /\ UNCHANGED <<ident, made, enrolled, legacy, upset>>
      /\ \/ /\ Head(writes).to = "file" /\ file = Torn
            /\ file' = Head(writes).data /\ UNCHANGED recovery
         \/ /\ Head(writes).to = "recovery" /\ recovery = Torn
            /\ recovery' = Head(writes).data /\ UNCHANGED file
  BY DEF Files!Fill, Files!history
<1>2. /\ ident \in Files!Identity(1..MaxKeys) /\ ident.rec \in 1..MaxKeys
      /\ ident.rec \notin {None, Torn}
  <2>1. ident \in Files!Identity(1..MaxKeys)
    BY <1>1, FirstWrite
  <2> QED
    BY <2>1, RecoveryFacts DEF Files!Identity
<1>3. /\ record \in Files!FileRecord(1..MaxKeys) /\ record \notin {None, Torn}
      /\ record.agent = ident.agent /\ record.key = ident.key
      /\ record.rec = ident.rec /\ ~record.private
  BY <1>2, IdentityFacts
<1>4. Files!IdentityIsKept'
  BY <1>1 DEF FilesInv, Files!IdentityIsKept, Files!Undisturbed
<1>5. CASE Creating \/ Migrated
  <2>1. file = Torn /\ ~Held /\ file' = record /\ recovery' = recovery /\ Held'
    BY <1>1, <1>3, <1>5, FirstWrite DEF Held
  <2>2. writes' = CreatedWrites(ident) \/ writes' = <<>>
    BY <1>1, <1>5, FirstWrite
  <2>3. /\ Created' <=> Creating
        /\ Files!Up' <=> Migrated
        /\ ~Creating' /\ ~Migrating' /\ ~Migrated'
        /\ Created' \/ writes' = <<>>
    <3>1. Creating => writes' = CreatedWrites(ident)
      BY <1>1, FirstWrite
    <3>2. Migrated => writes' = <<>>
      BY <1>1, FirstWrite
    <3>3. ident' = ident
      BY <1>1
    <3> QED
      BY <1>1, <1>5, <3>1, <3>2, <3>3, Places, PlaceFacts
      DEF Creating, Created, Migrating, Migrated, Files!Up
  <2>4. Files!TypeOK'
    <3>1. Len(writes') <= 2
      <4>1. Len(CreatedWrites(ident)) = 1 /\ Len(<<>>) = 0
        BY WriteFacts
      <4> QED
        BY <2>2, <4>1
    <3> QED
      BY <1>1, <1>3, <2>1, <3>1 DEF FilesInv, Files!TypeOK
  <2>5. WritesOK'
    BY <1>1, <2>1, <2>3 DEF FilesInv, WritesOK
  <2>6. PrivateOK' /\ FileAgrees' /\ NotYetAnnounced' /\ KeyAnnounced'
    BY <1>1, <1>3, <2>1, <2>3
    DEF FilesInv, PrivateOK, FileAgrees, NotYetAnnounced, KeyAnnounced, Files!Undisturbed, Held
  <2>7. RecoveryAnnounced'
    BY <1>1, <2>1 DEF FilesInv, RecoveryAnnounced, Files!Undisturbed
  <2>8. NotLegacy'
    BY <1>1, <1>3, <2>1 DEF FilesInv, NotLegacy, Files!Undisturbed
  <2> QED
    BY <1>4, <2>4, <2>5, <2>6, <2>7, <2>8 DEF FilesInv
<1>6. CASE Created \/ Migrating
  <2>1. recovery = Torn /\ recovery' = ident.rec /\ file' = file /\ (Held' <=> Held)
    BY <1>1, <1>6, FirstWrite DEF Held
  <2>2. writes' = MigratedWrites(ident) \/ writes' = <<>>
    BY <1>1, <1>6, FirstWrite
  <2>3. /\ Migrated' <=> Migrating
        /\ Files!Up' <=> Created
        /\ ~Creating' /\ ~Migrating' /\ ~Created'
        /\ Migrated' \/ writes' = <<>>
    <3>1. Created => writes' = <<>>
      BY <1>1, FirstWrite
    <3>2. Migrating => writes' = MigratedWrites(ident)
      BY <1>1, FirstWrite
    <3>3. ident' = ident
      BY <1>1
    <3> QED
      BY <1>1, <1>6, <3>1, <3>2, <3>3, Places, PlaceFacts
      DEF Creating, Created, Migrating, Migrated, Files!Up
  <2>4. Files!TypeOK'
    <3>1. Len(writes') <= 2
      <4>1. Len(MigratedWrites(ident)) = 1 /\ Len(<<>>) = 0
        BY WriteFacts
      <4> QED
        BY <2>2, <4>1
    <3> QED
      BY <1>1, <1>2, <2>1, <3>1 DEF FilesInv, Files!TypeOK
  <2>5. WritesOK'
    BY <1>1, <1>6, <2>1, <2>3 DEF FilesInv, WritesOK, Held
  <2>6. PrivateOK' /\ FileAgrees' /\ NotYetAnnounced' /\ KeyAnnounced'
    BY <1>1, <1>2, <1>6, <2>1, <2>3
    DEF FilesInv, PrivateOK, FileAgrees, NotYetAnnounced, KeyAnnounced, Files!Undisturbed
  <2>7. RecoveryAnnounced'
    BY <1>1, <2>1 DEF FilesInv, RecoveryAnnounced, Files!Undisturbed
  <2>8. NotLegacy'
    BY <1>1, <2>1 DEF FilesInv, NotLegacy, Files!Undisturbed
  <2> QED
    BY <1>4, <2>4, <2>5, <2>6, <2>7, <2>8 DEF FilesInv
<1> QED
  BY <1>1, <1>5, <1>6, FirstWrite

LEMMA AnnounceFiles == ASSUME FilesInv, Files!Announce PROVE FilesInv'
<1> DEFINE new == Files!Enrollment(ident)
<1>1. /\ ident # None /\ writes = <<>> /\ enrolled' = enrolled \cup {new}
      /\ UNCHANGED <<file, recovery, ident, writes, made, legacy, upset>>
  BY DEF Files!Announce, Files!Up, Files!disk
<1>2. ident \in Files!Identity(1..MaxKeys)
  BY <1>1 DEF FilesInv, Files!TypeOK
<1>3. /\ new \in [agent : AgentId, key : 1..MaxKeys, rec : 1..MaxKeys]
      /\ new.agent = ident.agent /\ new.key = ident.key /\ new.rec = ident.rec
  BY <1>2 DEF Files!Enrollment, Files!Identity
<1>4. Held /\ recovery = ident.rec /\ ~Creating /\ ~Created /\ Files!Up
  BY <1>1, Places DEF FilesInv, WritesOK, Files!Up
<1>5. Files!TypeOK'
  BY <1>1, <1>3 DEF FilesInv, Files!TypeOK
<1>6. /\ Creating' <=> Creating
      /\ Created' <=> Created
      /\ Migrating' <=> Migrating
      /\ Migrated' <=> Migrated
      /\ Files!Up'
  BY <1>1 DEF Creating, Created, Migrating, Migrated, Files!Up
<1>7. WritesOK'
  BY <1>1, <1>4, <1>6 DEF FilesInv, WritesOK, Held
<1>8. PrivateOK' /\ FileAgrees' /\ NotYetAnnounced'
  BY <1>1, <1>4, <1>6 DEF FilesInv, PrivateOK, FileAgrees, NotYetAnnounced, Held
<1>9. Files!Undisturbed({"file", "rotated"}) => file.agent = ident.agent /\ file.key = ident.key
  BY <1>1, <1>4 DEF FilesInv, FileAgrees, Files!Undisturbed
<1>10. KeyAnnounced'
  BY <1>1, <1>3, <1>9 DEF FilesInv, KeyAnnounced, Files!Undisturbed, Held
<1>11. RecoveryAnnounced'
  BY <1>1, <1>3, <1>4 DEF FilesInv, RecoveryAnnounced, Files!Undisturbed, Held
<1>12. NotLegacy'
  BY <1>1, <1>4 DEF FilesInv, NotLegacy, Files!Undisturbed, Held
<1>13. Files!IdentityIsKept'
  <2>1. /\ Files!Undisturbed({"file", "rotated"}) =>
             \A e \in enrolled : e.agent = ident.agent /\ e.key = ident.key
        /\ Files!Undisturbed({"file", "recovery"}) => \A e \in enrolled : ident.rec = e.rec
    BY <1>1 DEF FilesInv, KeyAnnounced, RecoveryAnnounced
  <2>2. /\ Files!Undisturbed({"file", "rotated"}) =>
             \A e \in enrolled' : e.agent = ident.agent /\ e.key = ident.key
        /\ Files!Undisturbed({"file", "recovery"}) => \A e \in enrolled' : e.rec = ident.rec
    BY <1>1, <1>3, <2>1
  <2> QED
    BY <1>1, <2>2 DEF Files!IdentityIsKept, Files!Undisturbed
<1> QED
  BY <1>5, <1>7, <1>8, <1>10, <1>11, <1>12, <1>13 DEF FilesInv

LEMMA RotateFiles == ASSUME FilesInv, Files!rotate PROVE FilesInv'
<1>1. /\ ident # None /\ writes = <<>> /\ made + 2 <= MaxKeys /\ made' = made + 2
      /\ ident' = [ident EXCEPT !.key = made + 1, !.epoch = @ + 1]
      /\ upset' = upset \cup {"rotated"}
      /\ UNCHANGED <<file, recovery, writes, enrolled, legacy>>
  BY DEF Files!rotate, Files!Rotated, Files!Up, Files!disk
<1>2. ident \in Files!Identity(1..MaxKeys) /\ made \in 0..MaxKeys
  BY <1>1 DEF FilesInv, Files!TypeOK
<1>3. ident' \in Files!Identity(1..MaxKeys) /\ ident'.rec = ident.rec /\ made' \in 0..MaxKeys
  <2>1. made + 1 \in 1..MaxKeys /\ made' \in 0..MaxKeys
    BY <1>1, <1>2, BoundAssumption
  <2>2. ident.epoch + 1 \in Nat
    BY <1>2 DEF Files!Identity
  <2>3. ident' = [ident EXCEPT !.key = made + 1, !.epoch = ident.epoch + 1]
    BY <1>1
  <2>4. ident' \in Files!Identity(1..MaxKeys) /\ ident'.rec = ident.rec
    BY <1>2, <2>1, <2>2, <2>3 DEF Files!Identity
  <2> QED
    BY <2>1, <2>4
<1>4. ident' # None
  BY <1>3, IdentityFacts
<1>5. Held /\ recovery = ident.rec
  BY <1>1, Places DEF FilesInv, WritesOK, Files!Up
<1>6. ~Creating' /\ ~Created' /\ ~Migrating' /\ ~Migrated' /\ Files!Up'
  BY <1>1, <1>4, Places, PlaceFacts DEF Creating, Created, Migrating, Migrated, Files!Up
<1>7. Files!TypeOK'
  BY <1>1, <1>3 DEF FilesInv, Files!TypeOK
<1>8. WritesOK'
  BY <1>1, <1>3, <1>4, <1>5, <1>6 DEF WritesOK, Held
<1>9. PrivateOK' /\ FileAgrees' /\ NotYetAnnounced'
  BY <1>1, <1>3, <1>5, <1>6 DEF FilesInv, PrivateOK, FileAgrees, NotYetAnnounced, Held
<1>10. KeyAnnounced' /\ NotLegacy' /\ Files!IdentityIsKept'
  BY <1>1, <1>5 DEF FilesInv, KeyAnnounced, NotLegacy, Files!IdentityIsKept, Files!Undisturbed, Held
<1>11. RecoveryAnnounced'
  BY <1>1, <1>3, <1>5 DEF FilesInv, RecoveryAnnounced, Files!Undisturbed, Held
<1> QED
  BY <1>7, <1>8, <1>9, <1>10, <1>11 DEF FilesInv

LEMMA CrashFiles == ASSUME FilesInv, Files!Crash PROVE FilesInv'
<1>1. /\ ident # None /\ ident' = None /\ writes' = <<>>
      /\ UNCHANGED <<file, recovery, made, enrolled, legacy, upset>>
  BY DEF Files!Crash, Files!disk, Files!history
<1>2. ~Creating' /\ ~Created' /\ ~Migrating' /\ ~Migrated' /\ ~Files!Up'
  BY <1>1 DEF Creating, Created, Migrating, Migrated, Files!Up
<1>3. Files!TypeOK'
  <2>1. Len(<<>>) = 0
    OBVIOUS
  <2> QED
    BY <1>1, <2>1 DEF FilesInv, Files!TypeOK
<1>4. WritesOK'
  BY <1>1, <1>2 DEF WritesOK
<1>5. PrivateOK' /\ FileAgrees' /\ NotYetAnnounced' /\ KeyAnnounced' /\ RecoveryAnnounced'
  BY <1>1, <1>2 DEF FilesInv, PrivateOK, FileAgrees, NotYetAnnounced, KeyAnnounced,
                    RecoveryAnnounced, Files!Undisturbed, Held
<1>6. NotLegacy' /\ Files!IdentityIsKept'
  BY <1>1 DEF FilesInv, NotLegacy, Files!IdentityIsKept, Files!Undisturbed, Held
<1> QED
  BY <1>3, <1>4, <1>5, <1>6 DEF FilesInv

LEMMA LossFiles == ASSUME FilesInv, Files!FileLost \/ Files!RecoveryLost PROVE FilesInv'
<1>1. /\ ident = None /\ UNCHANGED <<ident, writes, made, enrolled, legacy>>
      /\ \/ file' = None /\ upset' = upset \cup {"file"} /\ UNCHANGED recovery
         \/ recovery' = None /\ upset' = upset \cup {"recovery"} /\ UNCHANGED file
  BY DEF Files!FileLost, Files!RecoveryLost
<1>2. /\ ~Creating' /\ ~Created' /\ ~Migrating' /\ ~Migrated' /\ ~Files!Up'
      /\ ~Creating /\ ~Created /\ writes = <<>>
  BY <1>1 DEF FilesInv, WritesOK, Creating, Created, Migrating, Migrated, Files!Up
<1>3. Files!TypeOK'
  BY <1>1 DEF FilesInv, Files!TypeOK
<1>4. WritesOK'
  BY <1>1, <1>2 DEF WritesOK
<1>5. PrivateOK' /\ FileAgrees' /\ NotYetAnnounced'
  BY <1>1, <1>2 DEF FilesInv, PrivateOK, FileAgrees, NotYetAnnounced, Held
<1>6. KeyAnnounced' /\ RecoveryAnnounced'
  BY <1>1 DEF FilesInv, KeyAnnounced, RecoveryAnnounced, Files!Undisturbed, Held
<1>7. NotLegacy' /\ Files!IdentityIsKept'
  BY <1>1 DEF FilesInv, NotLegacy, Files!IdentityIsKept, Files!Undisturbed, Held
<1> QED
  BY <1>3, <1>4, <1>5, <1>6, <1>7 DEF FilesInv

LEMMA KeepFiles == ASSUME FilesInv, UNCHANGED fileVars PROVE FilesInv'
<1>1. UNCHANGED <<file, recovery, ident, writes, made, enrolled, legacy, upset>>
  BY DEF fileVars
<1>2. /\ Creating' <=> Creating
      /\ Created' <=> Created
      /\ Migrating' <=> Migrating
      /\ Migrated' <=> Migrated
      /\ Files!Up' <=> Files!Up
      /\ Held' <=> Held
  BY <1>1 DEF Creating, Created, Migrating, Migrated, Files!Up, Held
<1>3. Files!TypeOK' /\ WritesOK' /\ PrivateOK' /\ FileAgrees' /\ NotYetAnnounced'
  BY <1>1, <1>2 DEF FilesInv, Files!TypeOK, WritesOK, PrivateOK, FileAgrees, NotYetAnnounced
<1>4. KeyAnnounced' /\ RecoveryAnnounced' /\ NotLegacy' /\ Files!IdentityIsKept'
  BY <1>1, <1>2 DEF FilesInv, KeyAnnounced, RecoveryAnnounced, NotLegacy,
                    Files!IdentityIsKept, Files!Undisturbed
<1> QED
  BY <1>3, <1>4 DEF FilesInv

\* What is on disk whenever the files have this invariant.
LEMMA EnrolledFromFiles == FilesInv => Files!EnrolledKeysAreOnDisk
<1> SUFFICES ASSUME FilesInv, Files!Undisturbed({"file", "recovery"}), NEW e \in enrolled
             PROVE  /\ \/ recovery = e.rec
                       \/ Held /\ file.private /\ file.rec = e.rec
                    /\ ~legacy /\ Files!Undisturbed({"rotated"}) =>
                         Held /\ file.key = e.key /\ file.agent = e.agent /\ recovery = e.rec
  BY DEF Files!EnrolledKeysAreOnDisk, Held
<1>1. recovery = e.rec \/ (Held /\ file.private /\ file.rec = e.rec)
  BY DEF FilesInv, RecoveryAnnounced
<1>2. ASSUME ~legacy, Files!Undisturbed({"rotated"})
      PROVE  Held /\ file.key = e.key /\ file.agent = e.agent /\ recovery = e.rec
  <2>1. Held /\ ~file.private
    BY <1>2 DEF FilesInv, NotLegacy
  <2>2. Files!Undisturbed({"file", "rotated"})
    BY <1>2 DEF Files!Undisturbed
  <2> QED
    BY <1>1, <2>1, <2>2 DEF FilesInv, KeyAnnounced
<1> QED
  BY <1>1, <1>2

-----------------------------------------------------------------------------
(* The store *)

\* Dict and table never have anything but the last result of the key.
LastOK ==
    \A k \in Key :
        /\ values[k] # None => last[k] # None /\ values[k] = last[k].value
        /\ expires[k] # None => values[k] # None /\ expires[k] = last[k].at + TTL
        /\ rows[k] # None =>
             /\ last[k] # None
             /\ rows[k].value = last[k].value /\ rows[k].expires_at = last[k].at + TTL

\* A result that has reached the table is there for its TTL.
KeptOK ==
    \A k \in Key : kept[k] # None =>
        kept[k] + TTL <= now \/ (rows[k] # None /\ rows[k].expires_at >= kept[k] + TTL)

\* While fn is called neither has anything of its key.
CallingOK ==
    calling # None => values[calling] = None /\ expires[calling] = None /\ rows[calling] = None

StoreInv == Store!TypeOK /\ now \in Nat /\ LastOK /\ KeptOK /\ CallingOK

LEMMA ResultFacts ==
  /\ \A s \in Signed : s # None
  /\ \A r \in Store!Result : r # None
  /\ \A r \in [value : Signed, expires_at : Nat] : r # None
  /\ \A r \in [key : Key, value : Signed] : r # None
  /\ \A n \in Nat : n # None
  /\ \A k \in Key : k # None
BY NoneAssumption

LEMMA RowFacts ==
  ASSUME StoreInv, NEW k \in Key
  PROVE  /\ rows[k] # None => rows[k].value \in Signed /\ rows[k].expires_at \in Nat
         /\ Store!LiveRow(k) # None => rows[k] # None /\ Store!LiveRow(k) = rows[k]
                                       /\ rows[k].expires_at > now
         /\ Store!LiveRow(k) = None => rows[k] = None \/ rows[k].expires_at <= now
<1>1. rows[k] \in [value : Signed, expires_at : Nat] \cup {None}
  BY DEF StoreInv, Store!TypeOK
<1> QED
  BY <1>1 DEF Store!LiveRow, StoreInv

\* What get leaves of a key: the value that is not overdue, or the one of the
\* looked up key's live row.
LEMMA GetFacts ==
  ASSUME StoreInv, NEW k \in Key, Store!get(k), NEW j \in Key
  PROVE  /\ expires'[j] = None \/ (expires'[j] = expires[j] /\ expires[j] > now)
         /\ rows'[j] = Store!LiveRow(j)
         /\ \/ values'[j] = None
            \/ values'[j] = values[j] /\ values[j] # None /\ ~Store!Overdue(j)
            \/ j = k /\ Store!LiveRow(j) # None /\ values'[j] = rows[j].value
         /\ values'[k] = None => Store!LiveRow(k) = None /\ expires'[k] = None
<1>0. /\ expires \in [Key -> Nat \cup {None}] /\ now \in Nat
      /\ values \in [Key -> Signed \cup {None}]
  BY DEF StoreInv, Store!TypeOK
<1>1. /\ expires'[j] = IF expires[j] # None /\ expires[j] <= now THEN None ELSE expires[j]
      /\ expires'[k] = IF expires[k] # None /\ expires[k] <= now THEN None ELSE expires[k]
      /\ rows'[j] = Store!LiveRow(j)
  BY DEF Store!get
<1>2. /\ values'[j] = IF values[j] # None /\ ~Store!Overdue(j) THEN values[j]
                      ELSE IF j = k /\ Store!LiveRow(k) # None THEN Store!LiveRow(k).value ELSE None
      /\ values'[k] = IF values[k] # None /\ ~Store!Overdue(k) THEN values[k]
                      ELSE IF Store!LiveRow(k) # None THEN Store!LiveRow(k).value ELSE None
  BY DEF Store!get
<1>3. Store!LiveRow(k) # None => Store!LiveRow(k).value # None /\ Store!LiveRow(k) = rows[k]
  BY RowFacts, ResultFacts
<1>4. expires'[j] = None \/ (expires'[j] = expires[j] /\ expires[j] > now)
  BY <1>0, <1>1
<1>5. \/ values'[j] = None
      \/ values'[j] = values[j] /\ values[j] # None /\ ~Store!Overdue(j)
      \/ j = k /\ Store!LiveRow(j) # None /\ values'[j] = rows[j].value
  BY <1>2, <1>3
<1>6. values'[k] = None => Store!LiveRow(k) = None
  BY <1>2, <1>3
<1>7. values'[k] = None => expires'[k] = None
  <2>1. expires[k] # None => values[k] # None
    BY DEF StoreInv, LastOK
  <2> QED
    BY <1>0, <1>1, <1>2, <2>1 DEF Store!Overdue
<1> QED
  BY <1>1, <1>4, <1>5, <1>6, <1>7

LEMMA GetTypes ==
  ASSUME StoreInv, NEW k \in Key, Store!get(k)
  PROVE  /\ values' \in [Key -> Signed \cup {None}]
         /\ expires' \in [Key -> Nat \cup {None}]
         /\ rows' \in [Key -> [value : Signed, expires_at : Nat] \cup {None}]
<1>1. \A j \in Key : /\ rows[j] \in [value : Signed, expires_at : Nat] \cup {None}
                     /\ values[j] \in Signed \cup {None}
                     /\ expires[j] \in Nat \cup {None}
  BY DEF StoreInv, Store!TypeOK
<1>2. \A j \in Key : Store!LiveRow(j) \in [value : Signed, expires_at : Nat] \cup {None}
  BY <1>1 DEF Store!LiveRow
<1>3. \A j \in Key : Store!LiveRow(j) # None => Store!LiveRow(j).value \in Signed
  BY <1>2
<1> QED
  BY <1>1, <1>2, <1>3 DEF Store!get

\* A lookup keeps what there is true of each key's last result.
LEMMA GetKeeps ==
  ASSUME StoreInv, NEW k \in Key, Store!get(k), UNCHANGED <<now, last, kept>>
  PROVE  LastOK' /\ KeptOK'
<1>1. ASSUME NEW j \in Key
      PROVE  /\ values'[j] # None => last[j] # None /\ values'[j] = last[j].value
             /\ expires'[j] # None => values'[j] # None /\ expires'[j] = last[j].at + TTL
             /\ rows'[j] # None =>
                  /\ last[j] # None
                  /\ rows'[j].value = last[j].value /\ rows'[j].expires_at = last[j].at + TTL
  <2>1. /\ values[j] # None => last[j] # None /\ values[j] = last[j].value
        /\ expires[j] # None => values[j] # None /\ expires[j] = last[j].at + TTL
        /\ rows[j] # None =>
             /\ last[j] # None
             /\ rows[j].value = last[j].value /\ rows[j].expires_at = last[j].at + TTL
    BY <1>1 DEF StoreInv, LastOK
  <2>2. Store!LiveRow(j) # None => rows[j] # None /\ Store!LiveRow(j) = rows[j]
    BY <1>1, RowFacts
  <2>3. /\ expires'[j] = None \/ (expires'[j] = expires[j] /\ expires[j] > now)
        /\ rows'[j] = Store!LiveRow(j)
        /\ \/ values'[j] = None
           \/ values'[j] = values[j] /\ values[j] # None
           \/ j = k /\ Store!LiveRow(j) # None /\ values'[j] = rows[j].value
    BY <1>1, GetFacts
  <2>4. expires'[j] # None => values'[j] # None
    <3>1. /\ expires[j] \in Nat \cup {None} /\ now \in Nat
          /\ expires'[j] = IF expires[j] # None /\ expires[j] <= now THEN None ELSE expires[j]
          /\ values'[j] = IF values[j] # None /\ ~Store!Overdue(j) THEN values[j]
                      ELSE IF j = k /\ Store!LiveRow(k) # None THEN Store!LiveRow(k).value ELSE None
      BY DEF StoreInv, Store!TypeOK, Store!get
    <3> QED
      BY <2>1, <3>1 DEF Store!Overdue
  <2> QED
    BY <2>1, <2>2, <2>3, <2>4
<1>2. ASSUME NEW j \in Key, kept[j] # None
      PROVE  kept[j] + TTL <= now \/ (rows'[j] # None /\ rows'[j].expires_at >= kept[j] + TTL)
  <2>1. kept[j] + TTL <= now \/ (rows[j] # None /\ rows[j].expires_at >= kept[j] + TTL)
    BY <1>2 DEF StoreInv, KeptOK
  <2>2. /\ Store!LiveRow(j) # None => rows[j] # None /\ Store!LiveRow(j) = rows[j]
        /\ Store!LiveRow(j) = None => rows[j] = None \/ rows[j].expires_at <= now
        /\ rows[j] # None => rows[j].expires_at \in Nat
        /\ rows'[j] = Store!LiveRow(j)
    BY RowFacts, GetFacts
  <2>3. kept[j] \in Nat /\ now \in Nat /\ TTL \in Nat
    BY <1>2, BoundAssumption DEF StoreInv, Store!TypeOK
  <2> QED
    BY <2>1, <2>2, <2>3
<1> QED
  BY <1>1, <1>2 DEF LastOK, KeptOK

LEMMA HitStore == ASSUME StoreInv, NEW k \in Key, Store!Hit(k) PROVE StoreInv'
<1>1. /\ Store!get(k) /\ calling = None /\ values'[k] # None
      /\ answer' = [key |-> k, value |-> values'[k]]
      /\ UNCHANGED <<calling, now, last, kept>>
  BY DEF Store!Hit
<1>2. values'[k] \in Signed
  BY <1>1, GetTypes
<1>3. Store!TypeOK'
  BY <1>1, <1>2, GetTypes DEF StoreInv, Store!TypeOK
<1> QED
  BY <1>1, <1>3, GetKeeps DEF StoreInv, CallingOK

LEMMA CallStore == ASSUME StoreInv, NEW k \in Key, Store!Call(k) PROVE StoreInv'
<1>1. /\ Store!get(k) /\ values'[k] = None /\ calling' = k /\ UNCHANGED <<now, last, kept, answer>>
  BY DEF Store!Call, Store!history
<1>2. Store!TypeOK'
  BY <1>1, GetTypes DEF StoreInv, Store!TypeOK
<1>3. CallingOK'
  <2>1. rows'[k] = Store!LiveRow(k) /\ Store!LiveRow(k) = None /\ expires'[k] = None
    BY <1>1, GetFacts
  <2> QED
    BY <1>1, <2>1 DEF CallingOK
<1> QED
  BY <1>1, <1>2, <1>3, GetKeeps DEF StoreInv

LEMMA PutStore ==
  ASSUME StoreInv, NEW v \in Signed, NEW inserted \in BOOLEAN, Store!Put(v, inserted)
  PROVE  StoreInv'
<1> DEFINE row == [value |-> v, expires_at |-> now + TTL]
<1>0. now \in Nat /\ TTL \in Nat /\ now + TTL \in Nat /\ Store!TypeOK
  BY BoundAssumption DEF StoreInv
<1>1. /\ calling \in Key /\ calling' = None /\ UNCHANGED <<now, answer>>
      /\ values' = [values EXCEPT ![calling] = v]
      /\ expires' = [expires EXCEPT ![calling] = now + TTL]
      /\ last' = [last EXCEPT ![calling] = [value |-> v, at |-> now]]
  BY <1>0 DEF Store!Put, Store!TypeOK
<1>2. \/ rows' = [rows EXCEPT ![calling] = row] /\ kept' = [kept EXCEPT ![calling] = now]
      \/ rows' = rows /\ kept' = kept
  BY DEF Store!Put
<1>3. row \in [value : Signed, expires_at : Nat] /\ [value |-> v, at |-> now] \in Store!Result
  BY <1>0 DEF Store!Result
<1>4. row # None /\ [value |-> v, at |-> now] # None /\ v # None /\ now + TTL # None
  BY <1>0, <1>3, ResultFacts
<1>5. Store!TypeOK'
  <2>1. values' \in [Key -> Signed \cup {None}] /\ expires' \in [Key -> Nat \cup {None}]
    BY <1>0, <1>1 DEF Store!TypeOK
  <2>2. last' \in [Key -> Store!Result \cup {None}]
    BY <1>0, <1>1, <1>3 DEF Store!TypeOK
  <2>3. rows' \in [Key -> [value : Signed, expires_at : Nat] \cup {None}]
    BY <1>0, <1>2, <1>3 DEF Store!TypeOK
  <2>4. kept' \in [Key -> Nat \cup {None}]
    BY <1>0, <1>2 DEF Store!TypeOK
  <2> QED
    BY <1>0, <1>1, <2>1, <2>2, <2>3, <2>4 DEF Store!TypeOK
<1>6. /\ values'[calling] = v /\ expires'[calling] = now + TTL
      /\ last'[calling] = [value |-> v, at |-> now]
      /\ rows'[calling] \in {row, rows[calling]} /\ rows[calling] = None
      /\ \A j \in Key \ {calling} : /\ values'[j] = values[j] /\ expires'[j] = expires[j]
                                    /\ last'[j] = last[j] /\ rows'[j] = rows[j]
  <2>1. rows[calling] = None
    BY <1>1, ResultFacts DEF StoreInv, CallingOK
  <2> QED
    BY <1>0, <1>1, <1>2, <2>1 DEF Store!TypeOK
<1>7. LastOK'
  <2> SUFFICES ASSUME NEW j \in Key
               PROVE  /\ values'[j] # None => last'[j] # None /\ values'[j] = last'[j].value
                      /\ expires'[j] # None => values'[j] # None /\ expires'[j] = last'[j].at + TTL
                      /\ rows'[j] # None =>
                           /\ last'[j] # None /\ rows'[j].value = last'[j].value
                           /\ rows'[j].expires_at = last'[j].at + TTL
    BY DEF LastOK
  <2>1. CASE j = calling
    BY <1>4, <1>6, <2>1
  <2>2. CASE j # calling
    BY <1>6, <2>2 DEF StoreInv, LastOK
  <2> QED
    BY <2>1, <2>2
<1>8. KeptOK'
  <2> SUFFICES ASSUME NEW j \in Key, kept'[j] # None
               PROVE  \/ kept'[j] + TTL <= now
                      \/ rows'[j] # None /\ rows'[j].expires_at >= kept'[j] + TTL
    BY <1>1 DEF KeptOK
  <2>1. CASE j = calling /\ rows' = [rows EXCEPT ![calling] = row]
             /\ kept' = [kept EXCEPT ![calling] = now]
    <3>1. rows'[j] = row /\ kept'[j] = now
      BY <1>0, <2>1 DEF Store!TypeOK
    <3> QED
      BY <1>0, <1>4, <3>1
  <2>2. CASE ~(j = calling /\ rows' = [rows EXCEPT ![calling] = row]
               /\ kept' = [kept EXCEPT ![calling] = now])
    <3>1. rows'[j] = rows[j] /\ kept'[j] = kept[j]
      BY <1>0, <1>2, <2>2 DEF Store!TypeOK
    <3> QED
      BY <3>1 DEF StoreInv, KeptOK
  <2> QED
    BY <2>1, <2>2
<1>9. CallingOK'
  BY <1>1 DEF CallingOK
<1> QED
  BY <1>0, <1>1, <1>5, <1>7, <1>8, <1>9 DEF StoreInv

LEMMA OtherStore ==
  ASSUME StoreInv, Store!Raise \/ Store!Crash \/ UNCHANGED <<storeVars, now>>
  PROVE  StoreInv'
<1>1. CASE Store!Raise
  BY <1>1 DEF Store!Raise, Store!history, StoreInv, Store!TypeOK, LastOK, KeptOK, CallingOK
<1>2. CASE Store!Crash
  BY <1>2 DEF Store!Crash, Store!history, StoreInv, Store!TypeOK, LastOK, KeptOK, CallingOK
<1>3. CASE UNCHANGED <<storeVars, now>>
  BY <1>3 DEF storeVars, StoreInv, Store!TypeOK, LastOK, KeptOK, CallingOK
<1> QED
  BY <1>1, <1>2, <1>3

LEMMA TickStore ==
  ASSUME StoreInv, now' = now + 1, UNCHANGED storeVars
  PROVE  StoreInv'
<1>1. UNCHANGED <<values, expires, rows, calling, last, kept, answer>> /\ now \in Nat
  BY DEF storeVars, StoreInv
<1>2. Store!TypeOK' /\ now' \in Nat /\ LastOK' /\ CallingOK'
  BY <1>1 DEF StoreInv, Store!TypeOK, LastOK, CallingOK
<1>3. KeptOK'
  <2>1. \A k \in Key : kept[k] # None => kept[k] + TTL \in Nat
    BY BoundAssumption DEF StoreInv, Store!TypeOK
  <2> QED
    BY <1>1, <2>1 DEF StoreInv, KeptOK
<1> QED
  BY <1>2, <1>3 DEF StoreInv

LEMMA InitStore == Store!Init /\ now = 0 => StoreInv
BY DEF Store!Init, StoreInv, Store!TypeOK, LastOK, KeptOK, CallingOK

-----------------------------------------------------------------------------
(* Whose signature the stored results bear *)

NothingSigned == answer = None /\ \A k \in Key : values[k] = None /\ rows[k] = None

SignedWith(key) ==
    /\ answer # None => answer.value.signer = key
    /\ \A k \in Key : /\ values[k] # None => values[k].signer = key
                      /\ rows[k] # None => rows[k].value.signer = key

SignersOK ==
    Files!Undisturbed({"file", "rotated"}) =>
        /\ file = None => NothingSigned
        /\ Held => SignedWith(file.key)
        /\ ident # None => SignedWith(ident.key)

\* A start hands the file's key on to the process, or the process's to the file.
LEMMA StartKeeps ==
  ASSUME FilesInv, SignersOK, Starts
  PROVE  SignersOK'
<1>1. UNCHANGED <<values, rows, answer>>
  BY DEF Starts, storeVars
<1>2. \A key : SignedWith(key)' <=> SignedWith(key)
  BY <1>1 DEF SignedWith
<1>3. NothingSigned' <=> NothingSigned
  BY <1>1 DEF NothingSigned
<1>4. NothingSigned => \A key : SignedWith(key)
  BY DEF NothingSigned, SignedWith
<1>5. UNCHANGED upset
  BY DEF Starts, Files!Create, Files!Load, Files!Truncate, Files!Fill, Files!history
<1> SUFFICES ASSUME Files!Undisturbed({"file", "rotated"})
             PROVE  /\ file' = None => NothingSigned
                    /\ Held' => SignedWith(file'.key)
                    /\ ident' # None => SignedWith(ident'.key)
  BY <1>2, <1>3, <1>5 DEF SignersOK, Files!Undisturbed
<1>6. /\ file = None => NothingSigned
      /\ Held => SignedWith(file.key)
      /\ ident # None => SignedWith(ident.key)
  BY DEF SignersOK
<1>7. ASSUME NEW a \in AgentId, Files!Create(a)
      PROVE  NothingSigned
  BY <1>6, <1>7 DEF Files!Create, Files!Absent
<1>8. ASSUME NEW a \in AgentId, Files!Load(a)
      PROVE  Held /\ file' = file /\ ident'.key = file.key
  BY <1>8 DEF Files!Load, Files!Absent, Files!disk, Held
<1>9. ASSUME Files!Truncate
      PROVE  ident' = ident /\ file' \in {file, Torn}
  BY <1>9 DEF Files!Truncate
<1>10. ASSUME Files!Fill
       PROVE  ident # None /\ ident' = ident /\ (file' = file \/ file' = Files!to_record(ident))
  <2>1. ident # None /\ writes # <<>> /\ ident' = ident
        /\ (file' = file \/ (Head(writes).to = "file" /\ file' = Head(writes).data))
    BY <1>10 DEF Files!Fill
  <2>2. Head(writes).to = "file" => Head(writes).data = Files!to_record(ident)
    BY <2>1, FirstWrite
  <2> QED
    BY <2>1, <2>2
<1>11. CASE \E a \in AgentId : Files!Create(a)
  BY <1>4, <1>7, <1>11
<1>12. CASE \E a \in AgentId : Files!Load(a)
  BY <1>6, <1>8, <1>12 DEF Held
<1>13. CASE Files!Truncate
  BY <1>6, <1>9, <1>13, NoneAssumption DEF Held
<1>14. CASE Files!Fill
  <2>1. Files!to_record(ident).key = ident.key /\ Files!to_record(ident) # None
    BY <1>10, <1>14, IdentityFacts DEF FilesInv, Files!TypeOK
  <2> QED
    BY <1>6, <1>10, <1>14, <2>1 DEF Held
<1> QED
  BY <1>11, <1>12, <1>13, <1>14 DEF Starts

\* Work is only done by a process that has the file's key, and adds nothing that
\* is signed with another.
LEMMA WorkKeeps ==
  ASSUME FilesInv, StoreInv, SignersOK, Works
  PROVE  SignersOK'
<1>1. UNCHANGED <<file, ident, upset>> /\ Files!Up /\ ident # None
  BY DEF Works, fileVars, Files!Up
<1> SUFFICES ASSUME Files!Undisturbed({"file", "rotated"})
             PROVE  /\ Held
                    /\ file.key = ident.key
                    /\ SignedWith(ident.key)'
  BY <1>1 DEF SignersOK, Files!Undisturbed, Held, SignedWith
<1>2. Held /\ file.key = ident.key
  BY <1>1 DEF FilesInv, WritesOK, FileAgrees, Files!Undisturbed
<1>3. SignedWith(ident.key)
  BY <1>1 DEF SignersOK
<1>4. ASSUME NEW k \in Key, Store!get(k), NEW j \in Key
      PROVE  /\ values'[j] # None => values'[j].signer = ident.key
             /\ rows'[j] # None => rows'[j].value.signer = ident.key
  <2>1. /\ rows'[j] = Store!LiveRow(j)
        /\ Store!LiveRow(j) # None => rows[j] # None /\ Store!LiveRow(j) = rows[j]
        /\ \/ values'[j] = None
           \/ values'[j] = values[j] /\ values[j] # None
           \/ Store!LiveRow(j) # None /\ values'[j] = rows[j].value
    BY <1>4, GetFacts, RowFacts
  <2> QED
    BY <1>3, <2>1 DEF SignedWith
<1>5. ASSUME NEW k \in Key, Store!Hit(k)
      PROVE  SignedWith(ident.key)'
  <2>1. Store!get(k) /\ values'[k] # None /\ answer' = [key |-> k, value |-> values'[k]]
    BY <1>5 DEF Store!Hit
  <2>2. answer'.value.signer = ident.key
    BY <1>4, <2>1
  <2> QED
    BY <1>1, <1>4, <2>1, <2>2 DEF SignedWith
<1>6. ASSUME NEW k \in Key, Store!Call(k)
      PROVE  SignedWith(ident.key)'
  <2>1. Store!get(k) /\ answer' = answer
    BY <1>6 DEF Store!Call, Store!history
  <2> QED
    BY <1>1, <1>3, <1>4, <2>1 DEF SignedWith
<1>7. ASSUME NEW inserted \in BOOLEAN,
             Store!Put([run |-> runs', signer |-> ident.key], inserted)
      PROVE  SignedWith(ident.key)'
  <2> DEFINE v == [run |-> runs', signer |-> ident.key]
             row == [value |-> v, expires_at |-> now + TTL]
  <2>1. /\ values' = [values EXCEPT ![calling] = v] /\ answer' = answer
        /\ \/ rows' = [rows EXCEPT ![calling] = row]
           \/ rows' = rows
    BY <1>7 DEF Store!Put
  <2>2. /\ values \in [Key -> Signed \cup {None}]
        /\ rows \in [Key -> [value : Signed, expires_at : Nat] \cup {None}]
    BY DEF StoreInv, Store!TypeOK
  <2>3. row.value = v /\ v.signer = ident.key
    OBVIOUS
  <2> HIDE DEF v, row
  <2>4. \A j \in Key : values'[j] \in {v, values[j]} /\ rows'[j] \in {row, rows[j]}
    BY <2>1, <2>2
  <2> QED
    BY <1>1, <1>3, <2>1, <2>3, <2>4 DEF SignedWith
<1>8. ASSUME Store!Raise
      PROVE  SignedWith(ident.key)'
  BY <1>1, <1>3, <1>8 DEF Store!Raise, Store!history, SignedWith
<1>9. SignedWith(ident.key)'
  BY <1>5, <1>6, <1>7, <1>8 DEF Works
<1> QED
  BY <1>2, <1>9

\* The other steps sign nothing and put no key anywhere.
LEMMA OthersKeep ==
  ASSUME SignersOK,
         \/ Announces
         \/ Rotates
         \/ Crashes
         \/ LosesFile
         \/ UNCHANGED <<fileVars, storeVars>>
  PROVE  SignersOK'
<1>1. CASE Rotates
  BY <1>1 DEF Rotates, Files!rotate, SignersOK, Files!Undisturbed
<1>2. CASE Crashes
  <2>1. /\ UNCHANGED <<file, upset, rows, answer>> /\ ident' = None
        /\ \A k \in Key : values'[k] = None
    BY <1>2 DEF Crashes, Files!Crash, Files!disk, Files!history, Store!Crash, Store!history
  <2> QED
    BY <2>1 DEF SignersOK, Files!Undisturbed, Held, SignedWith, NothingSigned
<1>3. CASE LosesFile
  <2>1. /\ UNCHANGED <<ident, values, rows, answer>>
        /\ "file" \in upset' \/ file' = file
        /\ upset \subseteq upset'
    BY <1>3 DEF LosesFile, storeVars, Files!FileLost, Files!RecoveryLost
  <2> QED
    BY <2>1 DEF SignersOK, Files!Undisturbed, Held, SignedWith, NothingSigned
<1>4. CASE Announces \/ UNCHANGED <<fileVars, storeVars>>
  <2>1. UNCHANGED <<file, ident, upset, values, rows, answer>>
    BY <1>4 DEF Announces, Files!Announce, Files!disk, fileVars, storeVars
  <2> QED
    BY <2>1 DEF SignersOK, Files!Undisturbed, Held, SignedWith, NothingSigned
<1> QED
  BY <1>1, <1>2, <1>3, <1>4

-----------------------------------------------------------------------------
(* All of it *)

IInv == FilesInv /\ StoreInv /\ SignersOK /\ runs \in 0..MaxRuns

\* What a returning call signs.
LEMMA SignedResult ==
  ASSUME FilesInv, Files!Up, NEW r \in 1..MaxRuns
  PROVE  [run |-> r, signer |-> ident.key] \in Signed
BY DEF FilesInv, Files!TypeOK, Files!Up, Files!Identity, Signed

LEMMA WorkStore == ASSUME IInv, Works PROVE StoreInv' /\ runs' \in 0..MaxRuns
<1>1. CASE \E k \in Key : (Store!Hit(k) \/ Store!Call(k)) /\ UNCHANGED runs
  BY <1>1, HitStore, CallStore DEF IInv
<1>2. CASE /\ runs < MaxRuns
           /\ runs' = runs + 1
           /\ \E inserted \in BOOLEAN :
                Store!Put([run |-> runs', signer |-> ident.key], inserted)
  <2>1. runs' \in 1..MaxRuns
    BY <1>2, BoundAssumption DEF IInv
  <2>2. [run |-> runs', signer |-> ident.key] \in Signed
    BY <2>1, SignedResult DEF IInv, Works
  <2>3. StoreInv'
    BY <1>2, <2>2, PutStore DEF IInv
  <2> QED
    BY <2>1, <2>3
<1>3. CASE Store!Raise /\ UNCHANGED runs
  BY <1>3, OtherStore DEF IInv
<1> QED
  BY <1>1, <1>2, <1>3 DEF Works

LEMMA InitIInv == Init => IInv
<1> SUFFICES ASSUME Init PROVE IInv
  OBVIOUS
<1>1. FilesInv /\ StoreInv /\ runs \in 0..MaxRuns
  BY InitFiles, InitStore, BoundAssumption DEF Init
<1>2. SignersOK
  BY DEF Init, Store!Init, SignersOK, SignedWith, NothingSigned
<1> QED
  BY <1>1, <1>2 DEF IInv

LEMMA NextIInv == IInv /\ [Next]_vars => IInv'
<1> SUFFICES ASSUME IInv, [Next]_vars PROVE IInv'
  OBVIOUS
<1>0. FilesInv /\ StoreInv /\ SignersOK /\ runs \in 0..MaxRuns
  BY DEF IInv
<1>1. CASE Starts
  <2>1. FilesInv'
    BY <1>0, <1>1, CreateFiles, LoadFiles, TruncateFiles, FillFiles DEF Starts
  <2>2. StoreInv' /\ runs' = runs
    BY <1>0, <1>1, OtherStore DEF Starts, storeVars
  <2> QED
    BY <1>0, <1>1, <2>1, <2>2, StartKeeps DEF IInv
<1>2. CASE Announces
  <2>1. StoreInv' /\ runs' = runs
    BY <1>0, <1>2, OtherStore DEF Announces, storeVars
  <2> QED
    BY <1>0, <1>2, <2>1, AnnounceFiles, OthersKeep DEF IInv, Announces
<1>3. CASE Rotates
  <2>1. StoreInv' /\ runs' = runs
    BY <1>0, <1>3, OtherStore DEF Rotates, storeVars
  <2> QED
    BY <1>0, <1>3, <2>1, RotateFiles, OthersKeep DEF IInv, Rotates
<1>4. CASE Works
  <2>1. FilesInv'
    BY <1>0, <1>4, KeepFiles DEF Works
  <2> QED
    BY <1>0, <1>4, <2>1, WorkStore, WorkKeeps DEF IInv
<1>5. CASE Crashes
  <2>1. FilesInv' /\ StoreInv' /\ runs' = runs
    BY <1>0, <1>5, CrashFiles, OtherStore DEF Crashes
  <2> QED
    BY <1>0, <1>5, <2>1, OthersKeep DEF IInv
<1>6. CASE LosesFile
  <2>1. StoreInv' /\ runs' = runs
    BY <1>0, <1>6, OtherStore DEF LosesFile, storeVars
  <2> QED
    BY <1>0, <1>6, <2>1, LossFiles, OthersKeep DEF IInv, LosesFile
<1>7. CASE Tick
  <2>1. UNCHANGED <<fileVars, storeVars>> /\ now' = now + 1 /\ runs' = runs
    BY <1>7 DEF Tick, storeVars
  <2> QED
    BY <1>0, <2>1, KeepFiles, TickStore, OthersKeep DEF IInv
<1>8. CASE UNCHANGED vars
  <2>1. UNCHANGED <<fileVars, storeVars>> /\ UNCHANGED <<storeVars, now>> /\ runs' = runs
    BY <1>8 DEF vars, storeVars
  <2> QED
    BY <1>0, <2>1, KeepFiles, OtherStore, OthersKeep DEF IInv
<1> QED
  BY <1>1, <1>2, <1>3, <1>4, <1>5, <1>6, <1>7, <1>8 DEF Next

LEMMA Invariant == Spec => []IInv
<1> QED
  BY InitIInv, NextIInv, PTL DEF Spec

-----------------------------------------------------------------------------
(* The theorems *)

\* Files, process, dicts and table keep their types.
THEOREM TypeCorrect == Spec => []TypeOK
<1>1. IInv => TypeOK
  BY DEF IInv, FilesInv, StoreInv, TypeOK
<1> QED
  BY <1>1, Invariant, PTL

\* Whoever keeps the identity file is announced under one id and one operational
\* key, and whoever keeps both files under one recovery key, wherever starts,
\* migrations and rotations of load_or_create were cut off.
THEOREM AgentStaysItself == Spec => []IdentityIsKept
<1>1. IInv => IdentityIsKept
  BY DEF IInv, FilesInv, IdentityIsKept
<1> QED
  BY <1>1, Invariant, PTL

\* No crash between or within the two writes of load_or_create loses a key that
\* was announced.
THEOREM AnnouncedKeysAreOnDisk == Spec => []EnrolledKeysAreOnDisk
<1>1. IInv => EnrolledKeysAreOnDisk
  BY EnrolledFromFiles DEF IInv, EnrolledKeysAreOnDisk
<1> QED
  BY <1>1, Invariant, PTL

\* What a later process replays from the table bears the signature of the key it
\* loaded.
THEOREM ReplaysVerify == Spec => []ReplayStillVerifies
<1>1. IInv => ReplayStillVerifies
  BY DEF IInv, SignersOK, SignedWith, ReplayStillVerifies, Files!Up
<1> QED
  BY <1>1, Invariant, PTL

\* fn is called again for a key only when no result of it that reached the table
\* is within its TTL: run looks in dict and table before each call, in every process.
THEOREM KeptResultsAreNotRerun == Spec => KeptResultIsNotRerun
<1>1. ASSUME IInv, [Next]_vars
      PROVE  [\A k \in Key : calling' = k /\ calling # k =>
                 kept[k] = None \/ kept[k] + TTL <= now]_<<Store!store, now, Store!history>>
  <2> SUFFICES ASSUME NEW k \in Key, calling' = k, calling # k
               PROVE  kept[k] = None \/ kept[k] + TTL <= now
    OBVIOUS
  <2>1. k # None
    BY ResultFacts
  <2>2. Store!Call(k)
    <3>1. CASE Works
      BY <2>1, <3>1 DEF Works, Store!Hit, Store!Call, Store!Put, Store!Raise
    <3>2. CASE Crashes
      BY <2>1, <3>2 DEF Crashes, Store!Crash
    <3>3. CASE UNCHANGED storeVars
      BY <3>3 DEF storeVars
    <3> QED
      BY <1>1, <3>1, <3>2, <3>3
      DEF Next, Starts, Announces, Rotates, LosesFile, Tick, vars
  <2>3. Store!LiveRow(k) = None
    BY <1>1, <2>2, GetFacts DEF IInv, Store!Call
  <2>4. rows[k] = None \/ (rows[k].expires_at <= now /\ rows[k].expires_at \in Nat)
    BY <1>1, <2>3, RowFacts DEF IInv
  <2>5. kept[k] # None =>
          \/ kept[k] + TTL <= now
          \/ rows[k] # None /\ rows[k].expires_at >= kept[k] + TTL
    BY <1>1 DEF IInv, StoreInv, KeptOK
  <2>6. kept[k] \in Nat \cup {None} /\ now \in Nat /\ TTL \in Nat
    BY <1>1, BoundAssumption DEF IInv, StoreInv, Store!TypeOK
  <2> QED
    BY <2>4, <2>5, <2>6
<1> QED
  BY <1>1, Invariant, PTL DEF Spec, KeptResultIsNotRerun, Store!KeptResultIsNotRerun

\* A caller that run answers without calling fn gets the last result of its key; one
\* past its TTL only from a process that has read it back from the table.
THEOREM AnswersAreLastResults == Spec => AnswerIsLastResult
<1>1. ASSUME IInv, [Next]_vars
      PROVE  [answer' # answer =>
                 /\ last[answer'.key] # None /\ answer'.value = last[answer'.key].value
                 /\ now < last[answer'.key].at + TTL \/ answer'.key \in Store!ReadBack
             ]_<<Store!store, now, Store!history>>
  <2> SUFFICES ASSUME answer' # answer
               PROVE  /\ last[answer'.key] # None /\ answer'.value = last[answer'.key].value
                      /\ now < last[answer'.key].at + TTL \/ answer'.key \in Store!ReadBack
    OBVIOUS
  <2>1. PICK k \in Key : Store!Hit(k)
    <3>1. CASE Works
      BY <3>1 DEF Works, Store!Hit, Store!Call, Store!Put, Store!Raise, Store!history
    <3>2. CASE Crashes
      BY <3>2 DEF Crashes, Store!Crash, Store!history
    <3>3. CASE UNCHANGED storeVars
      BY <3>3 DEF storeVars
    <3> QED
      BY <1>1, <3>1, <3>2, <3>3
      DEF Next, Starts, Announces, Rotates, LosesFile, Tick, vars
  <2>2. /\ Store!get(k) /\ values'[k] # None
        /\ answer'.key = k /\ answer'.value = values'[k]
    BY <2>1 DEF Store!Hit
  <2>3. StoreInv
    BY <1>1 DEF IInv
  <2>4. /\ values[k] # None => last[k] # None /\ values[k] = last[k].value
        /\ expires[k] # None => expires[k] = last[k].at + TTL
        /\ rows[k] # None =>
             /\ last[k] # None
             /\ rows[k].value = last[k].value /\ rows[k].expires_at = last[k].at + TTL
    BY <2>3 DEF StoreInv, LastOK
  <2>5. \/ values'[k] = values[k] /\ values[k] # None /\ ~Store!Overdue(k)
        \/ Store!LiveRow(k) # None /\ values'[k] = rows[k].value
    BY <2>2, <2>3, GetFacts
  <2>6. CASE values'[k] = values[k] /\ values[k] # None /\ ~Store!Overdue(k)
    <3>1. expires[k] = None \/ now < last[k].at + TTL
      <4>1. expires[k] \in Nat \cup {None} /\ now \in Nat
        BY <2>3 DEF StoreInv, Store!TypeOK
      <4> QED
        BY <2>4, <2>6, <4>1 DEF Store!Overdue
    <3> QED
      BY <2>2, <2>4, <2>6, <3>1 DEF Store!ReadBack
  <2>7. CASE Store!LiveRow(k) # None /\ values'[k] = rows[k].value
    <3>1. rows[k] # None /\ rows[k].expires_at > now /\ rows[k].expires_at \in Nat /\ now \in Nat
      BY <2>3, <2>7, RowFacts DEF StoreInv
    <3> QED
      BY <2>2, <2>4, <2>7, <3>1
  <2> QED
    BY <2>5, <2>6, <2>7
<1>2. AnswerIsLastResult <=>
        [][answer' # answer =>
             /\ last[answer'.key] # None /\ answer'.value = last[answer'.key].value
             /\ now < last[answer'.key].at + TTL \/ answer'.key \in Store!ReadBack
          ]_<<Store!store, now, Store!history>>
  BY DEF AnswerIsLastResult, Store!AnswerIsLastResult
<1> QED
  BY <1>1, <1>2, Invariant, PTL DEF Spec
=============================================================================
