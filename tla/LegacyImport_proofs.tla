------------------------ MODULE LegacyImport_proofs ------------------------
(***************************************************************************)
(* The safety of the import for any importers, paths, contents and names.  *)
(* The invariant says what an importer may rely on while it holds the      *)
(* lock: nobody else is importing, and nothing has been imported; and that *)
(* the memory of the plugin holds no group that the record does not cover. *)
(***************************************************************************)
EXTENDS LegacyImport, TLAPS

Importing == {"plan", "backup", "insert"}

Exclusive == \A i \in Importers : run[i].pc \in Importing => lock = i /\ record = Absent

Planned ==
  \A i \in Importers :
    /\ run[i].pc \in {"backup", "insert"} => run[i].plan \in Contents
    /\ run[i].pc = "insert" => run[i].plan \in backups

MemoryCovered == \A n \in Names : memory[n] \in Contents => memory[n] = record

EditsRemembered == \A n \in Names : groups[n] = Edited => memory[n] = Edited

Inv ==
  /\ TypeOK
  /\ Exclusive
  /\ Planned
  /\ RecordBackedUp
  /\ NoOrphans
  /\ MemoryCovered
  /\ EditsRemembered

USE ImportAssumption

(* No content is one of the marks for there being none. *)
LEMMA Marks == Absent \notin Contents /\ Invalid \notin Contents /\ Edited \notin Contents
  BY DEF Absent, Invalid, Edited

LEMMA InitInv == Init => Inv
  <1>. SUFFICES ASSUME Init PROVE Inv
    OBVIOUS
  <1>1. TypeOK
    BY DEF Init, TypeOK, Nothing, Stored
  <1>2. Exclusive /\ Planned
    BY DEF Init, Exclusive, Planned, Stopped, Importing
  <1>3. RecordBackedUp /\ NoOrphans /\ MemoryCovered
    BY Marks DEF Init, RecordBackedUp, NoOrphans, MemoryCovered, Nothing
  <1>4. EditsRemembered
    BY DEF Init, EditsRemembered, Nothing
  <1>5. QED
    BY <1>1, <1>2, <1>3, <1>4 DEF Inv

(* An importer that ends leaves all but the lock as it was. *)
LEMMA FailInv ==
  ASSUME Inv, NEW i \in Importers, Fail(i)
  PROVE  Inv'
  <1>1. TypeOK'
    BY DEF Inv, Fail, TypeOK, databaseVars
  <1>2. Exclusive' /\ Planned'
    <2>1. \A j \in Importers : run'[j] = IF j = i THEN Stopped ELSE run[j]
      BY DEF Inv, TypeOK, Fail
    <2>2. \A j \in Importers \ {i} : run[j].pc \in Importing => lock' = j
      BY DEF Inv, Exclusive, Fail
    <2>3. QED
      BY <2>1, <2>2 DEF Inv, Exclusive, Planned, Fail, Stopped, Importing, databaseVars
  <1>3. RecordBackedUp' /\ NoOrphans' /\ MemoryCovered' /\ EditsRemembered'
    BY DEF Inv, RecordBackedUp, NoOrphans, MemoryCovered, EditsRemembered, Fail, databaseVars
  <1>4. QED
    BY <1>1, <1>2, <1>3 DEF Inv

(* A step of i that leaves tables, backups and memory alone keeps what is  *)
(* said of them.                                                           *)
LEMMA TablesKept ==
  ASSUME Inv, UNCHANGED <<backups, record, groups, memory>>
  PROVE  RecordBackedUp' /\ NoOrphans' /\ MemoryCovered' /\ EditsRemembered'
  BY DEF Inv, RecordBackedUp, NoOrphans, MemoryCovered, EditsRemembered

LEMMA StartInv ==
  ASSUME Inv, NEW i \in Importers, Start(i)
  PROVE  Inv'
  <1>. PICK path \in Paths \cup {Absent} :
         run' = [run EXCEPT ![i] = [pc |-> "open", path |-> path, plan |-> Absent]]
    BY DEF Start
  <1>1. TypeOK'
    BY DEF Inv, Start, TypeOK, databaseVars, Run
  <1>2. Exclusive' /\ Planned'
    BY DEF Inv, TypeOK, Exclusive, Planned, Start, Importing, databaseVars
  <1>3. QED
    BY <1>1, <1>2, TablesKept DEF Inv, Start, databaseVars

(* Importer i has come to pc, with the plan it had; the others stay.       *)
Advances(i, pc) ==
  /\ run' \in [Importers -> Run \cup {Stopped}]
  /\ run'[i].pc = pc
  /\ run'[i].plan = run[i].plan
  /\ \A j \in Importers \ {i} : run'[j] = run[j]

LEMMA GotoAdvances ==
  ASSUME Inv, NEW i \in Importers, run[i] # Stopped,
         NEW pc \in {"open", "check", "plan", "backup", "insert", "publish", "serve"},
         Goto(i, pc)
  PROVE  Advances(i, pc)
  <1>1. run[i] \in Run /\ run \in [Importers -> Run \cup {Stopped}]
    BY DEF Inv, TypeOK
  <1>2. [run[i] EXCEPT !.pc = pc] \in Run
    BY <1>1 DEF Run
  <1>3. run' = [run EXCEPT ![i] = [run[i] EXCEPT !.pc = pc]]
    BY <1>1 DEF Goto
  <1>4. QED
    BY <1>1, <1>2, <1>3 DEF Advances, Run

LEMMA OpenInv ==
  ASSUME Inv, NEW i \in Importers, Open(i)
  PROVE  Inv'
  <1>1. run[i] # Stopped /\ run[i] \in Run
    BY DEF Inv, TypeOK, Open, Stopped
  <1>2. Advances(i, "check") \/ Advances(i, "publish")
    <2>1. CASE i # Plugin
      BY <1>1, <2>1, GotoAdvances DEF Open
    <2>2. CASE i = Plugin /\ Found = {}
      BY <1>1, <2>2, GotoAdvances DEF Open
    <2>3. CASE i = Plugin /\ Found # {}
      <3>1. PICK p \in Paths : run' = [run EXCEPT ![i].pc = "check", ![i].path = p]
        BY <2>3 DEF Open, Found
      <3>2. [run[i] EXCEPT !.pc = "check", !.path = p] \in Run
        BY <1>1 DEF Run
      <3>3. run' = [run EXCEPT ![i] = [run[i] EXCEPT !.pc = "check", !.path = p]]
        BY <3>1, <1>1 DEF Inv, TypeOK
      <3>4. QED
        BY <1>1, <3>2, <3>3 DEF Inv, TypeOK, Advances, Run
    <2>4. QED
      BY <2>1, <2>2, <2>3
  <1>3. TypeOK'
    BY <1>2 DEF Inv, Open, TypeOK, Advances
  <1>4. Exclusive' /\ Planned'
    BY <1>2 DEF Inv, Exclusive, Planned, Open, Importing, Advances
  <1>5. QED
    BY <1>3, <1>4, TablesKept DEF Inv, Open

LEMMA CheckInv ==
  ASSUME Inv, NEW i \in Importers, Check(i)
  PROVE  Inv'
  <1>1. run[i] # Stopped
    BY DEF Check, Stopped
  <1>2. \/ Advances(i, "publish") /\ UNCHANGED lock
        \/ Advances(i, "plan") /\ lock' = i /\ record = Absent
    BY <1>1, GotoAdvances DEF Check
  <1>3. TypeOK'
    BY <1>2 DEF Inv, Check, TypeOK, Advances, databaseVars
  \* The lock was free, so nobody was importing.
  <1>4. \A j \in Importers : run[j].pc \notin Importing
    BY DEF Inv, Exclusive, Check, Nobody
  <1>5. Exclusive' /\ Planned'
    BY <1>2, <1>4 DEF Exclusive, Planned, Check, Importing, Advances, databaseVars
  <1>6. QED
    BY <1>3, <1>5, TablesKept DEF Inv, Check, databaseVars

(* Who is importing holds the lock, and so is alone with it. *)
LEMMA Alone ==
  ASSUME Inv, NEW i \in Importers, run[i].pc \in Importing
  PROVE  /\ lock = i /\ record = Absent
         /\ \A j \in Importers \ {i} : run[j].pc \notin Importing
  BY DEF Inv, Exclusive

LEMMA PlanInv ==
  ASSUME Inv, NEW i \in Importers, Plan(i)
  PROVE  Inv'
  <1>1. CASE Fail(i)
    BY <1>1, FailInv
  <1>2. CASE source[run[i].path] \in Contents
    <2> DEFINE read == [run[i] EXCEPT !.pc = "backup", !.plan = source[run[i].path]]
    <2>1. run[i] \in Run /\ run[i].pc \in Importing
      BY DEF Inv, TypeOK, Plan, Stopped, Importing
    <2>2. run' = [run EXCEPT ![i] = read]
      BY <1>2 DEF Plan, Inv, TypeOK
    <2>3. read \in Run /\ read.pc = "backup" /\ read.plan \in Contents
      BY <1>2, <2>1 DEF Run
    <2>4. TypeOK'
      BY <1>2, <2>2, <2>3 DEF Plan, Inv, TypeOK, databaseVars
    <2>5. Exclusive' /\ Planned'
      <3>1. \A j \in Importers : run'[j] = IF j = i THEN read ELSE run[j]
        BY <2>2 DEF Inv, TypeOK
      <3>2. QED
        BY <1>2, <2>1, <2>3, <3>1, Alone
        DEF Inv, Exclusive, Planned, Plan, Importing, databaseVars
    <2>6. QED
      BY <1>2, <2>4, <2>5, TablesKept DEF Inv, Plan, databaseVars
  <1>3. QED
    BY <1>1, <1>2 DEF Plan

LEMMA BackupInv ==
  ASSUME Inv, NEW i \in Importers, Backup(i)
  PROVE  Inv'
  <1>1. CASE Fail(i)
    BY <1>1, FailInv
  <1>2. CASE ~Fail(i)
    <2>1. run[i] # Stopped /\ run[i].pc \in Importing /\ run[i].plan \in Contents
      BY DEF Inv, Planned, Backup, Stopped, Importing
    <2>2. Advances(i, "insert") /\ backups' = backups \cup {run[i].plan}
      BY <1>2, <2>1, GotoAdvances DEF Backup
    <2>3. UNCHANGED <<source, databaseVars, lock, memory>>
      BY <1>2 DEF Backup
    <2>4. TypeOK'
      BY <2>1, <2>2, <2>3 DEF Inv, TypeOK, Advances, databaseVars
    <2>5. Exclusive' /\ Planned'
      BY <2>1, <2>2, <2>3, Alone DEF Inv, Exclusive, Planned, Importing, Advances, databaseVars
    <2>6. RecordBackedUp' /\ NoOrphans' /\ MemoryCovered' /\ EditsRemembered'
      BY <2>2, <2>3 DEF Inv, RecordBackedUp, NoOrphans, MemoryCovered, EditsRemembered, databaseVars
    <2>7. QED
      BY <2>4, <2>5, <2>6 DEF Inv
  <1>3. QED
    BY <1>1, <1>2

(* What a successful insertion changes. *)
Inserts(i) ==
  /\ run[i].plan \in Contents \cap backups
  /\ record = Absent
  /\ record' = run[i].plan
  /\ \A n \in NamesIn[run[i].plan] : groups[n] = Absent
  /\ groups' = Inserted(run[i].plan)
  /\ Advances(i, "publish")
  /\ lock' = Nobody
  /\ UNCHANGED <<source, backups, schema, memory>>

LEMMA InsertInserts ==
  ASSUME Inv, NEW i \in Importers, Insert(i), ~Fail(i)
  PROVE  Inserts(i) /\ \A j \in Importers \ {i} : run[j].pc \notin Importing
  <1>1. run[i] # Stopped /\ run[i].pc \in Importing /\ run[i].plan \in Contents \cap backups
    BY DEF Inv, Planned, Insert, Stopped, Importing
  <1>2. QED
    BY <1>1, GotoAdvances, Alone DEF Insert, Inserts

LEMMA InsertInv ==
  ASSUME Inv, NEW i \in Importers, Insert(i)
  PROVE  Inv'
  <1>1. CASE Fail(i)
    BY <1>1, FailInv
  <1>2. CASE ~Fail(i)
    <2>1. Inserts(i) /\ \A j \in Importers \ {i} : run[j].pc \notin Importing
      BY <1>2, InsertInserts
    <2>2. groups' \in Stored
      BY <2>1 DEF Inv, TypeOK, Inserts, Inserted, Stored
    <2>3. TypeOK'
      BY <2>1, <2>2 DEF Inv, TypeOK, Inserts, Advances
    <2>4. Exclusive' /\ Planned'
      BY <2>1 DEF Exclusive, Planned, Inserts, Advances, Importing
    \* Without a record there was no group or memory of a legacy file.
    <2>5. \A n \in Names : groups[n] \notin Contents /\ memory[n] \notin Contents
      BY <2>1, Marks DEF Inv, NoOrphans, MemoryCovered, Inserts
    <2>6. RecordBackedUp' /\ NoOrphans' /\ MemoryCovered'
      BY <2>1, <2>5 DEF RecordBackedUp, NoOrphans, MemoryCovered, Inserts, Inserted
    <2>7. EditsRemembered'
      BY <2>1, Marks DEF Inv, EditsRemembered, Inserts, Inserted
    <2>8. QED
      BY <2>3, <2>4, <2>6, <2>7 DEF Inv
  <1>3. QED
    BY <1>1, <1>2

LEMMA PublishInv ==
  ASSUME Inv, NEW i \in Importers, Publish(i)
  PROVE  Inv'
  <1>1. run[i] # Stopped
    BY DEF Publish, Stopped
  <1>2. CASE i = Plugin
    <2>1. Advances(i, "serve") /\ memory' = groups
      BY <1>1, <1>2, GotoAdvances DEF Publish
    <2>2. TypeOK' /\ Exclusive' /\ Planned'
      BY <2>1 DEF Inv, TypeOK, Exclusive, Planned, Publish, Importing, Advances, databaseVars
    <2>3. QED
      BY <2>1, <2>2 DEF Inv, Publish, RecordBackedUp, NoOrphans, MemoryCovered, EditsRemembered,
                        databaseVars
  <1>3. CASE i # Plugin
    <2>1. run' = [run EXCEPT ![i] = Stopped] /\ UNCHANGED memory
      BY <1>3 DEF Publish
    <2>2. TypeOK'
      BY <2>1 DEF Inv, TypeOK, Publish, databaseVars
    <2>3. Exclusive' /\ Planned'
      BY <2>1 DEF Inv, TypeOK, Exclusive, Planned, Publish, Stopped, Importing, databaseVars
    <2>4. QED
      BY <2>1, <2>2, <2>3, TablesKept DEF Inv, Publish, databaseVars
  <1>4. QED
    BY <1>2, <1>3

LEMMA EditInv ==
  ASSUME Inv, NEW n \in Names, Edit(n)
  PROVE  Inv'
  <1>1. PICK value \in {Edited, Absent} : memory' = [memory EXCEPT ![n] = value]
    BY DEF Edit
  <1>2. TypeOK'
    BY <1>1 DEF Inv, TypeOK, Edit, Stored
  <1>3. Exclusive' /\ Planned' /\ RecordBackedUp'
    BY DEF Inv, Exclusive, Planned, RecordBackedUp, Edit
  <1>4. MemoryCovered'
    BY <1>1, Marks DEF Inv, TypeOK, Stored, MemoryCovered, Edit
  <1>5. NoOrphans' /\ EditsRemembered'
    BY <1>4 DEF MemoryCovered, NoOrphans, EditsRemembered, Edit
  <1>6. QED
    BY <1>2, <1>3, <1>4, <1>5 DEF Inv

LEMMA ChangeSourceInv ==
  ASSUME Inv, NEW p \in Paths, ChangeSource(p)
  PROVE  Inv'
  <1>1. TypeOK' /\ Exclusive' /\ Planned'
    BY DEF Inv, TypeOK, Exclusive, Planned, ChangeSource, databaseVars
  <1>2. QED
    BY <1>1, TablesKept DEF Inv, ChangeSource, databaseVars

LEMMA NextInv == Inv /\ [Next]_importVars => Inv'
  <1>. SUFFICES ASSUME Inv, [Next]_importVars PROVE Inv'
    OBVIOUS
  <1>1. ASSUME NEW i \in Importers, Start(i) PROVE Inv'
    BY <1>1, StartInv
  <1>2. ASSUME NEW i \in Importers, Step(i) PROVE Inv'
    BY <1>2, OpenInv, CheckInv, FailInv, PlanInv, BackupInv, InsertInv, PublishInv
    DEF Step, LockTimeout
  <1>3. ASSUME NEW i \in Importers, Crash(i) PROVE Inv'
    BY <1>3, FailInv DEF Crash
  <1>4. ASSUME NEW n \in Names, Edit(n) PROVE Inv'
    BY <1>4, EditInv
  <1>5. ASSUME NEW p \in Paths, ChangeSource(p) PROVE Inv'
    BY <1>5, ChangeSourceInv
  <1>6. CASE UNCHANGED importVars
    BY <1>6 DEF importVars, Inv, TypeOK, Exclusive, Planned, RecordBackedUp, NoOrphans,
                MemoryCovered, EditsRemembered
  <1>7. QED
    BY <1>1, <1>2, <1>3, <1>4, <1>5, <1>6 DEF Next

LEMMA AlwaysInv == Spec => []Inv
  BY InitInv, NextInv, PTL DEF Spec

(* The variables keep their types: the lock of BEGIN IMMEDIATE has at most *)
(* one holder, each importer is at a step of import_legacy_custom_groups.  *)
THEOREM TypeCorrect == Spec => []TypeOK
  <1>1. Inv => TypeOK
    BY DEF Inv
  <1>2. QED
    BY <1>1, AlwaysInv, PTL

(* A record of an import always has the backup of what was imported        *)
(* (create_legacy_backup before the transaction that inserts).             *)
THEOREM BackedUp == Spec => []RecordBackedUp
  BY AlwaysInv, PTL DEF Inv

(* No group of a legacy file is in the database but by the import that is  *)
(* recorded: import_legacy_custom_groups does all or nothing.              *)
THEOREM Whole == Spec => []NoOrphans
  BY AlwaysInv, PTL DEF Inv

(* Which steps touch the record or a group, and how. *)
LEMMA StepEffects ==
  ASSUME Inv, [Next]_importVars
  PROVE  \/ UNCHANGED <<record, groups>>
         \/ \E i \in Importers : Inserts(i)
         \/ UNCHANGED record /\ \E n \in Names : Edit(n)
  <1>1. ASSUME NEW i \in Importers, Insert(i) PROVE Inserts(i) \/ UNCHANGED <<record, groups>>
    BY <1>1, InsertInserts DEF Fail, databaseVars
  <1>2. ASSUME NEW i \in Importers, Step(i)
        PROVE  Inserts(i) \/ UNCHANGED <<record, groups>>
    BY <1>1, <1>2 DEF Step, Open, Check, LockTimeout, Plan, Backup, Publish, Fail, databaseVars
  <1>3. ASSUME NEW i \in Importers, Start(i) \/ Crash(i) PROVE UNCHANGED <<record, groups>>
    BY <1>3 DEF Start, Crash, Fail, databaseVars
  <1>4. ASSUME NEW n \in Names, Edit(n) PROVE UNCHANGED record
    BY <1>4 DEF Edit
  <1>5. ASSUME NEW p \in Paths, ChangeSource(p) PROVE UNCHANGED <<record, groups>>
    BY <1>5 DEF ChangeSource, databaseVars
  <1>6. QED
    BY <1>2, <1>3, <1>4, <1>5 DEF Next, importVars

(* After one import there is never another, whoever starts one, and from   *)
(* whatever file: the record is looked for under the write lock.           *)
THEOREM Once == Spec => ImportedOnce
  <1>1. Inv /\ [Next]_importVars => (record # Absent => record' = record)
    BY StepEffects DEF Inserts
  <1>2. QED
    BY <1>1, AlwaysInv, PTL DEF Spec, ImportedOnce, importVars

(* No import replaces a group that an administrator has edited, and no     *)
(* commit of the running plugin brings back what a file once said of it.   *)
THEOREM EditsKept == Spec => EditsSurviveImport
  <1>1. ASSUME Inv, [Next]_importVars, NEW n \in Names, groups[n] = Edited
        PROVE  groups'[n] \in {Edited, Absent}
    <2>1. CASE UNCHANGED <<record, groups>>
      BY <1>1, <2>1
    <2>2. ASSUME NEW i \in Importers, Inserts(i) PROVE groups'[n] = Edited
      BY <1>1, <2>2 DEF Inserts, Inserted, Edited, Absent
    <2>3. ASSUME NEW m \in Names, Edit(m) PROVE groups'[n] \in {Edited, Absent}
      BY <1>1, <2>3 DEF Edit, Inv, TypeOK, Stored, EditsRemembered
    <2>4. QED
      BY <1>1, <2>1, <2>2, <2>3, StepEffects
  <1>2. Inv /\ [Next]_importVars
          => (\A n \in Names : groups[n] = Edited => groups'[n] \in {Edited, Absent})
    BY <1>1
  <1>3. QED
    BY <1>2, AlwaysInv, PTL DEF Spec, EditsSurviveImport, importVars
=============================================================================
