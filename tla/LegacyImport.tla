---------------------------- MODULE LegacyImport ----------------------------
(***************************************************************************)
(* The one-time import of custom_groups.json into command_catalog.db.  The *)
(* plugin tries it at each start, an operator may run the CLI against the  *)
(* same database, before, after or while the plugin runs.  An importer     *)
(* takes SQLite's write lock, looks for a record of an earlier import,     *)
(* reads and validates the source, writes a backup beside it, inserts the  *)
(* groups with the record and commits.  Processes die and files change     *)
(* between any two of these steps.                                         *)
(*                                                                         *)
(* A content is what a valid file says; the groups it names are what the   *)
(* database may already hold.  A group in the database is known by the     *)
(* content it came from, or as edited by an administrator.                 *)
(***************************************************************************)
EXTENDS FiniteSets

CONSTANTS
  Importers, Plugin,   \* the plugin is one importer, the others are CLI runs
  Paths, Preferred,    \* the plugin takes the preferred path if there is a file
  Contents,            \* of valid files
  Names, NamesIn       \* the groups of each content

Absent == "absent"
Invalid == "invalid"
Edited == "edited"
Nobody == "nobody"

ASSUME ImportAssumption ==
  /\ Plugin \in Importers /\ Nobody \notin Importers
  /\ Preferred \in Paths
  /\ NamesIn \in [Contents -> SUBSET Names]
  /\ Contents \cap {Absent, Invalid, Edited} = {}

VARIABLES
  source,    \* the file at each path
  backups,   \* contents of the backup files
  schema,    \* the tables exist
  record,    \* legacy_imports: the content imported, or Absent
  groups,    \* custom_groups: where each came from, or Absent
  lock,      \* who holds SQLite's write lock
  run,       \* the importers
  memory     \* what the plugin took from the database when it started

importVars == <<source, backups, schema, record, groups, lock, run, memory>>

File == Contents \cup {Absent, Invalid}
Stored == [Names -> Contents \cup {Edited, Absent}]

(* pc: what the importer does next; path, plan: what it has chosen, read.  *)
Run == [pc : {"open", "check", "plan", "backup", "insert", "publish", "serve"},
        path : Paths \cup {Absent}, plan : Contents \cup {Absent}]
Stopped == [pc |-> "stopped", path |-> Absent, plan |-> Absent]

TypeOK ==
  /\ source \in [Paths -> File]
  /\ backups \in SUBSET Contents
  /\ schema \in BOOLEAN
  /\ record \in Contents \cup {Absent}
  /\ groups \in Stored
  /\ lock \in Importers \cup {Nobody}
  /\ run \in [Importers -> Run \cup {Stopped}]
  /\ memory \in Stored

Nothing == [n \in Names |-> Absent]

Init ==
  /\ source \in [Paths -> File]
  /\ backups = {}
  /\ schema = FALSE
  /\ record = Absent
  /\ groups = Nothing
  /\ lock = Nobody
  /\ run = [i \in Importers |-> Stopped]
  /\ memory = Nothing

databaseVars == <<schema, record, groups>>

-----------------------------------------------------------------------------
Goto(i, pc) == run' = [run EXCEPT ![i].pc = pc]

(* Fault: the transaction is left open. *)
FailHolding(i) ==
  /\ run' = [run EXCEPT ![i] = Stopped]
  /\ UNCHANGED <<source, backups, databaseVars, lock, memory>>

(* An exception ends the importer: the transaction is rolled back.  A      *)
(* plugin that cannot import does not start.                               *)
Fail(i) ==
  /\ run' = [run EXCEPT ![i] = Stopped]
  /\ lock' = IF lock = i THEN Nobody ELSE lock
  /\ UNCHANGED <<source, backups, databaseVars, memory>>

(* The plugin is loaded, or a CLI started with --source. *)
Start(i) ==
  /\ run[i] = Stopped
  /\ \E path \in IF i = Plugin THEN {Absent} ELSE Paths :
       run' = [run EXCEPT ![i] = [pc |-> "open", path |-> path, plan |-> Absent]]
  /\ UNCHANGED <<source, backups, databaseVars, lock, memory>>

(* The path the plugin imports from: the first with a file. *)
Found ==
  LET files == { p \in Paths : source[p] # Absent }
  IN IF Preferred \in files THEN {Preferred} ELSE files

(* CommandCatalog.initialize: the schema and its version in one            *)
(* transaction.  Then the plugin looks for its source.                     *)
Open(i) ==
  /\ run[i].pc = "open"
  /\ lock = Nobody
  /\ schema' = TRUE
  /\ IF i # Plugin THEN Goto(i, "check")
     ELSE IF Found = {} THEN Goto(i, "publish")
     ELSE \E p \in Found : run' = [run EXCEPT ![i].pc = "check", ![i].path = p]
  /\ UNCHANGED <<source, backups, record, groups, lock, memory>>

(* Fault: the record is looked for before the lock is taken. *)
CheckUnlocked(i) ==
  /\ run[i].pc = "check"
  /\ Goto(i, IF record # Absent THEN "publish" ELSE "plan")
  /\ UNCHANGED <<source, backups, databaseVars, lock, memory>>

(* BEGIN IMMEDIATE.  After an earlier import there is nothing to do. *)
Check(i) ==
  /\ run[i].pc = "check"
  /\ lock = Nobody
  /\ IF record # Absent THEN Goto(i, "publish") /\ UNCHANGED lock
                        ELSE Goto(i, "plan") /\ lock' = i
  /\ UNCHANGED <<source, backups, databaseVars, memory>>

(* busy_timeout *)
LockTimeout(i) ==
  /\ run[i].pc \in {"open", "check"}
  /\ lock # Nobody
  /\ Fail(i)

(* build_legacy_import_plan: the file may be gone or bad by now. *)
Plan(i) ==
  /\ run[i].pc = "plan"
  /\ IF source[run[i].path] \in Contents
       THEN /\ run' = [run EXCEPT ![i].pc = "backup", ![i].plan = source[run[i].path]]
            /\ UNCHANGED <<source, backups, databaseVars, lock, memory>>
       ELSE Fail(i)

(* Fault: the source is read a second time. *)
BackupOfSource(i) ==
  /\ run[i].pc = "backup"
  /\ \/ /\ backups' = backups \cup ({source[run[i].path]} \cap Contents)
        /\ Goto(i, "insert")
        /\ UNCHANGED <<source, databaseVars, lock, memory>>
     \/ Fail(i)

(* create_legacy_backup: the bytes that were validated, synced to disk. *)
Backup(i) ==
  /\ run[i].pc = "backup"
  /\ \/ /\ backups' = backups \cup {run[i].plan}
        /\ Goto(i, "insert")
        /\ UNCHANGED <<source, databaseVars, lock, memory>>
     \/ Fail(i)

Inserted(plan) == [n \in Names |-> IF n \in NamesIn[plan] THEN plan ELSE groups[n]]

(* Faults: a group of that name is replaced; the record is written by a    *)
(* transaction of its own, which may not come about.                       *)
InsertReplacing(i) ==
  /\ run[i].pc = "insert"
  /\ \/ /\ groups' = Inserted(run[i].plan)
        /\ record' = run[i].plan
        /\ lock' = Nobody
        /\ Goto(i, "publish")
        /\ UNCHANGED <<source, backups, schema, memory>>
     \/ Fail(i)

InsertThenRecord(i) ==
  /\ run[i].pc = "insert"
  /\ \A n \in NamesIn[run[i].plan] : groups[n] = Absent
  /\ groups' = Inserted(run[i].plan)
  /\ record' \in {run[i].plan, record}
  /\ lock' = Nobody
  /\ Goto(i, "publish")
  /\ UNCHANGED <<source, backups, schema, memory>>

(* Groups, entries and the record, committed together.  A group of a name  *)
(* that is taken, or a failure of SQLite, rolls all of it back.            *)
Insert(i) ==
  /\ run[i].pc = "insert"
  /\ \/ /\ \A n \in NamesIn[run[i].plan] : groups[n] = Absent
        /\ groups' = Inserted(run[i].plan)
        /\ record' = run[i].plan
        /\ lock' = Nobody
        /\ Goto(i, "publish")
        /\ UNCHANGED <<source, backups, schema, memory>>
     \/ Fail(i)

(* HelpService.initialize takes the groups into its configuration; the CLI *)
(* reports and ends.                                                       *)
Publish(i) ==
  /\ run[i].pc = "publish"
  /\ IF i = Plugin THEN memory' = groups /\ Goto(i, "serve")
                   ELSE UNCHANGED memory /\ run' = [run EXCEPT ![i] = Stopped]
  /\ UNCHANGED <<source, backups, databaseVars, lock>>

-----------------------------------------------------------------------------
(* An administrator creates, changes or deletes a group: CustomDirectory.  *)
Edit(n) ==
  /\ run[Plugin].pc = "serve"
  /\ lock = Nobody
  /\ \E value \in {Edited, Absent} : memory' = [memory EXCEPT ![n] = value]
  /\ groups' = memory'
  /\ UNCHANGED <<source, backups, schema, record, lock, run>>

(* The process dies, or the plugin is unloaded. *)
Crash(i) ==
  /\ run[i] # Stopped
  /\ Fail(i)

(* The operator puts another file there, or removes it. *)
ChangeSource(p) ==
  /\ \E f \in File : source' = [source EXCEPT ![p] = f]
  /\ UNCHANGED <<backups, databaseVars, lock, run, memory>>

Step(i) ==
  Open(i) \/ Check(i) \/ LockTimeout(i) \/ Plan(i) \/ Backup(i) \/ Insert(i) \/ Publish(i)

Next ==
  \/ \E i \in Importers : Start(i) \/ Step(i) \/ Crash(i)
  \/ \E n \in Names : Edit(n)
  \/ \E p \in Paths : ChangeSource(p)

Spec == Init /\ [][Next]_importVars

(* An importer is a synchronous program: it takes its next step. *)
FairSpec == Spec /\ \A i \in Importers : WF_importVars(Step(i))

-----------------------------------------------------------------------------
(* Properties *)

(* architecture.md:27: once there is a record no import ever follows, by   *)
(* whichever importer, restart or file, and also if two began together.    *)
ImportedOnce == [][record # Absent => record' = record]_importVars

(* The record vouches for a backup of the very bytes that were imported,   *)
(* although the source may be replaced between any two steps.              *)
RecordBackedUp == record # Absent => record \in backups

(* All or nothing: groups of a legacy file are there under its record      *)
(* only, never by an import that failed or died on the way.                *)
NoOrphans == \A n \in Names : groups[n] \in Contents => groups[n] = record

(* What an administrator has edited is never replaced by a legacy file.    *)
EditsSurviveImport ==
  [][\A n \in Names : groups[n] = Edited => groups'[n] \in {Edited, Absent}]_importVars

(* The write lock is not kept: importers end their transactions, however   *)
(* they end.                                                               *)
LockReleased == lock # Nobody ~> lock = Nobody

(* architecture.md:51: SQLite is the only authority at run time, so an     *)
(* edit leaves the other groups as the database has them.  A plugin that   *)
(* was running during the CLI's import writes back what it had in memory.  *)
EditsAreLocal ==
  [][\A n \in Names : Edit(n) => \A m \in Names \ {n} : groups'[m] = groups[m]]_importVars
=============================================================================
