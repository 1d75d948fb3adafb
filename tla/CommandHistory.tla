--------------------------- MODULE CommandHistory ---------------------------
(***************************************************************************)
(* What is kept of executed commands: command_history, one detail for each *)
(* recorded call, and command_usage_aggregates, one count for each user    *)
(* and command.  A call looks its command up, awaits the executor, and     *)
(* records with the row id it read before; meanwhile administrators and    *)
(* plugin hooks change, remove and add rows of the commands table.         *)
(*                                                                         *)
(* commands.id is INTEGER PRIMARY KEY without AUTOINCREMENT: a new row     *)
(* gets one more than the greatest id, which may have been used before.    *)
(* Platforms and the order of details are left out; a detail is known by   *)
(* the call that left it, and its time by its age.                         *)
(***************************************************************************)
EXTENDS Integers, FiniteSets

CONSTANTS
  Calls, Users, Keys,
  UserOf,      \* target user of each call
  Retention,   \* command_history_retention_days
  MaxId,       \* bound: greatest row id
  MaxUses      \* bound: uses of a command by a user

Modes == {"none", "command", "full"}
Ids == 1..MaxId
Null == 0   \* NULL, a command_id or a detail there is not

ASSUME HistoryAssumption ==
  /\ UserOf \in [Calls -> Users]
  /\ "none" \notin Keys   \* marks a command or a detail there is not
  /\ Retention \in Nat /\ MaxId \in Nat /\ MaxUses \in Nat

VARIABLES
  commands,   \* the commands table by id
  calls,      \* the row each call under way has looked up
  history,    \* command_history by call
  uses        \* command_usage_aggregates

historyVars == <<commands, calls, history, uses>>

Command == { r \in [key : Keys, mode : Modes, normal : BOOLEAN] :
               r.mode = "full" => r.normal }   \* the CHECK of the schema
NoCommand == [key |-> "none", mode |-> "none", normal |-> FALSE]

Call == [id : Ids, key : Keys]
Idle == [id |-> Null, key |-> "none"]

Detail == [id : Ids \cup {Null}, key : Keys, text : BOOLEAN, age : 0..(Retention + 1)]
NoDetail == [id |-> Null, key |-> "none", text |-> FALSE, age |-> 0]

TypeOK ==
  /\ commands \in [Ids -> Command \cup {NoCommand}]
  /\ calls \in [Calls -> Call \cup {Idle}]
  /\ history \in [Calls -> Detail \cup {NoDetail}]
  /\ uses \in [Users -> [Keys -> 0..MaxUses]]

Init ==
  /\ commands = [i \in Ids |-> NoCommand]
  /\ calls = [c \in Calls |-> Idle]
  /\ history = [c \in Calls |-> NoDetail]
  /\ uses = [u \in Users |-> [k \in Keys |-> 0]]

-----------------------------------------------------------------------------
(* The commands table *)

Present == { i \in Ids : commands[i] # NoCommand }

NextId == IF Present = {} THEN 1 ELSE 1 + CHOOSE i \in Present : \A j \in Present : i >= j

(* Fault: foreign keys are not enforced. *)
ForgottenNever(ids) == history

(* ON DELETE SET NULL *)
Forgotten(ids) ==
  [c \in Calls |-> IF history[c].id \in ids THEN [history[c] EXCEPT !.id = Null] ELSE history[c]]

(* A hook or a commit inserts a row. *)
AddCommand ==
  /\ NextId \in Ids
  /\ \E r \in Command : commands' = [commands EXCEPT ![NextId] = r]
  /\ UNCHANGED <<calls, history, uses>>

(* A plugin is unloaded, an entry or a group deleted. *)
RemoveCommands ==
  /\ \E ids \in SUBSET Present :
       /\ ids # {}
       /\ commands' = [i \in Ids |-> IF i \in ids THEN NoCommand ELSE commands[i]]
       /\ history' = Forgotten(ids)
  /\ UNCHANGED <<calls, uses>>

(* A commit of the custom directory writes every entry anew before the old *)
(* rows go.                                                                *)
RewriteCommand ==
  /\ NextId \in Ids
  /\ \E i \in Present :
       /\ commands' = [commands EXCEPT ![NextId] = commands[i], ![i] = NoCommand]
       /\ history' = Forgotten({i})
  /\ UNCHANGED <<calls, uses>>

SetPolicy ==
  /\ \E i \in Present, r \in Command :
       r.key = commands[i].key /\ commands' = [commands EXCEPT ![i] = r]
  /\ UNCHANGED <<calls, history, uses>>

-----------------------------------------------------------------------------
(* Calls *)

(* find_command; then the receipt is reserved and the executor awaited. *)
LookUp(c) ==
  /\ calls[c] = Idle /\ history[c] = NoDetail
  /\ \E i \in Present : calls' = [calls EXCEPT ![c] = [id |-> i, key |-> commands[i].key]]
  /\ UNCHANGED <<commands, history, uses>>

(* Fault: the aggregate is written by a statement of its own, which fails. *)
StoredApart(c, row) ==
  /\ history' = [history EXCEPT ![c] = [id |-> calls[c].id, key |-> row.key,
                                         text |-> row.mode = "full", age |-> 0]]
  /\ UNCHANGED uses

(* Fault: texts are kept unless the row says none. *)
StoredVerbatim(c, row) ==
  /\ history' = [history EXCEPT ![c] = [id |-> calls[c].id, key |-> row.key,
                                         text |-> TRUE, age |-> 0]]
  /\ uses' = [uses EXCEPT ![UserOf[c]][row.key] = @ + 1]

(* The detail and the count, in one transaction; the key is the row's. *)
Stored(c, row) ==
  /\ history' = [history EXCEPT ![c] = [id |-> calls[c].id, key |-> row.key,
                                         text |-> row.mode = "full", age |-> 0]]
  /\ uses' = [uses EXCEPT ![UserOf[c]][row.key] = @ + 1]

(* record_execution.  The history_mode in force counts, not that of the    *)
(* lookup; where the row has gone the answer carries a warning instead.    *)
Record(c) ==
  LET row == commands[calls[c].id] IN
  /\ calls[c] # Idle
  /\ row # NoCommand
  /\ row.mode # "none"
  /\ uses[UserOf[c]][row.key] < MaxUses
  /\ Stored(c, row)
  /\ calls' = [calls EXCEPT ![c] = Idle]
  /\ UNCHANGED commands

(* Not dispatched, nothing to record, the row gone, SQLite busy, a crash. *)
Drop(c) ==
  /\ calls[c] # Idle
  /\ calls' = [calls EXCEPT ![c] = Idle]
  /\ UNCHANGED <<commands, history, uses>>

-----------------------------------------------------------------------------
(* Retention and clearing *)

Tick ==
  /\ history' = [c \in Calls |-> IF history[c] = NoDetail \/ history[c].age > Retention
                                   THEN history[c] ELSE [history[c] EXCEPT !.age = @ + 1]]
  /\ UNCHANGED <<commands, calls, uses>>

Without(gone) == [c \in Calls |-> IF c \in gone THEN NoDetail ELSE history[c]]

(* cleanup_expired: the counts stay. *)
Cleanup ==
  /\ history' = Without({ c \in Calls : history[c].age > Retention })
  /\ UNCHANGED <<commands, calls, uses>>

(* clear_user_history: details and counts, in one transaction. *)
ClearHistory(u) ==
  /\ history' = Without({ c \in Calls : UserOf[c] = u })
  /\ uses' = [uses EXCEPT ![u] = [k \in Keys |-> 0]]

(* ai_command_history clear, of oneself or by an administrator. *)
Clear(u) == ClearHistory(u) /\ UNCHANGED <<commands, calls>>

CatalogStep == AddCommand \/ RemoveCommands \/ RewriteCommand \/ SetPolicy

Next ==
  \/ CatalogStep
  \/ \E c \in Calls : LookUp(c) \/ Record(c) \/ Drop(c)
  \/ Tick \/ Cleanup
  \/ \E u \in Users : Clear(u)

Spec == Init /\ [][Next]_historyVars

-----------------------------------------------------------------------------
(* Properties *)

(* Long-term counts cover the details: no failure, cleanup or clearing     *)
(* leaves a detail that the count of its user and command does not include.*)
CountsCoverDetails ==
  \A u \in Users, k \in Keys :
    uses[u][k] >= Cardinality({ c \in Calls : UserOf[c] = u /\ history[c].key = k })

(* A detail that still names a row names one of its own command, although  *)
(* ids are used again after their rows were removed.                       *)
DetailNamesItsCommand ==
  \A c \in Calls : history[c].id # Null => commands[history[c].id].key = history[c].key

(* configuration.md:19: a full text is only stored under an entry that, at *)
(* that moment, is normal and asks for it, also if an administrator took   *)
(* that back while the command ran.                                        *)
TextNeedsConsentNow ==
  [][\A c \in Calls : history'[c].text /\ ~history[c].text =>
       \E i \in Present : /\ commands[i].key = history'[c].key
                          /\ commands[i].mode = "full" /\ commands[i].normal]_historyVars

(* configuration.md:19 for the command that was executed: its full text is *)
(* stored only if an entry of its own asks for it.  The id a call looked   *)
(* up may belong to another command by the time it records.                *)
TextOfFullCommandsOnly ==
  [][\A c \in Calls : history'[c].text /\ ~history[c].text =>
       history'[c].key = calls[c].key]_historyVars
=============================================================================
