--------------------------- MODULE CommandCatalog ---------------------------
(***************************************************************************)
(* The commands table of command_catalog.db: one row for each handler a    *)
(* loaded plugin registers (runtime) and one for each entry an admin-      *)
(* istrator wrote into the custom directory (custom), each with a          *)
(* permission, a delegation policy and a history mode.                     *)
(*                                                                         *)
(* AstrBot loads and unloads plugins and calls main.py's hooks later, in   *)
(* order; a hook rewrites the table in one transaction, or fails (SQLite   *)
(* busy) and leaves it.  Between hooks administrators change policies.     *)
(* A restart forgets the hooks that were due; on_astrbot_loaded follows.   *)
(*                                                                         *)
(* A hook takes the handlers from the command index, a dict by name: of    *)
(* several handlers of one name it has the last, and none where a custom   *)
(* command has the name.                                                   *)
(*                                                                         *)
(* The *_manual columns are left out: both arms of the CASE that reads one *)
(* give the same value, and nothing else reads them.                       *)
(***************************************************************************)
EXTENDS Integers, Sequences

CONSTANTS
  Plugins,
  Keys,        \* runtime keys: plugin, command, type, handler and filter hashed
  PluginOf,    \* the plugin of each key
  TypeOf,      \* "command" or "regex"
  TriggerOf,   \* what each handler reacts to: a command, or a pattern
  TaggedOf,    \* "regex:" put before a pattern
  Overlaid,    \* keys of a name that a custom command may have
  Groups, Triggers,
  Texts,       \* what callers look up with find_command
  MatchedBy,   \* the triggers that match each text
  LengthOf,    \* length(command_key)
  Stored,      \* custom entries the table may start with
  Decisions,   \* bound: <<permission, policy, history>> an administrator may set
  MaxEvents    \* bound: hooks due at one time

Permissions == {"normal", "admin"}
Policies == {"normal", "sensitive", "forbidden"}
Modes == {"none", "command", "full"}
Types == {"command", "regex"}
NoPlugin == "no plugin"

Row == [permission : Permissions, policy : Policies, history : Modes]
NoRow == [permission |-> "none", policy |-> "none", history |-> "none"]

Entry == [group : Groups, type : Types, key : Triggers, aliases : SUBSET Triggers,
          link : Plugins \cup {NoPlugin}, missing : BOOLEAN,
          permission : Permissions, policy : Policies, history : Modes]

Keep == "keep"

(* The CHECK constraints of the schema. *)
SchemaAdmits(r) ==
  /\ r.permission = "admin" => r.policy # "normal"
  /\ r.policy # "normal" => r.history # "full"

ASSUME CatalogAssumption ==
  /\ PluginOf \in [Keys -> Plugins]
  /\ TypeOf \in [Keys -> Types]
  /\ TriggerOf \in [Keys -> Triggers]
  /\ TaggedOf \in [Triggers -> Triggers]
  /\ Overlaid \subseteq Keys
  /\ NoPlugin \notin Plugins
  /\ MatchedBy \in [Texts -> SUBSET Triggers]
  /\ LengthOf \in [Triggers -> Nat]
  /\ Stored \subseteq Entry
  /\ \A e \in Stored : SchemaAdmits(e)
  /\ Decisions \subseteq (Permissions \cup {Keep}) \X (Policies \cup {Keep})
                           \X (Modes \cup {Keep})
  /\ MaxEvents \in Nat

VARIABLES
  declared,   \* what the registered handler of each key asks for, or "absent"
  loaded,     \* activated plugins
  events,     \* hooks AstrBot has yet to call
  unsynced,   \* plugins whose last synchronisation failed
  runtime,    \* rows with source_kind = 'runtime'
  groups,     \* custom_groups
  entries     \* rows with source_kind = 'custom'

worldVars == <<declared, loaded, events>>
customVars == <<groups, entries>>
catalogVars == <<declared, loaded, events, unsynced, runtime, groups, entries>>

Event == [hook : {"boot", "loaded", "unloaded"}, plugin : Plugins \cup {NoPlugin}]
Boot == [hook |-> "boot", plugin |-> NoPlugin]

TypeOK ==
  /\ declared \in [Keys -> Permissions \cup {"absent"}]
  /\ loaded \in SUBSET Plugins
  /\ events \in Seq(Event)
  /\ unsynced \in SUBSET Plugins
  /\ runtime \in [Keys -> Row \cup {NoRow}]
  /\ groups \in SUBSET Groups
  /\ entries \in SUBSET Entry

KeysOf(p) == { k \in Keys : PluginOf[k] = p }

(* A plugin registers handlers only while it is loaded. *)
Registry(ps) ==
  { d \in [Keys -> Permissions \cup {"absent"}] :
      \A k \in Keys : PluginOf[k] \notin ps => d[k] = "absent" }

Init ==
  /\ loaded \in SUBSET Plugins
  /\ declared \in Registry(loaded)
  /\ events = <<Boot>>
  /\ unsynced = {}
  /\ runtime = [k \in Keys |-> NoRow]
  /\ entries \in SUBSET Stored
  /\ groups = { e.group : e \in entries }

-----------------------------------------------------------------------------
(* AstrBot *)

Due(hook, p) == events' = Append(events, [hook |-> hook, plugin |-> p])

Load(p) ==
  /\ Len(events) < MaxEvents
  /\ p \notin loaded
  /\ loaded' = loaded \cup {p}
  /\ \E d \in Registry(loaded') :
       /\ \A k \in Keys \ KeysOf(p) : d[k] = declared[k]
       /\ declared' = d
  /\ Due("loaded", p)
  /\ UNCHANGED <<unsynced, runtime, customVars>>

Unload(p) ==
  /\ Len(events) < MaxEvents
  /\ p \in loaded
  /\ loaded' = loaded \ {p}
  /\ declared' = [k \in Keys |-> IF PluginOf[k] = p THEN "absent" ELSE declared[k]]
  /\ Due("unloaded", p)
  /\ UNCHANGED <<unsynced, runtime, customVars>>

(* The process ends and starts again, perhaps with other plugins. *)
Restart ==
  /\ events' = <<Boot>>
  /\ \E ps \in SUBSET Plugins : loaded' = ps /\ declared' \in Registry(ps)
  /\ UNCHANGED <<unsynced, runtime, customVars>>

-----------------------------------------------------------------------------
(* Synchronisation *)

(* The command_key of a runtime row: CommandIndex names a regex handler    *)
(* "regex:" and its pattern, and the catalog stores that name.             *)
KeyOf(k) == IF TypeOf[k] = "regex" THEN TaggedOf[TriggerOf[k]] ELSE TriggerOf[k]

(* A name of several handlers, loaded or disabled, or of a custom command. *)
Contested(k) == k \in Overlaid \/ \E l \in Keys \ {k} : KeyOf(l) = KeyOf(k)

(* What the index may hold of the registry. *)
Indexes ==
  { ks \in SUBSET { k \in Keys : declared[k] # "absent" } :
      /\ \A k, l \in ks : KeyOf(k) = KeyOf(l) => k = l
      /\ \A k \in Keys \ ks : declared[k] = "absent" \/ Contested(k) }

(* CommandIndex._extract_command: a regex handler's tag replaces "admin".  *)
Extracted(k) == IF TypeOf[k] = "regex" THEN "normal" ELSE declared[k]

Fresh(permission) ==
  [permission |-> permission,
   policy |-> IF permission = "admin" THEN "sensitive" ELSE "normal",
   history |-> "command"]

(* Faults: the policy follows the plugin; the permission is raised but not *)
(* the policy.                                                             *)
UpsertFollowing(old, permission) ==
  IF old = NoRow THEN Fresh(permission)
  ELSE [Fresh(permission) EXCEPT !.history =
          IF permission = "admin" /\ old.history = "full" THEN "command" ELSE old.history]

UpsertPermissionOnly(old, permission) ==
  IF old = NoRow THEN Fresh(permission)
  ELSE [old EXCEPT !.permission = IF @ = "admin" THEN "admin" ELSE permission]

(* INSERT ... ON CONFLICT(runtime_key) DO UPDATE. *)
Upsert(old, permission) ==
  IF old = NoRow THEN Fresh(permission)
  ELSE [permission |-> IF old.permission = "admin" THEN "admin" ELSE permission,
        policy |-> IF permission = "admin" /\ old.policy = "normal"
                     THEN "sensitive" ELSE old.policy,
        history |-> IF permission = "admin" /\ old.history = "full"
                      THEN "command" ELSE old.history]

(* Rows of the keys ks after they were synchronised with an index. *)
Synced(ks, index) ==
  [k \in Keys |->
     IF k \notin ks THEN runtime[k]
     ELSE IF k \notin index THEN NoRow
     ELSE Upsert(runtime[k], Extracted(k))]

(* Fault: an entry once marked stays marked. *)
MarkedOnce(ps, missing) ==
  { IF e.link \in ps THEN [e EXCEPT !.missing = @ \/ missing] ELSE e : e \in entries }

(* Custom entries linked to one of ps are marked. *)
Marked(ps, missing) ==
  { IF e.link \in ps THEN [e EXCEPT !.missing = missing] ELSE e : e \in entries }

Hook(hook, p) ==
  /\ events # <<>>
  /\ Head(events) = [hook |-> hook, plugin |-> p]
  /\ events' = Tail(events)
  /\ UNCHANGED <<declared, loaded, groups>>

(* on_astrbot_loaded *)
SyncAll ==
  /\ Hook("boot", NoPlugin)
  /\ \/ /\ \E index \in Indexes : runtime' = Synced(Keys, index)
        /\ entries' = { IF e.link = NoPlugin THEN e
                        ELSE [e EXCEPT !.missing = e.link \notin loaded] : e \in entries }
        /\ unsynced' = {}
     \/ unsynced' = Plugins /\ UNCHANGED <<runtime, entries>>

(* on_plugin_loaded *)
SyncPlugin(p) ==
  /\ Hook("loaded", p)
  /\ \/ /\ \E index \in Indexes : runtime' = Synced(KeysOf(p), index)
        /\ entries' = Marked({p}, FALSE)
        /\ unsynced' = unsynced \ {p}
     \/ unsynced' = unsynced \cup {p} /\ UNCHANGED <<runtime, entries>>

(* Fault: the runtime rows stay. *)
UnloadPluginKeepingRows(p) ==
  /\ Hook("unloaded", p)
  /\ runtime' = runtime
  /\ entries' = Marked({p}, TRUE)
  /\ unsynced' = unsynced \ {p}

(* on_plugin_unloaded *)
UnloadPlugin(p) ==
  /\ Hook("unloaded", p)
  /\ \/ /\ runtime' = [k \in Keys |-> IF PluginOf[k] = p THEN NoRow ELSE runtime[k]]
        /\ entries' = Marked({p}, TRUE)
        /\ unsynced' = unsynced \ {p}
     \/ unsynced' = unsynced \cup {p} /\ UNCHANGED <<runtime, entries>>

-----------------------------------------------------------------------------
(* Policies set by hand *)

Given(value, current) == IF value = Keep THEN current ELSE value

Revised(r, permission, policy, history) ==
  LET final == Given(permission, r.permission)
      wanted == Given(policy, r.policy)
  IN [r EXCEPT
        !.permission = final,
        !.policy = IF final = "admin" /\ wanted = "normal" /\ policy = Keep
                     THEN "sensitive" ELSE wanted,
        !.history = Given(history, r.history)]

(* update_command_policy: a combination the schema refuses is an error. *)
UpdatePolicy ==
  /\ \E d \in Decisions :
       \/ \E k \in Keys :
            LET r == Revised(runtime[k], d[1], d[2], d[3]) IN
            /\ runtime[k] # NoRow
            /\ SchemaAdmits(r)
            /\ runtime' = [runtime EXCEPT ![k] = r]
            /\ UNCHANGED entries
       \/ \E e \in entries :
            LET r == Revised(e, d[1], d[2], d[3]) IN
            /\ SchemaAdmits(r)
            /\ entries' = (entries \ {e}) \cup {r}
            /\ UNCHANGED runtime
  /\ UNCHANGED <<worldVars, unsynced, groups>>

-----------------------------------------------------------------------------
(* find_command *)

PermissionRank == [normal |-> 0, admin |-> 1]
PolicyRank == [normal |-> 0, sensitive |-> 1, forbidden |-> 2]
HistoryRank == [full |-> 0, command |-> 1, none |-> 2]

Stricter(r, s) ==
  /\ PermissionRank[r.permission] >= PermissionRank[s.permission]
  /\ PolicyRank[r.policy] >= PolicyRank[s.policy]
  /\ HistoryRank[r.history] >= HistoryRank[s.history]

Hit(r, length, custom) ==
  [permission |-> r.permission, policy |-> r.policy, history |-> r.history,
   length |-> length, custom |-> custom]

(* Rows of a type that match a text and whose plugin is not missing. *)
Hits(t, type) ==
  { Hit(runtime[k], LengthOf[KeyOf(k)], FALSE) : k \in
      { k \in Keys : /\ runtime[k] # NoRow
                     /\ TypeOf[k] = type
                     /\ KeyOf(k) \in MatchedBy[t] } }
  \cup
  { Hit(e, LengthOf[e.key], TRUE) : e \in
      { e \in entries : /\ ~e.missing
                        /\ e.type = type
                        /\ (IF type = "regex" THEN {e.key} ELSE e.aliases \cup {e.key})
                             \cap MatchedBy[t] # {} } }

Strictest(rank, values) ==
  CHOOSE v \in values : \A w \in values : rank[v] >= rank[w]

(* Fault: regex rows are combined with the least private history. *)
CombinedLoosely(hits) ==
  [permission |-> Strictest(PermissionRank, { h.permission : h \in hits }),
   policy |-> Strictest(PolicyRank, { h.policy : h \in hits }),
   history |-> CHOOSE v \in { h.history : h \in hits } :
                 \A h \in hits : HistoryRank[v] <= HistoryRank[h.history]]

Combined(hits) ==
  [permission |-> Strictest(PermissionRank, { h.permission : h \in hits }),
   policy |-> Strictest(PolicyRank, { h.policy : h \in hits }),
   history |-> Strictest(HistoryRank, { h.history : h \in hits })]

(* What a lookup may return: one of the best plain rows (which one depends *)
(* on row ids), or all regex rows in one.                                  *)
Found(t) ==
  LET plain == Hits(t, "command")
      regex == Hits(t, "regex")
      longest == { h \in plain : \A i \in plain : h.length >= i.length }
      custom == { h \in longest : h.custom }
  IN IF plain # {} THEN IF custom # {} THEN custom ELSE longest
     ELSE IF regex # {} THEN { Combined(regex) } ELSE {}

-----------------------------------------------------------------------------
WorldStep == (\E p \in Plugins : Load(p) \/ Unload(p)) \/ Restart
SyncStep == SyncAll \/ \E p \in Plugins : SyncPlugin(p) \/ UnloadPlugin(p)

Next == WorldStep \/ SyncStep \/ UpdatePolicy

Spec == Init /\ [][Next]_catalogVars

-----------------------------------------------------------------------------
(* Properties *)

(* No upsert of a hook and no policy set by hand ever makes a row the      *)
(* CHECK constraints refuse: an admin command delegates at least as        *)
(* sensitive, and only a normal one keeps full texts.  A refused row would *)
(* roll a whole synchronisation back.                                      *)
SchemaHolds ==
  /\ \A k \in Keys : runtime[k] # NoRow => SchemaAdmits(runtime[k])
  /\ \A e \in entries : SchemaAdmits(e)

(* architecture.md:43: an update by a plugin only moves to the stricter    *)
(* side: no hook loosens permission, policy or history of a row it keeps,  *)
(* whatever an administrator had set before.                               *)
UpdatesOnlyTighten ==
  [][SyncStep => \A k \in Keys :
       runtime[k] # NoRow /\ runtime'[k] # NoRow => Stricter(runtime'[k], runtime[k])]_catalogVars

Settled(p) ==
  /\ p \notin unsynced
  /\ \A i \in 1..Len(events) : events[i].plugin # p /\ events[i] # Boot

(* Once the hooks of a plugin have run, none of its rows is left of a      *)
(* handler that is gone, and none is lacking of one whose name is its own, *)
(* however loads, unloads, failures and restarts were interleaved with the *)
(* hooks.  Where a name is contested the row may be lacking, also after    *)
(* the handler or custom command that had the name is gone.                *)
RowsFollowRegistry ==
  \A k \in Keys : Settled(PluginOf[k]) =>
    /\ runtime[k] # NoRow => declared[k] # "absent"
    /\ declared[k] # "absent" /\ ~Contested(k) => runtime[k] # NoRow

(* What find_command hands to the delegation is a combination the schema   *)
(* would admit, also where it merges the policies of several regex rows.   *)
FoundIsAdmissible == \A t \in Texts : \A f \in Found(t) : SchemaAdmits(f)

(* architecture.md:43: an admin command is raised to at least sensitive.   *)
(* The index tags every regex handler "regex_pattern", so a regex handler  *)
(* with an admin filter arrives in the catalog as a normal command.        *)
AdminHandlersAtLeastSensitive ==
  \A k \in Keys : Settled(PluginOf[k]) /\ declared[k] = "admin" /\ runtime[k] # NoRow
                    => runtime[k].policy # "normal"

(* command_runtime_service.py:180: plain triggers come first, and several  *)
(* regex handlers that match are merged into the strictest policy; so a    *)
(* text that a registered handler reacts to has one.  The pattern of a     *)
(* runtime row begins with "regex:", which no text of a user does.         *)
HandledTextsFound ==
  \A k \in Keys, t \in Texts :
    Settled(PluginOf[k]) /\ runtime[k] # NoRow /\ TriggerOf[k] \in MatchedBy[t] => Found(t) # {}
=============================================================================
