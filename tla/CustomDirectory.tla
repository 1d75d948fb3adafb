-------------------------- MODULE CustomDirectory --------------------------
(***************************************************************************)
(* The custom directory: CustomGroupService edits a copy of the groups it  *)
(* keeps in memory (config.custom_groups), writes the whole copy into the  *)
(* catalog in one transaction and then publishes it as the new memory.     *)
(* Plugin hooks write the same rows behind the service's back.  A group is *)
(* deleted in two steps, with a token bound to the content previewed.      *)
(*                                                                         *)
(* Each operation holds the service's lock and does not suspend: saving    *)
(* and publishing are plain calls, so an operation is one step.  Either    *)
(* may fail; what was saved and not published is not in memory.            *)
(*                                                                         *)
(* A trigger stands for its key (_trigger_key: without prefixes, case-     *)
(* folded).  Entries of an imported file, or of a time with other          *)
(* prefixes, may share triggers; an operation that would have to choose    *)
(* between them is refused (ambiguous_trigger).  Order of groups and       *)
(* entries, descriptions, priorities, examples, subcommands and visibility *)
(* are left out; rows that differ in nothing else are one entry.           *)
(***************************************************************************)
EXTENDS CommandCatalog

CONSTANTS
  Submitted   \* entries a tool or a form may ask for, their group aside

VARIABLES
  memory,     \* config.custom_groups
  tokens,     \* content previewed for each group, or NoToken
  parted,     \* history: memory was not set to what was stored last
  rewritten   \* history: plugins of entries an edit changed, until their next hook

directoryVars == <<catalogVars, memory, tokens, parted, rewritten>>

NoToken == [valid |-> FALSE, content |-> {}]
Token(content) == [valid |-> TRUE, content |-> content]

Catalog == [groups |-> groups, entries |-> entries]

EntriesOf(snapshot, g) == { e \in snapshot.entries : e.group = g }
TriggersOf(e) == e.aliases \cup {e.key}

ASSUME DirectoryAssumption == Submitted \subseteq Entry

DirectoryTypeOK ==
  /\ TypeOK
  /\ memory \in [groups : SUBSET Groups, entries : SUBSET Entry]
  /\ tokens \in [Groups -> [valid : BOOLEAN, content : SUBSET Entry]]
  /\ parted \in BOOLEAN
  /\ rewritten \in SUBSET Plugins

(* HelpService.initialize publishes what the database holds. *)
DirectoryInit ==
  /\ Init
  /\ memory = Catalog
  /\ tokens = [g \in Groups |-> NoToken]
  /\ parted = FALSE
  /\ rewritten = {}

-----------------------------------------------------------------------------
(* Validation *)

(* _prepare_command: what it lets through also satisfies the schema. *)
Prepared(e) ==
  /\ SchemaAdmits(e)
  /\ e.key \notin e.aliases

(* Fault: aliases are not compared. *)
ConflictsByKey(e, others) == \E f \in others : e.key = f.key

(* _find_trigger_conflict: commands and patterns are compared alike. *)
Conflicts(e, others) == \E f \in others : TriggersOf(e) \cap TriggersOf(f) # {}

Unconflicted(es) == \A e \in es : ~Conflicts(e, es \ {e})

(* _find_command_index: the one entry of the group with that trigger. *)
Located(g, type, trigger) ==
  LET matches == { e \in EntriesOf(memory, g) : e.type = type /\ trigger \in TriggersOf(e) }
  IN { e \in matches : matches = {e} }

Placed(e, g) == [e EXCEPT !.group = g]

-----------------------------------------------------------------------------
(* Commit *)

Cleared(gs) == [g \in Groups |-> IF g \in gs THEN NoToken ELSE tokens[g]]

With(gs, es) == [groups |-> gs, entries |-> es]

(* replace_all_custom_groups: the rows become those of the candidate, with *)
(* the marks these had in memory or were given.                            *)
Save(candidate) ==
  /\ groups' = candidate.groups
  /\ entries' = candidate.entries
  /\ rewritten' = rewritten \cup ({ e.link : e \in candidate.entries \ entries } \ {NoPlugin})

(* Setting config.custom_groups, which may raise. *)
Publish(content) ==
  \/ memory' = content /\ parted' = FALSE
  \/ memory' = memory /\ parted' = TRUE

(* Fault: memory is published although the transaction failed. *)
CommitPublishingFirst(candidate, touched) ==
  /\ Publish(candidate)
  /\ \/ Save(candidate) /\ tokens' = Cleared(touched)
     \/ UNCHANGED <<customVars, rewritten, tokens>>
  /\ UNCHANGED <<worldVars, unsynced, runtime>>

(* _commit: what is saved is saved, also when it cannot be published. *)
Commit(candidate, touched) ==
  /\ \/ /\ Save(candidate)
        /\ tokens' = Cleared(touched)
        /\ Publish(candidate)
     \/ UNCHANGED <<customVars, rewritten, tokens, memory, parted>>
  /\ UNCHANGED <<worldVars, unsynced, runtime>>

-----------------------------------------------------------------------------
(* Operations *)

(* create_group, create_group_with_commands *)
CreateGroup(g) ==
  /\ g \notin memory.groups
  /\ \E es \in SUBSET { Placed(e, g) : e \in Submitted } :
       /\ \A e \in es : Prepared(e)
       /\ Unconflicted(es)
       /\ Commit(With(memory.groups \cup {g}, memory.entries \cup es), {})

(* replace_group: another name and other entries. *)
ReplaceGroup(g, h) ==
  /\ g \in memory.groups
  /\ h \in memory.groups => h = g
  /\ \E es \in SUBSET { Placed(e, h) : e \in Submitted } :
       /\ \A e \in es : Prepared(e)
       /\ Unconflicted(es)
       /\ Commit(With((memory.groups \ {g}) \cup {h},
                      (memory.entries \ EntriesOf(memory, g)) \cup es), {g, h})

(* update_group: another name (or other attributes) for the same entries. *)
UpdateGroup(g, h) ==
  /\ g \in memory.groups
  /\ h \in memory.groups => h = g
  /\ Commit(With((memory.groups \ {g}) \cup {h},
                 (memory.entries \ EntriesOf(memory, g))
                   \cup { Placed(e, h) : e \in EntriesOf(memory, g) }), {g, h})

AddCommand(g) ==
  /\ g \in memory.groups
  /\ \E s \in Submitted :
       LET e == Placed(s, g) IN
       /\ Prepared(e)
       /\ ~Conflicts(e, EntriesOf(memory, g))
       /\ Commit(With(memory.groups, memory.entries \cup {e}), {g})

(* update_command.  What is not given stays: the triggers may change with  *)
(* the rest kept, the link and its mark may be kept, replaced or cleared,  *)
(* and an admin entry is raised to sensitive unless a policy is given.     *)
Updates(e, s) ==
  { [e EXCEPT !.key = s.key, !.aliases = s.aliases],
    [e EXCEPT !.link = s.link, !.missing = s.missing],
    [e EXCEPT !.link = NoPlugin, !.missing = FALSE],
    Revised(e, s.permission, Keep, Keep),
    Revised(e, s.permission, s.policy, s.history) }

UpdateCommand(g) ==
  /\ g \in memory.groups
  /\ \E s \in Submitted, t \in Triggers : \E e \in Located(g, s.type, t) :
       \E u \in Updates(e, s) :
         /\ Prepared(u)
         /\ ~Conflicts(u, EntriesOf(memory, g) \ {e})
         /\ Commit(With(memory.groups, (memory.entries \ {e}) \cup {u}), {g})

DeleteCommand(g) ==
  /\ g \in memory.groups
  /\ \E type \in Types, t \in Triggers : \E e \in Located(g, type, t) :
       Commit(With(memory.groups, memory.entries \ {e}), {g})

PreviewDelete(g) ==
  /\ g \in memory.groups
  /\ tokens' = [tokens EXCEPT ![g] = Token(EntriesOf(memory, g))]
  /\ UNCHANGED <<catalogVars, memory, parted, rewritten>>

(* Fault: any content is deleted, as long as there is a token. *)
TokenStands(g, t) == g = t

(* The token of group t covers what group g holds now. *)
TokenCovers(g, t) == g = t /\ tokens[t].content = EntriesOf(memory, g)

(* confirm_delete_group.  The token is used up, and with it every token of *)
(* the group named, whether or not the deletion goes ahead.                *)
ConfirmDelete(g) ==
  \E t \in Groups :
    /\ tokens[t].valid
    /\ \/ /\ g \in memory.groups
          /\ TokenCovers(g, t)
          /\ LET remaining == With(memory.groups \ {g}, memory.entries \ EntriesOf(memory, g))
             IN Save(remaining) /\ Publish(remaining)
       \* Refused, or the transaction failed.
       \/ UNCHANGED <<customVars, rewritten, memory, parted>>
    /\ tokens' = Cleared({g, t})
    /\ UNCHANGED <<worldVars, unsynced, runtime>>

(* Tools of the agent and requests of the dashboard, of administrators. *)
GroupEdit(g, h) == ReplaceGroup(g, h) \/ UpdateGroup(g, h)
LocalEdit(g) == CreateGroup(g) \/ AddCommand(g) \/ UpdateCommand(g) \/ DeleteCommand(g)

GroupDelete(g) == PreviewDelete(g) \/ ConfirmDelete(g)

Edit(g, h) == GroupEdit(g, h) \/ LocalEdit(g)

-----------------------------------------------------------------------------
(* The rest of the plugin *)

(* api_update_command_policy commits the policy, and then reads the whole  *)
(* directory on another connection, which may raise.                       *)
SetPolicy ==
  /\ UpdatePolicy
  /\ Publish(With(groups', entries'))
  /\ UNCHANGED <<tokens, rewritten>>

(* Init of a new service: a reload of this plugin, or a new process. *)
Reset ==
  /\ memory' = With(groups', entries')
  /\ tokens' = [g \in Groups |-> NoToken]
  /\ parted' = FALSE
  /\ UNCHANGED rewritten

Reload == UNCHANGED catalogVars /\ Reset

(* Hooks write the table and leave the memory. *)
Background ==
  /\ \/ (\E p \in Plugins : Load(p) \/ Unload(p)) /\ UNCHANGED rewritten
     \/ SyncAll /\ rewritten' = rewritten \cap unsynced'
     \/ \E p \in Plugins : /\ SyncPlugin(p) \/ UnloadPlugin(p)
                           /\ rewritten' = rewritten \ ({p} \ unsynced')
  /\ UNCHANGED <<memory, tokens, parted>>

DirectoryNext ==
  \/ \E g, h \in Groups : GroupEdit(g, h)
  \/ \E g \in Groups : LocalEdit(g) \/ GroupDelete(g)
  \/ SetPolicy
  \/ Restart /\ Reset
  \/ Reload
  \/ Background

DirectorySpec == DirectoryInit /\ [][DirectoryNext]_directoryVars

-----------------------------------------------------------------------------
(* Properties *)

Unmarked(es) == { [e EXCEPT !.missing = FALSE] : e \in es }

(* SQLite is the authority (architecture.md:51): the groups in memory,     *)
(* which every edit starts from, are those of the database but for marks   *)
(* set by hooks.  No refused edit, failed write or restart parts them.     *)
(* Only what was saved and could not be published or read back does, until *)
(* the next edit, policy or start that succeeds.                           *)
MemoryMatchesStore ==
  ~parted => /\ memory.groups = groups
             /\ Unmarked(memory.entries) = Unmarked(entries)

(* Triggers that name more than one entry of a group. *)
Ambiguous(snapshot, g) ==
  { t \in Triggers : \E e, f \in EntriesOf(snapshot, g) :
                       e # f /\ t \in TriggersOf(e) \cap TriggersOf(f) }

(* Whatever mix of adding, renaming, replacing and updating, a trigger is  *)
(* ambiguous in a group only if it was so before, in the database or the   *)
(* memory, in that group or the one it was renamed from: the service       *)
(* addresses entries by trigger and refuses ambiguous ones.                *)
NoTriggerMadeAmbiguous ==
  [][\A g \in Groups : \E h \in {g} \cup (memory.groups \ groups') :
       Ambiguous(Catalog, g)'
         \subseteq Ambiguous(memory, h) \cup Ambiguous(Catalog, h)]_customVars

(* A group only disappears when a token stands for it, and then the rows   *)
(* deleted are those the caller was shown, although policies, edits, hooks *)
(* and renames may come between preview and confirmation; marks aside, and *)
(* unless memory and database are parted.                                  *)
PreviewedIsDeleted ==
  [][~parted /\ groups' \subseteq groups /\ groups' # groups =>
       \E g \in Groups :
         /\ groups' = groups \ {g}
         /\ tokens[g].valid /\ ~tokens'[g].valid
         /\ Unmarked(tokens[g].content) = Unmarked(EntriesOf(Catalog, g))]_directoryVars

(* Once the hooks of a plugin have run, a custom entry linked to it is     *)
(* marked missing_plugin exactly while it is not loaded, unless an edit    *)
(* has changed the entry since: edits write the marks of their memory, and *)
(* administrators give marks and links by hand.                            *)
LinksFollowPlugins ==
  \A e \in entries : e.link # NoPlugin /\ Settled(e.link) /\ e.link \notin rewritten
                        => (e.missing <=> e.link \notin loaded)

(* architecture.md:51 again: an edit of one group leaves the rows of the   *)
(* others as the database has them.  The code writes back its memory, with *)
(* the marks of the time it was read.                                      *)
UntouchedGroupsKept ==
  [][\A g, h \in Groups : Edit(g, h) =>
       \A x \in Groups \ {g, h} :
         { e \in entries' : e.group = x } = { e \in entries : e.group = x }]_directoryVars
=============================================================================
