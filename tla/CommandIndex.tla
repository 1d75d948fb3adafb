---------------------------- MODULE CommandIndex ----------------------------
(***************************************************************************)
(* The command index: what AstrBot's registry and the custom directory     *)
(* offer, as searches, the executor and the catalog synchronisation read   *)
(* it.  It is kept in memory and in a cache file, and is built again when  *)
(* a hook or a commit resets it, or when the number of active plugins or   *)
(* the names of the visible groups have changed since the last look.       *)
(*                                                                         *)
(* A plugin has one command and its version stands for its handlers; a     *)
(* custom directory is a value of which the index knows the visible part   *)
(* and the names in it.  There is one entry to a name: the plugin listed   *)
(* last has it, and a custom command replaces what plugins have.  What is  *)
(* written of a command (texts, examples, order) is left out, and so are   *)
(* the aliases that remain of a command that has been replaced, and the    *)
(* rows that aliases have of their own.                                    *)
(***************************************************************************)
EXTENDS Integers, Sequences, FiniteSets

CONSTANTS
  Plugins, This,   \* This plugin is one of them, and always active
  Versions,
  Aliased,         \* plugins whose command has an alias
  Rivals,          \* of a plugin: those of which a command or an alias has
                   \* the name of its command
  Directories, Empty,
  VisibleOf,       \* a directory without its hidden groups
  NamesOf,         \* the signature of a directory: names of visible groups
  ReplacedBy,      \* plugins whose command a directory holds too
  Faults,          \* bound: failures that may occur
  MaxFaults,       \* bound: kinds of them noted between starts
  MaxDue           \* bound: hooks due at one time

None == "none"

ASSUME IndexAssumption ==
  /\ This \in Plugins /\ IsFiniteSet(Plugins)
  /\ Aliased \subseteq Plugins
  /\ Rivals \in [Plugins -> SUBSET Plugins]
  /\ Empty \in Directories
  /\ VisibleOf \in [Directories -> Directories] /\ VisibleOf[Empty] = Empty
  /\ \A d \in Directories : NamesOf[d] = NamesOf[VisibleOf[d]]
  /\ ReplacedBy \in [Directories -> SUBSET Plugins] /\ ReplacedBy[Empty] = {}
  /\ None \notin Versions \cup Directories /\ "unread" \notin Versions
  /\ Faults \subseteq {"unlink", "save", "context"}
  /\ MaxFaults \in Nat /\ MaxDue \in Nat

VARIABLES
  stars,    \* context.get_all_stars() and the handlers registered
  later,    \* its order: of two plugins, the second comes later
  due,      \* hooks AstrBot has yet to call
  config,   \* config.custom_groups
  index,    \* the CommandIndex instance
  file,     \* the persistent cache
  rows,     \* runtime rows of the catalog: the version each was read from
  reachable,  \* get_all_stars() works
  asked,    \* queries since anything else happened: none, one, or more
  failures  \* history: what failed since on_astrbot_loaded, for the properties

indexVars == <<stars, later, due, config, index, file, rows, reachable, asked, failures>>

Gone == [version |-> None, active |-> FALSE]
Star == [version : Versions, active : BOOLEAN] \cup {Gone}

(* An index: for each plugin its command, and the custom commands. *)
Content == [commands : [Plugins -> Star], custom : Directories]
Blank == [commands |-> [p \in Plugins |-> Gone], custom |-> Empty]
NoContent == [commands |-> [p \in Plugins |-> Gone], custom |-> None]

Registry == [Plugins -> Versions \cup {None}]
Unread == [p \in Plugins |-> "unread"]

Instance == [cache : Content \cup {NoContent}, handlers : Registry \cup {Unread},
             count : 0..Cardinality(Plugins), signature : { NamesOf[d] : d \in Directories },
             groups : Directories]

NewInstance(d) ==
  [cache |-> NoContent, handlers |-> Unread, count |-> 0, signature |-> NamesOf[Empty], groups |-> d]

Hook == [hook : {"boot", "loaded", "unloaded"}, plugin : Plugins]
Boot == [hook |-> "boot", plugin |-> This]

TypeOK ==
  /\ stars \in [Plugins -> Star]
  /\ later \subseteq Plugins \X Plugins
  /\ due \in Seq(Hook)
  /\ config \in Directories
  /\ index \in Instance
  /\ file \in Content \cup {NoContent}
  /\ rows \in Registry
  /\ reachable \in BOOLEAN
  /\ asked \in 0..2
  /\ failures \subseteq Faults

Active == { p \in Plugins : stars[p].active }

(* The orders in which AstrBot may list these plugins. *)
Orders(ps) ==
  { order \in SUBSET { pair \in ps \X ps : pair[1] # pair[2] } :
      \A p, q, r \in ps :
        /\ p # q => (<<p, q>> \in order <=> <<q, p>> \notin order)
        /\ <<p, q>> \in order /\ <<q, r>> \in order => <<p, r>> \in order }

Listed == { p \in Plugins : stars[p] # Gone }

Init ==
  /\ stars \in [Plugins -> Star] /\ stars[This].active
  /\ later \in Orders(Listed)
  /\ due = <<Boot>>
  /\ config = Empty
  /\ index = NewInstance(Empty)
  /\ file = NoContent
  /\ rows = [p \in Plugins |-> None]
  /\ reachable = TRUE
  /\ asked = 0
  /\ failures = {}

-----------------------------------------------------------------------------
(* Building *)

(* Custom commands take the place of those of their name. *)
Applied(content, d) ==
  [commands |-> [p \in Plugins |-> IF p \in ReplacedBy[VisibleOf[d]] THEN Gone
                                   ELSE content.commands[p]],
   custom |-> VisibleOf[d]]

Handlers == [p \in Plugins |-> stars[p].version]

(* Handlers of a plugin that is listed later take the name, also those of  *)
(* a disabled plugin.                                                      *)
Overwritten(handlers) ==
  { p \in Plugins : \E q \in Rivals[p] : <<p, q>> \in later /\ handlers[q] # None }

(* _build_index from a snapshot of the handlers. *)
BuiltFrom(handlers, d) ==
  Applied([commands |-> [p \in Plugins |->
                           IF \/ stars[p] = Gone \/ handlers[p] = None
                              \/ p \in Overwritten(handlers) THEN Gone
                           ELSE [version |-> handlers[p], active |-> stars[p].active]],
           custom |-> Empty], d)

(* What the registry and the directory hold now. *)
Current == BuiltFrom(Handlers, index.groups)

Build(i) ==
  LET handlers == IF i.handlers = Unread THEN Handlers ELSE i.handlers
  IN [i EXCEPT !.cache = BuiltFrom(handlers, i.groups), !.handlers = handlers,
               !.count = Cardinality(Active)]

(* Where the plugin list cannot be had the index is empty. *)
BuildFailed(i) == [i EXCEPT !.cache = Blank]

(* _load_from_persistent_cache: a directory that is empty leaves the       *)
(* custom commands of the file.                                            *)
Loaded(i) ==
  [i EXCEPT !.cache = IF i.groups = Empty THEN file ELSE Applied(file, i.groups)]

MayFail(fault) == fault \in Faults /\ Cardinality(failures \cup {fault}) <= MaxFaults

-----------------------------------------------------------------------------
(* get_all_commands *)

(* _should_refresh_cache: what has changed is noted in the instance. *)
Noticed(i) ==
  IF Cardinality(Active) # i.count
    THEN [i EXCEPT !.count = Cardinality(Active), !.handlers = Unread]
  ELSE IF NamesOf[i.groups] # i.signature THEN [i EXCEPT !.signature = NamesOf[i.groups]]
  ELSE i

Warm(i) == i.cache # NoContent /\ i.cache # Blank

(* The instance i serves a call and becomes what index' says. *)
Get(i) ==
  \E unsaved \in {FALSE, "save" \in Faults} :
    \/ /\ Warm(i) /\ reachable /\ Noticed(i) = i
       /\ index' = i
       /\ UNCHANGED file
    \/ /\ ~Warm(i) /\ file # NoContent
       /\ index' = Loaded(i)
       /\ UNCHANGED file
    \/ /\ IF Warm(i) THEN ~reachable \/ Noticed(i) # i ELSE file = NoContent
       /\ index' = IF reachable THEN Build(IF Warm(i) THEN Noticed(i) ELSE i)
                   ELSE BuildFailed(i)
       /\ IF unsaved THEN file' \in {file, NoContent} ELSE file' = index'.cache

Query ==
  /\ Get(index)
  /\ asked' = IF asked < 2 THEN asked + 1 ELSE asked
  /\ UNCHANGED <<stars, later, due, config, rows, reachable, failures>>

-----------------------------------------------------------------------------
(* Resetting *)

(* Faults: the handlers read before, or their number, are kept. *)
ResetKeepingHandlers(i) == [i EXCEPT !.cache = NoContent, !.count = 0]
ResetKeepingCount(i) == [i EXCEPT !.cache = NoContent, !.handlers = Unread]

(* reset_cache; the signature of the groups stays. *)
Reset(i) == [i EXCEPT !.cache = NoContent, !.handlers = Unread, !.count = 0]

(* _clear_persistent_cache swallows what unlink raises. *)
Unlink ==
  \E failed \in {FALSE, MayFail("unlink")} :
    /\ file' = IF failed THEN file ELSE NoContent
    /\ failures' = failures \cup (IF failed THEN {"unlink"} ELSE {})

(* A commit of the custom directory or a policy set by hand: update_config *)
(* and invalidate_command_cache.                                           *)
Edit(d) ==
  /\ config' = d
  /\ index' = Reset([index EXCEPT !.groups = d])
  /\ Unlink
  /\ asked' = 0
  /\ UNCHANGED <<stars, later, due, rows, reachable>>

-----------------------------------------------------------------------------
(* Hooks of main.py; that their transaction may fail is CommandCatalog's.  *)

Called(hook, p) ==
  /\ due # <<>>
  /\ Head(due) = [hook |-> hook, plugin |-> p]
  /\ due' = Tail(due)
  /\ asked' = 0
  /\ UNCHANGED <<stars, later, config, reachable>>

(* A hook resets the index and reads it: the file is only there if it      *)
(* could not be removed.                                                   *)
ResetAndGet(since) ==
  LET i == Reset(index) IN
  \/ /\ MayFail("unlink")
     /\ file # NoContent
     /\ index' = Loaded(i)
     /\ failures' = failures \cup {"unlink"}
     /\ UNCHANGED file
  \/ \E unsaved \in {FALSE, "save" \in Faults} :
       /\ index' = IF reachable THEN Build(i) ELSE BuildFailed(i)
       /\ file' = IF unsaved THEN NoContent ELSE index'.cache
       /\ failures' = since

(* _runtime_entries of ps: inactive commands are passed over. *)
RowsOf(content, ps) ==
  [p \in Plugins |-> IF p \notin ps THEN rows[p]
                     ELSE IF content.commands[p].active THEN content.commands[p].version
                     ELSE None]

(* handle_astrbot_loaded; sync_all drops what is not active. *)
AstrBotLoaded ==
  /\ Called("boot", This)
  /\ ResetAndGet(IF reachable THEN {} ELSE {"context"})
  /\ rows' = [p \in Plugins |-> IF p \in Active THEN RowsOf(index'.cache, Plugins)[p] ELSE None]

(* Fault: the index is not reset. *)
PluginLoadedUnreset(p) ==
  /\ Called("loaded", p)
  /\ Get(index)
  /\ rows' = RowsOf(index'.cache, {p})
  /\ UNCHANGED failures

(* handle_plugin_loaded *)
PluginLoaded(p) ==
  /\ Called("loaded", p)
  /\ ResetAndGet(failures)
  /\ rows' = RowsOf(index'.cache, {p})

(* handle_plugin_unloaded *)
PluginUnloaded(p) ==
  /\ Called("unloaded", p)
  /\ rows' = [rows EXCEPT ![p] = None]
  /\ UNCHANGED <<index, file, failures>>

-----------------------------------------------------------------------------
(* AstrBot *)

Due(hook, p) ==
  /\ Len(due) < MaxDue
  /\ due' = Append(due, [hook |-> hook, plugin |-> p])
  /\ asked' = 0

(* A plugin is loaded, enabled or replaced by another version of it. *)
Load(p) ==
  /\ ~stars[p].active
  /\ \E v \in Versions : stars' = [stars EXCEPT ![p] = [version |-> v, active |-> TRUE]]
  /\ later' \in Orders(Listed')
  /\ Due("loaded", p)
  /\ UNCHANGED <<config, index, file, rows, reachable, failures>>

(* A plugin is disabled or removed. *)
Unload(p) ==
  /\ p # This /\ stars[p].active
  /\ stars' \in { [stars EXCEPT ![p] = Gone], [stars EXCEPT ![p].active = FALSE] }
  /\ later' = later \cap (Listed' \X Listed')
  /\ Due("unloaded", p)
  /\ UNCHANGED <<config, index, file, rows, reachable, failures>>

(* This plugin is loaded anew: init_plugin_service makes another instance, *)
(* and the file stays.                                                     *)
Reload ==
  /\ \E v \in Versions : stars' = [stars EXCEPT ![This].version = v]
  /\ later' \in Orders(Listed)
  /\ index' = NewInstance(config)
  /\ Due("loaded", This)
  /\ UNCHANGED <<config, file, rows, reachable, failures>>

(* The process starts anew, perhaps with other plugins. *)
Restart ==
  /\ stars' \in [Plugins -> Star] /\ stars'[This].active
  /\ later' \in Orders(Listed')
  /\ due' = <<Boot>>
  /\ index' = NewInstance(config)
  /\ asked' = 0
  /\ UNCHANGED <<config, file, rows, reachable, failures>>

(* The plugin list cannot be had, and can again. *)
ContextChanges ==
  /\ MayFail("context")
  /\ reachable' = ~reachable
  /\ failures' = failures \cup {"context"}
  /\ asked' = 0
  /\ UNCHANGED <<stars, later, due, config, index, file, rows>>

Next ==
  \/ Query \/ \E d \in Directories : Edit(d)
  \/ AstrBotLoaded \/ \E p \in Plugins : PluginLoaded(p) \/ PluginUnloaded(p)
  \/ (\E p \in Plugins : Load(p) \/ Unload(p)) \/ Reload \/ Restart \/ ContextChanges

Spec == Init /\ [][Next]_indexVars

-----------------------------------------------------------------------------
(* Properties *)

Settled == due = <<>> /\ reachable

(* Once the hooks due have run, a query is answered from the handlers that *)
(* are registered and the directory in force, although a change is only    *)
(* noticed by a count and a signature that may both be what they were.  A  *)
(* cache file that cannot be written does no harm; one that could not be   *)
(* removed may answer one query, but not the next: the reset count gives   *)
(* it away.                                                                *)
FreshOnceSettled ==
  Settled /\ "context" \notin failures
    /\ asked > (IF "unlink" \in failures THEN 1 ELSE 0) => index.cache = Current

(* A load hook cures the index of whatever failed before: of an empty file *)
(* or index, of handlers or counts of another time.                        *)
HooksRefresh ==
  [][(AstrBotLoaded \/ \E p \in Plugins : PluginLoaded(p))
     /\ reachable /\ "unlink" \notin failures'
       => index'.cache = Current']_indexVars

(* The name of its command may be taken from a plugin, by another one or   *)
(* by a custom command.                                                    *)
Contested(p) == Rivals[p] # {} \/ \E d \in Directories : p \in ReplacedBy[d]

Wanted(p) == IF stars[p].active THEN stars[p].version ELSE None

(* architecture.md:27: runtime commands do not migrate an old cache, they  *)
(* are rebuilt from the registry.  Once its hooks have run and if nothing  *)
(* failed, the catalog holds nothing of a plugin but the handlers it has   *)
(* while it is active, and lacks them only where another plugin or the     *)
(* directory may have taken the name.                                      *)
RowsFollowRegistry ==
  Settled /\ failures = {} =>
    \A p \in Plugins :
      /\ rows[p] \in {None, Wanted(p)}
      /\ ~Contested(p) => rows[p] = Wanted(p)

(* ... and lacks no handler that the index shows.  The code drops the row  *)
(* of a command whose name another has taken, and when the name is free    *)
(* again the row does not come back.                                       *)
ShownHandlersHaveRows ==
  Settled /\ failures = {} =>
    \A p \in Plugins : Current.commands[p].active => rows[p] = stars[p].version

(* RowsFollowRegistry where the file could not be removed: the code reads  *)
(* the old commands from it and stores them.                               *)
OldFileIgnored ==
  Settled /\ "context" \notin failures =>
    \A p \in Plugins : ~Contested(p) => rows[p] = Wanted(p)

(* command_index.py:479: an index that is empty has to be built again.     *)
(* The code saves an empty index, and then reads it from the file.         *)
EmptyIndexRebuilt == reachable /\ asked = 2 => index.cache # Blank

(* What search_commands looks through: entries marked inactive are passed  *)
(* over, and those of aliases never carry the mark.                        *)
Found(content) ==
  { p \in Plugins : /\ content.commands[p] # Gone
                    /\ content.commands[p].active \/ p \in Aliased }

(* command_index.py:309: commands of disabled plugins are filtered out.    *)
DisabledNotFound ==
  Settled /\ asked > 0 => \A p \in Found(index.cache) : stars[p].active
=============================================================================
