# TLA+ models of astrbot_plugin_help

The plugin lets an agent run AstrBot commands for a chat user: it resolves whom
the command is for, checks policy and privacy, reserves an *execution receipt*
in SQLite so that a retried tool call does not run the command twice, hands the
command to a background task, listens to it for a bounded time and answers.
Around that it keeps what such a call needs: a catalog of commands and their
policies, a custom directory, an index of what plugins register, identities and
privacy, and a history. These modules model all of it that keeps state, TLC
checks them on small instances, and TLAPS proves the safety results for every
instance.

Paths below are relative to the repository root.

## The system

Everything runs on one asyncio event loop: between two `await`s the code is
atomic, at an `await` any other coroutine may run or the call may be cancelled.
SQLite is used through short synchronous transactions (`BEGIN IMMEDIATE`), so a
transaction is atomic too, but any of them may fail (lock timeout, I/O), and
only its committed effect survives a crash.

| component | state | operations | what is hard | correct when |
|---|---|---|---|---|
| Execution receipts (`execution_receipt_service.py`) | table `execution_receipts`, dedupe window, clock | `reserve`, `save_result`, `release_reserved`, `fail_or_release` | retries, failed writes, clock steps, boundary of the window, crash with a reserved row | one dispatch per key and window; a final receipt is final |
| Command executor (`analysis/executor.py`) | `_background_tasks`, `_CommandTaskState` of each task | `execute`, `_dispatch_command_task`, `shutdown` | tool, task, timeouts and shutdown race; handlers hang or catch their cancellation; `cleanup()` raises | no failure recorded is hidden; every tool returns; tasks are referenced, and collected if their handlers end |
| Delegated command service (`delegated_command_service.py`) | only its coroutine | `execute` | three awaits between check and answer, cancellation, three SQLite writes that may fail | authorised when granted, dispatched commands keep their key, answers match what happened |
| Command catalog (`command_catalog_service.py`, `storage/catalog.py`) | `commands`, policies, manual flags | sync on load/unload, `update_command_policy` | plugin reload, manual choices, strictness of updates | an update never loosens a policy |
| Custom directory (`custom_group_service.py`, `config_manager.py`) | tables of groups and entries, a memory snapshot, delete tokens | create, replace, update, delete (preview, confirm) | snapshot against database, a commit that is not published, token reuse, stale `missing_plugin`, ambiguous triggers | database is the only authority; no edit makes a trigger ambiguous; a token works once |
| Identity (`identity_service.py`, `identity_resolution.py`) | participants, aliases, opaque refs, privacy | observe, resolve, alias, privacy | live roster against observations, inactive users, expiry | never names somebody the caller did not mean |
| History and preference (`command_history_service.py`) | `command_history`, aggregates | record, list, cleanup, clear, boost | id reuse, retention | only dispatched commands; counts cover the details kept; a detail names its command |
| Legacy import (`storage/legacy.py`, `scripts/`) | backup file, `legacy_imports` | import | crash between backup and commit, two importers | at most one import, all or nothing |
| Command index (`analysis/command_index.py`) | in-memory index, persistent cache | rebuild, cache, invalidate | stale cache, names taken by another command | index shows the registry |
| Search, regex helper, text, DTOs, dashboard | none | pure functions, presentation | | |

How they interact: `main.py` calls `HelpService`, which calls
`DelegatedCommandService.execute`; that one awaits the identity service, reads
the catalog and the privacy table, calls the receipt service synchronously,
awaits `CommandExecutor.execute`, and calls the receipt service and the history
service synchronously. `terminate()` calls `CommandExecutor.shutdown()`. Plugin
events of AstrBot make the runtime service rewrite the catalog at any time.

## Modules

| module | models | implements / composes |
|---|---|---|
| `DispatchGrants` | the promise of the receipt table, without a table | |
| `ExecutionReceipts` | `ExecutionReceiptService` and its table | implements `DispatchGrants` |
| `CommandDispatch` | the promise of the executor to whoever awaits it | |
| `CommandExecutor` | `CommandExecutor.execute`, its task, `shutdown` | implements `CommandDispatch` |
| `DelegatedCommand` | `DelegatedCommandService.execute` | composes `ExecutionReceipts` and `CommandDispatch` |
| `CommandCatalog` | the `commands` table, its synchronisation, policies and `find_command` | |
| `CustomDirectory` | `CustomGroupService` and its memory | composes `CommandCatalog` |
| `IdentityDirectory` | `IdentityService`, `resolve` | |
| `CommandHistory` | `CommandHistoryService` and the row ids it depends on | |
| `CommandIndex` | `CommandIndex`, its two caches, the rows a hook writes from it | |
| `LegacyImport` | the one-time import, by the plugin and by the CLI | |
| `*_proofs` | theorems | |
| `MC*` | instances for TLC | |

The definitions called *Fault* in a comment are no part of the specifications:
each is the faulty form of the definition after it (a dropped guard, a missing
argument, a wrong order). Putting it in the place of that definition makes TLC
find one property violated, which shows that the property depends on the code.

### ExecutionReceipts

`receipts[c]` is the row that call `c` inserted (`Absent` before, `Released`
after its deletion), reduced to the state and the three flags that guards and
answers read; `created_at[c]` is its time. `Suppressors` is the `WHERE` clause
of `reserve`, `StateInvariants` the table of the same name. `reserve`,
`save_result` and `release_reserved` are one transaction each, so one action
each. `FailOrRelease` is the cascade save, else release, else leave; which of
these SQLite lets through is nondeterministic. The wall clock is an integer that
can be set back (`datetime.now` is no monotonic clock), and the window changes
by `reconfigure()` or by a restart under another configuration; the proofs use
only the smallest window configured. `reserve` reads the clock before it takes
the write lock, which on one event loop is the same step. Rows of crashed or
cancelled calls simply never get their `SaveResult`.

### CommandExecutor

`tool[c]` is the `await` at which `execute()` is suspended, `task[c]` and
`state[c]` the background task and its `_CommandTaskState`, `cancelling` the
cancellations not yet delivered. The start-up wait needs the task *and* the
start event, as the call of `asyncio.wait` without `return_when` does. Time is
counted from the creation of the task and passes only when no coroutine is
ready. The matching of handlers and the pipeline are nondeterministic: they end,
fail, send messages or hang. A task ends `finished`, when `_dispatch_command_task`
returns, or `aborted`, by an exception that leaves it: `PipelineCancelled` (a
`CancelledError` that the pipeline raises by itself, which `except Exception` lets
through), `CleanupRaises` (`cleanup()` in the `finally` block) or
`CancelDelivered`. Only `TaskFails` and the failure that `cleanup()` follows
record an error. A cancellation may also be caught by what it is raised in
(`CancelSwallowed`); the task then goes on, without a limit. `External` are the
calls of commands that an external bot answers, for which a reply without a
message is `external_dispatched`. `CancelTool` is the cancellation of the agent
run; it cancels the waiting, not the task. A notice before the dispatch, and
every check, belongs to `checking`.

### DelegatedCommand

`pc[c]` is the `await` of `DelegatedCommandService.execute`: `resolving` (the
identity service), `preparing` (the allowed plugins), `executing` (the
executor). The code from the resolution to the reservation has no `await` and is
one step: `Deny`, `SuppressDuplicate` or `Reserve`. `Denied` lists the early
returns in their order. Everything after the executor is one step too
(`Finish`), with three ways for SQLite to behave: the save succeeds; it commits
and the read-back fails; it fails and the failure path runs. `CancelCall` is a
`CancelledError`, which `except Exception` lets through. `Crash` loses every
call under way. `SetPrivacy` and `ChangeEntry` are other users and plugin
events. The module relies on the executor only through `CommandDispatch`.

`Entry(c).blacklisted` stands for a *runtime* row of a blacklisted plugin; for a
custom row the executor decides, which is one of its `Decline`s. The target of a
call is fixed in `KeyOf`; a reference that resolves to somebody else makes
another call. `actor=self` is a call for the requester. The blacklist and the
two switches do not change while a plugin instance lives.

### CommandCatalog

`runtime[k]` is the row of a handler, keyed as `_runtime_key` keys it (plugin,
command, type, handler, filter), `entries` the rows of the custom directory.
`declared` and `loaded` are AstrBot's registry, `events` the hooks that AstrBot
has yet to call: a hook reads the registry of *its* moment, which may be several
loads later. Each hook is one transaction that may fail (`unsynced`), and a
restart forgets the hooks that were due and calls `on_astrbot_loaded`.
`Upsert` is the `ON CONFLICT` clause with its `CASE`s, `Revised` is
`update_command_policy`. `Found` is `find_command`: plain rows first, the
longest, custom before runtime, else all matching regex rows merged. Matching of
texts is a constant (`MatchedBy`), so that the regex engine stays out.
`Extracted` keeps one thing of `CommandIndex._extract_command` that matters
here: the tag of a regex handler hides that it is for administrators.

The index that a hook reads is a dictionary by name in which the entry made last
stays (`command_index.py:561`, `583`, `712`). `Contested` says of a handler that
another one, loaded, disabled or of the same plugin, has its name, or that a
custom command may (`Overlaid`). `Indexes` are the indexes there may be: each name
has one entry, and only a contested handler may be without one. Which one has it
is left open here; `CommandIndex` has the order.

### CustomDirectory

`memory` is `config.custom_groups`, which every edit copies, changes and writes
back whole; `groups` and `entries` are the tables. Each operation of the service
is one action, since it holds the lock and does not suspend. Its commit fails, or
saves and then publishes, which may fail too: `_commit` reports *persisted, memory
publish failed* and the tables stay ahead of the memory. `SetPolicy` is the
dashboard's policy request: it commits the policy and then reads the directory
back on another connection, which may raise. `parted` remembers that memory was
not set to what was stored last; the next edit starts from the old memory, and
saving that puts the two together again, at the price of what was not published.
`tokens` holds the content previewed for each group. `Background` are the hooks of
`CommandCatalog`, which write the same tables and leave the memory. `rewritten`
remembers the plugins of entries that an edit changed since their last hook, for
an edit writes the marks of its memory, and links and marks may be given by hand.
`parted` and `rewritten` are read by properties only.

A trigger stands for its `_trigger_key`. The import compares triggers within one
command only (`legacy.py:153-260`), and prefixes may be configured anew, so stored
entries may share triggers. `Located` finds the one entry of a trigger; where
there are several, the operation is refused (`ambiguous_trigger`). Two rows that
differ in nothing the module keeps are one entry.

### IdentityDirectory

One group chat. `members` is what the platform would list, `rows` is
`session_participants`, `refs` and `issued` the opaque references, `aliases` and
`privacy` their tables. `Resolve` is the part of `resolve` before its await
(reference, uid, mention, alias), `PlatformLists` the moment the platform takes
its list, `RosterArrives` and `RosterUnavailable` the part after; between them
anybody may speak, leave, refuse or be renamed. `Match` is `_match_rows`. What
the caller does with a resolution (store an alias, set a mode) follows without
an await and is in the same step. Times are ages.

### CommandHistory

`commands` is the table by row id, with SQLite's rule for new ids: one more than
the greatest, which may have been used before. A call keeps the id it looked up
(`calls`) across the executor's await and then `Record`s under it.
`RewriteCommand` is the commit of the custom directory, which inserts every
entry anew before it deletes the old rows. `Forgotten` is `ON DELETE SET NULL`.

### CommandIndex

`index` is the instance (cache, handlers, the count and signature it remembers),
`file` the persistent cache, `rows` what the hooks wrote into the catalog from
it. There is one entry to a name: `later` is the order of `get_all_stars()`, which
a load may change, `Rivals` says whose commands or aliases have the name of a
plugin's command, and `Overwritten` are the plugins that lose theirs to one listed
later, disabled or not; `Applied` then lets custom commands replace what is left
(`ReplacedBy`). Aliases that a replaced command leaves behind are left out. `Get`
is `get_all_commands` with its three ways: a warm cache that is still
good, a cold one with a file, and a build that is saved. `Faults` says which of
writing the file, removing it and listing the plugins may fail; `failures`
remembers which did since `on_astrbot_loaded` and is read by properties only, as
is `asked`.

### LegacyImport

An importer runs through `open`, `check`, `plan`, `backup`, `insert`, `publish`,
one action each; the write lock of SQLite is held from the check to the commit.
It may fail or die at each, and the file may be replaced at any time. A content
stands for a valid file. `Edit` is a commit of the running plugin.

## What the runs show

| run | instance | states | shows |
|---|---|---|---|
| `receipts` | 3 calls, 2 keys, clock 0..3, windows 2 and 3 | 221,496 | the table implements `DispatchGrants`; final rows stay |
| `executor` | 2 calls, one of them external, windows 1 and 2, modes `background` and `custom` | 241,294 | what is completed is over, recorded failures are shown, tasks are held, `CommandDispatch` is implemented, every `execute()` returns, `shutdown()` ends if handlers that catch their cancellation do |
| `retries` | 3 calls of one key, clock 0..3, window 2, symmetric | 1,207,968 | no second dispatch in the window; answers are true |
| `policy` | admin with override and member for one user; 6 entries, 3 modes | 437,256 | no reservation against the policy in force |
| `delegation_live` | 2 calls of one key, 6 entries, clock 0..3 | 205,200 | every call ends |
| `catalog` | 2 plugins, two commands of one name, which a custom command may have too, a regex handler, a custom regex, 2 hooks due, 2 decisions | 499,623 | rows follow the plugins; rows and lookups stay admissible; updates only tighten |
| `directory` | 2 groups, 2 triggers, 2 entries stored that share one, 1 submitted, 1 linked plugin | 502,696 | memory and database agree unless a publication failed; marks follow the plugins but for edits; no edit makes a trigger ambiguous; what was previewed is deleted |
| `identity` | 2 users, 2 names, 1 call, aliases and management | 3,103,472 | who refused or left is not resolved; names are unique; references last |
| `history` | 2 calls, 2 commands, ids 1..3 | 1,877,820 | counts cover details; details name their command; texts need consent |
| `index` | 2 plugins, 2 versions, 2 directories; the other plugin and the directory take the name of one's command; each of the three faults, one kind at a time; symmetric in versions | 649,535 | searches come to show what is registered; the catalog holds nothing else, and lacks only what may be replaced |
| `legacy` | plugin and CLI, 2 paths, 2 contents | 88,480 | one import, backed up, whole; edits survive; the lock is released |

Why the bounds are enough:

* A violation of spacing needs two calls of one key, and a third one for a key
  that was freed and taken again; four clock readings around a window of 2 give
  *before*, *exactly at* and *after* the boundary, and a step back.
* In the executor calls share only the task set and `shutdown`, so two show
  every interference; windows of 1 and 2 ticks let the second wait start with
  its budget spent or not. `Modes` leaves `auto` out: it waits like `custom`
  and has the window that `background` borrows.
* A policy decision concerns one command and one target; two requesters cover
  both roles.
* In the catalog a hook concerns one plugin, so two plugins show that one's
  hooks leave the other's rows alone; the second has two handlers, one of which
  contends for the first one's name. Two hooks due give a load and the unload
  that overtook it. The two decisions move a row to each side of both CHECKs.
* An edit names at most two groups. One entry stored has a trigger as its name,
  the other as its alias, so that the directory may begin with an ambiguous one,
  and renaming, adding and replacing meet it.
* In the identity run `m` is `n` followed by more, so that exact names, first
  segments and shared names all occur between two users. `Retention` 0 and
  `MaxWait` 1 make a row expire during a resolution. A resolution for a target
  differs from one for an alias only in that nothing is stored, so `Asked` has
  `alias` and `manage`.
* Reuse of a row id needs a row removed and one added while a call runs: three
  ids and two commands. The count of uses is bounded by 2.
* The index notices changes by a number and a set of names; two plugins of two
  versions give changes that leave both as they were. `MaxFaults` 1 lets any of
  the faults occur, any number of times, but no two kinds between two starts;
  writing the file may fail besides. One plugin's name is contested, the other's
  is not, so both halves of `RowsFollowRegistry` are at stake.
* Two importers are the fewest that can race; two contents that share a name
  show a second import and a file replaced in between.

Each instance was also run with the type invariant of its module (`TypeOK`,
`DirectoryTypeOK`), which the configurations list only for `receipts` and
`retries`; the other runs spend their time on the properties. The types are also
part of the invariants proved below, those of the directory apart.

Properties worth knowing by name:

* `GrantsSpaced`, `DispatchesSpaced`: at most one dispatch per key and window,
  in the table and for whole calls, through failures, cancellations, crashes and
  clock steps. `DispatchedKeepsKey` is why: once a task exists, the row counts.
* `SettledForever`: no late save or release touches a final row.
* `CompletedIsOver`, `FailureNotHidden`: the order of the cases in
  `_execution_result` matters, for every order of events. That a command reported
  completed *ran to its end* is more than the code says (see
  `CompletedMeansFinished` below): a task that ended by a `CancelledError`, or by
  `cleanup()`, recorded no error either.
* `ShutdownTerminates`: `gather` has no limit, so `shutdown()` ends if handlers
  that catch their cancellation end after all, and however they hang otherwise.
* `ReplyTellsDispatch`, `SuccessIsStored`: answers agree with the executor and
  with the table although every write may fail.
* `GrantsAuthorised`: the policy of `docs/project/architecture.md:43`, restated
  independently of the code's order, holds at the instant of the reservation.
* `RowsFollowRegistry` (in `CommandCatalog` and `CommandIndex`): once the hooks of
  a plugin have run, the catalog holds no row of it but those of its handlers, in
  whatever order loads, unloads, failures and restarts came, and none is lacking
  whose name is its own. Where a name is shared, a row may be lacking, also after
  the other has gone (`ShownHandlersHaveRows` below).
* `LinksFollowPlugins`: marks agree with the plugins once hooks have run, unless
  an edit has changed the entry since.
* `NoTriggerMadeAmbiguous`: operations address entries by trigger; none of them
  makes a trigger mean two entries, although the directory may begin with some.
* `SchemaHolds`, `UpdatesOnlyTighten`: manual policies and plugin updates meet
  in the same rows; no combination is refused by the CHECKs, and none loosens.
* `MemoryMatchesStore`: every edit starts from a copy in memory; but for
  `missing_plugin` marks it only parts from the database where something was saved
  and could not be published or read back, until the next edit, policy or start
  that succeeds.
* `PreviewedIsDeleted`: a deletion removes what the preview showed. After a failed
  publication this is not so: the next edit saves the old memory, and a group
  that had been saved and not published goes without a token.
* `RefusalRespected`, `NameIsUnique`: also for what happens during the await.
* `DetailNamesItsCommand`, `TextNeedsConsentNow`: ids are used again, so the row
  a call recorded under need not be the row it looked up; the detail still
  agrees with the row it names.
* `FreshOnceSettled`: a count and a signature may miss a change, hooks and
  commits then reset the index; a file that cannot be removed can give one stale
  answer, not two.
* `RecordBackedUp`, `ImportedOnce`: a record vouches for a backup of the bytes
  imported, and forbids every other import.

### Finding

One run states what a docstring says and TLC refutes it. `shutdown_survivor`:
`shutdown()` cancels a snapshot of the tasks; a tool still in its checks
schedules a task afterwards (`executor.py:58`, against its docstring).

### Other disagreements

Each of these configurations states one property after a document or a comment,
and TLC refutes it; they are kept to be run by hand.

| configuration, module | property | what the code does |
|---|---|---|
| `MCCommandExecutor_CompletedMeansFinished`, `MCCommandExecutor` | `CompletedMeansFinished` | a task that `shutdown()` or the pipeline's own `CancelledError` ended, or whose `cleanup()` raised, is `done()` and has no error, so a tool still listening reports `completed` (`executor.py:383-389`, `589`, against `main.py:160`) |
| `MCCommandExecutor_BackgroundReturnsOnStart`, `MCCommandExecutor` | `BackgroundReturnsOnStart` | `asyncio.wait({task, start_waiter})` waits for both, so a background call does not return when the scheduler starts (`executor.py:476`, against `main.py:623`); the window bounds it |
| `MCDelegated_DuplicateMeansAccepted`, `MCDelegatedCommand` | `DuplicateMeansAccepted` | a duplicate is answered from a row that is only reserved, and the original may end undispatched (`execution_receipt_service.py:111`, against `main.py:160-161`) |
| `MCDelegated_RetryableFreesKey`, `MCDelegatedCommand` | `RetryableFreesKey` | if SQLite refuses the failure and the release, the answer says `retryable=true` and the row suppresses the retry for a window (`delegated_command_service.py:98`, against the comment at line 254) |
| `MCCatalog_AdminHandlersAtLeastSensitive`, `MCCommandCatalog` | `AdminHandlersAtLeastSensitive` | a regex handler's tag replaces `admin`, so it is stored as normal (`command_index.py:870`, against `architecture.md:43`) |
| `MCCatalog_HandledTextsFound`, `MCCommandCatalog` | `HandledTextsFound` | a runtime regex row is stored as `regex:` and the pattern, and `find_command` searches texts for that; only a later branch of an alternation still matches (`command_runtime_service.py:211`, `command_index.py:825`) |
| `MCCatalog_DecisionsLast`, `MCCatalogDecisions` | `DecisionsLast` | a plugin update is an unload and a load, and the unload deletes the policies set by hand (`command_catalog_service.py:225`, against `architecture.md:43`) |
| `MCDirectory_UntouchedGroupsKept`, `MCCustomDirectory` | `UntouchedGroupsKept` | a commit writes the marks of all groups back as they were when the memory was read (`custom_group_service.py:609`, against `architecture.md:51`) |
| `MCIdentity_NewerObservationCounts`, `MCIdentityDirectory` | `NewerObservationCounts` | a roster listed before somebody spoke puts that person out of the group (`identity_resolution.py:207`, against `architecture.md:31`) |
| `MCHistory_TextOfFullCommandsOnly`, `MCCommandHistory` | `TextOfFullCommandsOnly` | the id looked up may belong to another command when the call records, whose mode then decides (`delegated_command_service.py:279`, against `configuration.md:19`) |
| `MCIndex_OldCache`, `MCCommandIndex` | `OldFileIgnored` | a cache file that could not be removed is read by the next hook, which stores its commands (`command_index.py:59`, against `architecture.md:27`) |
| `MCIndex_Replaced`, `MCCommandIndex` | `ShownHandlersHaveRows` | a custom command hides a handler of its name from a hook, whose row is dropped and does not come back when the custom command goes (`command_index.py:690`, against `architecture.md:27`) |
| `MCIndex_Shared`, `MCCommandIndex` | `ShownHandlersHaveRows` | while another plugin has the name of a command, a hook drops its row, which does not come back when that plugin goes, although the index shows the command again (`command_index.py:561`, against `architecture.md:27`) |
| `MCIndex_EmptyIndexRebuilt`, `MCCommandIndex` | `EmptyIndexRebuilt` | an empty index is saved, and read back instead of being built (`command_index.py:232`, against its line 479) |
| `MCIndex_DisabledNotFound`, `MCCommandIndex` | `DisabledNotFound` | aliases of a disabled command are found (`command_index.py:564`, against its line 309) |
| `MCLegacy_EditsAreLocal`, `MCLegacyImport` | `EditsAreLocal` | a plugin that runs during a CLI import deletes the imported groups with its next commit (`custom_group_service.py:609`, against `architecture.md:51`) |

## Fairness

`CommandExecutor`: weak fairness on the tool's steps, on beginning a task, on
the delivery of a cancellation, on the end of `shutdown()` and on time: the loop
runs what is ready, and clocks advance. It takes the checks and notices that a
tool awaits to end, which the code does not bound by itself. There is no
fairness for schedulers and handlers: they may hang. What is delivered need not
end a task, for a handler may catch its `CancelledError` and hang again;
`ShutdownTerminates` therefore assumes that those that do catch it end, and of the
others nothing. `DelegatedCommand`: weak
fairness on a call's steps: its lookups end, and its executor step ends because
`ToolReturns` holds. Nobody is obliged to call, cancel, crash or shut down. `LegacyImport`: weak
fairness on an importer's next step, since it is a synchronous program; that it
fails, dies or runs into the busy timeout are among its steps, and nobody has to
start one. The other modules state safety only: their operations end where they
began, and nobody is obliged to call them.

## What is proved

Every theorem is about every instance that satisfies the assumption of its
module (`...Assumption`), which TLC evaluates in the runs. All safety invariants
and action properties of the passing runs are proved, and both refinements; one of
the index (`FreshOnceSettled`) under a hypothesis that its run goes beyond.

`ExecutionReceipts_proofs` holds for any set of calls and keys, any windows, any
clock readings (`ReceiptAssumption`).

* `TypeCorrect`, and `Spacing`: `Spec => []GrantsSpaced`. The invariant is
  inductive together with `TypeOK`: only `Reserve` adds a counting row, and
  `Suppressors(c) = {}` says that every counting row of the key is at least
  `window >= LeastWindow` older; every other step leaves `created_at` alone and
  can only make rows stop counting, since a reserved row counts already. That the
  clock moves freely is harmless because spacing relates rows and never the clock.
* `Settled`: by cases on the steps; each write demands a reserved row.
* `Implementation`: initial states map to initial states and each step to a step
  or a stutter of `DispatchGrants`: `Reserve` to `Grant`, a save to `Settle` or,
  for a row that no longer counts, to `Withdraw`.
* `GrantsTyped` and `GrantsApart`: the promise itself, of grants that nothing
  else is known of (`Promise` instantiates `DispatchGrants` with variables of
  its own).

`CommandExecutor_proofs` holds for any calls, modes, windows and setting of the
notices (`ExecutorAssumption`).

* `TypeCorrect`, `CompletedOver`, `TasksHeld`, `FailuresShown`. Tool and task are
  two processes that share only the flags of `_CommandTaskState`. The invariant says what one
  may conclude of the other: a task exists from the moment the tool is past its
  checks (`TaskFollowsTool`), there is no error without a task (`NoTaskNoError`), a
  cancellation that is not yet delivered awaits a living task (`CancellingAlive`),
  and until the plugin is down the references are those to living tasks
  (`HeldAreAlive`). How a task ends plays no part in it. `FailuresShown` rests on
  the order of the cases of `_execution_result` (`ResultShape`), which looks at the
  error first.
* `Implementation`: `Spec => ImplementsDispatch`. Most steps of a task are
  stutters (`TaskQuiet`); `Schedule` is the dispatch, and every return of the tool
  the answer, with the flag by which the delegation decides about the key.

`DelegatedCommand_proofs` holds for any calls, users, keys, catalog entries,
privacy modes, windows and clock readings (`DelegationAssumption`).

* `KeyKept`: `Spec => []DispatchedKeepsKey`, and `Spacing`:
  `Spec => []DispatchesSpaced`. Neither is inductive: whether a failure may free
  a key depends on the flag that the executor returned, on whether a task was
  created, and on the row still being reserved. `Consistent(c)` ties these
  together at each `await` of a call (while `executing`, the row is reserved;
  once `returned`, the flag says whether `c` is in `scheduled`), and `Inv` adds
  types and the spacing of rows. Each step changes the state of one call only
  (`Undisturbed`), so each lemma looks at that call. `Spacing` then follows from
  `KeyKept` and the spacing of rows.
* `TypeCorrect`, `DispatchTold` and `SuccessStored`: an answer has to be true
  when it is given and to stay so. `Answers` adds to the above that a call which
  is over has answered about its own receipt (with the flag that tells of its
  task, and for a success with the row that is stored), or was refused, or was
  told of the receipt of another call (`OwnAnswer`, `OtherAnswer`). It stays so
  because no step of another call touches this one's row or task (`Elsewhere`).
* `Authorisation`: `Spec => GrantsAuthorised`. `NotDenied` shows that the early
  returns, taken in their order, let through what `architecture.md:43` allows, and
  `OnlyReserve` that no other step leaves a reserved row.

`LegacyImport_proofs` holds for any importers, paths, contents and group names
(`ImportAssumption`).

* `TypeCorrect`, `BackedUp`, `Whole`, `Once` and `EditsKept`: types and the four
  safety properties of the run. The invariant adds what an importer may rely on between its steps:
  `Exclusive` (from planning to inserting it holds the lock, nobody else does
  and nothing has been imported), `Planned` (what it is about to insert is what
  it backed up), and `MemoryCovered` and `EditsRemembered`, which relate the
  plugin's memory to the record and to the table; without them an edit could
  write back groups from before the import.

`CommandCatalog_proofs` holds for any plugins, handlers, custom entries and
decisions, and any number of hooks due (`CatalogAssumption`).

* `TypeCorrect`, and `Admissible`: `UpsertAdmissible` says it of one row, by the three fields;
  `update_command_policy` checks it itself. `Tightens` rests on the like lemma
  `UpsertTightens`.
* `RowsFollow`, whatever names the handlers share. It is not inductive: a hook runs
  long after the plugin changed, so it may write what is no longer so, and what
  makes that harmless is in the hooks still due: `LastWord` says that one which
  contradicts the registry is followed by one which does not. A plugin is settled
  only when no hook about it is left, hence the hook that settled it told the truth
  (`LastHookTrue`); a failed hook leaves it unsettled, and a restart everything. Of
  the index a hook reads no more is used than `IndexedKeys`: it holds handlers that
  are declared, and all whose name is their own.
* `FoundAdmissible`: each row that a text hits is admissible, and the strictest
  permission, policy and history of admissible rows make an admissible row
  (`MergedAdmissible`), whatever rows one text hits.

The same module proves the custom directory for any groups, entries, triggers and
links, any admissible directory at the start, ambiguous triggers included, and
anything submitted (`DirectoryAssumption` only says that what is submitted are
entries). Edits, hooks, policies, failing transactions, failing publications and
failing read-backs may come in any order.

* `MemoryMatches` and `LinksFollow`. `DirectoryInv` says that memory and catalog
  each are `Sound` (admissible entries in groups that exist), whether they are
  parted or not, and adds the two properties and the catalog's invariant. A hook
  only marks (`Remarked`); a commit writes memory's soundness to the tables or,
  failing, nothing; a publication or a read-back that fails sets `parted`. Marks
  follow as rows do (`LastWord`); an edit makes the plugins of what it changed
  exceptions until their next hook (`SavedLinks`).
* `DirectoryKeepsCatalog`: `SchemaHolds` and `RowsFollowRegistry` also hold with
  edits of the directory in between.
* `TriggersStayUnique`: `DirectorySpec => NoTriggerMadeAmbiguous`. Each operation
  compares what it adds or changes with the other entries of its group in memory,
  so what it saves is ambiguous only where its memory was (`EditCommits`).
* `DeletesPreviewed`: of all steps only `ConfirmDelete` makes a group disappear,
  since a commit starts from a memory with all groups of the database unless they
  are parted (`CommitKeepsGroups`); a token that covers the group was drawn from
  the content that is there now.

`IdentityDirectory_proofs` holds for any users, names, requesters, retention and
waiting time (`IdentityAssumption`).

* `TypeCorrect`; `RefusalsRespected`, `ResolvedArePresent`, `NamesUnique`: an
  answer is judged by the tables of the step that gives it, so each is proved of
  that step, whatever happened while it awaited the roster. `Effect` is what every
  way of answering has in common. `NamesUnique` follows the two searches of
  `_match_rows`, for the whole name and then for a first segment.
* `ReferencesKeep`: answering only draws references that are missing, and the
  cleanup only drops those of rows it drops.

`CommandHistory_proofs` holds for any calls, users, commands, retention and
number of ids (`HistoryAssumption`).

* `TypeCorrect`, `CountsCover`, `DetailsNamed` and `TextsConsented`. The first
  three are inductive together, with the kept details being finitely many.
  `DetailsNamed` needs that a new row never takes an id in use: there is a
  greatest id (`GreatestId`, from the least number principle), so SQLite's next id
  is free (`NextIdFree`), and a detail whose row goes forgets it. That the id was
  used before is harmless for the property, and the reason that
  `TextOfFullCommandsOnly` fails.

`CommandIndex_proofs` holds for any finite set of plugins, any versions,
directories and faults, and any number of hooks due (`IndexAssumption`).

* `TypeCorrect`, and `HooksReset`: `Spec => HooksRefresh`. A hook that can remove
  the file builds from nothing remembered (`ResetReads`).
* `FreshOnceAsked`: `FreshOnceSettled`, if the name of this plugin's own command is
  not taken by another plugin or a directory (`OwnCommand`). Queries compare a count
  and a signature, and either may be what it was although much has changed. What
  makes this enough is `CountTells`: while no hook that resets the index is due,
  plugins can only have gone since it was built, so the count remembered is 0 or not less than the
  number of active plugins, and equal only if the index is what is registered. A
  loaded plugin makes such a hook due; an unloaded one makes every count too large
  (`UnloadInv`). `QueriesNotice` says what the first and the second query leave.
  The hypothesis keeps the index from being empty. It is needed: where removing the
  file fails, all commands have been replaced and the group is then hidden, the
  index read back is empty, and an empty one is read from the old file again and
  again (as `EmptyIndexRebuilt` shows of another way there). The run does without
  it: there the name is taken by the other plugin and by a custom command.
* `RowsFollow`: `RowsFollowRegistry`, without a hypothesis, for any rivals, any
  order of the plugins and any directories that replace commands. As in the
  catalog, a row written by a hook that came late is put right by a hook still due
  (`LastWord`, `LastUnloadTrue`). `Right(p, row)` says what a row may be: nothing or
  the version wanted, and the version wanted if the name is not contested.

The constants' assumptions are of three kinds. Most give a constant its type. Some
say that a marker is not among the values it is distinguished from (`"none"` is no
call, no command, no version; `"unread"` no version; `NoPlugin`, `Nobody` and
`Absent` are none of the plugins, users, importers and contents), or that there are
finitely many plugins, which their count needs. The rest are facts of the code: the
executor's windows are positive, stored entries satisfy the schema's CHECKs, the
least window is a lower bound of those configured, this plugin is a plugin, and a
hidden group is not in the signature. That names, aliases or triggers are distinct
is assumed nowhere.

What stays with TLC: liveness (`ToolReturns`, `ShutdownTerminates`, `CallEnds`,
`LockReleased`), which is out of the prover's reach, and the disagreements above,
which are counterexamples.

## Not modelled

* *Keyword search* (`help_service.py`, `keyword_search.py`, `regex_helper.py`,
  `text.py`): scores of unbounded texts in floating point, and a preference boost
  on top of them; nothing TLC could enumerate faithfully. `search_commands` is
  modelled as far as what it may find (`CommandIndex.Found`).
* *The dashboard's reads, DTOs, configuration data, paths, logging, registration
  of tools and routes*: presentation and plain data without a protocol.
* *Repository operations of `storage/catalog.py` for single groups and entries
  (lines 1028-1246, but for `_delete_unreferenced_custom_commands` and
  `replace_all_custom_groups`)*: only tests call them.
* *Schema migration*: there is one schema version, written in one transaction
  (`LegacyImport.Open`).
* *AstrBot, SQLite, asyncio and the chat platform* are external: they appear as
  actions that may come at any time, and as transactions that may fail.
* In the modules: other chats, masking, the bot's own account and the text
  heuristics of inferred mentions (`IdentityDirectory`); descriptions,
  priorities, examples, subcommands, visibility and order (`CustomDirectory`,
  `CommandIndex`); platforms and the order of details (`CommandHistory`); what
  makes a legacy file valid (`LegacyImport`).

The modules are composed where components share state within one step:
`DelegatedCommand` with the receipts and the executor, `CustomDirectory` with
the catalog. `CommandHistory` takes of the catalog only its row ids and modes,
`CommandIndex` only the rows of the hooks, and `DelegatedCommand` an entry and a
privacy mode that change at any time: their product with the full modules would
be out of TLC's reach and add no shared step.
