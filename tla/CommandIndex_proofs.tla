------------------------- MODULE CommandIndex_proofs -------------------------
(***************************************************************************)
(* The index for any plugins, versions, directories and faults, and any    *)
(* number of hooks due.                                                    *)
(*                                                                         *)
(* A query only notices that a count has changed.  That this is enough     *)
(* rests on the hooks: once no hook that resets the index is due, plugins  *)
(* have only gone since the index was built, so that a count which is what *)
(* it was means that nothing has changed.                                  *)
(***************************************************************************)
EXTENDS CommandIndex, FiniteSetTheorems, SequenceTheorems, TLAPS

(* A hook is due that resets the index. *)
Pending == \E i \in 1..Len(due) : due[i].hook # "unloaded"

(* A hook is due that is about p, or about all plugins. *)
About(p) == \E i \in 1..Len(due) : due[i].hook = "boot" \/ due[i].plugin = p

(* This plugin has a command whose name is not taken from it, so that no   *)
(* index of it is empty.                                                   *)
OwnCommand == ~Contested(This)

Lively(content) == content = NoContent \/ content.commands[This] # Gone

(* What an instance read belongs together. *)
Sane ==
  /\ stars[This].active
  /\ ~reachable => "context" \in failures
  /\ index.cache = NoContent => index.handlers = Unread /\ index.count = 0
  /\ index.handlers # Unread => index.handlers[This] # None
  /\ OwnCommand /\ "context" \notin failures => Lively(index.cache) /\ Lively(file)

(* The count gives away what is not up to date. *)
CountTells ==
  /\ index.count = Cardinality(Active) => index.cache = Current /\ index.handlers = Handlers
  /\ index.count # 0 => index.count >= Cardinality(Active)
  /\ "unlink" \notin failures /\ index.cache = NoContent => file = NoContent

(* ... and queries notice. *)
QueriesNotice ==
  asked > 0 =>
    /\ Warm(index)
    /\ asked > 1 \/ "unlink" \notin failures => index.count = Cardinality(Active)

FreshInv ==
  OwnCommand /\ ~Pending /\ "context" \notin failures => CountTells /\ QueriesNotice

(* An unload that is due of a plugin that is active is followed by the     *)
(* load of it.                                                             *)
LastWord ==
  \A p \in Plugins : \A i \in 1..Len(due) :
    due[i] = [hook |-> "unloaded", plugin |-> p] /\ stars[p].active =>
      \E j \in (i + 1)..Len(due) : due[j] = [hook |-> "loaded", plugin |-> p]

(* What a row of p may hold. *)
Right(p, row) == row \in {None, Wanted(p)} /\ (~Contested(p) => row = Wanted(p))

(* Without failures the rows of a plugin no hook due is about are right.   *)
RowsInv ==
  failures = {} => \A p \in Plugins : ~About(p) => Right(p, rows[p])

Inv == TypeOK /\ Sane /\ FreshInv /\ LastWord /\ RowsInv

-----------------------------------------------------------------------------
(* Contents *)

LEMMA ContentShape ==
  /\ NoContent \notin Content
  /\ Blank \in Content /\ Blank.commands[This] = Gone
  /\ Unread \notin Registry
  /\ None \notin Versions
  /\ \A s \in Star : s.active \in BOOLEAN /\ s.version \in Versions \cup {None}
                     /\ (s # Gone => s.version \in Versions) /\ (s.active => s # Gone)
  <1>1. NoContent \notin Content
    BY IndexAssumption DEF NoContent, Content, None
  <1>2. Blank \in Content /\ Blank.commands[This] = Gone
    BY IndexAssumption DEF Blank, Content, Star
  <1>3. Unread \notin Registry
    BY IndexAssumption DEF Unread, Registry, None
  <1>4. \A s \in Star : s.active \in BOOLEAN /\ s.version \in Versions \cup {None}
                     /\ (s # Gone => s.version \in Versions) /\ (s.active => s # Gone)
    <2>. TAKE s \in Star
    <2>1. CASE s = Gone
      BY <2>1 DEF Gone
    <2>2. CASE s \in [version : Versions, active : BOOLEAN]
      BY <2>2, IndexAssumption DEF Gone
    <2>3. QED
      BY <2>1, <2>2 DEF Star
  <1>5. QED
    BY <1>1, <1>2, <1>3, <1>4, IndexAssumption

(* This plugin is one of finitely many that are active. *)
LEMMA ActiveCount ==
  ASSUME stars[This].active
  PROVE  /\ IsFiniteSet(Active)
         /\ Cardinality(Active) \in 0..Cardinality(Plugins)
         /\ Cardinality(Active) \in Nat /\ Cardinality(Active) # 0
         /\ Cardinality(Plugins) \in Nat
  <1>1. Active \subseteq Plugins /\ This \in Active /\ IsFiniteSet(Plugins)
    BY IndexAssumption DEF Active
  <1>2. IsFiniteSet(Active) /\ Cardinality(Active) <= Cardinality(Plugins)
    BY <1>1, FS_Subset
  <1>3. Cardinality(Active) \in Nat /\ Cardinality(Plugins) \in Nat
    BY <1>1, <1>2, FS_CardinalityType
  <1>4. Cardinality(Active) # 0
    BY <1>1, <1>2, FS_EmptySet
  <1>5. QED
    BY <1>2, <1>3, <1>4

LEMMA AppliedTyped ==
  ASSUME NEW content, content.commands \in [Plugins -> Star], NEW d \in Directories
  PROVE  /\ Applied(content, d) \in Content
         /\ OwnCommand => Applied(content, d).commands[This] = content.commands[This]
  <1>1. VisibleOf[d] \in Directories
    BY IndexAssumption
  <1>2. Applied(content, d) \in Content
    BY <1>1 DEF Applied, Content, Star
  <1>3. OwnCommand => Applied(content, d).commands[This] = content.commands[This]
    BY <1>1, IndexAssumption DEF Applied, OwnCommand, Contested
  <1>4. QED
    BY <1>2, <1>3

LEMMA HandlersTyped ==
  ASSUME stars \in [Plugins -> Star], stars[This].active
  PROVE  Handlers \in Registry /\ Handlers # Unread /\ Handlers[This] # None
  <1>1. Handlers \in Registry
    BY ContentShape DEF Handlers, Registry
  <1>2. Handlers[This] # None
    BY ContentShape, IndexAssumption DEF Handlers
  <1>3. QED
    BY <1>1, <1>2, ContentShape

LEMMA BuiltTyped ==
  ASSUME stars \in [Plugins -> Star], stars[This].active,
         NEW handlers \in Registry, NEW d \in Directories
  PROVE  /\ BuiltFrom(handlers, d) \in Content
         /\ OwnCommand /\ handlers[This] # None => BuiltFrom(handlers, d).commands[This] # Gone
  <1>. DEFINE commands == [p \in Plugins |->
                             IF \/ stars[p] = Gone \/ handlers[p] = None
                                \/ p \in Overwritten(handlers) THEN Gone
                             ELSE [version |-> handlers[p], active |-> stars[p].active]]
              read == [commands |-> commands, custom |-> Empty]
  <1>1. commands \in [Plugins -> Star]
    <2>1. ASSUME NEW p \in Plugins, ~(stars[p] = Gone \/ handlers[p] = None)
          PROVE  [version |-> handlers[p], active |-> stars[p].active] \in Star
      BY <2>1, ContentShape DEF Registry, Star
    <2>2. QED
      BY <2>1 DEF Star
  <1>2. OwnCommand /\ handlers[This] # None => commands[This] # Gone
    <2>1. This \in Plugins /\ stars[This] # Gone
      BY IndexAssumption, ContentShape
    <2>2. OwnCommand => This \notin Overwritten(handlers)
      BY DEF OwnCommand, Contested, Overwritten
    <2>3. QED
      BY <2>1, <2>2 DEF Gone
  <1>3. BuiltFrom(handlers, d) = Applied(read, d)
    BY DEF BuiltFrom
  <1>4. read.commands = commands
    OBVIOUS
  <1>. HIDE DEF read, commands
  <1>5. QED
    BY <1>1, <1>2, <1>3, <1>4, AppliedTyped

(* What a hook reads of a plugin from an index just built. *)
LEMMA RowRead ==
  ASSUME stars \in [Plugins -> Star], NEW d \in Directories, NEW p \in Plugins
  PROVE  LET command == BuiltFrom(Handlers, d).commands[p] IN
         Right(p, IF command.active THEN command.version ELSE None)
  <1>. DEFINE command == BuiltFrom(Handlers, d).commands[p]
              row == IF command.active THEN command.version ELSE None
              taken == p \in ReplacedBy[VisibleOf[d]] \/ p \in Overwritten(Handlers)
  <1>1. taken => Contested(p)
    BY IndexAssumption DEF Contested, Overwritten
  <1>2. command = IF stars[p] = Gone \/ stars[p].version = None \/ taken THEN Gone
                  ELSE [version |-> stars[p].version, active |-> stars[p].active]
    BY DEF BuiltFrom, Applied, Handlers
  <1>. HIDE DEF command, taken
  <1>3. stars[p] = Gone <=> stars[p].version = None
    BY ContentShape DEF Gone
  <1>4. CASE taken
    <2>1. row = None
      BY <1>2, <1>4 DEF Gone
    <2>2. QED
      BY <1>1, <1>4, <2>1 DEF Right, command
  <1>5. CASE ~taken
    <2>1. row = Wanted(p)
      <3>1. CASE stars[p] = Gone
        BY <1>2, <3>1 DEF Wanted, Gone
      <3>2. CASE stars[p] # Gone
        BY <1>2, <1>3, <1>5, <3>2 DEF Wanted
      <3>3. QED
        BY <3>1, <3>2
    <2>2. QED
      BY <2>1 DEF Right, command
  <1>6. QED
    BY <1>4, <1>5

LEMMA OrdersTyped ==
  ASSUME NEW ps \in SUBSET Plugins, NEW order \in Orders(ps)
  PROVE  order \subseteq Plugins \X Plugins
  BY DEF Orders

-----------------------------------------------------------------------------
(* Instances *)

LEMMA BuildFields ==
  ASSUME TypeOK, stars[This].active, NEW i \in Instance
  PROVE  LET handlers == IF i.handlers = Unread THEN Handlers ELSE i.handlers IN
         /\ Build(i) \in Instance /\ handlers \in Registry
         /\ Build(i).cache = BuiltFrom(handlers, i.groups)
         /\ Build(i).handlers = handlers
         /\ Build(i).count = Cardinality(Active)
         /\ Build(i).groups = i.groups
  <1>. DEFINE handlers == IF i.handlers = Unread THEN Handlers ELSE i.handlers
  <1>1. handlers \in Registry
    BY HandlersTyped DEF TypeOK, Instance
  <1>2. BuiltFrom(handlers, i.groups) \in Content
    BY <1>1, BuiltTyped DEF TypeOK, Instance
  <1>3. Cardinality(Active) \in 0..Cardinality(Plugins)
    BY ActiveCount
  <1>4. Build(i) = [i EXCEPT !.cache = BuiltFrom(handlers, i.groups), !.handlers = handlers,
                             !.count = Cardinality(Active)]
    BY DEF Build
  <1>. HIDE DEF handlers
  <1>5. QED
    BY <1>1, <1>2, <1>3, <1>4 DEF Instance, handlers

LEMMA NoticedFields ==
  ASSUME TypeOK, stars[This].active, NEW i \in Instance
  PROVE  /\ Noticed(i) \in Instance
         /\ Noticed(i).cache = i.cache /\ Noticed(i).groups = i.groups
         /\ Noticed(i) = i => i.count = Cardinality(Active)
         /\ IF i.count = Cardinality(Active)
              THEN Noticed(i).handlers = i.handlers
              ELSE Noticed(i).handlers = Unread
  <1>1. Cardinality(Active) \in 0..Cardinality(Plugins)
    BY ActiveCount
  <1>2. CASE i.count # Cardinality(Active)
    BY <1>1, <1>2 DEF Noticed, Instance
  <1>3. CASE i.count = Cardinality(Active)
    BY <1>3 DEF Noticed, Instance
  <1>4. QED
    BY <1>2, <1>3

LEMMA LoadedFields ==
  ASSUME TypeOK, NEW i \in Instance, file # NoContent
  PROVE  /\ Loaded(i) \in Instance /\ Loaded(i).cache \in Content
         /\ Loaded(i).handlers = i.handlers /\ Loaded(i).count = i.count
         /\ Loaded(i).groups = i.groups
         /\ OwnCommand /\ Lively(file) => Loaded(i).cache.commands[This] # Gone
  <1>1. file \in Content /\ file.commands \in [Plugins -> Star] /\ i.groups \in Directories
    BY DEF TypeOK, Content, Instance
  <1>. DEFINE content == IF i.groups = Empty THEN file ELSE Applied(file, i.groups)
  <1>2. content \in Content /\ (OwnCommand => content.commands[This] = file.commands[This])
    BY <1>1, AppliedTyped
  <1>3. Loaded(i) = [i EXCEPT !.cache = content]
    BY DEF Loaded
  <1>. HIDE DEF content
  <1>4. QED
    BY <1>2, <1>3 DEF Instance, Lively

LEMMA ResetFields ==
  ASSUME NEW i \in Instance
  PROVE  /\ Reset(i) \in Instance
         /\ Reset(i).cache = NoContent /\ Reset(i).handlers = Unread /\ Reset(i).count = 0
         /\ Reset(i).groups = i.groups
  <1>1. 0 \in 0..Cardinality(Plugins)
    BY IndexAssumption, FS_CardinalityType
  <1>2. QED
    BY <1>1 DEF Reset, Instance

LEMMA NewInstanceFields ==
  ASSUME NEW d \in Directories
  PROVE  /\ NewInstance(d) \in Instance
         /\ NewInstance(d).cache = NoContent /\ NewInstance(d).handlers = Unread
         /\ NewInstance(d).count = 0
  <1>1. 0 \in 0..Cardinality(Plugins) /\ Empty \in Directories
    BY IndexAssumption, FS_CardinalityType
  <1>2. QED
    BY <1>1 DEF NewInstance, Instance

LEMMA FailedFields ==
  ASSUME NEW i \in Instance
  PROVE  /\ BuildFailed(i) \in Instance /\ BuildFailed(i).cache = Blank
         /\ BuildFailed(i).handlers = i.handlers /\ BuildFailed(i).groups = i.groups
  BY ContentShape DEF BuildFailed, Instance

-----------------------------------------------------------------------------
(* Reading *)

(* What a hook or query does to the instance and the file.                 *)
Read ==
  /\ index' \in Instance /\ file' \in Content \cup {NoContent}
  /\ index'.groups = index.groups
  /\ index'.cache = NoContent => index'.handlers = Unread /\ index'.count = 0
  /\ index'.handlers # Unread => index'.handlers[This] # None

(* An index that is built from what is registered. *)
Fresh ==
  /\ index'.cache = BuiltFrom(Handlers, index.groups)
  /\ index'.handlers = Handlers
  /\ index'.count = Cardinality(Active)

(* Building with handlers that are those registered, or any others.        *)
LEMMA BuildReads ==
  ASSUME TypeOK, Sane, NEW i \in Instance, i.groups = index.groups,
         i.handlers \in {Unread, index.handlers}, index' = Build(i),
         file' \in {file, NoContent, index'.cache}
  PROVE  /\ Read
         /\ index'.cache \in Content /\ index'.count = Cardinality(Active)
         /\ i.handlers \in {Unread, Handlers} => Fresh
         /\ OwnCommand => index'.cache.commands[This] # Gone
  <1>. DEFINE handlers == IF i.handlers = Unread THEN Handlers ELSE i.handlers
  <1>1. /\ index' \in Instance /\ handlers \in Registry
        /\ index'.cache = BuiltFrom(handlers, i.groups)
        /\ index'.handlers = handlers /\ index'.count = Cardinality(Active)
        /\ index'.groups = i.groups
    BY BuildFields DEF Sane
  <1>2. stars \in [Plugins -> Star] /\ stars[This].active /\ i.groups \in Directories
    BY DEF TypeOK, Sane, Instance
  <1>3. handlers[This] # None
    BY <1>2, HandlersTyped DEF Sane
  <1>4. i.handlers \in {Unread, Handlers} => handlers = Handlers
    OBVIOUS
  <1>. HIDE DEF handlers
  <1>5. /\ index'.cache \in Content
        /\ OwnCommand => index'.cache.commands[This] # Gone
    BY <1>1, <1>2, <1>3, BuiltTyped
  <1>6. Read
    BY <1>1, <1>3, <1>5, ContentShape DEF Read, TypeOK
  <1>7. QED
    BY <1>1, <1>4, <1>5, <1>6 DEF Fresh

(* The ways in which get_all_commands answers. *)
LEMMA GetCases ==
  ASSUME TypeOK, Sane, Get(index)
  PROVE  \/ Warm(index) /\ Noticed(index) = index /\ index' = index /\ file' = file
         \/ ~Warm(index) /\ file # NoContent /\ index' = Loaded(index) /\ file' = file
         \/ /\ IF Warm(index) THEN Noticed(index) # index ELSE file = NoContent
            /\ reachable
            /\ index' = Build(IF Warm(index) THEN Noticed(index) ELSE index)
            /\ file' \in {file, NoContent, index'.cache}
         \/ /\ ~reachable
            /\ index' = BuildFailed(index)
            /\ file' \in {file, NoContent, index'.cache}
  BY DEF Get

LEMMA GetReads ==
  ASSUME TypeOK, Sane, Get(index)
  PROVE  /\ Read
         /\ OwnCommand /\ "context" \notin failures => Lively(index'.cache) /\ Lively(file')
  <1>1. index \in Instance /\ file \in Content \cup {NoContent}
    BY DEF TypeOK
  <1>2. CASE index' = index /\ file' = file
    BY <1>1, <1>2 DEF Read, Sane
  <1>3. CASE file # NoContent /\ index' = Loaded(index) /\ file' = file
    <2>1. /\ index' \in Instance /\ index'.cache \in Content
          /\ index'.handlers = index.handlers /\ index'.groups = index.groups
          /\ OwnCommand /\ Lively(file) => index'.cache.commands[This] # Gone
      BY <1>1, <1>3, LoadedFields
    <2>2. Read
      BY <1>1, <1>3, <2>1, ContentShape DEF Read, Sane
    <2>3. QED
      BY <1>3, <2>1, <2>2 DEF Sane, Lively
  <1>4. CASE /\ reachable
             /\ index' = Build(IF Warm(index) THEN Noticed(index) ELSE index)
             /\ file' \in {file, NoContent, index'.cache}
    <2>. DEFINE i == IF Warm(index) THEN Noticed(index) ELSE index
    <2>1. i \in Instance /\ i.groups = index.groups /\ i.handlers \in {Unread, index.handlers}
      BY <1>1, NoticedFields DEF Sane
    <2>. HIDE DEF i
    <2>2. Read /\ (OwnCommand => index'.cache.commands[This] # Gone)
      BY <1>4, <2>1, BuildReads DEF i
    <2>3. QED
      BY <1>4, <2>2 DEF Sane, Lively
  <1>5. CASE /\ ~reachable
             /\ index' = BuildFailed(index)
             /\ file' \in {file, NoContent, index'.cache}
    <2>1. "context" \in failures
      BY <1>5 DEF Sane
    <2>2. index' \in Instance /\ index'.cache = Blank /\ index'.groups = index.groups
          /\ index'.handlers = index.handlers
      BY <1>1, <1>5, FailedFields
    <2>3. QED
      BY <1>1, <1>5, <2>1, <2>2, ContentShape DEF Read, Sane
  <1>6. QED
    BY <1>2, <1>3, <1>4, <1>5, GetCases

(* A hook that resets the index and finds no file builds it from what is   *)
(* registered.                                                             *)
LEMMA ResetReads ==
  ASSUME TypeOK, Sane, NEW since \in SUBSET Faults, ResetAndGet(since),
         ~reachable => "context" \in since
  PROVE  /\ Read /\ failures' \in SUBSET Faults
         /\ ~reachable => "context" \in failures'
         /\ OwnCommand /\ "context" \notin failures' => Lively(index'.cache) /\ Lively(file')
         /\ reachable /\ "unlink" \notin failures' => Fresh
         /\ \/ "unlink" \in failures' /\ index'.cache # NoContent /\ index'.count = 0
            \/ failures' = since /\ (reachable => Fresh /\ index'.cache # NoContent)
  <1>. DEFINE i == Reset(index)
  <1>1. /\ i \in Instance /\ i.handlers = Unread /\ i.count = 0 /\ i.groups = index.groups
    BY ResetFields DEF TypeOK
  <1>2. CASE /\ "unlink" \in Faults
             /\ file # NoContent
             /\ index' = Loaded(i)
             /\ failures' = failures \cup {"unlink"}
             /\ UNCHANGED file
    <2>. HIDE DEF i
    <2>1. /\ index' \in Instance /\ index'.cache \in Content
          /\ index'.handlers = Unread /\ index'.count = 0 /\ index'.groups = index.groups
          /\ OwnCommand /\ Lively(file) => index'.cache.commands[This] # Gone
      BY <1>1, <1>2, LoadedFields
    <2>2. Read /\ index'.cache # NoContent
      BY <1>2, <2>1, ContentShape DEF Read, TypeOK
    <2>3. failures' \in SUBSET Faults /\ (~reachable => "context" \in failures')
      BY <1>2 DEF TypeOK, Sane
    <2>4. OwnCommand /\ "context" \notin failures' => Lively(index'.cache) /\ Lively(file')
      BY <1>2, <2>1 DEF Sane, Lively
    <2>5. QED
      BY <1>2, <2>1, <2>2, <2>3, <2>4
  <1>3. CASE /\ index' = IF reachable THEN Build(i) ELSE BuildFailed(i)
             /\ file' \in {NoContent, index'.cache}
             /\ failures' = since
    <2>1. CASE reachable
      <3>. HIDE DEF i
      <3>1. /\ Read /\ Fresh /\ index'.cache \in Content
            /\ OwnCommand => index'.cache.commands[This] # Gone
        BY <1>1, <1>3, <2>1, BuildReads
      <3>2. index'.cache # NoContent
        BY <3>1, ContentShape
      <3>3. QED
        BY <1>3, <2>1, <3>1, <3>2 DEF Lively
    <2>2. CASE ~reachable
      <3>. HIDE DEF i
      <3>1. /\ index' \in Instance /\ index'.cache = Blank
            /\ index'.handlers = Unread /\ index'.groups = index.groups
        BY <1>1, <1>3, <2>2, FailedFields
      <3>2. Read
        BY <1>3, <3>1, ContentShape DEF Read
      <3>3. QED
        BY <1>3, <2>2, <3>2
    <2>3. QED
      BY <2>1, <2>2
  <1>4. QED
    BY <1>2, <1>3 DEF ResetAndGet, MayFail

(* What is read is current where nothing else changes. *)
LEMMA FreshCurrent ==
  ASSUME Read, Fresh, UNCHANGED <<stars, later>>
  PROVE  index'.cache = Current' /\ index'.handlers = Handlers' /\ index'.count = Cardinality(Active)'
  BY DEF Read, Fresh, Current, BuiltFrom, Overwritten, Applied, Handlers, Active

-----------------------------------------------------------------------------
(* Hooks due *)

LEMMA BootTyped == Boot \in Hook
  BY IndexAssumption DEF Boot, Hook

(* Calling a hook moves the others up by one. *)
Shifted(hook, p) ==
  /\ due' \in Seq(Hook)
  /\ Len(due) \in Nat /\ Len(due) > 0 /\ Len(due') = Len(due) - 1
  /\ \A i \in 2..Len(due) : i - 1 \in 1..Len(due') /\ due'[i - 1] = due[i]
  /\ \A i \in 1..Len(due') : i + 1 \in 2..Len(due) /\ due'[i] = due[i + 1]
  /\ due[1] = [hook |-> hook, plugin |-> p]
  /\ UNCHANGED <<stars, later, config, reachable>> /\ asked' = 0

LEMMA HookShifts ==
  ASSUME TypeOK, NEW hook, NEW p, Called(hook, p)
  PROVE  Shifted(hook, p)
  <1>1. due \in Seq(Hook) /\ due # <<>> /\ due' = Tail(due)
    BY DEF TypeOK, Called
  <1>2. Len(due) \in Nat /\ Len(due) > 0
    BY <1>1
  <1>3. /\ due' \in Seq(Hook)
        /\ Len(due') = Len(due) - 1
        /\ \A i \in 1..Len(due') : due'[i] = due[i + 1]
    BY <1>1, HeadTailProperties
  <1>4. \A i \in 2..Len(due) : i - 1 \in 1..Len(due') /\ due'[i - 1] = due[i]
    BY <1>2, <1>3
  <1>5. due[1] = [hook |-> hook, plugin |-> p]
    BY <1>1 DEF Called
  <1>6. \A i \in 1..Len(due') : i + 1 \in 2..Len(due)
    BY <1>2, <1>3
  <1>7. QED
    BY <1>2, <1>3, <1>4, <1>5, <1>6 DEF Called, Shifted

LEMMA DueAppends ==
  ASSUME TypeOK, NEW hook \in {"loaded", "unloaded"}, NEW p \in Plugins, Due(hook, p)
  PROVE  /\ due' \in Seq(Hook)
         /\ Len(due) \in Nat
         /\ Len(due') = Len(due) + 1
         /\ \A i \in 1..Len(due) : due'[i] = due[i]
         /\ due'[Len(due) + 1] = [hook |-> hook, plugin |-> p]
         /\ asked' = 0
  <1>1. [hook |-> hook, plugin |-> p] \in Hook
    BY DEF Hook
  <1>2. QED
    BY <1>1 DEF TypeOK, Due

(* Calling one leaves what the others say last. *)
LEMMA HookKeepsLastWord ==
  ASSUME TypeOK, LastWord, NEW hook, NEW p, Called(hook, p)
  PROVE  LastWord'
  <1>0. Shifted(hook, p)
    BY HookShifts
  <1>1. SUFFICES ASSUME NEW q \in Plugins, NEW i \in 1..Len(due'),
                        due'[i] = [hook |-> "unloaded", plugin |-> q], stars[q].active
                 PROVE  \E j \in (i + 1)..Len(due') : due'[j] = [hook |-> "loaded", plugin |-> q]
    BY <1>0 DEF LastWord, Shifted
  <1>2. i + 1 \in 1..Len(due) /\ due'[i] = due[i + 1] /\ (i + 1) + 1 = i + 2
    BY <1>0 DEF Shifted
  <1>3. PICK j \in (i + 2)..Len(due) : due[j] = [hook |-> "loaded", plugin |-> q]
    BY <1>1, <1>2 DEF LastWord
  <1>4. j \in 2..Len(due) /\ j - 1 \in (i + 1)..Len(due')
    BY <1>0, <1>3 DEF Shifted
  <1>5. due'[j - 1] = due[j]
    BY <1>0, <1>4 DEF Shifted
  <1>6. QED
    BY <1>3, <1>4, <1>5

(* An unload that is called of a plugin that no hook due is about is true. *)
LEMMA LastUnloadTrue ==
  ASSUME TypeOK, LastWord, NEW p \in Plugins, Called("unloaded", p), ~About(p)'
  PROVE  ~stars[p].active
  <1>. SUFFICES ASSUME stars[p].active PROVE FALSE
    OBVIOUS
  <1>0. Shifted("unloaded", p)
    BY HookShifts
  <1>1. due[1] = [hook |-> "unloaded", plugin |-> p] /\ 1 \in 1..Len(due)
    BY <1>0 DEF Shifted
  <1>2. PICK j \in 2..Len(due) : due[j] = [hook |-> "loaded", plugin |-> p]
    BY <1>1 DEF LastWord
  <1>3. j - 1 \in 1..Len(due') /\ due'[j - 1] = due[j]
    BY <1>0, <1>2 DEF Shifted
  <1>4. QED
    BY <1>2, <1>3 DEF About

(* Only the plugin of a hook ceases to have hooks due. *)
LEMMA HookOfOthers ==
  ASSUME TypeOK, NEW hook \in {"loaded", "unloaded"}, NEW p, Called(hook, p),
         NEW q \in Plugins, q # p, About(q)
  PROVE  About(q)'
  <1>0. Shifted(hook, p)
    BY HookShifts
  <1>1. PICK i \in 1..Len(due) : due[i].hook = "boot" \/ due[i].plugin = q
    BY DEF About
  <1>2. due[1].hook # "boot" /\ due[1].plugin # q
    BY <1>0 DEF Shifted
  <1>3. i \in 2..Len(due)
    BY <1>0, <1>1, <1>2 DEF Shifted
  <1>4. i - 1 \in 1..Len(due') /\ due'[i - 1] = due[i]
    BY <1>0, <1>3 DEF Shifted
  <1>5. QED
    BY <1>1, <1>4 DEF About

-----------------------------------------------------------------------------
(* Queries *)

(* An index that is not warm was never built. *)
LEMMA ColdEmpty ==
  ASSUME TypeOK, Sane, OwnCommand, "context" \notin failures, ~Warm(index)
  PROVE  index.cache = NoContent /\ index.handlers = Unread /\ index.count = 0
  BY ContentShape DEF Sane, Lively, Warm

(* An index just built is up to date. *)
LEMMA FreshTells ==
  ASSUME Sane, Read, Fresh, index'.cache # NoContent, UNCHANGED <<stars, later>>
  PROVE  CountTells' /\ index'.count = Cardinality(Active)'
  <1>1. /\ index'.cache = Current' /\ index'.handlers = Handlers'
        /\ index'.count = Cardinality(Active)'
    BY FreshCurrent
  <1>2. Cardinality(Active)' \in Nat
    <2>1. Cardinality(Active) \in Nat
      BY ActiveCount DEF Sane
    <2>2. QED
      BY <2>1 DEF Active
  <1>3. QED
    BY <1>1, <1>2 DEF CountTells

LEMMA QueryFresh ==
  ASSUME TypeOK, Sane, OwnCommand, "context" \notin failures, CountTells, QueriesNotice, Query
  PROVE  CountTells' /\ QueriesNotice'
  <1>1. reachable /\ UNCHANGED <<stars, later, failures>> /\ Get(index)
    BY DEF Query, Sane
  <1>2. (asked' > 1 => asked > 0) /\ Active' = Active
    BY <1>1 DEF Query, TypeOK, Active
  <1>3. index \in Instance /\ stars[This].active
    BY DEF TypeOK, Sane
  <1>4. CASE Noticed(index) = index /\ index' = index /\ file' = file /\ Warm(index)
    <2>1. index.count = Cardinality(Active)
      BY <1>3, <1>4, NoticedFields
    <2>2. Current' = Current /\ Handlers' = Handlers
      BY <1>1, <1>4 DEF Current, BuiltFrom, Overwritten, Applied, Handlers
    <2>3. QED
      BY <1>1, <1>2, <1>4, <2>1, <2>2 DEF CountTells, QueriesNotice, Warm
  <1>5. CASE ~Warm(index) /\ file # NoContent /\ index' = Loaded(index) /\ file' = file
    <2>1. index.cache = NoContent /\ index.count = 0
      BY <1>5, ColdEmpty
    <2>2. /\ index'.cache \in Content /\ index'.count = 0
          /\ index'.cache.commands[This] # Gone
      BY <1>3, <1>5, <2>1, LoadedFields DEF Sane
    <2>3. index'.cache # NoContent /\ Warm(index)'
      BY <2>2, ContentShape DEF Warm
    <2>4. Cardinality(Active) # 0
      BY <1>3, ActiveCount
    <2>5. "unlink" \in failures /\ ~(asked > 0)
      BY <1>5, <2>1 DEF CountTells, QueriesNotice
    <2>6. QED
      BY <1>1, <1>2, <2>2, <2>3, <2>4, <2>5 DEF CountTells, QueriesNotice
  <1>6. CASE /\ IF Warm(index) THEN Noticed(index) # index ELSE file = NoContent
             /\ index' = Build(IF Warm(index) THEN Noticed(index) ELSE index)
             /\ file' \in {file, NoContent, index'.cache}
    <2>. DEFINE i == IF Warm(index) THEN Noticed(index) ELSE index
    <2>1. /\ i \in Instance /\ i.groups = index.groups
          /\ i.handlers \in {Unread, index.handlers} /\ i.handlers \in {Unread, Handlers}
      <3>1. CASE Warm(index)
        BY <1>3, <3>1, NoticedFields DEF CountTells
      <3>2. CASE ~Warm(index)
        BY <1>3, <3>2, ColdEmpty
      <3>3. QED
        BY <3>1, <3>2
    <2>. HIDE DEF i
    <2>2. /\ Read /\ Fresh /\ index'.cache \in Content
          /\ index'.cache.commands[This] # Gone
      BY <1>6, <2>1, BuildReads DEF i
    <2>3. index'.cache # NoContent /\ Warm(index)'
      BY <2>2, ContentShape DEF Warm
    <2>4. CountTells' /\ index'.count = Cardinality(Active)'
      BY <1>1, <2>2, <2>3, FreshTells
    <2>5. QED
      BY <2>3, <2>4 DEF QueriesNotice
  <1>7. QED
    BY <1>1, <1>4, <1>5, <1>6, GetCases

LEMMA QueryInv ==
  ASSUME Inv, Query
  PROVE  Inv'
  <1>1. /\ TypeOK /\ Sane /\ Get(index)
        /\ UNCHANGED <<stars, later, due, config, rows, reachable, failures>>
    BY DEF Inv, Query
  <1>2. /\ Read
        /\ OwnCommand /\ "context" \notin failures => Lively(index'.cache) /\ Lively(file')
    BY <1>1, GetReads
  <1>3. asked' \in 0..2
    BY <1>1 DEF Query, TypeOK
  <1>4. TypeOK'
    BY <1>1, <1>2, <1>3 DEF TypeOK, Read
  <1>5. Sane'
    BY <1>1, <1>2 DEF Sane, Read
  <1>6. FreshInv'
    BY <1>1, QueryFresh DEF Inv, FreshInv, Pending
  <1>7. LastWord'
    BY <1>1 DEF Inv, LastWord
  <1>8. RowsInv'
    BY <1>1 DEF Inv, RowsInv, About, Right, Wanted, Contested
  <1>9. QED
    BY <1>4, <1>5, <1>6, <1>7, <1>8 DEF Inv

-----------------------------------------------------------------------------
(* Commits *)

LEMMA EditInv ==
  ASSUME Inv, NEW d \in Directories, Edit(d)
  PROVE  Inv'
  <1>1. /\ TypeOK /\ Sane
        /\ UNCHANGED <<stars, later, due, rows, reachable>> /\ config' = d /\ asked' = 0
    BY DEF Inv, Edit
  <1>. DEFINE i == [index EXCEPT !.groups = d]
  <1>2. i \in Instance
    BY <1>1 DEF TypeOK, Instance
  <1>3. /\ index' \in Instance /\ index'.cache = NoContent
        /\ index'.handlers = Unread /\ index'.count = 0
    BY <1>2, ResetFields DEF Edit
  <1>4. /\ file' \in {file, NoContent}
        /\ failures \subseteq failures' /\ failures' \subseteq failures \cup {"unlink"}
        /\ failures' \subseteq Faults
        /\ "unlink" \notin failures' => file' = NoContent
    BY <1>1 DEF Edit, Unlink, MayFail, TypeOK
  <1>5. TypeOK'
    BY <1>1, <1>3, <1>4 DEF TypeOK
  <1>6. Sane'
    BY <1>1, <1>3, <1>4 DEF Sane, Lively
  <1>7. CountTells' /\ QueriesNotice'
    <2>1. Cardinality(Active)' # 0
      <3>1. Cardinality(Active) # 0
        BY <1>1, ActiveCount DEF Sane
      <3>2. QED
        BY <1>1, <3>1 DEF Active
    <2>2. QED
      BY <1>1, <1>3, <1>4, <2>1 DEF CountTells, QueriesNotice
  <1>8. LastWord'
    BY <1>1 DEF Inv, LastWord
  <1>9. RowsInv'
    BY <1>1, <1>4 DEF Inv, RowsInv, About, Right, Wanted, Contested
  <1>10. QED
    BY <1>5, <1>6, <1>7, <1>8, <1>9 DEF Inv, FreshInv

-----------------------------------------------------------------------------
(* Hooks *)

(* A hook that resets the index and reads it, whatever rows it writes.     *)
LEMMA HookReads ==
  ASSUME Inv, NEW hook, NEW p, Called(hook, p), NEW since \in SUBSET Faults,
         ResetAndGet(since), ~reachable => "context" \in since, rows' \in Registry
  PROVE  /\ TypeOK' /\ Sane' /\ FreshInv' /\ LastWord'
         /\ failures' = {} => since = {} /\ index'.cache = BuiltFrom(Handlers, index.groups)
  <1>1. TypeOK /\ Sane
    BY DEF Inv
  <1>2. Shifted(hook, p)
    BY <1>1, HookShifts
  <1>3. /\ Read /\ failures' \in SUBSET Faults
        /\ ~reachable => "context" \in failures'
        /\ OwnCommand /\ "context" \notin failures' => Lively(index'.cache) /\ Lively(file')
        /\ \/ "unlink" \in failures' /\ index'.cache # NoContent /\ index'.count = 0
           \/ failures' = since /\ (reachable => Fresh /\ index'.cache # NoContent)
    BY <1>1, ResetReads
  <1>4. TypeOK'
    BY <1>1, <1>2, <1>3 DEF TypeOK, Read, Shifted
  <1>5. Sane'
    BY <1>1, <1>2, <1>3 DEF Sane, Read, Shifted
  <1>6. FreshInv'
    <2>1. SUFFICES ASSUME "context" \notin failures' PROVE CountTells' /\ QueriesNotice'
      BY DEF FreshInv
    <2>2. QueriesNotice'
      BY <1>2 DEF QueriesNotice, Shifted
    <2>3. CASE "unlink" \in failures' /\ index'.cache # NoContent /\ index'.count = 0
      <3>1. Cardinality(Active) # 0
        BY <1>1, ActiveCount DEF Sane
      <3>2. Cardinality(Active)' # 0
        BY <1>2, <3>1 DEF Active, Shifted
      <3>3. QED
        BY <2>2, <2>3, <3>2 DEF CountTells
    <2>4. CASE Fresh /\ index'.cache # NoContent
      BY <1>1, <1>2, <1>3, <2>2, <2>4, FreshTells DEF Shifted
    <2>5. QED
      BY <1>3, <2>1, <2>3, <2>4
  <1>7. LastWord'
    BY <1>1, HookKeepsLastWord DEF Inv
  <1>8. QED
    BY <1>3, <1>4, <1>5, <1>6, <1>7 DEF Fresh

LEMMA RowsTyped ==
  ASSUME TypeOK, NEW content \in Content, NEW ps
  PROVE  RowsOf(content, ps) \in Registry
  BY ContentShape DEF RowsOf, Content, Registry, TypeOK

(* What a hook reads is content. *)
LEMMA ReadContent ==
  ASSUME TypeOK, Sane, NEW since \in SUBSET Faults, ResetAndGet(since)
  PROVE  index'.cache \in Content
  <1>. DEFINE i == Reset(index)
  <1>1. i \in Instance /\ i.handlers = Unread /\ i.groups = index.groups
    BY ResetFields DEF TypeOK
  <1>. HIDE DEF i
  <1>2. CASE file # NoContent /\ index' = Loaded(i)
    BY <1>1, <1>2, LoadedFields
  <1>3. CASE index' = Build(i) /\ file' \in {file, NoContent, index'.cache}
    BY <1>1, <1>3, BuildReads
  <1>4. CASE index' = BuildFailed(i)
    BY <1>1, <1>4, FailedFields, ContentShape
  <1>5. QED
    BY <1>2, <1>3, <1>4 DEF ResetAndGet, i

LEMMA AstrBotLoadedInv ==
  ASSUME Inv, AstrBotLoaded
  PROVE  Inv'
  <1>. DEFINE since == IF reachable THEN {} ELSE {"context"}
  <1>1. /\ TypeOK /\ Sane /\ Called("boot", This) /\ ResetAndGet(since)
        /\ rows' = [p \in Plugins |->
                      IF p \in Active THEN RowsOf(index'.cache, Plugins)[p] ELSE None]
    BY DEF Inv, AstrBotLoaded
  <1>2. since \in SUBSET Faults /\ (~reachable => "context" \in since)
    BY <1>1 DEF TypeOK, Sane
  <1>. HIDE DEF since
  <1>3. RowsOf(index'.cache, Plugins) \in Registry
    BY <1>1, <1>2, ReadContent, RowsTyped
  <1>4. rows' \in Registry
    BY <1>1, <1>3 DEF Registry
  <1>5. /\ TypeOK' /\ Sane' /\ FreshInv' /\ LastWord'
        /\ failures' = {} => index'.cache = BuiltFrom(Handlers, index.groups)
    BY <1>1, <1>2, <1>4, HookReads
  <1>6. RowsInv'
    <2>1. SUFFICES ASSUME failures' = {}, NEW p \in Plugins
                   PROVE  Right(p, rows[p])'
      BY DEF RowsInv
    <2>2. stars' = stars /\ stars \in [Plugins -> Star] /\ index.groups \in Directories
      BY <1>1 DEF Called, TypeOK, Instance
    <2>3. p \notin Active => Right(p, None)
      BY DEF Right, Wanted, Active
    <2>4. LET command == BuiltFrom(Handlers, index.groups).commands[p] IN
          Right(p, IF command.active THEN command.version ELSE None)
      BY <2>2, RowRead
    <2>5. Right(p, RowsOf(index'.cache, Plugins)[p])
      BY <1>5, <2>1, <2>4 DEF RowsOf
    <2>6. Right(p, rows'[p])
      BY <1>1, <2>3, <2>5
    <2>7. QED
      BY <2>2, <2>6 DEF Right, Wanted, Contested
  <1>7. QED
    BY <1>5, <1>6 DEF Inv

LEMMA PluginLoadedInv ==
  ASSUME Inv, NEW p \in Plugins, PluginLoaded(p)
  PROVE  Inv'
  <1>1. /\ TypeOK /\ Sane /\ Called("loaded", p) /\ ResetAndGet(failures)
        /\ rows' = RowsOf(index'.cache, {p})
    BY DEF Inv, PluginLoaded
  <1>2. failures \in SUBSET Faults /\ (~reachable => "context" \in failures)
    BY <1>1 DEF TypeOK, Sane
  <1>3. rows' \in Registry
    BY <1>1, <1>2, ReadContent, RowsTyped
  <1>4. /\ TypeOK' /\ Sane' /\ FreshInv' /\ LastWord'
        /\ failures' = {} => failures = {} /\ index'.cache = BuiltFrom(Handlers, index.groups)
    BY <1>1, <1>2, <1>3, HookReads
  <1>5. RowsInv'
    <2>1. SUFFICES ASSUME failures' = {}, NEW q \in Plugins, ~About(q)'
                   PROVE  Right(q, rows[q])'
      BY DEF RowsInv
    <2>2. stars' = stars /\ stars \in [Plugins -> Star] /\ index.groups \in Directories
      BY <1>1 DEF Called, TypeOK, Instance
    <2>3. ASSUME q = p PROVE Right(q, rows'[q])
      <3>1. LET command == BuiltFrom(Handlers, index.groups).commands[p] IN
            Right(p, IF command.active THEN command.version ELSE None)
        BY <2>2, RowRead
      <3>2. QED
        BY <1>1, <1>4, <2>1, <2>3, <3>1 DEF RowsOf
    <2>4. ASSUME q # p PROVE Right(q, rows'[q])
      <3>1. ~About(q)
        BY <1>1, <2>1, <2>4, HookOfOthers
      <3>2. Right(q, rows[q])
        BY <1>4, <2>1, <3>1 DEF Inv, RowsInv
      <3>3. QED
        BY <1>1, <2>4, <3>2 DEF RowsOf
    <2>5. Right(q, rows'[q])
      BY <2>3, <2>4
    <2>6. QED
      BY <2>2, <2>5 DEF Right, Wanted, Contested
  <1>6. QED
    BY <1>4, <1>5 DEF Inv

LEMMA PluginUnloadedInv ==
  ASSUME Inv, NEW p \in Plugins, PluginUnloaded(p)
  PROVE  Inv'
  <1>1. /\ TypeOK /\ Sane /\ LastWord /\ Called("unloaded", p)
        /\ rows' = [rows EXCEPT ![p] = None]
        /\ UNCHANGED <<index, file, failures>>
    BY DEF Inv, PluginUnloaded
  <1>2. Shifted("unloaded", p)
    BY <1>1, HookShifts
  <1>3. TypeOK'
    BY <1>1, <1>2 DEF TypeOK, Shifted, Registry
  <1>4. Sane'
    BY <1>1, <1>2 DEF Sane, Shifted
  <1>5. FreshInv'
    <2>1. Pending => Pending'
      <3>1. SUFFICES ASSUME NEW i \in 1..Len(due), due[i].hook # "unloaded" PROVE Pending'
        BY DEF Pending
      <3>2. i \in 2..Len(due)
        BY <1>2, <3>1 DEF Shifted
      <3>3. i - 1 \in 1..Len(due') /\ due'[i - 1] = due[i]
        BY <1>2, <3>2 DEF Shifted
      <3>4. QED
        BY <3>1, <3>3 DEF Pending
    <2>2. CountTells => CountTells'
      BY <1>1, <1>2 DEF CountTells, Current, BuiltFrom, Overwritten, Applied, Handlers, Active, Shifted
    <2>3. QueriesNotice'
      BY <1>2 DEF QueriesNotice, Shifted
    <2>4. QED
      BY <1>1, <2>1, <2>2, <2>3 DEF Inv, FreshInv
  <1>6. LastWord'
    BY <1>1, HookKeepsLastWord
  <1>7. RowsInv'
    <2>1. SUFFICES ASSUME failures = {}, NEW q \in Plugins, ~About(q)'
                   PROVE  Right(q, rows[q])'
      BY <1>1 DEF RowsInv
    <2>2. stars' = stars
      BY <1>2 DEF Shifted
    <2>3. ASSUME q = p PROVE Right(q, rows'[q])
      <3>1. ~stars[p].active
        BY <1>1, <2>1, <2>3, LastUnloadTrue
      <3>2. QED
        BY <1>1, <2>3, <3>1 DEF Right, Wanted, TypeOK, Registry
    <2>4. ASSUME q # p PROVE Right(q, rows'[q])
      <3>1. ~About(q)
        BY <1>1, <2>1, <2>4, HookOfOthers
      <3>2. QED
        BY <1>1, <2>1, <2>4, <3>1 DEF Inv, RowsInv, TypeOK, Registry
    <2>5. Right(q, rows'[q])
      BY <2>3, <2>4
    <2>6. QED
      BY <2>2, <2>5 DEF Right, Wanted, Contested
  <1>8. QED
    BY <1>3, <1>4, <1>5, <1>6, <1>7 DEF Inv

-----------------------------------------------------------------------------
(* AstrBot *)

(* A hook that becomes due. *)
LEMMA DueKeeps ==
  ASSUME TypeOK, NEW hook \in {"loaded", "unloaded"}, NEW p \in Plugins, Due(hook, p)
  PROVE  /\ due' \in Seq(Hook) /\ asked' = 0
         /\ Pending \/ hook = "loaded" => Pending'
         /\ About(p)'
         /\ \A q \in Plugins : About(q) => About(q)'
  <1>1. /\ due' \in Seq(Hook) /\ Len(due) \in Nat /\ Len(due') = Len(due) + 1 /\ asked' = 0
        /\ \A i \in 1..Len(due) : due'[i] = due[i]
        /\ due'[Len(due) + 1] = [hook |-> hook, plugin |-> p]
    BY DueAppends
  <1>2. /\ Len(due) + 1 \in 1..Len(due')
        /\ \A i \in 1..Len(due) : i \in 1..Len(due')
    BY <1>1
  <1>3. Pending => Pending'
    <2>1. SUFFICES ASSUME NEW i \in 1..Len(due), due[i].hook # "unloaded" PROVE Pending'
      BY DEF Pending
    <2>2. QED
      BY <1>1, <1>2, <2>1 DEF Pending
  <1>4. hook = "loaded" => Pending'
    BY <1>1, <1>2 DEF Pending
  <1>5. About(p)'
    BY <1>1, <1>2 DEF About
  <1>6. ASSUME NEW q \in Plugins, About(q) PROVE About(q)'
    <2>1. PICK i \in 1..Len(due) : due[i].hook = "boot" \/ due[i].plugin = q
      BY <1>6 DEF About
    <2>2. QED
      BY <1>1, <1>2, <2>1 DEF About
  <1>7. QED
    BY <1>1, <1>3, <1>4, <1>5, <1>6

LEMMA DueKeepsLastWord ==
  ASSUME TypeOK, LastWord, NEW hook \in {"loaded", "unloaded"}, NEW p \in Plugins, Due(hook, p),
         \A q \in Plugins \ {p} : stars'[q] = stars[q],
         hook = "unloaded" => ~stars'[p].active
  PROVE  LastWord'
  <1>1. /\ Len(due) \in Nat /\ Len(due') = Len(due) + 1
        /\ \A i \in 1..Len(due) : due'[i] = due[i]
        /\ due'[Len(due) + 1] = [hook |-> hook, plugin |-> p]
    BY DueAppends
  <1>2. SUFFICES ASSUME NEW q \in Plugins, NEW i \in 1..Len(due'),
                        due'[i] = [hook |-> "unloaded", plugin |-> q], stars'[q].active
                 PROVE  \E j \in (i + 1)..Len(due') : due'[j] = [hook |-> "loaded", plugin |-> q]
    BY DEF LastWord
  <1>3. i # Len(due) + 1
    BY <1>1, <1>2
  <1>4. i \in 1..Len(due) /\ i + 1 <= Len(due) + 1
    BY <1>1, <1>3
  <1>5. CASE q = p
    <2>1. hook = "loaded"
      BY <1>2, <1>5
    <2>2. Len(due) + 1 \in (i + 1)..Len(due')
      BY <1>1, <1>4
    <2>3. QED
      BY <1>1, <1>5, <2>1, <2>2
  <1>6. CASE q # p
    <2>1. due[i] = [hook |-> "unloaded", plugin |-> q] /\ stars[q].active
      BY <1>1, <1>2, <1>4, <1>6
    <2>2. PICK j \in (i + 1)..Len(due) : due[j] = [hook |-> "loaded", plugin |-> q]
      BY <1>4, <2>1 DEF LastWord
    <2>3. j \in 1..Len(due) /\ j \in (i + 1)..Len(due')
      BY <1>1, <1>4
    <2>4. QED
      BY <1>1, <2>2, <2>3
  <1>7. QED
    BY <1>5, <1>6

(* Rows of plugins that nothing happens to. *)
LEMMA DueKeepsRows ==
  ASSUME TypeOK, RowsInv, NEW hook \in {"loaded", "unloaded"}, NEW p \in Plugins, Due(hook, p),
         \A q \in Plugins \ {p} : stars'[q] = stars[q], UNCHANGED <<rows, failures>>
  PROVE  RowsInv'
  <1>1. About(p)' /\ \A q \in Plugins : About(q) => About(q)'
    BY DueKeeps
  <1>2. SUFFICES ASSUME failures = {}, NEW q \in Plugins, ~About(q)'
                 PROVE  Right(q, rows[q])'
    BY DEF RowsInv
  <1>3. q # p /\ ~About(q)
    BY <1>1, <1>2
  <1>4. Right(q, rows[q])
    BY <1>2, <1>3 DEF RowsInv
  <1>5. QED
    BY <1>3, <1>4 DEF Right, Wanted, Contested

LEMMA LoadInv ==
  ASSUME Inv, NEW p \in Plugins, Load(p)
  PROVE  Inv'
  <1>1. /\ TypeOK /\ Sane /\ LastWord /\ RowsInv /\ Due("loaded", p)
        /\ UNCHANGED <<config, index, file, rows, reachable, failures>>
    BY DEF Inv, Load
  <1>2. PICK v \in Versions : stars' = [stars EXCEPT ![p] = [version |-> v, active |-> TRUE]]
    BY DEF Load
  <1>3. /\ stars' \in [Plugins -> Star] /\ stars'[This].active
        /\ \A q \in Plugins \ {p} : stars'[q] = stars[q]
    <2>1. [version |-> v, active |-> TRUE] \in Star
      BY DEF Star
    <2>2. QED
      BY <1>1, <1>2, <2>1, IndexAssumption DEF TypeOK, Sane
  <1>4. due' \in Seq(Hook) /\ asked' = 0 /\ Pending'
    BY <1>1, DueKeeps
  <1>4a. later' \in SUBSET (Plugins \X Plugins)
    <2>1. Listed' \subseteq Plugins /\ later' \in Orders(Listed')
      BY DEF Load, Listed
    <2>2. QED
      BY <2>1, OrdersTyped
  <1>5. TypeOK'
    BY <1>1, <1>3, <1>4, <1>4a DEF TypeOK
  <1>6. Sane'
    BY <1>1, <1>3 DEF Sane
  <1>7. LastWord'
    BY <1>1, <1>3, DueKeepsLastWord
  <1>8. RowsInv'
    BY <1>1, <1>3, DueKeepsRows
  <1>9. QED
    BY <1>4, <1>5, <1>6, <1>7, <1>8 DEF Inv, FreshInv

(* A plugin that goes makes every count that was right too large. *)
LEMMA UnloadInv ==
  ASSUME Inv, NEW p \in Plugins, Unload(p)
  PROVE  Inv'
  <1>1. /\ TypeOK /\ Sane /\ LastWord /\ RowsInv /\ Due("unloaded", p)
        /\ p # This /\ stars[p].active
        /\ UNCHANGED <<config, index, file, rows, reachable, failures>>
    BY DEF Inv, Unload
  <1>2. /\ stars' \in [Plugins -> Star] /\ ~stars'[p].active
        /\ \A q \in Plugins \ {p} : stars'[q] = stars[q]
    <2>1. CASE stars' = [stars EXCEPT ![p] = Gone]
      <3>1. Gone \in Star /\ ~Gone.active
        BY DEF Star, Gone
      <3>2. QED
        BY <1>1, <2>1, <3>1 DEF TypeOK
    <2>2. CASE stars' = [stars EXCEPT ![p].active = FALSE]
      <3>1. stars[p] \in [version : Versions, active : BOOLEAN]
        BY <1>1 DEF TypeOK, Star, Gone
      <3>2. /\ [stars[p] EXCEPT !.active = FALSE] \in Star
            /\ ~[stars[p] EXCEPT !.active = FALSE].active
        BY <3>1 DEF Star
      <3>3. stars' = [stars EXCEPT ![p] = [stars[p] EXCEPT !.active = FALSE]]
        BY <2>2
      <3>4. QED
        BY <1>1, <3>2, <3>3 DEF TypeOK
    <2>3. QED
      BY <2>1, <2>2 DEF Unload
  <1>3. stars'[This].active
    BY <1>1, <1>2, IndexAssumption DEF Sane
  <1>4. due' \in Seq(Hook) /\ asked' = 0 /\ (Pending => Pending')
    BY <1>1, DueKeeps
  <1>4a. later' \in SUBSET (Plugins \X Plugins)
    BY <1>1 DEF Unload, TypeOK
  <1>5. TypeOK'
    BY <1>1, <1>2, <1>4, <1>4a DEF TypeOK
  <1>6. Sane'
    BY <1>1, <1>3 DEF Sane
  <1>7. FreshInv'
    <2>1. SUFFICES ASSUME CountTells PROVE CountTells' /\ QueriesNotice'
      BY <1>1, <1>4 DEF Inv, FreshInv
    <2>2. Active' = Active \ {p} /\ p \in Active
      BY <1>1, <1>2 DEF Active
    <2>3. /\ IsFiniteSet(Active)
          /\ Cardinality(Active) \in Nat
      BY <1>1, ActiveCount DEF Sane
    <2>4. Cardinality(Active') = Cardinality(Active) - 1
      BY <2>2, <2>3, FS_RemoveElement
    <2>5. This \in Active' /\ IsFiniteSet(Active')
      <3>1. This \in Active
        BY <1>1, IndexAssumption DEF Sane, Active
      <3>2. IsFiniteSet(Active \ {p})
        BY <2>3, FS_RemoveElement
      <3>3. QED
        BY <1>1, <2>2, <3>1, <3>2
    <2>6. Cardinality(Active') \in Nat /\ Cardinality(Active') # 0
      BY <2>5, FS_CardinalityType, FS_EmptySet
    <2>7. index.count \in Nat
      <3>1. Cardinality(Plugins) \in Nat
        BY IndexAssumption, FS_CardinalityType
      <3>2. QED
        BY <1>1, <3>1 DEF TypeOK, Instance
    <2>8. index.count # 0 => index.count >= Cardinality(Active)
      BY <2>1 DEF CountTells
    <2>9. index.count # Cardinality(Active')
      BY <2>3, <2>4, <2>6, <2>7, <2>8
    <2>10. index.count # 0 => index.count >= Cardinality(Active')
      BY <2>3, <2>4, <2>7, <2>8
    <2>11. CountTells'
      BY <1>1, <2>1, <2>9, <2>10 DEF CountTells
    <2>12. QueriesNotice'
      BY <1>4 DEF QueriesNotice
    <2>13. QED
      BY <2>11, <2>12
  <1>8. LastWord'
    BY <1>1, <1>2, DueKeepsLastWord
  <1>9. RowsInv'
    BY <1>1, <1>2, DueKeepsRows
  <1>10. QED
    BY <1>5, <1>6, <1>7, <1>8, <1>9 DEF Inv

LEMMA ReloadInv ==
  ASSUME Inv, Reload
  PROVE  Inv'
  <1>1. /\ TypeOK /\ Sane /\ LastWord /\ RowsInv /\ Due("loaded", This)
        /\ index' = NewInstance(config)
        /\ UNCHANGED <<config, file, rows, reachable, failures>>
    BY DEF Inv, Reload
  <1>2. PICK v \in Versions : stars' = [stars EXCEPT ![This].version = v]
    BY DEF Reload
  <1>3. /\ stars' \in [Plugins -> Star] /\ stars'[This].active
        /\ \A q \in Plugins \ {This} : stars'[q] = stars[q]
    <2>1. stars[This] \in [version : Versions, active : BOOLEAN]
      BY <1>1, IndexAssumption DEF TypeOK, Sane, Star, Gone
    <2>2. /\ [stars[This] EXCEPT !.version = v] \in Star
          /\ [stars[This] EXCEPT !.version = v].active = stars[This].active
      BY <2>1 DEF Star
    <2>3. stars' = [stars EXCEPT ![This] = [stars[This] EXCEPT !.version = v]]
      BY <1>2
    <2>4. QED
      BY <1>1, <2>2, <2>3, IndexAssumption DEF TypeOK, Sane
  <1>4. due' \in Seq(Hook) /\ asked' = 0 /\ Pending'
    BY <1>1, IndexAssumption, DueKeeps
  <1>5. /\ index' \in Instance /\ index'.cache = NoContent
        /\ index'.handlers = Unread /\ index'.count = 0
    BY <1>1, NewInstanceFields DEF TypeOK
  <1>5a. later' \in SUBSET (Plugins \X Plugins)
    <2>1. Listed \subseteq Plugins /\ later' \in Orders(Listed)
      BY DEF Reload, Listed
    <2>2. QED
      BY <2>1, OrdersTyped
  <1>6. TypeOK'
    BY <1>1, <1>3, <1>4, <1>5, <1>5a DEF TypeOK
  <1>7. Sane'
    BY <1>1, <1>3, <1>5 DEF Sane, Lively
  <1>8. LastWord'
    BY <1>1, <1>3, IndexAssumption, DueKeepsLastWord
  <1>9. RowsInv'
    BY <1>1, <1>3, IndexAssumption, DueKeepsRows
  <1>10. QED
    BY <1>4, <1>6, <1>7, <1>8, <1>9 DEF Inv, FreshInv

(* The one hook of a process that starts is about all plugins. *)
LEMMA BootAlone ==
  <<Boot>> \in Seq(Hook) /\ Len(<<Boot>>) = 1 /\ <<Boot>>[1] = Boot /\ Boot.hook = "boot"
  BY BootTyped DEF Boot

LEMMA RestartInv ==
  ASSUME Inv, Restart
  PROVE  Inv'
  <1>1. /\ TypeOK /\ Sane
        /\ stars' \in [Plugins -> Star] /\ stars'[This].active /\ due' = <<Boot>>
        /\ index' = NewInstance(config) /\ asked' = 0
        /\ UNCHANGED <<config, file, rows, reachable, failures>>
    BY DEF Inv, Restart
  <1>2. Len(due') = 1 /\ due'[1].hook = "boot" /\ due' \in Seq(Hook)
    BY <1>1, BootAlone
  <1>3. /\ index' \in Instance /\ index'.cache = NoContent
        /\ index'.handlers = Unread /\ index'.count = 0
    BY <1>1, NewInstanceFields DEF TypeOK
  <1>3a. later' \in SUBSET (Plugins \X Plugins)
    <2>1. Listed' \subseteq Plugins /\ later' \in Orders(Listed')
      BY DEF Restart, Listed
    <2>2. QED
      BY <2>1, OrdersTyped
  <1>4. TypeOK'
    BY <1>1, <1>2, <1>3, <1>3a DEF TypeOK
  <1>5. Sane'
    BY <1>1, <1>3 DEF Sane, Lively
  <1>6. Pending' /\ \A p \in Plugins : About(p)'
    BY <1>2 DEF Pending, About
  <1>7. LastWord'
    BY <1>2 DEF LastWord
  <1>8. QED
    BY <1>4, <1>5, <1>6, <1>7 DEF Inv, FreshInv, RowsInv

LEMMA ContextChangesInv ==
  ASSUME Inv, ContextChanges
  PROVE  Inv'
  <1>1. /\ TypeOK /\ Sane /\ LastWord
        /\ "context" \in Faults /\ reachable' = ~reachable
        /\ failures' = failures \cup {"context"} /\ asked' = 0
        /\ UNCHANGED <<stars, later, due, config, index, file, rows>>
    BY DEF Inv, ContextChanges, MayFail
  <1>2. TypeOK'
    BY <1>1 DEF TypeOK
  <1>3. Sane'
    BY <1>1 DEF Sane
  <1>4. LastWord'
    BY <1>1 DEF LastWord
  <1>5. QED
    BY <1>1, <1>2, <1>3, <1>4 DEF Inv, FreshInv, RowsInv

-----------------------------------------------------------------------------
(* The specification *)

LEMMA InitInv == Init => Inv
  <1>. SUFFICES ASSUME Init PROVE Inv
    OBVIOUS
  <1>1. /\ stars \in [Plugins -> Star] /\ stars[This].active /\ due = <<Boot>>
        /\ config = Empty /\ index = NewInstance(Empty) /\ file = NoContent
        /\ rows = [p \in Plugins |-> None] /\ reachable = TRUE /\ asked = 0 /\ failures = {}
    BY DEF Init
  <1>2. Len(due) = 1 /\ due[1].hook = "boot" /\ due \in Seq(Hook)
    BY <1>1, BootAlone
  <1>3. /\ index \in Instance /\ index.cache = NoContent
        /\ index.handlers = Unread /\ index.count = 0
    BY <1>1, NewInstanceFields, IndexAssumption
  <1>4. rows \in Registry
    BY <1>1 DEF Registry
  <1>4a. later \in SUBSET (Plugins \X Plugins)
    <2>1. Listed \subseteq Plugins /\ later \in Orders(Listed)
      BY DEF Init, Listed
    <2>2. QED
      BY <2>1, OrdersTyped
  <1>5. TypeOK
    BY <1>1, <1>2, <1>3, <1>4, <1>4a, IndexAssumption DEF TypeOK
  <1>6. Sane
    BY <1>1, <1>3 DEF Sane, Lively
  <1>7. Pending /\ \A p \in Plugins : About(p)
    BY <1>2 DEF Pending, About
  <1>8. LastWord
    BY <1>2 DEF LastWord
  <1>9. QED
    BY <1>5, <1>6, <1>7, <1>8 DEF Inv, FreshInv, RowsInv

LEMMA StepInv == Inv /\ [Next]_indexVars => Inv'
  <1>. SUFFICES ASSUME Inv, [Next]_indexVars PROVE Inv'
    OBVIOUS
  <1>1. CASE Query
    BY <1>1, QueryInv
  <1>2. CASE \E d \in Directories : Edit(d)
    BY <1>2, EditInv
  <1>3. CASE AstrBotLoaded
    BY <1>3, AstrBotLoadedInv
  <1>4. CASE \E p \in Plugins : PluginLoaded(p)
    BY <1>4, PluginLoadedInv
  <1>5. CASE \E p \in Plugins : PluginUnloaded(p)
    BY <1>5, PluginUnloadedInv
  <1>6. CASE \E p \in Plugins : Load(p)
    BY <1>6, LoadInv
  <1>7. CASE \E p \in Plugins : Unload(p)
    BY <1>7, UnloadInv
  <1>8. CASE Reload
    BY <1>8, ReloadInv
  <1>9. CASE Restart
    BY <1>9, RestartInv
  <1>10. CASE ContextChanges
    BY <1>10, ContextChangesInv
  <1>11. CASE UNCHANGED indexVars
    BY <1>11 DEF indexVars, Inv, TypeOK, Sane, Lively, FreshInv, Pending, CountTells, QueriesNotice,
                 Warm, Current, BuiltFrom, Overwritten, Applied, Handlers, Active, LastWord, RowsInv, About, Right, Wanted, Contested
  <1>12. QED
    BY <1>1, <1>2, <1>3, <1>4, <1>5, <1>6, <1>7, <1>8, <1>9, <1>10, <1>11 DEF Next

LEMMA AlwaysInv == Spec => []Inv
  <1>1. QED
    BY InitInv, StepInv, PTL DEF Spec

(* The index, its file and the catalog's rows are what the code makes them *)
(* in command_index.py, and the hooks of main.py find what they read.      *)
THEOREM TypeCorrect == Spec => []TypeOK
  <1>1. Inv => TypeOK
    BY DEF Inv
  <1>2. QED
    BY <1>1, AlwaysInv, PTL

(* A load hook (main.py, handle_astrbot_loaded and handle_plugin_loaded)   *)
(* leaves an index of what is registered, whatever was stored before.      *)
THEOREM HooksReset == Spec => HooksRefresh
  <1>1. ASSUME Inv, NEW since \in SUBSET Faults, ~reachable => "context" \in since,
               ResetAndGet(since), UNCHANGED <<stars, later>>, reachable, "unlink" \notin failures'
        PROVE  index'.cache = Current'
    <2>1. Read /\ Fresh
      BY <1>1, ResetReads DEF Inv
    <2>2. QED
      BY <1>1, <2>1, FreshCurrent
  <1>2. ASSUME Inv, AstrBotLoaded, reachable, "unlink" \notin failures'
        PROVE  index'.cache = Current'
    <2>1. ResetAndGet({}) /\ UNCHANGED <<stars, later>>
      BY <1>2 DEF AstrBotLoaded, Called
    <2>2. QED
      BY <1>1, <1>2, <2>1
  <1>3. ASSUME Inv, NEW p \in Plugins, PluginLoaded(p), reachable, "unlink" \notin failures'
        PROVE  index'.cache = Current'
    <2>1. ResetAndGet(failures) /\ UNCHANGED <<stars, later>> /\ failures \in SUBSET Faults
      BY <1>3 DEF PluginLoaded, Called, Inv, TypeOK
    <2>2. QED
      BY <1>1, <1>3, <2>1
  <1>4. Inv /\ [Next]_indexVars =>
          [(AstrBotLoaded \/ \E p \in Plugins : PluginLoaded(p))
           /\ reachable /\ "unlink" \notin failures'
             => index'.cache = Current']_indexVars
    BY <1>2, <1>3
  <1>5. QED
    BY <1>4, AlwaysInv, PTL DEF Spec, HooksRefresh

(* Where this plugin has a command that no directory replaces, a query     *)
(* after the hooks due is answered from what is registered and the         *)
(* directory in force (command_index.py, _should_refresh_cache).           *)
THEOREM FreshOnceAsked ==
  ASSUME OwnCommand
  PROVE  Spec => []FreshOnceSettled
  <1>1. Inv => FreshOnceSettled
    <2>1. SUFFICES ASSUME Inv, due = <<>>, "context" \notin failures,
                          asked > (IF "unlink" \in failures THEN 1 ELSE 0)
                   PROVE  index.cache = Current
      BY DEF FreshOnceSettled, Settled
    <2>2. ~Pending
      BY <2>1 DEF Pending
    <2>3. CountTells /\ QueriesNotice
      BY <2>1, <2>2, OwnCommand DEF Inv, FreshInv
    <2>4. asked > 0 /\ (asked > 1 \/ "unlink" \notin failures)
      BY <2>1 DEF Inv, TypeOK
    <2>5. QED
      BY <2>3, <2>4 DEF CountTells, QueriesNotice
  <1>2. QED
    BY <1>1, AlwaysInv, PTL

(* The catalog's rows of a plugin are those of its handlers while it is     *)
(* active and none else, and are only lacking where another plugin or a    *)
(* directory has commands of that name, once the hooks due have run and if *)
(* nothing failed (command_catalog_service.py, sync_all_runtime and        *)
(* sync_plugin_runtime; command_index.py, _build_index).                   *)
THEOREM RowsFollow == Spec => []RowsFollowRegistry
  <1>1. Inv => RowsFollowRegistry
    <2>1. SUFFICES ASSUME Inv, due = <<>>, failures = {}, NEW p \in Plugins
                   PROVE  Right(p, rows[p])
      BY DEF RowsFollowRegistry, Settled, Right
    <2>2. ~About(p)
      BY <2>1 DEF About
    <2>3. QED
      BY <2>1, <2>2 DEF Inv, RowsInv
  <1>2. QED
    BY <1>1, AlwaysInv, PTL
=============================================================================
