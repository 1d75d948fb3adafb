------------------------ MODULE CommandCatalog_proofs ------------------------
(***************************************************************************)
(* The catalog and the custom directory for any plugins, handlers, custom  *)
(* entries and decisions, and any number of hooks due.                     *)
(*                                                                         *)
(* That rows and marks follow the plugins rests on what the hooks still    *)
(* due will say: the last one about a plugin agrees with whether it is     *)
(* loaded (LastWord), although those before it may not.                    *)
(***************************************************************************)
EXTENDS CustomDirectory, SequenceTheorems, TLAPS

Declared == \A k \in Keys : declared[k] # "absent" => PluginOf[k] \in loaded

(* A hook due that contradicts the registry is followed by one that does   *)
(* not.                                                                    *)
LastWord ==
  \A p \in Plugins : \A i \in 1..Len(events) :
    /\ events[i] = [hook |-> "unloaded", plugin |-> p] /\ p \in loaded
         => \E j \in (i + 1)..Len(events) : events[j] = [hook |-> "loaded", plugin |-> p]
    /\ events[i] = [hook |-> "loaded", plugin |-> p] /\ p \notin loaded
         => \E j \in (i + 1)..Len(events) : events[j] = [hook |-> "unloaded", plugin |-> p]

Inv ==
  /\ TypeOK
  /\ SchemaHolds
  /\ Declared
  /\ LastWord
  /\ RowsFollowRegistry

-----------------------------------------------------------------------------
(* Rows *)

LEMMA RowShape ==
  /\ NoRow \notin Row
  /\ \A permission \in Permissions :
       Fresh(permission) \in Row /\ SchemaAdmits(Fresh(permission))
  BY DEF Row, NoRow, Permissions, Policies, Modes, Fresh, SchemaAdmits

(* What a hook makes of a row is a row the schema admits. *)
LEMMA UpsertAdmissible ==
  ASSUME NEW r \in Row \cup {NoRow}, r # NoRow => SchemaAdmits(r), NEW permission \in Permissions
  PROVE  Upsert(r, permission) \in Row /\ SchemaAdmits(Upsert(r, permission))
  <1>1. CASE r = NoRow
    BY <1>1, RowShape DEF Upsert
  <1>2. CASE r # NoRow
    BY <1>2 DEF Upsert, Row, Permissions, Policies, Modes, SchemaAdmits
  <1>3. QED
    BY <1>1, <1>2

(* ... and no laxer than it was. *)
LEMMA UpsertTightens ==
  ASSUME NEW r \in Row, NEW permission \in Permissions
  PROVE  Stricter(Upsert(r, permission), r)
  <1>1. r # NoRow
    BY RowShape
  <1> DEFINE u == Upsert(r, permission)
  <1>2. /\ u.permission = "admin" \/ u.permission = r.permission
        /\ u.policy = r.policy \/ (r.policy = "normal" /\ u.policy = "sensitive")
        /\ u.history = r.history \/ (r.history = "full" /\ u.history = "command")
    BY <1>1 DEF Upsert, Row, Permissions
  <1>3. /\ PermissionRank["normal"] = 0 /\ PermissionRank["admin"] = 1
        /\ PolicyRank["normal"] = 0 /\ PolicyRank["sensitive"] = 1 /\ PolicyRank["forbidden"] = 2
        /\ HistoryRank["full"] = 0 /\ HistoryRank["command"] = 1 /\ HistoryRank["none"] = 2
    BY DEF PermissionRank, PolicyRank, HistoryRank
  <1>4. /\ r.permission \in {"normal", "admin"}
        /\ r.policy \in {"normal", "sensitive", "forbidden"}
        /\ r.history \in {"none", "command", "full"}
    BY DEF Row, Permissions, Policies, Modes
  <1>5. PermissionRank[u.permission] >= PermissionRank[r.permission]
    BY <1>2, <1>3, <1>4
  <1>6. PolicyRank[u.policy] >= PolicyRank[r.policy]
    BY <1>2, <1>3, <1>4
  <1>7. HistoryRank[u.history] >= HistoryRank[r.history]
    BY <1>2, <1>3, <1>4
  <1>8. QED
    BY <1>5, <1>6, <1>7 DEF Stricter

LEMMA StricterReflexive ==
  ASSUME NEW r \in Row
  PROVE  Stricter(r, r)
  <1>1. /\ PermissionRank[r.permission] \in Int
        /\ PolicyRank[r.policy] \in Int
        /\ HistoryRank[r.history] \in Int
    BY DEF Row, Permissions, Policies, Modes, PermissionRank, PolicyRank, HistoryRank
  <1>2. QED
    BY <1>1 DEF Stricter

LEMMA ExtractedPermission ==
  ASSUME TypeOK, NEW k \in Keys, declared[k] # "absent"
  PROVE  Extracted(k) \in Permissions
  BY DEF TypeOK, Extracted, Permissions

(* An index holds handlers that are declared, and all whose name is their  *)
(* own.                                                                    *)
LEMMA IndexedKeys ==
  ASSUME NEW index \in Indexes, NEW k \in Keys
  PROVE  /\ k \in index => declared[k] # "absent"
         /\ declared[k] # "absent" /\ ~Contested(k) => k \in index
  BY DEF Indexes

(* Synchronised rows: one for each key of the index, admissible, none      *)
(* laxer than it was.                                                      *)
LEMMA SyncedRows ==
  ASSUME TypeOK, SchemaHolds, NEW ks \in SUBSET Keys, NEW index \in Indexes
  PROVE  /\ Synced(ks, index) \in [Keys -> Row \cup {NoRow}]
         /\ \A k \in Keys : Synced(ks, index)[k] # NoRow => SchemaAdmits(Synced(ks, index)[k])
         /\ \A k \in ks : Synced(ks, index)[k] # NoRow <=> k \in index
         /\ \A k \in Keys \ ks : Synced(ks, index)[k] = runtime[k]
         /\ \A k \in Keys : runtime[k] # NoRow /\ Synced(ks, index)[k] # NoRow
                              => Stricter(Synced(ks, index)[k], runtime[k])
  <1>1. SUFFICES ASSUME NEW k \in Keys
                 PROVE  /\ Synced(ks, index)[k] \in Row \cup {NoRow}
                        /\ Synced(ks, index)[k] # NoRow => SchemaAdmits(Synced(ks, index)[k])
                        /\ k \in ks => (Synced(ks, index)[k] # NoRow <=> k \in index)
                        /\ k \notin ks => Synced(ks, index)[k] = runtime[k]
                        /\ runtime[k] # NoRow /\ Synced(ks, index)[k] # NoRow
                              => Stricter(Synced(ks, index)[k], runtime[k])
    BY <1>1 DEF Synced
  <1>2. runtime[k] \in Row \cup {NoRow} /\ (runtime[k] # NoRow => SchemaAdmits(runtime[k]))
    BY DEF TypeOK, SchemaHolds
  <1>3. CASE k \notin ks
    <2>1. Synced(ks, index)[k] = runtime[k]
      BY <1>3 DEF Synced
    <2>2. QED
      BY <1>2, <1>3, <2>1, StricterReflexive
  <1>4. CASE k \in ks /\ k \notin index
    BY <1>4 DEF Synced
  <1>5. CASE k \in ks /\ k \in index
    <2>1. Synced(ks, index)[k] = Upsert(runtime[k], Extracted(k))
      BY <1>5 DEF Synced
    <2>2. Extracted(k) \in Permissions
      BY <1>5, ExtractedPermission, IndexedKeys
    <2>3. Synced(ks, index)[k] \in Row /\ SchemaAdmits(Synced(ks, index)[k])
      BY <1>2, <2>1, <2>2, UpsertAdmissible
    <2>4. runtime[k] # NoRow => Stricter(Synced(ks, index)[k], runtime[k])
      BY <1>2, <2>1, <2>2, UpsertTightens
    <2>5. QED
      BY <1>5, <2>3, <2>4, RowShape
  <1>6. QED
    BY <1>3, <1>4, <1>5

(* Marking an entry changes nothing the schema looks at. *)
LEMMA MarkedEntry ==
  ASSUME NEW e \in Entry, NEW b \in BOOLEAN
  PROVE  /\ [e EXCEPT !.missing = b] \in Entry
         /\ [e EXCEPT !.missing = b].link = e.link
         /\ [e EXCEPT !.missing = b].missing = b
         /\ SchemaAdmits([e EXCEPT !.missing = b]) <=> SchemaAdmits(e)
  BY DEF Entry, SchemaAdmits

-----------------------------------------------------------------------------
(* Hooks due *)

(* Calling a hook moves the others up by one. *)
Called(hook, p) ==
  /\ events' \in Seq(Event)
  /\ Len(events) \in Nat /\ Len(events) > 0 /\ Len(events') = Len(events) - 1
  /\ \A i \in 2..Len(events) : i - 1 \in 1..Len(events') /\ events'[i - 1] = events[i]
  /\ events[1] = [hook |-> hook, plugin |-> p]

LEMMA HookShifts ==
  ASSUME TypeOK, NEW hook, NEW p, Hook(hook, p)
  PROVE  Called(hook, p)
  <1>1. events \in Seq(Event) /\ events # <<>> /\ events' = Tail(events)
    BY DEF TypeOK, Hook
  <1>2. Len(events) \in Nat /\ Len(events) > 0
    BY <1>1
  <1>3. /\ events' \in Seq(Event)
        /\ Len(events') = Len(events) - 1
        /\ \A i \in 1..Len(events') : events'[i] = events[i + 1]
    BY <1>1, HeadTailProperties
  <1>4. \A i \in 2..Len(events) : i - 1 \in 1..Len(events') /\ events'[i - 1] = events[i]
    BY <1>2, <1>3
  <1>5. events[1] = [hook |-> hook, plugin |-> p]
    BY <1>1 DEF Hook
  <1>6. QED
    BY <1>2, <1>3, <1>4, <1>5 DEF Called

LEMMA DueAppends ==
  ASSUME TypeOK, NEW hook \in {"loaded", "unloaded"}, NEW p \in Plugins, Due(hook, p)
  PROVE  /\ events' \in Seq(Event)
         /\ Len(events) \in Nat
         /\ Len(events') = Len(events) + 1
         /\ \A i \in 1..Len(events) : events'[i] = events[i]
         /\ events'[Len(events) + 1] = [hook |-> hook, plugin |-> p]
  <1>1. [hook |-> hook, plugin |-> p] \in Event
    BY DEF Event
  <1>2. QED
    BY <1>1 DEF TypeOK, Due

(* A plugin that is settled after the hook of another was settled before;  *)
(* what the hooks due say last is not changed by calling one.              *)
LEMMA HookKeepsSettled ==
  ASSUME TypeOK, NEW hook, NEW p \in Plugins, Hook(hook, p), NEW q \in Plugins, q # p,
         unsynced' \ {p} = unsynced \ {p}
  PROVE  Settled(q)' => Settled(q)
  <1>. SUFFICES ASSUME Settled(q)', NEW i \in 1..Len(events)
                PROVE  q \notin unsynced /\ events[i].plugin # q /\ events[i] # Boot
    BY DEF Settled
  <1>0. Called(hook, p)
    BY HookShifts
  <1>1. q \notin unsynced
    BY DEF Settled
  <1>2. CASE i = 1
    BY <1>0, <1>1, <1>2, CatalogAssumption DEF Called, Boot
  <1>3. CASE i # 1
    <2>1. i - 1 \in 1..Len(events') /\ events'[i - 1] = events[i]
      BY <1>0, <1>3 DEF Called
    <2>2. QED
      BY <1>1, <2>1 DEF Settled
  <1>4. QED
    BY <1>2, <1>3

LEMMA HookKeepsLastWord ==
  ASSUME TypeOK, LastWord, NEW hook, NEW p, Hook(hook, p)
  PROVE  LastWord'
  <1>1. SUFFICES ASSUME NEW q \in Plugins, NEW i \in 1..Len(events')
        PROVE
          /\ events'[i] = [hook |-> "unloaded", plugin |-> q] /\ q \in loaded
               => \E j \in (i + 1)..Len(events') : events'[j] = [hook |-> "loaded", plugin |-> q]
          /\ events'[i] = [hook |-> "loaded", plugin |-> q] /\ q \notin loaded
               => \E j \in (i + 1)..Len(events') : events'[j] = [hook |-> "unloaded", plugin |-> q]
    BY <1>1 DEF LastWord, Hook
  <1>0. Called(hook, p)
    BY HookShifts
  <1>2. i + 1 \in 1..Len(events) /\ events'[i] = events[i + 1]
    <2>1. i + 1 \in 2..Len(events) /\ (i + 1) - 1 = i
      BY <1>0 DEF Called
    <2>2. QED
      BY <1>0, <2>1 DEF Called
  <1>3. ASSUME NEW e, NEW j \in (i + 2)..Len(events), events[j] = e
        PROVE  \E l \in (i + 1)..Len(events') : events'[l] = e
    <2>1. j - 1 \in (i + 1)..Len(events') /\ j \in 2..Len(events)
      BY <1>0 DEF Called
    <2>2. events'[j - 1] = events[j]
      BY <1>0, <2>1 DEF Called
    <2>3. QED
      BY <1>3, <2>1, <2>2
  <1>4. (i + 1) + 1 = i + 2
    OBVIOUS
  <1>5. /\ events[i + 1] = [hook |-> "unloaded", plugin |-> q] /\ q \in loaded
             => \E j \in (i + 2)..Len(events) : events[j] = [hook |-> "loaded", plugin |-> q]
        /\ events[i + 1] = [hook |-> "loaded", plugin |-> q] /\ q \notin loaded
             => \E j \in (i + 2)..Len(events) : events[j] = [hook |-> "unloaded", plugin |-> q]
    BY <1>2, <1>4 DEF LastWord
  <1>6. QED
    BY <1>2, <1>3, <1>5

(* The hook of a settled plugin was the last about it, and told the truth. *)
LEMMA LastHookTrue ==
  ASSUME TypeOK, LastWord, NEW p \in Plugins, Settled(p)'
  PROVE  /\ Hook("loaded", p) => p \in loaded
         /\ Hook("unloaded", p) => p \notin loaded
  <1>1. ASSUME NEW hook, Hook(hook, p), NEW h, NEW j \in 2..Len(events),
               events[j] = [hook |-> h, plugin |-> p]
        PROVE  FALSE
    <2>1. j - 1 \in 1..Len(events') /\ events'[j - 1] = events[j]
      BY <1>1, HookShifts DEF Called
    <2>2. QED
      BY <1>1, <2>1 DEF Settled
  <1>2. ASSUME Hook("loaded", p), p \notin loaded PROVE FALSE
    <2>1. events[1] = [hook |-> "loaded", plugin |-> p] /\ 1 \in 1..Len(events)
      BY <1>2, HookShifts DEF Called
    <2>2. \E j \in 2..Len(events) : events[j] = [hook |-> "unloaded", plugin |-> p]
      BY <1>2, <2>1 DEF LastWord
    <2>3. QED
      BY <1>1, <1>2, <2>2
  <1>3. ASSUME Hook("unloaded", p), p \in loaded PROVE FALSE
    <2>1. events[1] = [hook |-> "unloaded", plugin |-> p] /\ 1 \in 1..Len(events)
      BY <1>3, HookShifts DEF Called
    <2>2. \E j \in 2..Len(events) : events[j] = [hook |-> "loaded", plugin |-> p]
      BY <1>3, <2>1 DEF LastWord
    <2>3. QED
      BY <1>1, <1>3, <2>2
  <1>4. QED
    BY <1>2, <1>3

-----------------------------------------------------------------------------
(* AstrBot's steps *)

LEMMA InitInv == Init => Inv
  <1>. SUFFICES ASSUME Init PROVE Inv
    OBVIOUS
  <1>1. Len(events) = 1 /\ events[1] = Boot
    BY DEF Init
  <1>2. TypeOK
    <2>1. events \in Seq(Event)
      BY DEF Init, Event, Boot
    <2>2. entries \subseteq Entry
      BY CatalogAssumption DEF Init
    <2>3. groups \subseteq Groups
      BY <2>2 DEF Init, Entry
    <2>4. QED
      BY <2>1, <2>2, <2>3 DEF Init, TypeOK, Registry
  <1>3. SchemaHolds
    BY CatalogAssumption DEF Init, SchemaHolds
  <1>4. Declared
    BY DEF Init, Declared, Registry
  <1>5. LastWord
    BY <1>1 DEF LastWord, Boot
  <1>6. \A p : ~Settled(p)
    BY <1>1 DEF Settled
  <1>7. QED
    BY <1>2, <1>3, <1>4, <1>5, <1>6, CatalogAssumption DEF Inv, RowsFollowRegistry

(* Loading or unloading p: the hook due says so, and p is not settled.     *)
LEMMA DueLastWord ==
  ASSUME Inv, NEW p \in Plugins, loaded' \in SUBSET Plugins,
         \/ Due("loaded", p) /\ p \in loaded'
         \/ Due("unloaded", p) /\ p \notin loaded',
         \A q \in Plugins \ {p} : q \in loaded' <=> q \in loaded,
         UNCHANGED unsynced
  PROVE  /\ LastWord'
         /\ events' \in Seq(Event)
         /\ ~Settled(p)'
         /\ \A q \in Plugins : Settled(q)' => Settled(q)
  <1>1. PICK hook \in {"loaded", "unloaded"} :
          Due(hook, p) /\ (hook = "loaded" <=> p \in loaded')
    OBVIOUS
  <1>2. /\ events' \in Seq(Event)
        /\ Len(events) \in Nat
        /\ Len(events') = Len(events) + 1
        /\ \A i \in 1..Len(events) : events'[i] = events[i]
        /\ events'[Len(events) + 1] = [hook |-> hook, plugin |-> p]
    BY <1>1, DueAppends DEF Inv
  <1>3. ~Settled(p)'
    BY <1>2 DEF Settled
  <1>4. \A q \in Plugins : Settled(q)' => Settled(q)
    BY <1>2 DEF Settled
  <1>5. LastWord'
    <2>1. SUFFICES ASSUME NEW q \in Plugins, NEW i \in 1..Len(events')
          PROVE
            /\ events'[i] = [hook |-> "unloaded", plugin |-> q] /\ q \in loaded'
                 => \E j \in (i + 1)..Len(events') : events'[j] = [hook |-> "loaded", plugin |-> q]
            /\ events'[i] = [hook |-> "loaded", plugin |-> q] /\ q \notin loaded'
                 => \E j \in (i + 1)..Len(events') : events'[j] = [hook |-> "unloaded", plugin |-> q]
      BY <2>1 DEF LastWord
    <2>2. CASE i = Len(events) + 1
      BY <1>1, <1>2, <2>2
    <2>3. CASE i # Len(events) + 1 /\ q = p
      <3>1. Len(events) + 1 \in (i + 1)..Len(events')
        BY <1>2, <2>3
      <3>2. QED
        BY <1>1, <1>2, <2>3, <3>1
    <2>4. CASE i # Len(events) + 1 /\ q # p
      <3>1. i \in 1..Len(events) /\ events'[i] = events[i] /\ (q \in loaded' <=> q \in loaded)
        BY <1>2, <2>4
      <3>2. \A j \in (i + 1)..Len(events) : j \in (i + 1)..Len(events') /\ events'[j] = events[j]
        BY <1>2, <3>1
      <3>3. /\ events[i] = [hook |-> "unloaded", plugin |-> q] /\ q \in loaded
                 => \E j \in (i + 1)..Len(events) : events[j] = [hook |-> "loaded", plugin |-> q]
            /\ events[i] = [hook |-> "loaded", plugin |-> q] /\ q \notin loaded
                 => \E j \in (i + 1)..Len(events) : events[j] = [hook |-> "unloaded", plugin |-> q]
        BY <3>1 DEF Inv, LastWord
      <3>4. QED
        BY <3>1, <3>2, <3>3
    <2>5. QED
      BY <2>2, <2>3, <2>4
  <1>6. QED
    BY <1>2, <1>3, <1>4, <1>5

LEMMA PluginSteps ==
  ASSUME Inv, NEW p \in Plugins, Load(p) \/ Unload(p)
  PROVE  Inv'
  <1>1. /\ loaded' \in SUBSET Plugins
        /\ \A q \in Plugins \ {p} : q \in loaded' <=> q \in loaded
        /\ UNCHANGED <<unsynced, runtime, groups, entries>>
    BY DEF Inv, TypeOK, Load, Unload, customVars
  <1>2. /\ LastWord' /\ events' \in Seq(Event) /\ ~Settled(p)'
        /\ \A q \in Plugins : Settled(q)' => Settled(q)
    BY <1>1, DueLastWord DEF Load, Unload
  <1>3. /\ declared' \in [Keys -> Permissions \cup {"absent"}]
        /\ \A k \in Keys : PluginOf[k] # p => declared'[k] = declared[k]
        /\ Declared'
    <2>1. CASE Load(p)
      BY <2>1 DEF Load, Registry, KeysOf, Declared
    <2>2. CASE Unload(p)
      BY <2>2, CatalogAssumption DEF Unload, Inv, TypeOK, Declared
    <2>3. QED
      BY <2>1, <2>2
  <1>4. TypeOK' /\ SchemaHolds'
    BY <1>1, <1>2, <1>3 DEF Inv, TypeOK, SchemaHolds
  <1>5. RowsFollowRegistry'
    BY <1>1, <1>2, <1>3, CatalogAssumption DEF Inv, RowsFollowRegistry
  <1>6. QED
    BY <1>2, <1>3, <1>4, <1>5 DEF Inv

LEMMA RestartInv ==
  ASSUME Inv, Restart
  PROVE  Inv'
  <1>1. Len(events') = 1 /\ events'[1] = Boot /\ events' \in Seq(Event)
    BY DEF Restart, Event, Boot
  <1>2. TypeOK' /\ SchemaHolds' /\ Declared'
    BY <1>1 DEF Inv, TypeOK, SchemaHolds, Declared, Restart, Registry, customVars
  <1>3. LastWord'
    BY <1>1 DEF LastWord, Boot
  <1>4. \A p : ~Settled(p)'
    BY <1>1 DEF Settled
  <1>5. QED
    BY <1>2, <1>3, <1>4 DEF Inv, RowsFollowRegistry

-----------------------------------------------------------------------------
(* Hooks *)

LEMMA HookInv ==
  ASSUME Inv, NEW hook, NEW p, Hook(hook, p)
  PROVE  LastWord' /\ Declared' /\ events' \in Seq(Event)
  BY HookShifts, HookKeepsLastWord DEF Inv, Declared, Hook, Called

(* Marked entries are entries the schema admits. *)
LEMMA MarkedEntries ==
  ASSUME Inv, NEW ps, NEW missing \in BOOLEAN
  PROVE  \A f \in Marked(ps, missing) : f \in Entry /\ SchemaAdmits(f)
  <1>. SUFFICES ASSUME NEW e \in entries,
                       NEW f, f = IF e.link \in ps THEN [e EXCEPT !.missing = missing] ELSE e
                PROVE  f \in Entry /\ SchemaAdmits(f)
    BY DEF Marked
  <1>1. e \in Entry /\ SchemaAdmits(e)
    BY DEF Inv, TypeOK, SchemaHolds
  <1>2. QED
    BY <1>1, MarkedEntry

LEMMA SyncAllInv ==
  ASSUME Inv, SyncAll
  PROVE  Inv'
  <1>1. LastWord' /\ Declared' /\ events' \in Seq(Event) /\ UNCHANGED <<declared, loaded, groups>>
    BY HookInv DEF SyncAll, Hook
  <1>2. \A e \in entries : e \in Entry /\ e.link \in Plugins \cup {NoPlugin} /\ SchemaAdmits(e)
    BY DEF Inv, TypeOK, SchemaHolds, Entry
  <1>3. CASE unsynced' = Plugins /\ UNCHANGED <<runtime, entries>>
    <2>1. \A p \in Plugins : ~Settled(p)'
      BY <1>3 DEF Settled
    <2>2. TypeOK' /\ SchemaHolds'
      BY <1>1, <1>3 DEF Inv, TypeOK, SchemaHolds
    <2>3. QED
      BY <1>1, <1>3, <2>1, <2>2, CatalogAssumption DEF Inv, RowsFollowRegistry
  <1>4. CASE /\ \E index \in Indexes : runtime' = Synced(Keys, index)
             /\ entries' = { IF e.link = NoPlugin THEN e
                             ELSE [e EXCEPT !.missing = e.link \notin loaded] : e \in entries }
             /\ unsynced' = {}
    <2>1. \A f \in entries' : f \in Entry /\ SchemaAdmits(f)
      <3>. SUFFICES ASSUME NEW e \in entries,
                           NEW f, f = IF e.link = NoPlugin THEN e
                                      ELSE [e EXCEPT !.missing = e.link \notin loaded]
                    PROVE  f \in Entry /\ SchemaAdmits(f)
        BY <1>4
      <3>1. (e.link \notin loaded) \in BOOLEAN
        OBVIOUS
      <3>2. QED
        BY <1>2, <3>1, MarkedEntry
    <2>2. PICK index \in Indexes : runtime' = Synced(Keys, index)
      BY <1>4
    <2>3. /\ runtime' \in [Keys -> Row \cup {NoRow}]
          /\ \A k \in Keys : /\ runtime'[k] # NoRow => SchemaAdmits(runtime'[k])
                             /\ runtime'[k] # NoRow <=> k \in index
      BY <2>2, SyncedRows DEF Inv
    <2>4. TypeOK' /\ SchemaHolds'
      BY <1>1, <1>4, <2>1, <2>3 DEF Inv, TypeOK, SchemaHolds
    <2>5. \A k \in Keys : /\ k \in index => declared[k] # "absent"
                          /\ declared[k] # "absent" /\ ~Contested(k) => k \in index
      BY IndexedKeys
    <2>6. RowsFollowRegistry'
      BY <1>1, <2>3, <2>5 DEF RowsFollowRegistry, Contested
    <2>7. QED
      BY <1>1, <2>4, <2>6 DEF Inv
  <1>5. QED
    BY <1>3, <1>4 DEF SyncAll

(* A row of each handler of p in use whose name is its own, and no others. *)
RowsOfDeclared(p, rows) ==
  \A k \in KeysOf(p) : /\ rows[k] # NoRow => declared[k] # "absent"
                       /\ declared[k] # "absent" /\ ~Contested(k) => rows[k] # NoRow

(* What is said of rows after a hook of p, from what it did to those of p  *)
(* and left to those of others.                                            *)
LEMMA PluginHookInv ==
  ASSUME Inv, NEW hook, NEW p \in Plugins, Hook(hook, p), NEW missing \in BOOLEAN,
         runtime' \in [Keys -> Row \cup {NoRow}],
         \A k \in Keys : runtime'[k] # NoRow => SchemaAdmits(runtime'[k]),
         \A k \in Keys \ KeysOf(p) : runtime'[k] = runtime[k],
         entries' = Marked({p}, missing),
         unsynced' = unsynced \ {p},
         Settled(p)' => RowsOfDeclared(p, runtime')
  PROVE  Inv'
  <1>1. LastWord' /\ Declared' /\ events' \in Seq(Event) /\ UNCHANGED <<declared, loaded, groups>>
    BY HookInv DEF Hook
  <1>2. \A q \in Plugins : q # p /\ Settled(q)' => Settled(q)
    BY HookKeepsSettled DEF Inv
  <1>3. \A f \in entries' : f \in Entry /\ SchemaAdmits(f)
    BY MarkedEntries
  <1>4. TypeOK' /\ SchemaHolds'
    BY <1>1, <1>3 DEF Inv, TypeOK, SchemaHolds
  <1>5. RowsFollowRegistry'
    <2>. SUFFICES ASSUME NEW k \in Keys, Settled(PluginOf[k])'
                  PROVE  /\ runtime'[k] # NoRow => declared[k] # "absent"
                         /\ declared[k] # "absent" /\ ~Contested(k) => runtime'[k] # NoRow
      BY <1>1 DEF RowsFollowRegistry, Contested
    <2>1. CASE PluginOf[k] = p
      BY <2>1 DEF RowsOfDeclared, KeysOf
    <2>2. CASE PluginOf[k] # p
      <3>1. Settled(PluginOf[k]) /\ runtime'[k] = runtime[k]
        BY <1>2, <2>2, CatalogAssumption DEF KeysOf
      <3>2. QED
        BY <3>1 DEF Inv, RowsFollowRegistry
    <2>3. QED
      BY <2>1, <2>2
  <1>6. QED
    BY <1>1, <1>4, <1>5 DEF Inv

(* A hook of p that fails leaves p unsettled and the table as it was.      *)
LEMMA FailedHookInv ==
  ASSUME Inv, NEW hook, NEW p \in Plugins, Hook(hook, p),
         unsynced' = unsynced \cup {p}, UNCHANGED <<runtime, entries>>
  PROVE  Inv' /\ \A q \in Plugins : Settled(q)' => Settled(q)
  <1>1. LastWord' /\ Declared' /\ events' \in Seq(Event) /\ UNCHANGED <<declared, loaded, groups>>
    BY HookInv DEF Hook
  <1>2. \A q \in Plugins : Settled(q)' => Settled(q)
    <2>1. ~Settled(p)'
      BY DEF Settled
    <2>2. \A q \in Plugins : q # p /\ Settled(q)' => Settled(q)
      BY HookKeepsSettled DEF Inv
    <2>3. QED
      BY <2>1, <2>2
  <1>3. TypeOK' /\ SchemaHolds'
    BY <1>1 DEF Inv, TypeOK, SchemaHolds
  <1>4. RowsFollowRegistry'
    BY <1>1, <1>2, CatalogAssumption DEF Inv, RowsFollowRegistry, Contested
  <1>5. QED
    BY <1>1, <1>2, <1>3, <1>4 DEF Inv

LEMMA SyncPluginInv ==
  ASSUME Inv, NEW p \in Plugins, SyncPlugin(p)
  PROVE  Inv'
  <1>1. Hook("loaded", p)
    BY DEF SyncPlugin
  <1>2. CASE unsynced' = unsynced \cup {p} /\ UNCHANGED <<runtime, entries>>
    BY <1>1, <1>2, FailedHookInv
  <1>3. CASE /\ \E index \in Indexes : runtime' = Synced(KeysOf(p), index)
             /\ entries' = Marked({p}, FALSE)
             /\ unsynced' = unsynced \ {p}
    <2>1. KeysOf(p) \in SUBSET Keys
      BY DEF KeysOf
    <2>2. PICK index \in Indexes : runtime' = Synced(KeysOf(p), index)
      BY <1>3
    <2>3. /\ runtime' \in [Keys -> Row \cup {NoRow}]
          /\ \A k \in Keys : runtime'[k] # NoRow => SchemaAdmits(runtime'[k])
          /\ \A k \in KeysOf(p) : runtime'[k] # NoRow <=> k \in index
          /\ \A k \in Keys \ KeysOf(p) : runtime'[k] = runtime[k]
      <3>. DEFINE ks == KeysOf(p)
      <3>1. ks \in SUBSET Keys /\ runtime' = Synced(ks, index)
        BY <2>1, <2>2
      <3>. HIDE DEF ks
      <3>2. TypeOK /\ SchemaHolds
        BY DEF Inv
      <3>3. /\ Synced(ks, index) \in [Keys -> Row \cup {NoRow}]
            /\ \A k \in Keys : Synced(ks, index)[k] # NoRow => SchemaAdmits(Synced(ks, index)[k])
            /\ \A k \in ks : Synced(ks, index)[k] # NoRow <=> k \in index
            /\ \A k \in Keys \ ks : Synced(ks, index)[k] = runtime[k]
        BY <3>1, <3>2, SyncedRows
      <3>4. QED
        BY <3>1, <3>3 DEF ks
    <2>4. RowsOfDeclared(p, runtime')
      BY <2>1, <2>3, IndexedKeys DEF RowsOfDeclared
    <2>5. QED
      BY <1>1, <1>3, <2>3, <2>4, PluginHookInv
  <1>4. QED
    BY <1>2, <1>3 DEF SyncPlugin

LEMMA UnloadPluginInv ==
  ASSUME Inv, NEW p \in Plugins, UnloadPlugin(p)
  PROVE  Inv'
  <1>1. Hook("unloaded", p)
    BY DEF UnloadPlugin
  <1>2. CASE unsynced' = unsynced \cup {p} /\ UNCHANGED <<runtime, entries>>
    BY <1>1, <1>2, FailedHookInv
  <1>3. CASE /\ runtime' = [k \in Keys |-> IF PluginOf[k] = p THEN NoRow ELSE runtime[k]]
             /\ entries' = Marked({p}, TRUE)
             /\ unsynced' = unsynced \ {p}
    <2>1. /\ runtime' \in [Keys -> Row \cup {NoRow}]
          /\ \A k \in Keys : runtime'[k] # NoRow => SchemaAdmits(runtime'[k])
          /\ \A k \in Keys \ KeysOf(p) : runtime'[k] = runtime[k]
          /\ \A k \in KeysOf(p) : runtime'[k] = NoRow
      BY <1>3 DEF Inv, TypeOK, SchemaHolds, KeysOf
    <2>2. Settled(p)' => p \notin loaded
      BY <1>1, LastHookTrue DEF Inv
    <2>3. \A k \in KeysOf(p) : p \notin loaded => declared[k] = "absent"
      BY DEF Inv, Declared, KeysOf
    <2>4. Settled(p)' => RowsOfDeclared(p, runtime')
      BY <2>1, <2>2, <2>3 DEF RowsOfDeclared
    <2>5. QED
      BY <1>1, <1>3, <2>1, <2>4, PluginHookInv
  <1>4. QED
    BY <1>2, <1>3 DEF UnloadPlugin

-----------------------------------------------------------------------------
(* Policies set by hand *)

(* A revision keeps all but the three fields it is about. *)
LEMMA RevisedFields ==
  ASSUME NEW r, NEW permission \in Permissions \cup {Keep}, NEW policy \in Policies \cup {Keep},
         NEW history \in Modes \cup {Keep}
  PROVE  LET u == Revised(r, permission, policy, history) IN
         /\ r \in Row => u \in Row
         /\ r \in Entry => /\ u \in Entry
                           /\ u.link = r.link /\ u.missing = r.missing
                           /\ u.group = r.group /\ u.key = r.key /\ u.aliases = r.aliases
  <1>. DEFINE given == Given(permission, r.permission)
              wanted == Given(policy, r.policy)
              raised == IF given = "admin" /\ wanted = "normal" /\ policy = Keep
                          THEN "sensitive" ELSE wanted
              kept == Given(history, r.history)
              u == Revised(r, permission, policy, history)
  <1>1. ASSUME r.permission \in Permissions, r.policy \in Policies, r.history \in Modes
        PROVE  given \in Permissions /\ raised \in Policies /\ kept \in Modes
    BY <1>1 DEF Given, Policies
  <1>2. u = [r EXCEPT !.permission = given, !.policy = raised, !.history = kept]
    BY DEF Revised
  <1>. HIDE DEF given, raised, kept, u
  <1>3. ASSUME r \in Row PROVE u \in Row
    BY <1>1, <1>2, <1>3 DEF Row
  <1>4. ASSUME r \in Entry
        PROVE  /\ u \in Entry
               /\ u.link = r.link /\ u.missing = r.missing
               /\ u.group = r.group /\ u.key = r.key /\ u.aliases = r.aliases
    BY <1>1, <1>2, <1>4 DEF Entry
  <1>5. QED
    BY <1>3, <1>4 DEF u

LEMMA DecisionFields ==
  ASSUME NEW d \in Decisions
  PROVE  /\ d[1] \in Permissions \cup {Keep}
         /\ d[2] \in Policies \cup {Keep}
         /\ d[3] \in Modes \cup {Keep}
  BY CatalogAssumption

LEMMA UpdatePolicyInv ==
  ASSUME Inv, UpdatePolicy
  PROVE  Inv'
  <1>1. UNCHANGED <<declared, loaded, events, unsynced, groups>>
    BY DEF UpdatePolicy, worldVars
  <1>2. LastWord' /\ Declared' /\ \A p : Settled(p)' <=> Settled(p)
    BY <1>1 DEF Inv, LastWord, Declared, Settled
  <1>3. ASSUME NEW d \in Decisions, NEW k \in Keys, runtime[k] # NoRow,
               NEW r, r = Revised(runtime[k], d[1], d[2], d[3]), SchemaAdmits(r),
               runtime' = [runtime EXCEPT ![k] = r], UNCHANGED entries
        PROVE  Inv'
    <2>1. r \in Row
      <3>1. runtime[k] \in Row
        BY <1>3 DEF Inv, TypeOK
      <3>2. /\ d[1] \in Permissions \cup {Keep}
            /\ d[2] \in Policies \cup {Keep}
            /\ d[3] \in Modes \cup {Keep}
        BY DecisionFields
      <3>3. QED
        BY <1>3, <3>1, <3>2, RevisedFields
    <2>2. r # NoRow
      BY <2>1, RowShape
    <2>3. TypeOK' /\ SchemaHolds'
      BY <1>1, <1>3, <2>1 DEF Inv, TypeOK, SchemaHolds
    <2>4. \A l \in Keys : runtime'[l] # NoRow <=> runtime[l] # NoRow
      BY <1>3, <2>2 DEF Inv, TypeOK
    <2>5. RowsFollowRegistry'
      BY <1>1, <1>2, <2>4 DEF Inv, RowsFollowRegistry, Contested
    <2>6. QED
      BY <1>2, <2>3, <2>5 DEF Inv
  <1>4. ASSUME NEW d \in Decisions, NEW e \in entries,
               NEW r, r = Revised(e, d[1], d[2], d[3]), SchemaAdmits(r),
               entries' = (entries \ {e}) \cup {r}, UNCHANGED runtime
        PROVE  Inv'
    <2>1. r \in Entry /\ r.link = e.link /\ r.missing = e.missing
      <3>1. e \in Entry
        BY <1>4 DEF Inv, TypeOK
      <3>2. /\ d[1] \in Permissions \cup {Keep}
            /\ d[2] \in Policies \cup {Keep}
            /\ d[3] \in Modes \cup {Keep}
        BY DecisionFields
      <3>3. QED
        BY <1>4, <3>1, <3>2, RevisedFields
    <2>2. TypeOK' /\ SchemaHolds'
      BY <1>1, <1>4, <2>1 DEF Inv, TypeOK, SchemaHolds
    <2>3. RowsFollowRegistry'
      BY <1>1, <1>2, <1>4 DEF Inv, RowsFollowRegistry, Contested
    <2>4. QED
      BY <1>2, <2>2, <2>3 DEF Inv
  <1>5. QED
    BY <1>3, <1>4 DEF UpdatePolicy

-----------------------------------------------------------------------------
(* Results *)

LEMMA NextInv ==
  ASSUME Inv, [Next]_catalogVars
  PROVE  Inv'
  <1>1. ASSUME NEW p \in Plugins, Load(p) \/ Unload(p) PROVE Inv'
    BY <1>1, PluginSteps
  <1>2. ASSUME Restart PROVE Inv'
    BY <1>2, RestartInv
  <1>3. ASSUME SyncAll PROVE Inv'
    BY <1>3, SyncAllInv
  <1>4. ASSUME NEW p \in Plugins, SyncPlugin(p) PROVE Inv'
    BY <1>4, SyncPluginInv
  <1>5. ASSUME NEW p \in Plugins, UnloadPlugin(p) PROVE Inv'
    BY <1>5, UnloadPluginInv
  <1>6. ASSUME UpdatePolicy PROVE Inv'
    BY <1>6, UpdatePolicyInv
  <1>7. ASSUME UNCHANGED catalogVars PROVE Inv'
    BY <1>7 DEF Inv, TypeOK, SchemaHolds, Declared, LastWord, RowsFollowRegistry,
                Settled, Contested, catalogVars
  <1>8. QED
    BY <1>1, <1>2, <1>3, <1>4, <1>5, <1>6, <1>7 DEF Next, WorldStep, SyncStep

LEMMA AlwaysInv == Spec => []Inv
  BY InitInv, NextInv, PTL DEF Spec

(* Rows, entries and hooks due keep their types: all that the hooks        *)
(* and update_command_policy write is of the domains of the schema.        *)
THEOREM TypeCorrect == Spec => []TypeOK
  <1>1. Inv => TypeOK
    BY DEF Inv
  <1>2. QED
    BY <1>1, AlwaysInv, PTL

(* Every row keeps the CHECK constraints of the schema, whatever plugins   *)
(* declare and administrators decide: _upsert_runtime_command and          *)
(* update_command_policy never roll a transaction back by themselves.      *)
THEOREM Admissible == Spec => []SchemaHolds
  <1>1. Inv => SchemaHolds
    BY DEF Inv
  <1>2. QED
    BY <1>1, AlwaysInv, PTL

(* No hook of main.py loosens permission, policy or history of a row.      *)
THEOREM Tightens == Spec => UpdatesOnlyTighten
  <1>1. ASSUME Inv, SyncStep, NEW k \in Keys, runtime[k] # NoRow, runtime'[k] # NoRow
        PROVE  Stricter(runtime'[k], runtime[k])
    <2>1. \A ks \in SUBSET Keys : \A index \in Indexes :
            Synced(ks, index)[k] # NoRow => Stricter(Synced(ks, index)[k], runtime[k])
      BY <1>1, SyncedRows DEF Inv
    <2>2. Stricter(runtime[k], runtime[k])
      BY <1>1, StricterReflexive DEF Inv, TypeOK
    <2>3. CASE SyncAll
      BY <1>1, <2>1, <2>2, <2>3 DEF SyncAll
    <2>4. ASSUME NEW p \in Plugins, SyncPlugin(p)
          PROVE  Stricter(runtime'[k], runtime[k])
      <3>1. KeysOf(p) \in SUBSET Keys
        BY DEF KeysOf
      <3>2. QED
        BY <1>1, <2>1, <2>2, <2>4, <3>1 DEF SyncPlugin
    <2>5. ASSUME NEW p \in Plugins, UnloadPlugin(p)
          PROVE  Stricter(runtime'[k], runtime[k])
      BY <1>1, <2>2, <2>5 DEF UnloadPlugin
    <2>6. QED
      BY <1>1, <2>3, <2>4, <2>5 DEF SyncStep
  <1>2. Inv => [SyncStep => \A k \in Keys :
                  runtime[k] # NoRow /\ runtime'[k] # NoRow
                    => Stricter(runtime'[k], runtime[k])]_catalogVars
    BY <1>1
  <1>3. QED
    BY <1>2, AlwaysInv, PTL DEF UpdatesOnlyTighten

(* Once the hooks of a plugin have run, no row of it is left of a handler  *)
(* that is gone and none is lacking of one whose name is its own, however  *)
(* loads, unloads, failures and restarts interleave and whatever handlers  *)
(* and custom commands share names.                                        *)
THEOREM RowsFollow == Spec => []RowsFollowRegistry
  <1>1. Inv => RowsFollowRegistry
    BY DEF Inv
  <1>2. QED
    BY <1>1, AlwaysInv, PTL

-----------------------------------------------------------------------------
(* Lookups *)

LEMMA Ranks ==
  /\ PermissionRank["normal"] = 0 /\ PermissionRank["admin"] = 1
  /\ PolicyRank["normal"] = 0 /\ PolicyRank["sensitive"] = 1 /\ PolicyRank["forbidden"] = 2
  /\ HistoryRank["full"] = 0 /\ HistoryRank["command"] = 1 /\ HistoryRank["none"] = 2
  BY DEF PermissionRank, PolicyRank, HistoryRank

LEMMA StrictestOf ==
  ASSUME NEW rank, NEW values, \E v \in values : \A w \in values : rank[v] >= rank[w]
  PROVE  /\ Strictest(rank, values) \in values
         /\ \A w \in values : rank[Strictest(rank, values)] >= rank[w]
  BY DEF Strictest

(* Merging sets of permissions, policies and history modes. *)
LEMMA StrictestPermission ==
  ASSUME NEW values \in SUBSET Permissions, values # {}
  PROVE  /\ Strictest(PermissionRank, values) \in values
         /\ \A w \in values :
              PermissionRank[Strictest(PermissionRank, values)] >= PermissionRank[w]
  <1>1. \E v \in values : \A w \in values : PermissionRank[v] >= PermissionRank[w]
    <2>1. CASE "admin" \in values
      BY <2>1, Ranks DEF Permissions
    <2>2. CASE "admin" \notin values
      <3>1. values = {"normal"}
        BY <2>2 DEF Permissions
      <3>2. QED
        BY <3>1, Ranks
    <2>3. QED
      BY <2>1, <2>2
  <1>2. QED
    BY <1>1, StrictestOf

LEMMA StrictestPolicy ==
  ASSUME NEW values \in SUBSET Policies, values # {}
  PROVE  /\ Strictest(PolicyRank, values) \in values
         /\ \A w \in values : PolicyRank[Strictest(PolicyRank, values)] >= PolicyRank[w]
  <1>1. \E v \in values : \A w \in values : PolicyRank[v] >= PolicyRank[w]
    <2>1. CASE "forbidden" \in values
      BY <2>1, Ranks DEF Policies
    <2>2. CASE "forbidden" \notin values /\ "sensitive" \in values
      BY <2>2, Ranks DEF Policies
    <2>3. CASE "forbidden" \notin values /\ "sensitive" \notin values
      <3>1. values = {"normal"}
        BY <2>3 DEF Policies
      <3>2. QED
        BY <3>1, Ranks
    <2>4. QED
      BY <2>1, <2>2, <2>3
  <1>2. QED
    BY <1>1, StrictestOf

LEMMA StrictestHistory ==
  ASSUME NEW values \in SUBSET Modes, values # {}
  PROVE  /\ Strictest(HistoryRank, values) \in values
         /\ \A w \in values : HistoryRank[Strictest(HistoryRank, values)] >= HistoryRank[w]
  <1>1. \E v \in values : \A w \in values : HistoryRank[v] >= HistoryRank[w]
    <2>1. CASE "none" \in values
      BY <2>1, Ranks DEF Modes
    <2>2. CASE "none" \notin values /\ "command" \in values
      BY <2>2, Ranks DEF Modes
    <2>3. CASE "none" \notin values /\ "command" \notin values
      <3>1. values = {"full"}
        BY <2>3 DEF Modes
      <3>2. QED
        BY <3>1, Ranks
    <2>4. QED
      BY <2>1, <2>2, <2>3
  <1>2. QED
    BY <1>1, StrictestOf

(* Rows the schema admits, merged, are a row it would admit. *)
LEMMA MergedAdmissible ==
  ASSUME NEW hits, hits # {},
         \A h \in hits : /\ h.permission \in Permissions
                         /\ h.policy \in Policies
                         /\ h.history \in Modes
                         /\ SchemaAdmits(h)
  PROVE  SchemaAdmits(Combined(hits))
  <1>. DEFINE permissions == { h.permission : h \in hits }
              policies == { h.policy : h \in hits }
              histories == { h.history : h \in hits }
              permission == Strictest(PermissionRank, permissions)
              policy == Strictest(PolicyRank, policies)
              history == Strictest(HistoryRank, histories)
  <1>1. /\ permissions \in SUBSET Permissions /\ permissions # {}
        /\ policies \in SUBSET Policies /\ policies # {}
        /\ histories \in SUBSET Modes /\ histories # {}
    OBVIOUS
  <1>2. permission \in permissions
    BY <1>1, StrictestPermission
  <1>3. policy \in policies /\ \A w \in policies : PolicyRank[policy] >= PolicyRank[w]
    BY <1>1, StrictestPolicy
  <1>4. history \in histories /\ \A w \in histories : HistoryRank[history] >= HistoryRank[w]
    BY <1>1, StrictestHistory
  <1>5. Combined(hits).permission = permission /\ Combined(hits).policy = policy
        /\ Combined(hits).history = history
    BY DEF Combined
  <1>. HIDE DEF permission, policy, history
  <1>6. ASSUME permission = "admin" PROVE policy # "normal"
    <2>1. PICK h \in hits : h.permission = "admin"
      BY <1>2, <1>6
    <2>2. h.policy \in policies /\ h.policy \in {"sensitive", "forbidden"}
      BY <2>1 DEF SchemaAdmits, Policies
    <2>3. PolicyRank[policy] >= PolicyRank[h.policy]
      BY <1>3, <2>2
    <2>4. QED
      BY <2>2, <2>3, Ranks
  <1>7. ASSUME policy # "normal" PROVE history # "full"
    <2>1. PICK h \in hits : h.policy = policy
      BY <1>3
    <2>2. h.history \in histories /\ h.history \in {"command", "none"}
      BY <1>7, <2>1 DEF SchemaAdmits, Modes
    <2>3. HistoryRank[history] >= HistoryRank[h.history]
      BY <1>4, <2>2
    <2>4. QED
      BY <2>2, <2>3, Ranks
  <1>8. QED
    BY <1>5, <1>6, <1>7 DEF SchemaAdmits

LEMMA HitAdmissible ==
  ASSUME Inv, NEW t \in Texts, NEW type, NEW h \in Hits(t, type)
  PROVE  /\ h.permission \in Permissions
         /\ h.policy \in Policies
         /\ h.history \in Modes
         /\ SchemaAdmits(h)
  <1>1. ASSUME NEW r, r \in Row \cup Entry, SchemaAdmits(r), NEW l, NEW custom,
               h = Hit(r, l, custom)
        PROVE  /\ h.permission \in Permissions
               /\ h.policy \in Policies
               /\ h.history \in Modes
               /\ SchemaAdmits(h)
    <2>1. r.permission \in Permissions /\ r.policy \in Policies /\ r.history \in Modes
      BY <1>1 DEF Row, Entry
    <2>2. h.permission = r.permission /\ h.policy = r.policy /\ h.history = r.history
      BY <1>1 DEF Hit
    <2>3. QED
      BY <1>1, <2>1, <2>2 DEF SchemaAdmits
  <1>2. CASE \E k \in Keys : runtime[k] # NoRow /\ h = Hit(runtime[k], LengthOf[KeyOf(k)], FALSE)
    BY <1>1, <1>2 DEF Inv, TypeOK, SchemaHolds
  <1>3. CASE \E e \in entries : h = Hit(e, LengthOf[e.key], TRUE)
    BY <1>1, <1>3 DEF Inv, TypeOK, SchemaHolds
  <1>4. QED
    BY <1>2, <1>3 DEF Hits

(* What find_command hands to the delegation is a combination the schema   *)
(* would admit, also where it merges several regex rows into one.          *)
THEOREM FoundAdmissible == Spec => []FoundIsAdmissible
  <1>1. ASSUME Inv, NEW t \in Texts, NEW f \in Found(t)
        PROVE  SchemaAdmits(f)
    <2>1. CASE f \in Hits(t, "command")
      BY <1>1, <2>1, HitAdmissible
    <2>2. CASE Hits(t, "regex") # {} /\ f = Combined(Hits(t, "regex"))
      BY <1>1, <2>2, HitAdmissible, MergedAdmissible
    <2>3. QED
      BY <1>1, <2>1, <2>2 DEF Found
  <1>2. Inv => FoundIsAdmissible
    BY <1>1 DEF FoundIsAdmissible
  <1>3. QED
    BY <1>2, AlwaysInv, PTL

-----------------------------------------------------------------------------
(* The custom directory.  What the service keeps in memory and what the    *)
(* catalog holds each have admissible entries in groups that exist; and    *)
(* unless they are parted they are the same but for marks.                 *)

Sound(snapshot) ==
  /\ snapshot.groups \subseteq Groups
  /\ snapshot.entries \subseteq Entry
  /\ \A e \in snapshot.entries : e.group \in snapshot.groups /\ SchemaAdmits(e)

DirectoryInv ==
  /\ Inv
  /\ Sound(memory)
  /\ Sound(Catalog)
  /\ MemoryMatchesStore
  /\ LinksFollowPlugins

-----------------------------------------------------------------------------
(* Marks *)

(* A hook does no more to the custom entries than mark them. *)
Remarked ==
  /\ groups' = groups
  /\ \E m \in [entries -> BOOLEAN] :
       entries' = { [e EXCEPT !.missing = m[e]] : e \in entries }

LEMMA EntryUnmarked ==
  ASSUME NEW e \in Entry, NEW b \in BOOLEAN
  PROVE  /\ [e EXCEPT !.missing = e.missing] = e
         /\ e.missing \in BOOLEAN
         /\ [[e EXCEPT !.missing = b] EXCEPT !.missing = FALSE] = [e EXCEPT !.missing = FALSE]
         /\ [e EXCEPT !.missing = b] \in Entry
         /\ [e EXCEPT !.missing = b].group = e.group
         /\ TriggersOf([e EXCEPT !.missing = b]) = TriggersOf(e)
  BY DEF Entry, TriggersOf

LEMMA MarkedRemarks ==
  ASSUME entries \subseteq Entry, NEW ps, NEW missing \in BOOLEAN, entries' = Marked(ps, missing),
         groups' = groups
  PROVE  Remarked
  <1>. DEFINE m == [e \in entries |-> IF e.link \in ps THEN missing ELSE e.missing]
  <1>1. m \in [entries -> BOOLEAN]
    BY EntryUnmarked
  <1>2. \A e \in entries : [e EXCEPT !.missing = m[e]]
                             = IF e.link \in ps THEN [e EXCEPT !.missing = missing] ELSE e
    BY EntryUnmarked
  <1>3. entries' = { [e EXCEPT !.missing = m[e]] : e \in entries }
    BY <1>2 DEF Marked
  <1>4. QED
    BY <1>1, <1>3 DEF Remarked

LEMMA HookRemarks ==
  ASSUME entries \subseteq Entry, Background
  PROVE  Remarked
  <1>1. ASSUME UNCHANGED <<groups, entries>> PROVE Remarked
    <2>. DEFINE m == [e \in entries |-> e.missing]
    <2>1. m \in [entries -> BOOLEAN]
      BY EntryUnmarked
    <2>2. \A e \in entries : [e EXCEPT !.missing = m[e]] = e
      BY EntryUnmarked
    <2>3. entries' = { [e EXCEPT !.missing = m[e]] : e \in entries }
      BY <1>1, <2>2
    <2>4. QED
      BY <1>1, <2>1, <2>3 DEF Remarked
  <1>2. ASSUME NEW p \in Plugins, Load(p) \/ Unload(p) PROVE Remarked
    BY <1>1, <1>2 DEF Load, Unload, customVars
  <1>3. CASE SyncAll
    <2>1. groups' = groups
      BY <1>3 DEF SyncAll, Hook
    <2>2. CASE entries' = { IF e.link = NoPlugin THEN e
                            ELSE [e EXCEPT !.missing = e.link \notin loaded] : e \in entries }
      <3>. DEFINE m == [e \in entries |-> IF e.link = NoPlugin THEN e.missing
                                          ELSE e.link \notin loaded]
                  Mark(e) == [e EXCEPT !.missing = m[e]]
                  Sync(e) == IF e.link = NoPlugin THEN e
                             ELSE [e EXCEPT !.missing = e.link \notin loaded]
      <3>1. m \in [entries -> BOOLEAN]
        BY EntryUnmarked
      <3>2. ASSUME NEW e \in entries PROVE Mark(e) = Sync(e)
        <4>1. [e EXCEPT !.missing = e.missing] = e
          BY EntryUnmarked
        <4>2. m[e] = IF e.link = NoPlugin THEN e.missing ELSE e.link \notin loaded
          OBVIOUS
        <4>. HIDE DEF m
        <4>3. QED
          BY <4>1, <4>2
      <3>3. entries' = { Sync(e) : e \in entries }
        BY <2>2
      <3>4. entries' = { Mark(e) : e \in entries }
        <4>. HIDE DEF Mark, Sync
        <4>1. QED
          BY <3>2, <3>3
      <3>. HIDE DEF m
      <3>5. QED
        BY <2>1, <3>1, <3>4 DEF Remarked
    <2>3. QED
      BY <1>1, <1>3, <2>1, <2>2 DEF SyncAll
  <1>4. ASSUME NEW p \in Plugins, SyncPlugin(p) \/ UnloadPlugin(p) PROVE Remarked
    <2>1. groups' = groups
      BY <1>4 DEF SyncPlugin, UnloadPlugin, Hook
    <2>2. \/ entries' = Marked({p}, FALSE)
          \/ entries' = Marked({p}, TRUE)
          \/ entries' = entries
      BY <1>4 DEF SyncPlugin, UnloadPlugin
    <2>3. QED
      BY <1>1, <2>1, <2>2, MarkedRemarks
  <1>5. QED
    BY <1>2, <1>3, <1>4 DEF Background

(* Marking parts nothing and makes no trigger ambiguous. *)
LEMMA RemarkedSound ==
  ASSUME Sound(Catalog), MemoryMatchesStore, Remarked, UNCHANGED <<memory, parted>>,
         entries' \subseteq Entry, \A e \in entries' : SchemaAdmits(e)
  PROVE  /\ Sound(Catalog)'
         /\ MemoryMatchesStore'
         /\ \A g \in Groups : Ambiguous(Catalog, g)' \subseteq Ambiguous(Catalog, g)
  <1>1. PICK m \in [entries -> BOOLEAN] :
          entries' = { [e EXCEPT !.missing = m[e]] : e \in entries }
    BY DEF Remarked
  <1>. DEFINE Mark(e) == [e EXCEPT !.missing = m[e]]
              Bare(e) == [e EXCEPT !.missing = FALSE]
  <1>2. entries \subseteq Entry /\ groups' = groups
    BY DEF Sound, Catalog, Remarked
  <1>3. \A e \in entries :
          /\ Bare(Mark(e)) = Bare(e)
          /\ Mark(e).group = e.group
          /\ TriggersOf(Mark(e)) = TriggersOf(e)
    BY <1>2, EntryUnmarked
  <1>4. entries' = { Mark(e) : e \in entries }
    BY <1>1
  <1>5. Unmarked(entries') = { Bare(f) : f \in entries' }
        /\ Unmarked(entries) = { Bare(f) : f \in entries }
    BY DEF Unmarked
  <1>. HIDE DEF Mark, Bare
  <1>6. Unmarked(entries') = Unmarked(entries)
    BY <1>3, <1>4, <1>5
  <1>7. MemoryMatchesStore'
    BY <1>2, <1>6 DEF MemoryMatchesStore
  <1>8. \A f \in entries' : f.group \in groups
    BY <1>3, <1>4 DEF Sound, Catalog
  <1>9. Sound(Catalog)'
    BY <1>2, <1>8 DEF Sound, Catalog
  <1>10. ASSUME NEW g \in Groups, NEW t \in Triggers, NEW f1 \in entries', NEW f2 \in entries',
                f1.group = g, f2.group = g, f1 # f2, t \in TriggersOf(f1) \cap TriggersOf(f2)
         PROVE  \E e1, e2 \in entries : /\ e1.group = g /\ e2.group = g /\ e1 # e2
                                        /\ t \in TriggersOf(e1) \cap TriggersOf(e2)
    <2>1. PICK e1 \in entries : f1 = Mark(e1)
      BY <1>4
    <2>2. PICK e2 \in entries : f2 = Mark(e2)
      BY <1>4
    <2>3. QED
      BY <1>3, <1>10, <2>1, <2>2
  <1>11. \A g \in Groups : Ambiguous(Catalog, g)' \subseteq Ambiguous(Catalog, g)
    BY <1>10 DEF Ambiguous, EntriesOf, Catalog
  <1>12. QED
    BY <1>7, <1>9, <1>11

(* Entries, hooks and the registry as they were: links as they were.       *)
LEMMA LinksKept ==
  ASSUME LinksFollowPlugins, UNCHANGED <<entries, loaded>>, entries \subseteq Entry,
         \A q \in Plugins : Settled(q)' => Settled(q),
         \A q \in Plugins : q \in rewritten => q \in rewritten' \/ ~Settled(q)'
  PROVE  LinksFollowPlugins'
  <1>1. \A e \in entries : e.link \in Plugins \cup {NoPlugin}
    BY DEF Entry
  <1>2. QED
    BY <1>1 DEF LinksFollowPlugins

(* A successful hook of p marks its entries as the registry has p. *)
LEMMA MarkedLinks ==
  ASSUME LinksFollowPlugins, entries \subseteq Entry, NEW p \in Plugins, NEW missing \in BOOLEAN,
         UNCHANGED loaded, entries' = Marked({p}, missing),
         \A q \in Plugins : q # p /\ Settled(q)' => Settled(q),
         Settled(p)' => (missing <=> p \notin loaded),
         rewritten \subseteq rewritten' \cup {p}
  PROVE  LinksFollowPlugins'
  <1>1. \A f \in entries' :
          /\ f.link \in Plugins \cup {NoPlugin}
          /\ f.link = p => f.missing = missing
          /\ f.link # p => f \in entries
    <2>. SUFFICES ASSUME NEW e \in entries,
                         NEW f, f = IF e.link \in {p} THEN [e EXCEPT !.missing = missing] ELSE e
                  PROVE  /\ f.link \in Plugins \cup {NoPlugin}
                         /\ f.link = p => f.missing = missing
                         /\ f.link # p => f \in entries
      BY DEF Marked
    <2>1. e \in Entry /\ e.link \in Plugins \cup {NoPlugin}
      BY DEF Entry
    <2>2. QED
      BY <2>1, MarkedEntry
  <1>. SUFFICES ASSUME NEW f \in entries', f.link # NoPlugin, Settled(f.link)',
                       f.link \notin rewritten'
                PROVE  f.missing <=> f.link \notin loaded
    BY DEF LinksFollowPlugins
  <1>2. CASE f.link = p
    BY <1>1, <1>2
  <1>3. CASE f.link # p
    <2>1. f \in entries /\ f.link \in Plugins /\ Settled(f.link) /\ f.link \notin rewritten
      BY <1>1, <1>3
    <2>2. QED
      BY <2>1 DEF LinksFollowPlugins
  <1>4. QED
    BY <1>2, <1>3

LEMMA BackgroundLinks ==
  ASSUME DirectoryInv, Background
  PROVE  LinksFollowPlugins'
  <1>0. Inv /\ LinksFollowPlugins /\ TypeOK /\ LastWord /\ entries \subseteq Entry
    BY DEF DirectoryInv, Inv, TypeOK
  <1>1. ASSUME NEW p \in Plugins, Load(p) \/ Unload(p), UNCHANGED rewritten
        PROVE  LinksFollowPlugins'
    <2>1. /\ loaded' \in SUBSET Plugins
          /\ \A q \in Plugins \ {p} : q \in loaded' <=> q \in loaded
          /\ UNCHANGED <<unsynced, entries>>
      BY <1>0, <1>1 DEF TypeOK, Load, Unload, customVars
    <2>2. ~Settled(p)' /\ \A q \in Plugins : Settled(q)' => Settled(q)
      BY <1>0, <1>1, <2>1, DueLastWord DEF Load, Unload
    <2>3. \A e \in entries : e.link \in Plugins \cup {NoPlugin}
      BY <1>0 DEF Entry
    <2>4. QED
      BY <1>0, <1>1, <2>1, <2>2, <2>3 DEF LinksFollowPlugins
  <1>2. ASSUME SyncAll, rewritten' = rewritten \cap unsynced'
        PROVE  LinksFollowPlugins'
    <2>1. UNCHANGED loaded
      BY <1>2 DEF SyncAll, Hook
    <2>2. CASE unsynced' = Plugins /\ UNCHANGED entries
      <3>1. \A q \in Plugins : ~Settled(q)'
        BY <2>2 DEF Settled
      <3>2. \A e \in entries : e.link \in Plugins \cup {NoPlugin}
        BY <1>0 DEF Entry
      <3>3. QED
        BY <2>2, <3>1, <3>2 DEF LinksFollowPlugins
    <2>3. CASE entries' = { IF e.link = NoPlugin THEN e
                            ELSE [e EXCEPT !.missing = e.link \notin loaded] : e \in entries }
      <3>. SUFFICES ASSUME NEW e \in entries,
                           NEW f, f = IF e.link = NoPlugin THEN e
                                      ELSE [e EXCEPT !.missing = e.link \notin loaded],
                           f.link # NoPlugin
                    PROVE  f.missing <=> f.link \notin loaded
        BY <2>1, <2>3 DEF LinksFollowPlugins
      <3>1. (e.link \notin loaded) \in BOOLEAN /\ e \in Entry
        BY <1>0
      <3>2. QED
        BY <3>1, MarkedEntry
    <2>4. QED
      BY <1>2, <2>2, <2>3 DEF SyncAll
  <1>3. ASSUME NEW p \in Plugins, SyncPlugin(p) \/ UnloadPlugin(p),
               rewritten' = rewritten \ ({p} \ unsynced')
        PROVE  LinksFollowPlugins'
    <2>1. PICK hook \in {"loaded", "unloaded"} :
            /\ Hook(hook, p)
            /\ \/ entries' = Marked({p}, hook = "unloaded") /\ unsynced' = unsynced \ {p}
               \/ unsynced' = unsynced \cup {p} /\ UNCHANGED <<runtime, entries>>
      BY <1>3 DEF SyncPlugin, UnloadPlugin
    <2>2. UNCHANGED loaded
      BY <2>1 DEF Hook
    <2>3. CASE unsynced' = unsynced \cup {p} /\ UNCHANGED <<runtime, entries>>
      <3>1. \A q \in Plugins : Settled(q)' => Settled(q)
        BY <1>0, <2>1, <2>3, FailedHookInv
      <3>2. rewritten' = rewritten
        BY <1>3, <2>3
      <3>3. QED
        BY <1>0, <2>2, <2>3, <3>1, <3>2, LinksKept
    <2>4. CASE entries' = Marked({p}, hook = "unloaded") /\ unsynced' = unsynced \ {p}
      <3>1. \A q \in Plugins : q # p /\ Settled(q)' => Settled(q)
        BY <1>0, <2>1, <2>4, HookKeepsSettled
      <3>2. Settled(p)' => (hook = "unloaded" <=> p \notin loaded)
        BY <1>0, <2>1, LastHookTrue
      <3>3. rewritten \subseteq rewritten' \cup {p} /\ (hook = "unloaded") \in BOOLEAN
        BY <1>3
      <3>4. QED
        BY <1>0, <2>2, <2>4, <3>1, <3>2, <3>3, MarkedLinks
    <2>5. QED
      BY <2>1, <2>3, <2>4
  <1>4. QED
    BY <1>1, <1>2, <1>3 DEF Background

LEMMA BackgroundInv ==
  ASSUME DirectoryInv, Background
  PROVE  DirectoryInv'
  <1>1. Inv'
    BY PluginSteps, SyncAllInv, SyncPluginInv, UnloadPluginInv DEF DirectoryInv, Background
  <1>2. Remarked
    BY HookRemarks DEF DirectoryInv, Sound, Catalog, Background
  <1>3. Sound(Catalog)' /\ MemoryMatchesStore'
    BY <1>1, <1>2, RemarkedSound DEF DirectoryInv, Inv, TypeOK, SchemaHolds, Background
  <1>4. LinksFollowPlugins'
    BY BackgroundLinks
  <1>5. Sound(memory)'
    BY DEF DirectoryInv, Sound, Background
  <1>6. QED
    BY <1>1, <1>3, <1>4, <1>5 DEF DirectoryInv

-----------------------------------------------------------------------------
(* Edits *)

LEMMA PlacedEntry ==
  ASSUME NEW e \in Entry, NEW g \in Groups
  PROVE  /\ Placed(e, g) \in Entry
         /\ Placed(e, g).group = g
         /\ TriggersOf(Placed(e, g)) = TriggersOf(e)
         /\ SchemaAdmits(Placed(e, g)) <=> SchemaAdmits(e)
  BY DEF Entry, Placed, TriggersOf, SchemaAdmits

(* A candidate in which triggers are ambiguous only where they are in      *)
(* memory, in the same group or in one the candidate no longer has.        *)
Apart(candidate) ==
  \A g \in Groups : \E h \in {g} \cup (memory.groups \ candidate.groups) :
    Ambiguous(candidate, g) \subseteq Ambiguous(memory, h)

Proper(candidate) == Sound(candidate) /\ Apart(candidate)

(* What an edit asks the database to store. *)
CommitsProper == \E candidate, touched : Commit(candidate, touched) /\ Proper(candidate)

(* Some of the memory's entries with others that conflict with none.       *)
LEMMA ProperWith ==
  ASSUME Sound(memory),
         NEW gs \in SUBSET Groups, NEW kept \in SUBSET memory.entries, NEW new \in SUBSET Entry,
         \A e \in kept \cup new : e.group \in gs,
         \A e \in new : SchemaAdmits(e),
         \A e, f \in new : e # f => TriggersOf(e) \cap TriggersOf(f) = {},
         \A e \in kept, f \in new :
           e.group # f.group \/ TriggersOf(e) \cap TriggersOf(f) = {}
  PROVE  Proper(With(gs, kept \cup new))
  <1>. DEFINE es == kept \cup new
              c == With(gs, es)
  <1>1. c.groups = gs /\ c.entries = es
    BY DEF With
  <1>2. ASSUME NEW g \in Groups, NEW t, NEW e \in es, NEW f \in es, e # f,
               e.group = g, f.group = g, t \in TriggersOf(e) \cap TriggersOf(f)
        PROVE  e \in memory.entries /\ f \in memory.entries
    BY <1>2
  <1>3. Sound(c)
    BY <1>1 DEF Sound
  <1>. HIDE DEF c, es
  <1>4. \A g \in Groups : Ambiguous(c, g) \subseteq Ambiguous(memory, g)
    BY <1>1, <1>2 DEF Ambiguous, EntriesOf
  <1>5. QED
    BY <1>3, <1>4 DEF Proper, Apart, c, es

LEMMA SubmittedEntries ==
  ASSUME NEW g \in Groups, NEW es \in SUBSET { Placed(e, g) : e \in Submitted },
         \A e \in es : Prepared(e), Unconflicted(es)
  PROVE  /\ \A e \in es : e \in Entry /\ e.group = g /\ SchemaAdmits(e)
         /\ \A e, f \in es : e # f => TriggersOf(e) \cap TriggersOf(f) = {}
  <1>1. \A e \in es : e \in Entry /\ e.group = g /\ SchemaAdmits(e)
    BY PlacedEntry, DirectoryAssumption DEF Prepared
  <1>2. \A e, f \in es : e # f => TriggersOf(e) \cap TriggersOf(f) = {}
    BY DEF Unconflicted, Conflicts
  <1>3. QED
    BY <1>1, <1>2

LEMMA CreateGroupCommits ==
  ASSUME Sound(memory), NEW g \in Groups, CreateGroup(g)
  PROVE  CommitsProper
  <1>1. PICK es \in SUBSET { Placed(e, g) : e \in Submitted } :
          /\ \A e \in es : Prepared(e)
          /\ Unconflicted(es)
          /\ Commit(With(memory.groups \cup {g}, memory.entries \cup es), {})
    BY DEF CreateGroup
  <1>2. /\ \A e \in es : e \in Entry /\ e.group = g /\ SchemaAdmits(e)
        /\ \A e, f \in es : e # f => TriggersOf(e) \cap TriggersOf(f) = {}
    BY <1>1, SubmittedEntries
  <1>3. /\ memory.groups \subseteq Groups /\ g \notin memory.groups
        /\ \A e \in memory.entries : e.group \in memory.groups
    BY DEF Sound, CreateGroup
  <1>4. Proper(With(memory.groups \cup {g}, memory.entries \cup es))
    BY <1>2, <1>3, ProperWith
  <1>5. QED
    BY <1>1, <1>4 DEF CommitsProper

LEMMA ReplaceGroupCommits ==
  ASSUME Sound(memory), NEW g \in Groups, NEW h \in Groups, ReplaceGroup(g, h)
  PROVE  CommitsProper
  <1>1. PICK es \in SUBSET { Placed(e, h) : e \in Submitted } :
          /\ \A e \in es : Prepared(e)
          /\ Unconflicted(es)
          /\ Commit(With((memory.groups \ {g}) \cup {h},
                         (memory.entries \ EntriesOf(memory, g)) \cup es), {g, h})
    BY DEF ReplaceGroup
  <1>2. /\ \A e \in es : e \in Entry /\ e.group = h /\ SchemaAdmits(e)
        /\ \A e, f \in es : e # f => TriggersOf(e) \cap TriggersOf(f) = {}
    BY <1>1, SubmittedEntries
  <1>. DEFINE kept == memory.entries \ EntriesOf(memory, g)
              gs == (memory.groups \ {g}) \cup {h}
  <1>3. /\ gs \in SUBSET Groups
        /\ kept \in SUBSET memory.entries
        /\ \A e \in kept : e.group # h /\ e.group \in gs
    BY DEF Sound, EntriesOf, ReplaceGroup
  <1>4. Proper(With(gs, kept \cup es))
    <2>1. h \in gs
      OBVIOUS
    <2>. HIDE DEF kept, gs
    <2>2. QED
      BY <1>2, <1>3, <2>1, ProperWith
  <1>5. QED
    BY <1>1, <1>4 DEF CommitsProper

(* A group with another name has the entries, and the ambiguous triggers,  *)
(* it had.                                                                 *)
LEMMA UpdateGroupCommits ==
  ASSUME Sound(memory), NEW g \in Groups, NEW h \in Groups, UpdateGroup(g, h)
  PROVE  CommitsProper
  <1>. DEFINE old == EntriesOf(memory, g)
              new == { Placed(e, h) : e \in old }
              kept == memory.entries \ old
              gs == (memory.groups \ {g}) \cup {h}
              c == With(gs, kept \cup new)
  <1>1. \A e \in old :
          /\ e \in memory.entries /\ e \in Entry /\ e.group = g /\ SchemaAdmits(e)
          /\ Placed(e, h) \in Entry /\ Placed(e, h).group = h
          /\ TriggersOf(Placed(e, h)) = TriggersOf(e)
          /\ SchemaAdmits(Placed(e, h))
    BY PlacedEntry DEF EntriesOf, Sound
  <1>2. /\ gs \subseteq Groups
        /\ \A e \in kept : e \in memory.entries /\ e.group # h /\ e.group \in gs
        /\ h \in gs
        /\ g \in {h} \cup (memory.groups \ gs)
    BY DEF EntriesOf, Sound, UpdateGroup
  <1>3. \A f \in new : \E e \in old : f = Placed(e, h)
    OBVIOUS
  <1>4. c.groups = gs /\ c.entries = kept \cup new
    BY DEF With
  <1>5. Commit(c, {g, h})
    BY DEF UpdateGroup
  <1>. HIDE DEF old, new, kept, gs, c
  <1>6. \A f \in new : f \in Entry /\ f.group = h /\ SchemaAdmits(f)
    BY <1>1, <1>3
  <1>7. Sound(c)
    BY <1>2, <1>4, <1>6 DEF Sound
  <1>8. \A x \in Groups \ {h} : Ambiguous(c, x) \subseteq Ambiguous(memory, x)
    BY <1>2, <1>4, <1>6 DEF Ambiguous, EntriesOf
  <1>9. Ambiguous(c, h) \subseteq Ambiguous(memory, g)
    <2>. SUFFICES ASSUME NEW t \in Triggers, NEW e \in EntriesOf(c, h), NEW f \in EntriesOf(c, h),
                         e # f, t \in TriggersOf(e) \cap TriggersOf(f)
                  PROVE  t \in Ambiguous(memory, g)
      BY DEF Ambiguous
    <2>1. e \in new /\ f \in new
      BY <1>2, <1>4 DEF EntriesOf
    <2>2. PICK d \in old : e = Placed(d, h)
      BY <1>3, <2>1
    <2>3. PICK b \in old : f = Placed(b, h)
      BY <1>3, <2>1
    <2>4. d # b /\ t \in TriggersOf(d) \cap TriggersOf(b)
      BY <1>1, <2>2, <2>3
    <2>5. QED
      BY <2>4 DEF Ambiguous, old
  <1>10. QED
    BY <1>2, <1>4, <1>5, <1>7, <1>8, <1>9 DEF CommitsProper, Proper, Apart

LEMMA AddCommandCommits ==
  ASSUME Sound(memory), NEW g \in Groups, AddCommand(g)
  PROVE  CommitsProper
  <1>1. PICK s \in Submitted :
          /\ Prepared(Placed(s, g))
          /\ ~Conflicts(Placed(s, g), EntriesOf(memory, g))
          /\ Commit(With(memory.groups, memory.entries \cup {Placed(s, g)}), {g})
    BY DEF AddCommand
  <1>2. Placed(s, g) \in Entry /\ Placed(s, g).group = g /\ SchemaAdmits(Placed(s, g))
    BY <1>1, PlacedEntry, DirectoryAssumption DEF Prepared
  <1>3. /\ memory.groups \subseteq Groups /\ g \in memory.groups
        /\ \A e \in memory.entries : e.group \in memory.groups
    BY DEF Sound, AddCommand
  <1>4. \A e \in memory.entries :
          e.group # g \/ TriggersOf(e) \cap TriggersOf(Placed(s, g)) = {}
    BY <1>1 DEF Conflicts, EntriesOf
  <1>5. Proper(With(memory.groups, memory.entries \cup {Placed(s, g)}))
    BY <1>2, <1>3, <1>4, ProperWith
  <1>6. QED
    BY <1>1, <1>5 DEF CommitsProper

LEMMA UpdatedEntry ==
  ASSUME NEW e \in Entry, NEW s \in Entry, NEW u \in Updates(e, s)
  PROVE  u \in Entry /\ u.group = e.group
  <1>1. Keep \in Policies \cup {Keep} /\ Keep \in Modes \cup {Keep}
    OBVIOUS
  <1>2. s.permission \in Permissions /\ s.policy \in Policies /\ s.history \in Modes
    BY DEF Entry
  <1>3. CASE u \in { Revised(e, s.permission, Keep, Keep),
                     Revised(e, s.permission, s.policy, s.history) }
    <2>1. ASSUME NEW policy \in Policies \cup {Keep}, NEW history \in Modes \cup {Keep},
                 u = Revised(e, s.permission, policy, history)
          PROVE  u \in Entry /\ u.group = e.group
      BY <1>2, <2>1, RevisedFields
    <2>2. QED
      BY <1>1, <1>2, <1>3, <2>1
  <1>4. CASE u = [e EXCEPT !.key = s.key, !.aliases = s.aliases]
    BY <1>4 DEF Entry
  <1>5. CASE u = [e EXCEPT !.link = s.link, !.missing = s.missing]
    BY <1>5 DEF Entry
  <1>6. CASE u = [e EXCEPT !.link = NoPlugin, !.missing = FALSE]
    BY <1>6 DEF Entry
  <1>7. QED
    BY <1>3, <1>4, <1>5, <1>6 DEF Updates

LEMMA UpdateCommandCommits ==
  ASSUME Sound(memory), NEW g \in Groups, UpdateCommand(g)
  PROVE  CommitsProper
  <1>1. PICK s \in Submitted, t \in Triggers : \E e \in Located(g, s.type, t) :
          \E u \in Updates(e, s) :
            /\ Prepared(u)
            /\ ~Conflicts(u, EntriesOf(memory, g) \ {e})
            /\ Commit(With(memory.groups, (memory.entries \ {e}) \cup {u}), {g})
    BY DEF UpdateCommand
  <1>2. PICK e \in Located(g, s.type, t) : \E u \in Updates(e, s) :
          /\ Prepared(u)
          /\ ~Conflicts(u, EntriesOf(memory, g) \ {e})
          /\ Commit(With(memory.groups, (memory.entries \ {e}) \cup {u}), {g})
    BY <1>1
  <1>3. PICK u \in Updates(e, s) :
          /\ Prepared(u)
          /\ ~Conflicts(u, EntriesOf(memory, g) \ {e})
          /\ Commit(With(memory.groups, (memory.entries \ {e}) \cup {u}), {g})
    BY <1>2
  <1>4. e \in memory.entries /\ e.group = g
    BY DEF Located, EntriesOf
  <1>5. /\ memory.groups \subseteq Groups
        /\ memory.entries \subseteq Entry
        /\ \A f \in memory.entries : f.group \in memory.groups
    BY DEF Sound
  <1>6. u \in Entry /\ u.group = g /\ SchemaAdmits(u)
    BY <1>3, <1>4, <1>5, UpdatedEntry, DirectoryAssumption DEF Prepared
  <1>7. \A f \in memory.entries \ {e} :
          f.group # u.group \/ TriggersOf(f) \cap TriggersOf(u) = {}
    BY <1>3, <1>6 DEF Conflicts, EntriesOf
  <1>8. Proper(With(memory.groups, (memory.entries \ {e}) \cup {u}))
    BY <1>4, <1>5, <1>6, <1>7, ProperWith
  <1>9. QED
    BY <1>3, <1>8 DEF CommitsProper

LEMMA DeleteCommandCommits ==
  ASSUME Sound(memory), NEW g \in Groups, DeleteCommand(g)
  PROVE  CommitsProper
  <1>1. PICK e : Commit(With(memory.groups, memory.entries \ {e}), {g})
    BY DEF DeleteCommand
  <1>2. Proper(With(memory.groups, (memory.entries \ {e}) \cup {}))
    BY ProperWith DEF Sound
  <1>3. (memory.entries \ {e}) \cup {} = memory.entries \ {e}
    OBVIOUS
  <1>4. QED
    BY <1>1, <1>2, <1>3 DEF CommitsProper

LEMMA EditCommits ==
  ASSUME Sound(memory), NEW g \in Groups, NEW h \in Groups, GroupEdit(g, h) \/ LocalEdit(g)
  PROVE  CommitsProper
  BY CreateGroupCommits, ReplaceGroupCommits, UpdateGroupCommits, AddCommandCommits,
     UpdateCommandCommits, DeleteCommandCommits DEF GroupEdit, LocalEdit
(* Writing groups and entries leaves the rest of the table alone. *)
LEMMA TableWritten ==
  ASSUME Inv, UNCHANGED <<worldVars, unsynced, runtime>>,
         groups' \subseteq Groups, entries' \subseteq Entry, \A e \in entries' : SchemaAdmits(e)
  PROVE  Inv'
  <1>1. UNCHANGED <<declared, loaded, events, unsynced, runtime>>
    BY DEF worldVars
  <1>2. TypeOK' /\ SchemaHolds'
    BY <1>1 DEF Inv, TypeOK, SchemaHolds
  <1>3. Declared' /\ LastWord' /\ RowsFollowRegistry'
    BY <1>1 DEF Inv, Declared, LastWord, RowsFollowRegistry, Settled, Contested
  <1>4. QED
    BY <1>2, <1>3 DEF Inv

(* What is saved marks only entries it changes otherwise than the hooks    *)
(* did, and their plugins are noted.                                       *)
LEMMA SavedLinks ==
  ASSUME LinksFollowPlugins, NEW candidate, Save(candidate), candidate.entries \subseteq Entry,
         UNCHANGED <<worldVars, unsynced>>
  PROVE  LinksFollowPlugins'
  <1>1. UNCHANGED <<loaded, events, unsynced>> /\ \A p : Settled(p)' <=> Settled(p)
    BY DEF worldVars, Settled
  <1>2. ASSUME NEW e \in entries', e.link # NoPlugin, e.link \notin rewritten'
        PROVE  e \in entries /\ e.link \notin rewritten
    BY <1>2 DEF Save
  <1>3. QED
    BY <1>1, <1>2 DEF LinksFollowPlugins

LEMMA SavedInv ==
  ASSUME DirectoryInv, NEW candidate, Sound(candidate), Save(candidate), Publish(candidate),
         UNCHANGED <<worldVars, unsynced, runtime>>
  PROVE  DirectoryInv'
  <1>1. groups' = candidate.groups /\ entries' = candidate.entries
    BY DEF Save
  <1>2. Inv'
    BY <1>1, TableWritten DEF DirectoryInv, Sound
  <1>3. Sound(Catalog)'
    BY <1>1 DEF Sound, Catalog
  <1>4. Sound(memory)' /\ MemoryMatchesStore'
    BY <1>1 DEF Publish, DirectoryInv, Sound, MemoryMatchesStore
  <1>5. LinksFollowPlugins'
    BY SavedLinks DEF DirectoryInv, Sound
  <1>6. QED
    BY <1>2, <1>3, <1>4, <1>5 DEF DirectoryInv

(* Nothing of the directory or the table changes but tokens. *)
LEMMA Undisturbed ==
  ASSUME DirectoryInv,
         UNCHANGED <<worldVars, unsynced, runtime, customVars, memory, parted, rewritten>>
  PROVE  DirectoryInv'
  <1>1. UNCHANGED <<declared, loaded, events, unsynced, runtime, groups, entries, memory, parted,
                    rewritten>>
    BY DEF worldVars, customVars
  <1>2. Inv'
    BY <1>1, TableWritten DEF DirectoryInv, Inv, TypeOK, SchemaHolds
  <1>3. LinksFollowPlugins'
    BY <1>1 DEF DirectoryInv, LinksFollowPlugins, Settled
  <1>4. QED
    BY <1>1, <1>2, <1>3 DEF DirectoryInv, Sound, Catalog, MemoryMatchesStore

LEMMA CommitInv ==
  ASSUME DirectoryInv, CommitsProper
  PROVE  DirectoryInv'
  <1>1. PICK candidate, touched : Commit(candidate, touched) /\ Proper(candidate)
    BY DEF CommitsProper
  <1>2. CASE Save(candidate) /\ Publish(candidate)
    BY <1>1, <1>2, SavedInv DEF Commit, Proper
  <1>3. CASE UNCHANGED <<customVars, rewritten, tokens, memory, parted>>
    BY <1>1, <1>3, Undisturbed DEF Commit
  <1>4. QED
    BY <1>1, <1>2, <1>3 DEF Commit

(* What a deletion stores. *)
Remaining(g) == With(memory.groups \ {g}, memory.entries \ EntriesOf(memory, g))

LEMMA RemainingFields ==
  ASSUME Sound(memory), NEW g \in Groups
  PROVE  /\ Sound(Remaining(g))
         /\ Remaining(g).groups = memory.groups \ {g}
         /\ Remaining(g).entries = memory.entries \ EntriesOf(memory, g)
         /\ \A x \in Groups : Ambiguous(Remaining(g), x) \subseteq Ambiguous(memory, x)
  <1>1. /\ Remaining(g).groups = memory.groups \ {g}
        /\ Remaining(g).entries = memory.entries \ EntriesOf(memory, g)
    BY DEF Remaining, With
  <1>2. QED
    BY <1>1 DEF Sound, EntriesOf, Ambiguous

LEMMA GroupDeleteInv ==
  ASSUME DirectoryInv, NEW g \in Groups, GroupDelete(g)
  PROVE  DirectoryInv'
  <1>1. CASE PreviewDelete(g)
    BY <1>1, Undisturbed DEF PreviewDelete, catalogVars, worldVars, customVars
  <1>2. CASE ConfirmDelete(g)
    <2>1. UNCHANGED <<worldVars, unsynced, runtime>>
      BY <1>2 DEF ConfirmDelete
    <2>2. CASE Save(Remaining(g)) /\ Publish(Remaining(g))
      BY <2>1, <2>2, SavedInv, RemainingFields DEF DirectoryInv
    <2>3. CASE UNCHANGED <<customVars, rewritten, memory, parted>>
      BY <2>1, <2>3, Undisturbed
    <2>4. QED
      BY <1>2, <2>2, <2>3 DEF ConfirmDelete, Remaining
  <1>3. QED
    BY <1>1, <1>2 DEF GroupDelete

-----------------------------------------------------------------------------
(* Everything else *)

LEMMA WithGroups ==
  ASSUME NEW gs, NEW es
  PROVE  With(gs, es).groups = gs /\ With(gs, es).entries = es
  BY DEF With

(* A policy set by hand changes no link, mark, group or trigger. *)
LEMMA SetPolicyEntries ==
  ASSUME DirectoryInv, UpdatePolicy
  PROVE  /\ groups' = groups
         /\ \A r \in entries' : \E e \in entries :
              /\ r.group = e.group /\ TriggersOf(r) = TriggersOf(e)
              /\ r.link = e.link /\ r.missing = e.missing
         /\ \A r, s \in entries' : r # s => \E e, f \in entries :
              /\ e # f
              /\ r.group = e.group /\ TriggersOf(r) = TriggersOf(e)
              /\ s.group = f.group /\ TriggersOf(s) = TriggersOf(f)
  <1>1. groups' = groups
    BY DEF UpdatePolicy
  <1>2. CASE UNCHANGED entries
    BY <1>1, <1>2
  <1>3. ASSUME NEW d \in Decisions, NEW e \in entries,
               entries' = (entries \ {e}) \cup {Revised(e, d[1], d[2], d[3])}
        PROVE  /\ \A r \in entries' : \E f \in entries :
                    /\ r.group = f.group /\ TriggersOf(r) = TriggersOf(f)
                    /\ r.link = f.link /\ r.missing = f.missing
               /\ \A r, s \in entries' : r # s => \E f, h \in entries :
                    /\ f # h
                    /\ r.group = f.group /\ TriggersOf(r) = TriggersOf(f)
                    /\ s.group = h.group /\ TriggersOf(s) = TriggersOf(h)
    <2>. DEFINE u == Revised(e, d[1], d[2], d[3])
    <2>1. e \in Entry
      BY DEF DirectoryInv, Sound, Catalog
    <2>2. /\ u.group = e.group /\ u.key = e.key /\ u.aliases = e.aliases
          /\ u.link = e.link /\ u.missing = e.missing
      BY <2>1, DecisionFields, RevisedFields
    <2>3. TriggersOf(u) = TriggersOf(e)
      BY <2>2 DEF TriggersOf
    <2>. HIDE DEF u
    <2>4. entries' = (entries \ {e}) \cup {u}
      BY <1>3 DEF u
    <2>5. QED
      BY <2>2, <2>3, <2>4
  <1>4. QED
    BY <1>1, <1>2, <1>3 DEF UpdatePolicy

LEMMA SetPolicyInv ==
  ASSUME DirectoryInv, SetPolicy
  PROVE  DirectoryInv'
  <1>1. /\ groups' = groups
        /\ \A r \in entries' : \E e \in entries :
             r.group = e.group /\ r.link = e.link /\ r.missing = e.missing
    BY SetPolicyEntries DEF SetPolicy
  <1>2. Inv'
    BY UpdatePolicyInv DEF SetPolicy, DirectoryInv
  <1>3. Sound(Catalog)'
    BY <1>1, <1>2 DEF DirectoryInv, Sound, Catalog, Inv, TypeOK, SchemaHolds
  <1>4. Sound(memory)' /\ MemoryMatchesStore'
    BY <1>3, WithGroups DEF SetPolicy, Publish, DirectoryInv, Sound, Catalog, MemoryMatchesStore
  <1>5. UNCHANGED <<loaded, rewritten>> /\ \A p : Settled(p)' <=> Settled(p)
    BY DEF SetPolicy, UpdatePolicy, worldVars, Settled
  <1>6. LinksFollowPlugins'
    BY <1>1, <1>5 DEF DirectoryInv, LinksFollowPlugins
  <1>7. QED
    BY <1>2, <1>3, <1>4, <1>6 DEF DirectoryInv

LEMMA ResetInv ==
  ASSUME DirectoryInv, Restart \/ UNCHANGED catalogVars, Reset
  PROVE  DirectoryInv'
  <1>1. UNCHANGED <<groups, entries>> /\ UNCHANGED rewritten
    BY DEF Restart, Reset, catalogVars, customVars
  <1>2. Inv'
    <2>1. CASE Restart
      BY <2>1, RestartInv DEF DirectoryInv
    <2>2. CASE UNCHANGED catalogVars
      BY <2>2, NextInv DEF DirectoryInv
    <2>3. QED
      BY <2>1, <2>2
  <1>3. Sound(Catalog)'
    BY <1>1 DEF DirectoryInv, Sound, Catalog
  <1>4. Sound(memory)' /\ MemoryMatchesStore'
    BY <1>3, WithGroups DEF Reset, Sound, Catalog, MemoryMatchesStore
  <1>5. LinksFollowPlugins'
    <2>1. CASE Restart
      <3>1. \A p : ~Settled(p)'
        BY <2>1 DEF Restart, Settled, Boot
      <3>2. QED
        BY <3>1 DEF LinksFollowPlugins
    <2>2. CASE UNCHANGED catalogVars
      BY <1>1, <2>2 DEF DirectoryInv, LinksFollowPlugins, Settled, catalogVars
    <2>3. QED
      BY <2>1, <2>2
  <1>6. QED
    BY <1>2, <1>3, <1>4, <1>5 DEF DirectoryInv

LEMMA DirectoryInitInv == DirectoryInit => DirectoryInv
  <1>. SUFFICES ASSUME DirectoryInit PROVE DirectoryInv
    OBVIOUS
  <1>1. Inv /\ entries \subseteq Stored
    BY InitInv DEF DirectoryInit, Init
  <1>2. groups = { e.group : e \in entries }
    BY DEF DirectoryInit, Init
  <1>3. Sound(Catalog)
    BY <1>1, <1>2 DEF Sound, Catalog, Inv, TypeOK, SchemaHolds
  <1>4. \A p : ~Settled(p)
    BY DEF DirectoryInit, Init, Settled, Boot
  <1>5. QED
    BY <1>1, <1>3, <1>4
       DEF DirectoryInit, DirectoryInv, Catalog, MemoryMatchesStore, LinksFollowPlugins

LEMMA DirectoryNextInv ==
  ASSUME DirectoryInv, [DirectoryNext]_directoryVars
  PROVE  DirectoryInv'
  <1>1. ASSUME NEW g \in Groups, NEW h \in Groups, GroupEdit(g, h) \/ LocalEdit(g)
        PROVE  DirectoryInv'
    BY <1>1, EditCommits, CommitInv DEF DirectoryInv
  <1>2. ASSUME NEW g \in Groups, GroupDelete(g) PROVE DirectoryInv'
    BY <1>2, GroupDeleteInv
  <1>3. CASE SetPolicy
    BY <1>3, SetPolicyInv
  <1>4. CASE (Restart /\ Reset) \/ Reload
    BY <1>4, ResetInv DEF Reload
  <1>5. CASE Background
    BY <1>5, BackgroundInv
  <1>6. CASE UNCHANGED directoryVars
    BY <1>6, Undisturbed DEF directoryVars, catalogVars, worldVars, customVars
  <1>7. QED
    BY <1>1, <1>2, <1>3, <1>4, <1>5, <1>6 DEF DirectoryNext

LEMMA AlwaysDirectoryInv == DirectorySpec => []DirectoryInv
  BY DirectoryInitInv, DirectoryNextInv, PTL DEF DirectorySpec

-----------------------------------------------------------------------------
(* Results *)

(* Unless something saved could not be published or read back since, what  *)
(* the service keeps in memory is what the catalog holds, but for the      *)
(* marks of hooks, however writes fail and services restart.               *)
THEOREM MemoryMatches == DirectorySpec => []MemoryMatchesStore
  <1>1. DirectoryInv => MemoryMatchesStore
    BY DEF DirectoryInv
  <1>2. QED
    BY <1>1, AlwaysDirectoryInv, PTL

(* With edits of the directory, failed publications and marks set by hand, *)
(* the entries linked to a plugin are marked missing exactly while it is   *)
(* not loaded once its hooks have run, but for entries an edit changed.    *)
THEOREM LinksFollow == DirectorySpec => []LinksFollowPlugins
  <1>1. DirectoryInv => LinksFollowPlugins
    BY DEF DirectoryInv
  <1>2. QED
    BY <1>1, AlwaysDirectoryInv, PTL

(* ... and no edit stores a row that the schema's CHECK would refuse, or   *)
(* disturbs the runtime rows.                                              *)
THEOREM DirectoryKeepsCatalog == DirectorySpec => [](SchemaHolds /\ RowsFollowRegistry)
  <1>1. DirectoryInv => SchemaHolds /\ RowsFollowRegistry
    BY DEF DirectoryInv, Inv
  <1>2. QED
    BY <1>1, AlwaysDirectoryInv, PTL

(* No operation makes a trigger ambiguous that was not so in the group, or *)
(* in the one it was renamed from, whatever was stored in the beginning.   *)
THEOREM TriggersStayUnique == DirectorySpec => NoTriggerMadeAmbiguous
  <1>. DEFINE Kept == \A g \in Groups : \E h \in {g} \cup (memory.groups \ groups') :
                        Ambiguous(Catalog, g)'
                          \subseteq Ambiguous(memory, h) \cup Ambiguous(Catalog, h)
  <1>1. ASSUME UNCHANGED <<groups, entries>> PROVE Kept
    BY <1>1 DEF Ambiguous, EntriesOf, Catalog
  <1>2. ASSUME NEW candidate, Save(candidate), Apart(candidate) PROVE Kept
    <2>1. groups' = candidate.groups
          /\ \A g : Ambiguous(Catalog, g)' = Ambiguous(candidate, g)
      BY <1>2 DEF Save, Ambiguous, EntriesOf, Catalog
    <2>2. QED
      BY <1>2, <2>1 DEF Apart
  <1>3. ASSUME DirectoryInv, NEW g \in Groups, NEW h \in Groups, GroupEdit(g, h) \/ LocalEdit(g)
        PROVE  Kept
    <2>1. PICK candidate, touched : Commit(candidate, touched) /\ Proper(candidate)
      BY <1>3, EditCommits DEF DirectoryInv, CommitsProper
    <2>2. CASE Save(candidate)
      BY <1>2, <2>1, <2>2 DEF Proper
    <2>3. CASE UNCHANGED customVars
      BY <1>1, <2>3 DEF customVars
    <2>4. QED
      BY <2>1, <2>2, <2>3 DEF Commit
  <1>4. ASSUME DirectoryInv, NEW g \in Groups, GroupDelete(g) PROVE Kept
    <2>1. CASE Save(Remaining(g))
      <3>1. Apart(Remaining(g))
        BY <1>4, RemainingFields DEF DirectoryInv, Apart
      <3>2. QED
        BY <1>2, <2>1, <3>1
    <2>2. CASE UNCHANGED customVars
      BY <1>1, <2>2 DEF customVars
    <2>3. QED
      BY <1>4, <2>1, <2>2
         DEF GroupDelete, PreviewDelete, ConfirmDelete, Remaining, catalogVars, customVars
  <1>5. ASSUME DirectoryInv, SetPolicy PROVE Kept
    <2>1. /\ groups' = groups
          /\ \A r, s \in entries' : r # s => \E e, f \in entries :
               /\ e # f
               /\ r.group = e.group /\ TriggersOf(r) = TriggersOf(e)
               /\ s.group = f.group /\ TriggersOf(s) = TriggersOf(f)
      BY <1>5, SetPolicyEntries DEF SetPolicy
    <2>2. \A g \in Groups : Ambiguous(Catalog, g)' \subseteq Ambiguous(Catalog, g)
      BY <2>1 DEF Ambiguous, EntriesOf, Catalog
    <2>3. QED
      BY <2>2
  <1>6. ASSUME (Restart /\ Reset) \/ Reload PROVE Kept
    BY <1>1, <1>6 DEF Restart, Reload, catalogVars, customVars
  <1>7. ASSUME DirectoryInv, Background PROVE Kept
    <2>1. Remarked
      BY <1>7, HookRemarks DEF DirectoryInv, Sound, Catalog
    <2>2. Inv'
      BY <1>7, BackgroundInv DEF DirectoryInv
    <2>3. \A g \in Groups : Ambiguous(Catalog, g)' \subseteq Ambiguous(Catalog, g)
      BY <1>7, <2>1, <2>2, RemarkedSound DEF DirectoryInv, Inv, TypeOK, SchemaHolds, Background
    <2>4. QED
      BY <2>3
  <1>. HIDE DEF Kept
  <1>8. DirectoryInv /\ [DirectoryNext]_directoryVars => [Kept]_customVars
    BY <1>1, <1>3, <1>4, <1>5, <1>6, <1>7
       DEF DirectoryNext, directoryVars, catalogVars, customVars
  <1>9. QED
    BY <1>8, AlwaysDirectoryInv, PTL DEF DirectorySpec, NoTriggerMadeAmbiguous, Kept

(* A commit does not just take a group away. *)
LEMMA CommitKeepsGroups ==
  ASSUME MemoryMatchesStore, ~parted, NEW g \in Groups, NEW h \in Groups,
         GroupEdit(g, h) \/ LocalEdit(g), groups' \subseteq groups
  PROVE  groups' = groups
  <1>1. memory.groups = groups
    BY DEF MemoryMatchesStore
  <1>2. ASSUME NEW gs, NEW es, NEW touched, Commit(With(gs, es), touched), groups' # groups
        PROVE  groups' = gs
    BY <1>2 DEF Commit, Save, With, customVars
  <1>3. CASE CreateGroup(g)
    BY <1>1, <1>2, <1>3 DEF CreateGroup
  <1>4. CASE ReplaceGroup(g, h) \/ UpdateGroup(g, h)
    BY <1>1, <1>2, <1>4 DEF ReplaceGroup, UpdateGroup
  <1>5. CASE AddCommand(g) \/ UpdateCommand(g) \/ DeleteCommand(g)
    BY <1>1, <1>2, <1>5 DEF AddCommand, UpdateCommand, DeleteCommand
  <1>6. QED
    BY <1>3, <1>4, <1>5 DEF GroupEdit, LocalEdit

(* While memory and database are not parted, only a confirmation with a    *)
(* token that still covers the group deletes it, with the rows the caller  *)
(* was shown.                                                              *)
THEOREM DeletesPreviewed == DirectorySpec => PreviewedIsDeleted
  <1>. DEFINE Deletes(g) ==
         /\ groups' = groups \ {g}
         /\ tokens[g].valid /\ ~tokens'[g].valid
         /\ Unmarked(tokens[g].content) = Unmarked(EntriesOf(Catalog, g))
  <1>1. ASSUME DirectoryInv, DirectoryNext, ~parted, groups' \subseteq groups, groups' # groups
        PROVE  \E g \in Groups : Deletes(g)
    <2>1. PICK g \in Groups : ConfirmDelete(g)
      <3>1. ~(SetPolicy \/ (Restart /\ Reset) \/ Reload \/ Background)
        BY <1>1 DEF SetPolicy, UpdatePolicy, Restart, Reload, catalogVars, customVars, Background,
           Load, Unload, SyncAll, SyncPlugin, UnloadPlugin, Hook
      <3>2. \A g \in Groups : ~PreviewDelete(g)
        BY <1>1 DEF PreviewDelete, catalogVars
      <3>3. \A g, h \in Groups : ~GroupEdit(g, h) /\ ~LocalEdit(g)
        BY <1>1, CommitKeepsGroups DEF DirectoryInv
      <3>4. QED
        BY <1>1, <3>1, <3>2, <3>3 DEF DirectoryNext, GroupDelete
    <2>2. PICK t \in Groups :
            /\ tokens[t].valid
            /\ TokenCovers(g, t)
            /\ Save(Remaining(g))
            /\ tokens' = Cleared({g, t})
      BY <1>1, <2>1 DEF ConfirmDelete, Remaining, customVars
    <2>3. groups' = memory.groups \ {g}
      BY <1>1, <2>2, RemainingFields DEF DirectoryInv, Save
    <2>4. ~tokens'[g].valid
      BY <2>2 DEF Cleared, NoToken
    <2>5. memory.groups = groups /\ Unmarked(memory.entries) = Unmarked(entries)
      BY <1>1 DEF DirectoryInv, MemoryMatchesStore
    <2>6. Unmarked(EntriesOf(memory, g)) = Unmarked(EntriesOf(Catalog, g))
      <3>. DEFINE Bare(e) == [e EXCEPT !.missing = FALSE]
      <3>1. /\ { Bare(e) : e \in memory.entries } = { Bare(e) : e \in entries }
            /\ Unmarked(EntriesOf(memory, g)) = { Bare(e) : e \in EntriesOf(memory, g) }
            /\ Unmarked(EntriesOf(Catalog, g)) = { Bare(e) : e \in EntriesOf(Catalog, g) }
        BY <2>5 DEF Unmarked
      <3>2. \A e \in memory.entries \cup entries : Bare(e).group = e.group
        BY <1>1, EntryUnmarked DEF DirectoryInv, Sound, Catalog
      <3>. HIDE DEF Bare
      <3>3. { Bare(e) : e \in EntriesOf(memory, g) } = { Bare(e) : e \in EntriesOf(Catalog, g) }
        BY <3>1, <3>2 DEF EntriesOf, Catalog
      <3>4. QED
        BY <3>1, <3>3
    <2>7. Deletes(g)
      BY <2>2, <2>3, <2>4, <2>5, <2>6 DEF TokenCovers
    <2>8. QED
      BY <2>7
  <1>2. DirectoryInv /\ [DirectoryNext]_directoryVars
          => [~parted /\ groups' \subseteq groups /\ groups' # groups
                => \E g \in Groups : Deletes(g)]_directoryVars
    BY <1>1
  <1>3. QED
    BY <1>2, AlwaysDirectoryInv, PTL DEF DirectorySpec, PreviewedIsDeleted
=============================================================================
