------------------------ MODULE CommandHistory_proofs ------------------------
(***************************************************************************)
(* The history for any calls, users, commands, retention and number of     *)
(* rows.                                                                   *)
(*                                                                         *)
(* That a detail names a row of its own command rests on two things: the   *)
(* row of a detail is there (the foreign key forgets it with the row), and *)
(* a new row never takes an id that is in use.  That counts cover details  *)
(* rests on both being written by one transaction.                         *)
(***************************************************************************)
EXTENDS CommandHistory, FiniteSetTheorems, WellFoundedInduction, TLAPS

Details == [Calls -> Detail \cup {NoDetail}]

(* The calls of which a history keeps a detail, and those among them of    *)
(* one user and command.                                                   *)
Kept(h) == { c \in Calls : h[c] # NoDetail }
Of(h, u, k) == { c \in Calls : UserOf[c] = u /\ h[c].key = k }

Inv ==
  /\ TypeOK
  /\ IsFiniteSet(Kept(history))
  /\ CountsCoverDetails
  /\ DetailNamesItsCommand

-----------------------------------------------------------------------------
(* Ids *)

LEMMA LeastNatural ==
  ASSUME NEW T \in SUBSET Nat, T # {}
  PROVE  \E n \in T : \A m \in T : n <= m
  <1>. DEFINE R == OpToRel(<, Nat)
  <1>1. IsWellFoundedOn(R, Nat)
    BY NatLessThanWellFounded
  <1>2. \A x, y \in Nat : x < y => <<x, y>> \in R
    BY DEF OpToRel
  <1>. HIDE DEF R
  <1>3. PICK n \in T : \A m \in T : <<m, n>> \notin R
    BY <1>1, WFMin
  <1>4. ASSUME NEW m \in T
        PROVE  n <= m
    <2>1. m \in Nat /\ n \in Nat /\ <<m, n>> \notin R
      BY <1>3
    <2>2. ~(m < n)
      BY <1>2, <2>1
    <2>3. QED
      BY <2>1, <2>2
  <1>5. QED
    BY <1>4

(* The greatest of some row ids. *)
LEMMA GreatestId ==
  ASSUME NEW ids \in SUBSET Ids, ids # {}
  PROVE  \E i \in ids : \A j \in ids : i >= j
  <1>. DEFINE below == { MaxId - i : i \in ids }
  <1>1. MaxId \in Nat /\ ids \subseteq 1..MaxId
    BY HistoryAssumption DEF Ids
  <1>2. below \in SUBSET Nat /\ below # {}
    <2>1. \A i \in ids : MaxId - i \in Nat
      BY <1>1
    <2>2. QED
      BY <2>1
  <1>. HIDE DEF below
  <1>3. PICK n \in below : \A m \in below : n <= m
    BY <1>2, LeastNatural
  <1>. USE DEF below
  <1>4. PICK i \in ids : n = MaxId - i
    BY <1>3
  <1>5. ASSUME NEW j \in ids
        PROVE  i >= j
    <2>1. MaxId - j \in below
      OBVIOUS
    <2>2. MaxId - i <= MaxId - j
      BY <1>3, <1>4, <2>1
    <2>3. QED
      BY <1>1, <2>2
  <1>6. QED
    BY <1>5

(* SQLite's choice of a row id is not the id of a row. *)
LEMMA NextIdFree == NextId \notin Present
  <1>1. CASE Present = {}
    BY <1>1
  <1>2. CASE Present # {}
    <2>. DEFINE greatest == CHOOSE i \in Present : \A j \in Present : i >= j
    <2>1. Present \in SUBSET Ids
      BY DEF Present
    <2>2. greatest \in Present /\ \A j \in Present : greatest >= j
      BY <1>2, <2>1, GreatestId
    <2>3. NextId = 1 + greatest
      BY <1>2 DEF NextId
    <2>. HIDE DEF greatest
    <2>4. greatest \in Int
      BY <2>1, <2>2, HistoryAssumption DEF Ids
    <2>5. ~(greatest >= NextId)
      BY <2>3, <2>4
    <2>6. QED
      BY <2>2, <2>5
  <1>3. QED
    BY <1>1, <1>2

-----------------------------------------------------------------------------
(* Details *)

LEMMA DetailsKept ==
  ASSUME NEW h \in Details, NEW u \in Users, NEW k \in Keys, IsFiniteSet(Kept(h))
  PROVE  IsFiniteSet(Of(h, u, k)) /\ Cardinality(Of(h, u, k)) \in Nat
  <1>1. NoDetail.key \notin Keys
    BY HistoryAssumption DEF NoDetail
  <1>2. Of(h, u, k) \subseteq Kept(h)
    BY <1>1 DEF Of, Kept
  <1>3. QED
    BY <1>2, FS_Subset, FS_CardinalityType

(* A history in which every detail is gone or of the same command as it    *)
(* was has no more details than before.                                    *)
LEMMA Fewer ==
  ASSUME NEW h \in Details, NEW g \in Details, IsFiniteSet(Kept(h)),
         \A c \in Calls : g[c].key = h[c].key \/ g[c] = NoDetail
  PROVE  /\ IsFiniteSet(Kept(g))
         /\ \A u \in Users, k \in Keys : Cardinality(Of(g, u, k)) <= Cardinality(Of(h, u, k))
  <1>1. NoDetail.key \notin Keys /\ \A c \in Calls : g[c] # NoDetail => g[c].key \in Keys
    BY HistoryAssumption DEF NoDetail, Details, Detail
  <1>2. Kept(g) \subseteq Kept(h)
    BY <1>1 DEF Kept
  <1>3. IsFiniteSet(Kept(g))
    BY <1>2, FS_Subset
  <1>4. ASSUME NEW u \in Users, NEW k \in Keys
        PROVE  Cardinality(Of(g, u, k)) <= Cardinality(Of(h, u, k))
    <2>1. Of(g, u, k) \subseteq Of(h, u, k)
      BY <1>1 DEF Of
    <2>2. IsFiniteSet(Of(h, u, k))
      BY DetailsKept
    <2>3. QED
      BY <2>1, <2>2, FS_Subset
  <1>5. QED
    BY <1>3, <1>4

(* With one detail more there is at most one detail more of one user and   *)
(* command.                                                                *)
LEMMA OneMore ==
  ASSUME NEW h \in Details, NEW d \in Calls, NEW detail \in Detail, IsFiniteSet(Kept(h))
  PROVE  LET g == [h EXCEPT ![d] = detail] IN
         /\ IsFiniteSet(Kept(g))
         /\ \A u \in Users, k \in Keys :
              IF u = UserOf[d] /\ k = detail.key
                THEN Cardinality(Of(g, u, k)) <= Cardinality(Of(h, u, k)) + 1
                ELSE Cardinality(Of(g, u, k)) <= Cardinality(Of(h, u, k))
  <1>. DEFINE g == [h EXCEPT ![d] = detail]
  <1>1. Kept(g) \subseteq Kept(h) \cup {d}
    BY DEF Kept, Details
  <1>2. IsFiniteSet(Kept(g))
    BY <1>1, FS_AddElement, FS_Subset
  <1>3. ASSUME NEW u \in Users, NEW k \in Keys
        PROVE  /\ Cardinality(Of(g, u, k)) <= Cardinality(Of(h, u, k)) + 1
               /\ ~(u = UserOf[d] /\ k = detail.key) =>
                    Cardinality(Of(g, u, k)) <= Cardinality(Of(h, u, k))
    <2>1. IsFiniteSet(Of(h, u, k)) /\ Cardinality(Of(h, u, k)) \in Nat
      BY DetailsKept
    <2>2. /\ IsFiniteSet(Of(h, u, k) \cup {d})
          /\ \/ Cardinality(Of(h, u, k) \cup {d}) = Cardinality(Of(h, u, k))
             \/ Cardinality(Of(h, u, k) \cup {d}) = Cardinality(Of(h, u, k)) + 1
      BY <2>1, FS_AddElement
    <2>3. Cardinality(Of(h, u, k) \cup {d}) \in Nat
      BY <2>2, FS_CardinalityType
    <2>4. Of(g, u, k) \subseteq Of(h, u, k) \cup {d}
      BY DEF Of, Details
    <2>5. ~(u = UserOf[d] /\ k = detail.key) => Of(g, u, k) \subseteq Of(h, u, k)
      BY DEF Of, Details
    <2>6. Cardinality(Of(g, u, k)) <= Cardinality(Of(h, u, k) \cup {d})
      BY <2>2, <2>4, FS_Subset
    <2>7. Cardinality(Of(g, u, k)) \in Nat
      BY <2>2, <2>4, FS_Subset, FS_CardinalityType
    <2>8. ~(u = UserOf[d] /\ k = detail.key) =>
            Cardinality(Of(g, u, k)) <= Cardinality(Of(h, u, k))
      BY <2>1, <2>5, FS_Subset
    <2>9. Cardinality(Of(g, u, k)) <= Cardinality(Of(h, u, k)) + 1
      BY <2>1, <2>2, <2>3, <2>6, <2>7
    <2>10. QED
      BY <2>8, <2>9
  <1>4. QED
    BY <1>2, <1>3

-----------------------------------------------------------------------------
(* What keeps the invariant *)

(* Details in which nothing but the id and the age change, or that go.     *)
Remains(g, h) ==
  \A c \in Calls : (g[c].key = h[c].key /\ g[c].text = h[c].text) \/ g[c] = NoDetail

LEMMA CountsRemain ==
  ASSUME Inv, history' \in Details, Remains(history', history), uses' = uses
  PROVE  IsFiniteSet(Kept(history')) /\ CountsCoverDetails'
  <1>1. history \in Details /\ IsFiniteSet(Kept(history)) /\ CountsCoverDetails
    BY DEF Inv, TypeOK, Details
  <1>2. /\ IsFiniteSet(Kept(history'))
        /\ \A u \in Users, k \in Keys :
             Cardinality(Of(history', u, k)) <= Cardinality(Of(history, u, k))
    BY <1>1, Fewer DEF Remains
  <1>3. ASSUME NEW u \in Users, NEW k \in Keys
        PROVE  uses'[u][k] >= Cardinality(Of(history', u, k))
    <2>1. uses'[u][k] >= Cardinality(Of(history, u, k))
      BY <1>1 DEF CountsCoverDetails, Of
    <2>2. uses'[u][k] \in Nat
      BY HistoryAssumption DEF Inv, TypeOK
    <2>3. /\ Cardinality(Of(history, u, k)) \in Nat
          /\ Cardinality(Of(history', u, k)) \in Nat
      BY <1>1, <1>2, DetailsKept
    <2>4. Cardinality(Of(history', u, k)) <= Cardinality(Of(history, u, k))
      BY <1>2
    <2>5. QED
      BY <2>1, <2>2, <2>3, <2>4
  <1>4. QED
    BY <1>2, <1>3 DEF CountsCoverDetails, Of

(* A row id is not that of a row of another command. *)
LEMMA IdsInUse ==
  ASSUME Inv, NEW c \in Calls, history[c].id # Null
  PROVE  history[c].id \in Present /\ history[c].key \in Keys
  <1>1. history[c] \in Detail
    BY DEF Inv, TypeOK, NoDetail
  <1>2. history[c].id \in Ids /\ history[c].key \in Keys
    BY <1>1 DEF Detail
  <1>3. commands[history[c].id] # NoCommand
    BY <1>2, HistoryAssumption DEF Inv, DetailNamesItsCommand, NoCommand
  <1>4. QED
    BY <1>2, <1>3 DEF Present

(* ON DELETE SET NULL, when the rows of ids go and no other changes its    *)
(* command.                                                                *)
LEMMA ForgottenKeeps ==
  ASSUME Inv, NEW ids \in SUBSET Present, history' = Forgotten(ids),
         \A i \in Present \ ids : commands'[i].key = commands[i].key
  PROVE  history' \in Details /\ Remains(history', history) /\ DetailNamesItsCommand'
  <1>1. ASSUME NEW c \in Calls
        PROVE  /\ history'[c] \in Detail \cup {NoDetail}
               /\ history'[c].key = history[c].key /\ history'[c].text = history[c].text
               /\ history'[c].id # Null => history'[c].id = history[c].id /\ history[c].id \notin ids
    <2>1. CASE history[c].id \in ids
      <3>1. history[c] \in Detail
        BY <2>1 DEF Inv, TypeOK, Present, Ids, NoDetail, Null
      <3>2. history'[c] = [history[c] EXCEPT !.id = Null]
        BY <2>1 DEF Forgotten
      <3>3. QED
        BY <3>1, <3>2 DEF Detail
    <2>2. CASE history[c].id \notin ids
      BY <2>2 DEF Forgotten, Inv, TypeOK
    <2>3. QED
      BY <2>1, <2>2
  <1>2. history' \in Details
    BY <1>1 DEF Forgotten, Details
  <1>3. Remains(history', history)
    BY <1>1 DEF Remains
  <1>4. ASSUME NEW c \in Calls, history'[c].id # Null
        PROVE  commands'[history'[c].id].key = history'[c].key
    <2>1. history'[c].id = history[c].id /\ history[c].id \notin ids
      BY <1>1, <1>4
    <2>2. history[c].id \in Present /\ commands[history[c].id].key = history[c].key
      BY <1>4, <2>1, IdsInUse DEF Inv, DetailNamesItsCommand
    <2>3. QED
      BY <1>1, <2>1, <2>2
  <1>5. QED
    BY <1>2, <1>3, <1>4 DEF DetailNamesItsCommand

LEMMA CommandTyped ==
  ASSUME Inv, NEW i \in Present
  PROVE  commands[i] \in Command
  BY DEF Inv, TypeOK, Present

(* What a step does that keeps details. *)
Keeps == Inv' /\ Remains(history', history)

-----------------------------------------------------------------------------
(* The commands table *)

LEMMA AddCommandKeeps ==
  ASSUME Inv, AddCommand
  PROVE  Keeps
  <1>1. commands' \in [Ids -> Command \cup {NoCommand}]
    BY DEF AddCommand, Inv, TypeOK
  <1>2. history' = history /\ uses' = uses /\ history' \in Details /\ Remains(history', history)
    BY DEF AddCommand, Inv, TypeOK, Details, Remains
  <1>3. DetailNamesItsCommand'
    <2>1. SUFFICES ASSUME NEW c \in Calls, history[c].id # Null
                   PROVE  commands'[history[c].id].key = history[c].key
      BY <1>2 DEF DetailNamesItsCommand
    <2>2. history[c].id # NextId /\ history[c].id \in Ids
      BY <2>1, IdsInUse, NextIdFree DEF Present
    <2>3. commands'[history[c].id] = commands[history[c].id]
      BY <2>2 DEF AddCommand, Inv, TypeOK
    <2>4. QED
      BY <2>1, <2>3 DEF Inv, DetailNamesItsCommand
  <1>4. TypeOK'
    BY <1>1 DEF AddCommand, Inv, TypeOK
  <1>5. QED
    BY <1>2, <1>3, <1>4, CountsRemain DEF Inv, Keeps

LEMMA RemoveCommandsKeeps ==
  ASSUME Inv, RemoveCommands
  PROVE  Keeps
  <1>1. PICK ids \in SUBSET Present :
          /\ commands' = [i \in Ids |-> IF i \in ids THEN NoCommand ELSE commands[i]]
          /\ history' = Forgotten(ids)
    BY DEF RemoveCommands
  <1>2. \A i \in Present \ ids : commands'[i].key = commands[i].key
    BY <1>1 DEF Present
  <1>3. history' \in Details /\ Remains(history', history) /\ DetailNamesItsCommand'
    BY <1>1, <1>2, ForgottenKeeps
  <1>4. commands' \in [Ids -> Command \cup {NoCommand}]
    BY <1>1 DEF Inv, TypeOK
  <1>5. TypeOK'
    BY <1>3, <1>4 DEF RemoveCommands, Inv, TypeOK, Details
  <1>6. QED
    BY <1>3, <1>5, CountsRemain DEF RemoveCommands, Inv, Keeps

LEMMA RewriteCommandKeeps ==
  ASSUME Inv, RewriteCommand
  PROVE  Keeps
  <1>1. PICK i \in Present :
          /\ commands' = [commands EXCEPT ![NextId] = commands[i], ![i] = NoCommand]
          /\ history' = Forgotten({i})
    BY DEF RewriteCommand
  <1>2. \A j \in Present \ {i} : commands'[j].key = commands[j].key
    BY <1>1, NextIdFree DEF Present, Inv, TypeOK
  <1>3. history' \in Details /\ Remains(history', history) /\ DetailNamesItsCommand'
    BY <1>1, <1>2, ForgottenKeeps
  <1>4. commands' \in [Ids -> Command \cup {NoCommand}]
    BY <1>1, CommandTyped DEF Inv, TypeOK
  <1>5. TypeOK'
    BY <1>3, <1>4 DEF RewriteCommand, Inv, TypeOK, Details
  <1>6. QED
    BY <1>3, <1>5, CountsRemain DEF RewriteCommand, Inv, Keeps

LEMMA SetPolicyKeeps ==
  ASSUME Inv, SetPolicy
  PROVE  Keeps
  <1>1. PICK i \in Present, r \in Command :
          r.key = commands[i].key /\ commands' = [commands EXCEPT ![i] = r]
    BY DEF SetPolicy
  <1>2. history' = history /\ uses' = uses /\ history' \in Details /\ Remains(history', history)
    BY DEF SetPolicy, Inv, TypeOK, Details, Remains
  <1>3. \A j \in Present : commands'[j].key = commands[j].key
    BY <1>1 DEF Present, Inv, TypeOK
  <1>4. DetailNamesItsCommand'
    BY <1>2, <1>3, IdsInUse DEF Inv, DetailNamesItsCommand
  <1>5. TypeOK'
    BY <1>1 DEF SetPolicy, Inv, TypeOK
  <1>6. QED
    BY <1>2, <1>4, <1>5, CountsRemain DEF Inv, Keeps

-----------------------------------------------------------------------------
(* Calls *)

LEMMA LookUpKeeps ==
  ASSUME Inv, NEW c \in Calls, LookUp(c)
  PROVE  Keeps
  <1>1. PICK i \in Present : calls' = [calls EXCEPT ![c] = [id |-> i, key |-> commands[i].key]]
    BY DEF LookUp
  <1>2. [id |-> i, key |-> commands[i].key] \in Call
    BY CommandTyped DEF Command, Call, Present
  <1>3. TypeOK'
    BY <1>1, <1>2 DEF LookUp, Inv, TypeOK
  <1>4. QED
    BY <1>3 DEF LookUp, Inv, Keeps, Remains, CountsCoverDetails, DetailNamesItsCommand

LEMMA DropKeeps ==
  ASSUME Inv, NEW c \in Calls, Drop(c)
  PROVE  Keeps
  <1>1. TypeOK'
    BY DEF Drop, Inv, TypeOK
  <1>2. QED
    BY <1>1 DEF Drop, Inv, Keeps, Remains, CountsCoverDetails, DetailNamesItsCommand

(* The row a call records under, and the detail it leaves. *)
LEMMA Recorded ==
  ASSUME Inv, NEW c \in Calls, Record(c)
  PROVE  LET row == commands[calls[c].id]
             detail == [id |-> calls[c].id, key |-> row.key, text |-> row.mode = "full", age |-> 0]
         IN /\ calls[c].id \in Present /\ row \in Command /\ detail \in Detail
            /\ history' = [history EXCEPT ![c] = detail]
            /\ uses' = [uses EXCEPT ![UserOf[c]][row.key] = @ + 1]
            /\ uses[UserOf[c]][row.key] < MaxUses
  <1>1. calls[c] \in Call
    BY DEF Record, Inv, TypeOK
  <1>2. calls[c].id \in Present
    BY <1>1 DEF Record, Call, Present
  <1>3. commands[calls[c].id] \in Command
    BY <1>2, CommandTyped
  <1>4. 0 \in 0..(Retention + 1)
    BY HistoryAssumption
  <1>5. QED
    BY <1>1, <1>2, <1>3, <1>4 DEF Record, Stored, Call, Command, Detail

LEMMA RecordKeeps ==
  ASSUME Inv, NEW c \in Calls, Record(c)
  PROVE  Inv'
  <1>. DEFINE row == commands[calls[c].id]
              detail == [id |-> calls[c].id, key |-> row.key, text |-> row.mode = "full", age |-> 0]
  <1>1. /\ calls[c].id \in Present /\ row \in Command /\ detail \in Detail
        /\ history' = [history EXCEPT ![c] = detail]
        /\ uses' = [uses EXCEPT ![UserOf[c]][row.key] = @ + 1]
        /\ uses[UserOf[c]][row.key] < MaxUses
    BY Recorded
  <1>2. detail.id = calls[c].id /\ detail.key = row.key /\ row.key \in Keys /\ UserOf[c] \in Users
    BY <1>1, HistoryAssumption DEF Command
  <1>. HIDE DEF detail, row
  <1>3. history \in Details /\ history' \in Details
    BY <1>1 DEF Inv, TypeOK, Details
  <1>4. \A u \in Users, k \in Keys :
          /\ uses[u][k] \in 0..MaxUses
          /\ uses'[u][k] = IF u = UserOf[c] /\ k = row.key THEN uses[u][k] + 1 ELSE uses[u][k]
    BY <1>1, <1>2 DEF Inv, TypeOK
  <1>5. uses' \in [Users -> [Keys -> 0..MaxUses]]
    <2>1. uses[UserOf[c]][row.key] + 1 \in 0..MaxUses
      BY <1>1, <1>2, <1>4, HistoryAssumption
    <2>2. QED
      BY <1>1, <1>2, <2>1 DEF Inv, TypeOK
  <1>6. TypeOK'
    BY <1>3, <1>5 DEF Record, Inv, TypeOK, Details
  <1>7. /\ IsFiniteSet(Kept(history'))
        /\ \A u \in Users, k \in Keys :
             IF u = UserOf[c] /\ k = row.key
               THEN Cardinality(Of(history', u, k)) <= Cardinality(Of(history, u, k)) + 1
               ELSE Cardinality(Of(history', u, k)) <= Cardinality(Of(history, u, k))
    BY <1>1, <1>2, <1>3, OneMore DEF Inv
  <1>8. ASSUME NEW u \in Users, NEW k \in Keys
        PROVE  uses'[u][k] >= Cardinality(Of(history', u, k))
    <2>1. uses[u][k] >= Cardinality(Of(history, u, k))
      BY DEF Inv, CountsCoverDetails, Of
    <2>2. /\ Cardinality(Of(history, u, k)) \in Nat
          /\ Cardinality(Of(history', u, k)) \in Nat
      BY <1>3, <1>7, DetailsKept DEF Inv
    <2>3. uses[u][k] \in Nat
      BY <1>4, HistoryAssumption
    <2>4. CASE u = UserOf[c] /\ k = row.key
      <3>1. uses'[u][k] = uses[u][k] + 1
        BY <1>4, <2>4
      <3>2. Cardinality(Of(history', u, k)) <= Cardinality(Of(history, u, k)) + 1
        BY <1>7, <2>4
      <3>3. QED
        BY <2>1, <2>2, <2>3, <3>1, <3>2
    <2>5. CASE ~(u = UserOf[c] /\ k = row.key)
      <3>1. uses'[u][k] = uses[u][k]
        BY <1>4, <2>5
      <3>2. Cardinality(Of(history', u, k)) <= Cardinality(Of(history, u, k))
        BY <1>7, <2>5
      <3>3. QED
        BY <2>1, <2>2, <2>3, <3>1, <3>2
    <2>6. QED
      BY <2>4, <2>5
  <1>9. CountsCoverDetails'
    BY <1>8 DEF CountsCoverDetails, Of
  <1>10. ASSUME NEW d \in Calls, history'[d].id # Null
         PROVE  commands'[history'[d].id].key = history'[d].key
    <2>1. CASE d = c
      BY <1>1, <1>2, <2>1 DEF row, Record, Inv, TypeOK
    <2>2. CASE d # c
      <3>1. history'[d] = history[d]
        BY <1>1, <2>2 DEF Inv, TypeOK
      <3>2. QED
        BY <1>10, <3>1 DEF Record, Inv, DetailNamesItsCommand
    <2>3. QED
      BY <2>1, <2>2
  <1>11. DetailNamesItsCommand'
    BY <1>10 DEF DetailNamesItsCommand
  <1>12. QED
    BY <1>6, <1>7, <1>9, <1>11 DEF Inv

-----------------------------------------------------------------------------
(* Retention and clearing *)

(* Details that age or go keep the row they name. *)
LEMMA RowsKept ==
  ASSUME Inv, commands' = commands,
         \A c \in Calls : history'[c] = NoDetail
                          \/ (history'[c].id = history[c].id /\ history'[c].key = history[c].key)
  PROVE  DetailNamesItsCommand'
  BY DEF NoDetail, Null, Inv, DetailNamesItsCommand

LEMMA TickKeeps ==
  ASSUME Inv, Tick
  PROVE  Keeps
  <1>1. ASSUME NEW c \in Calls
        PROVE  /\ history'[c] \in Detail \cup {NoDetail}
               /\ history'[c].id = history[c].id
               /\ history'[c].key = history[c].key /\ history'[c].text = history[c].text
    <2>1. CASE history[c] = NoDetail \/ history[c].age > Retention
      BY <2>1 DEF Tick, Inv, TypeOK
    <2>2. CASE ~(history[c] = NoDetail \/ history[c].age > Retention)
      <3>1. history[c] \in Detail /\ ~(history[c].age > Retention)
        BY <2>2 DEF Inv, TypeOK
      <3>2. history[c].age + 1 \in 0..(Retention + 1)
        BY <3>1, HistoryAssumption DEF Detail
      <3>3. history'[c] = [history[c] EXCEPT !.age = @ + 1]
        BY <2>2 DEF Tick
      <3>4. QED
        BY <3>1, <3>2, <3>3 DEF Detail
    <2>3. QED
      BY <2>1, <2>2
  <1>2. history' \in Details /\ Remains(history', history)
    BY <1>1 DEF Tick, Details, Remains
  <1>3. DetailNamesItsCommand'
    BY <1>1, RowsKept DEF Tick
  <1>4. TypeOK'
    BY <1>2 DEF Tick, Inv, TypeOK, Details
  <1>5. QED
    BY <1>2, <1>3, <1>4, CountsRemain DEF Tick, Inv, Keeps

LEMMA WithoutKeeps ==
  ASSUME Inv, NEW gone, history' = Without(gone), commands' = commands
  PROVE  history' \in Details /\ Remains(history', history) /\ DetailNamesItsCommand'
  <1>1. \A c \in Calls : history'[c] = NoDetail \/ history'[c] = history[c]
    BY DEF Without
  <1>2. history' \in Details
    BY DEF Without, Inv, TypeOK, Details
  <1>3. QED
    BY <1>1, <1>2, RowsKept DEF Remains

LEMMA CleanupKeeps ==
  ASSUME Inv, Cleanup
  PROVE  Keeps
  <1>1. history' \in Details /\ Remains(history', history) /\ DetailNamesItsCommand'
    BY WithoutKeeps DEF Cleanup
  <1>2. TypeOK'
    BY <1>1 DEF Cleanup, Inv, TypeOK, Details
  <1>3. QED
    BY <1>1, <1>2, CountsRemain DEF Cleanup, Inv, Keeps

(* Clearing takes all counts of a user, and all details of that user.      *)
LEMMA ClearKeeps ==
  ASSUME Inv, NEW u \in Users, Clear(u)
  PROVE  Keeps
  <1>1. history' \in Details /\ Remains(history', history) /\ DetailNamesItsCommand'
    BY WithoutKeeps DEF Clear, ClearHistory
  <1>2. uses' \in [Users -> [Keys -> 0..MaxUses]]
    BY HistoryAssumption DEF Clear, ClearHistory, Inv, TypeOK
  <1>3. TypeOK'
    BY <1>1, <1>2 DEF Clear, ClearHistory, Inv, TypeOK, Details
  <1>4. history \in Details /\ IsFiniteSet(Kept(history))
    BY DEF Inv, TypeOK, Details
  <1>5. /\ IsFiniteSet(Kept(history'))
        /\ \A w \in Users, k \in Keys :
             Cardinality(Of(history', w, k)) <= Cardinality(Of(history, w, k))
    BY <1>1, <1>4, Fewer DEF Remains
  <1>6. ASSUME NEW w \in Users, NEW k \in Keys
        PROVE  uses'[w][k] >= Cardinality(Of(history', w, k))
    <2>1. CASE w = u
      <3>1. Of(history', w, k) = {}
        BY <2>1, HistoryAssumption DEF Clear, ClearHistory, Without, Of, NoDetail
      <3>2. uses'[w][k] = 0
        BY <2>1 DEF Clear, ClearHistory, Inv, TypeOK
      <3>3. QED
        BY <3>1, <3>2, FS_EmptySet
    <2>2. CASE w # u
      <3>1. uses'[w][k] = uses[w][k] /\ uses[w][k] \in Nat
        BY <2>2, HistoryAssumption DEF Clear, ClearHistory, Inv, TypeOK
      <3>2. uses[w][k] >= Cardinality(Of(history, w, k))
        BY DEF Inv, CountsCoverDetails, Of
      <3>3. /\ Cardinality(Of(history, w, k)) \in Nat
            /\ Cardinality(Of(history', w, k)) \in Nat
        BY <1>1, <1>4, <1>5, DetailsKept
      <3>4. Cardinality(Of(history', w, k)) <= Cardinality(Of(history, w, k))
        BY <1>5
      <3>5. QED
        BY <3>1, <3>2, <3>3, <3>4
    <2>3. QED
      BY <2>1, <2>2
  <1>7. CountsCoverDetails'
    BY <1>6 DEF CountsCoverDetails, Of
  <1>8. QED
    BY <1>1, <1>3, <1>5, <1>7 DEF Inv, Keeps

-----------------------------------------------------------------------------
(* The theorems *)

LEMMA InitInv == Init => Inv
  <1>. SUFFICES ASSUME Init PROVE Inv
    OBVIOUS
  <1>1. TypeOK
    BY HistoryAssumption DEF Init, TypeOK
  <1>2. Kept(history) = {} /\ \A u \in Users, k \in Keys : Of(history, u, k) = {}
    BY HistoryAssumption DEF Init, Kept, Of, NoDetail
  <1>3. IsFiniteSet(Kept(history))
    BY <1>2, FS_EmptySet
  <1>4. CountsCoverDetails
    <2>1. \A u \in Users, k \in Keys : uses[u][k] >= Cardinality(Of(history, u, k))
      BY <1>2, FS_EmptySet DEF Init
    <2>2. QED
      BY <2>1 DEF CountsCoverDetails, Of
  <1>5. DetailNamesItsCommand
    BY DEF Init, DetailNamesItsCommand, NoDetail, Null
  <1>6. QED
    BY <1>1, <1>3, <1>4, <1>5 DEF Inv

LEMMA NextKeeps ==
  ASSUME Inv, [Next]_historyVars
  PROVE  Keeps \/ (Inv' /\ \E c \in Calls : Record(c))
  <1>1. CASE CatalogStep
    BY <1>1, AddCommandKeeps, RemoveCommandsKeeps, RewriteCommandKeeps, SetPolicyKeeps
       DEF CatalogStep
  <1>2. ASSUME NEW c \in Calls, LookUp(c) \/ Record(c) \/ Drop(c)
        PROVE  Keeps \/ (Inv' /\ \E d \in Calls : Record(d))
    BY <1>2, LookUpKeeps, RecordKeeps, DropKeeps
  <1>3. CASE Tick \/ Cleanup \/ \E u \in Users : Clear(u)
    BY <1>3, TickKeeps, CleanupKeeps, ClearKeeps
  <1>4. CASE UNCHANGED historyVars
    BY <1>4 DEF historyVars, Inv, TypeOK, CountsCoverDetails, DetailNamesItsCommand, Keeps, Remains
  <1>5. QED
    BY <1>1, <1>2, <1>3, <1>4 DEF Next

LEMMA AlwaysInv == Spec => []Inv
  <1>1. Inv /\ [Next]_historyVars => Inv'
    BY NextKeeps DEF Keeps
  <1>2. QED
    BY <1>1, InitInv, PTL DEF Spec

(* A full text is only ever stored under a row that is there, and was      *)
(* checked by the schema to be normal when it asks for texts.              *)
LEMMA TextsNeedRows ==
  ASSUME Inv, [Next]_historyVars, NEW c \in Calls, history'[c].text, ~history[c].text
  PROVE  \E i \in Present : /\ commands[i].key = history'[c].key
                            /\ commands[i].mode = "full" /\ commands[i].normal
  <1>1. ~Keeps
    BY DEF Keeps, Remains, NoDetail
  <1>2. PICK d \in Calls : Record(d)
    BY <1>1, NextKeeps
  <1>. DEFINE row == commands[calls[d].id]
              detail == [id |-> calls[d].id, key |-> row.key, text |-> row.mode = "full", age |-> 0]
  <1>3. calls[d].id \in Present /\ row \in Command /\ history' = [history EXCEPT ![d] = detail]
    BY <1>2, Recorded
  <1>4. c = d
    BY <1>3 DEF Inv, TypeOK
  <1>5. history'[c] = detail
    BY <1>3, <1>4 DEF Inv, TypeOK
  <1>6. history'[c].key = row.key /\ row.mode = "full"
    <2>1. detail.key = row.key /\ (detail.text <=> row.mode = "full")
      OBVIOUS
    <2>2. QED
      BY <1>5, <2>1
  <1>7. row.normal
    BY <1>3, <1>6 DEF Command
  <1>8. QED
    BY <1>3, <1>6, <1>7

(* The tables keep their types. *)
THEOREM TypeCorrect == Spec => []TypeOK
  <1>1. Inv => TypeOK
    BY DEF Inv
  <1>2. QED
    BY <1>1, AlwaysInv, PTL

(* Whatever fails, is cleared or expires, the counts cover the details.    *)
THEOREM CountsCover == Spec => []CountsCoverDetails
  <1>1. Inv => CountsCoverDetails
    BY DEF Inv
  <1>2. QED
    BY <1>1, AlwaysInv, PTL

(* A detail never names a row of another command, although ids come again. *)
THEOREM DetailsNamed == Spec => []DetailNamesItsCommand
  <1>1. Inv => DetailNamesItsCommand
    BY DEF Inv
  <1>2. QED
    BY <1>1, AlwaysInv, PTL

(* Full texts are stored only under an entry that asks for them at that    *)
(* moment.                                                                 *)
THEOREM TextsConsented == Spec => TextNeedsConsentNow
  <1>1. Inv /\ [Next]_historyVars =>
          [\A c \in Calls : history'[c].text /\ ~history[c].text =>
             \E i \in Present : /\ commands[i].key = history'[c].key
                                /\ commands[i].mode = "full" /\ commands[i].normal]_historyVars
    BY TextsNeedRows
  <1>2. QED
    BY <1>1, AlwaysInv, PTL DEF Spec, TextNeedsConsentNow
=============================================================================
