---------------------- MODULE ExecutionReceipts_proofs ----------------------
(* Proofs about the receipt table, for any calls, any assignment of keys to *)
(* calls, any configured windows and any behaviour of the wall clock; and   *)
(* about the abstract grants that the table implements.                     *)
EXTENDS ExecutionReceipts, TLAPS

-----------------------------------------------------------------------------
(* Which rows count against their key. *)

LEMMA PlaceholderCounts ==
  /\ Counts(Reserved)
  /\ ~Counts(Absent)
  /\ ~Counts(Released)
  BY DEF Counts, Reserved, Absent, Released, Status

LEMMA PlaceholdersDiffer ==
  /\ Reserved # Absent
  /\ Reserved # Released
  /\ Absent # Released
  /\ \A row \in StateInvariants : row \notin {Absent, Reserved, Released}
  BY DEF StateInvariants, Failed, Reserved, Absent, Released, Status

LEMMA FailedIsPersistable ==
  ASSUME NEW dispatched \in BOOLEAN
  PROVE  Failed(dispatched) \in StateInvariants
  BY DEF StateInvariants

(* fail_or_release is one of three outcomes, each of them an operation. *)
LEMMA FailOrReleaseCases ==
  ASSUME NEW c \in Calls, NEW dispatched \in BOOLEAN,
         FailOrRelease(c, dispatched)
  PROVE  \/ \E row \in StateInvariants : SaveResult(c, row)
         \/ ReleaseReserved(c)
         \/ UNCHANGED vars
  BY FailedIsPersistable DEF FailOrRelease

(* So a step of the table is one of these. *)
LEMMA StepCases ==
  ASSUME [Next]_vars
  PROVE  \/ \E c \in Calls : Reserve(c)
         \/ \E c \in Calls, row \in StateInvariants : SaveResult(c, row)
         \/ \E c \in Calls : ReleaseReserved(c)
         \/ AdvanceClock \/ SetClockBack \/ Reconfigure
         \/ UNCHANGED vars
  BY FailOrReleaseCases DEF Next

-----------------------------------------------------------------------------

(* Every row is absent, reserved, released, or in one of the combinations   *)
(* of state and flags that save_result accepts.                             *)
THEOREM TypeCorrect == Spec => []TypeOK
<1> USE ReceiptAssumption
<1>1. Init => TypeOK
  BY DEF Init, TypeOK
<1>2. TypeOK /\ [Next]_vars => TypeOK'
  <2> SUFFICES ASSUME TypeOK, [Next]_vars
               PROVE  TypeOK'
    OBVIOUS
  <2> USE DEF TypeOK
  <2>1. ASSUME NEW c \in Calls, Reserve(c) PROVE TypeOK'
    BY <2>1 DEF Reserve
  <2>2. ASSUME NEW c \in Calls, NEW row \in StateInvariants, SaveResult(c, row)
        PROVE  TypeOK'
    BY <2>2 DEF SaveResult
  <2>3. ASSUME NEW c \in Calls, ReleaseReserved(c) PROVE TypeOK'
    BY <2>3 DEF ReleaseReserved
  <2>4. CASE AdvanceClock
    BY <2>4 DEF AdvanceClock
  <2>5. CASE SetClockBack
    BY <2>5 DEF SetClockBack
  <2>6. CASE Reconfigure
    BY <2>6 DEF Reconfigure
  <2>7. CASE UNCHANGED vars
    BY <2>7 DEF vars
  <2>8. QED
    BY <2>1, <2>2, <2>3, <2>4, <2>5, <2>6, <2>7, StepCases
<1>3. QED
  BY <1>1, <1>2, PTL DEF Spec

-----------------------------------------------------------------------------

(* Counting rows of one key are at least the least window apart. The        *)
(* invariant is inductive: only Reserve adds a counting row, and it compares*)
(* now with each of them; every other operation keeps or drops them.        *)
THEOREM Spacing == Spec => []GrantsSpaced
<1> USE ReceiptAssumption
<1>1. Init => GrantsSpaced
  BY PlaceholderCounts DEF Init, GrantsSpaced
<1>2. TypeOK /\ GrantsSpaced /\ [Next]_vars => GrantsSpaced'
  <2> SUFFICES ASSUME TypeOK, GrantsSpaced, [Next]_vars
               PROVE  GrantsSpaced'
    OBVIOUS
  <2>1. ASSUME NEW r \in Calls, Reserve(r) PROVE GrantsSpaced'
    <3>1. \A d \in Calls : receipts'[d] = IF d = r THEN Reserved ELSE receipts[d]
      BY <2>1 DEF Reserve, TypeOK
    <3>2. \A d \in Calls : created_at'[d] = IF d = r THEN now ELSE created_at[d]
      BY <2>1 DEF Reserve, TypeOK
    <3>3. \A d \in Calls : Counts(receipts[d]) /\ KeyOf[d] = KeyOf[r]
                             => created_at[d] + LeastWindow <= now
      BY <2>1 DEF Reserve, Suppressors, TypeOK
    <3>4. QED
      BY <3>1, <3>2, <3>3 DEF GrantsSpaced, Apart
  <2>2. ASSUME NEW c \in Calls, NEW row \in StateInvariants, SaveResult(c, row)
        PROVE  GrantsSpaced'
    <3>1. \A d \in Calls : Counts(receipts'[d]) => Counts(receipts[d])
      BY <2>2, PlaceholderCounts DEF SaveResult, TypeOK
    <3>2. QED
      BY <2>2, <3>1 DEF SaveResult, GrantsSpaced, Apart
  <2>3. ASSUME NEW c \in Calls, ReleaseReserved(c) PROVE GrantsSpaced'
    <3>1. \A d \in Calls : Counts(receipts'[d]) => Counts(receipts[d])
      BY <2>3, PlaceholderCounts DEF ReleaseReserved, TypeOK
    <3>2. QED
      BY <2>3, <3>1 DEF ReleaseReserved, GrantsSpaced, Apart
  <2>4. ASSUME UNCHANGED <<receipts, created_at>> PROVE GrantsSpaced'
    BY <2>4 DEF GrantsSpaced, Apart
  <2>5. QED
    BY <2>1, <2>2, <2>3, <2>4, StepCases
       DEF AdvanceClock, SetClockBack, Reconfigure, vars
<1>3. QED
  BY <1>1, <1>2, TypeCorrect, PTL DEF Spec

-----------------------------------------------------------------------------

(* A finalised or deleted receipt never changes again: save_result demands  *)
(* a reserved row, release_reserved touches only reserved rows.             *)
THEOREM Settled == Spec => SettledForever
<1> DEFINE Stays == \A c \in Calls : receipts[c] \notin {Absent, Reserved}
                                       => receipts'[c] = receipts[c]
<1>1. TypeOK /\ [Next]_vars => [Stays]_vars
  <2> SUFFICES ASSUME TypeOK, [Next]_vars
               PROVE  Stays
    OBVIOUS
  <2> USE DEF TypeOK
  <2>1. ASSUME NEW c \in Calls, Reserve(c) PROVE Stays
    BY <2>1 DEF Reserve
  <2>2. ASSUME NEW c \in Calls, NEW row \in StateInvariants, SaveResult(c, row)
        PROVE  Stays
    BY <2>2 DEF SaveResult
  <2>3. ASSUME NEW c \in Calls, ReleaseReserved(c) PROVE Stays
    BY <2>3 DEF ReleaseReserved
  <2>4. ASSUME UNCHANGED receipts PROVE Stays
    BY <2>4
  <2>5. QED
    BY <2>1, <2>2, <2>3, <2>4, StepCases
       DEF AdvanceClock, SetClockBack, Reconfigure, vars
<1>2. QED
  BY <1>1, TypeCorrect, PTL DEF Spec, SettledForever

-----------------------------------------------------------------------------
(* The refinement. Grants!... is the abstract specification over the rows   *)
(* that count.                                                              *)

LEMMA InitialGrants == Init => Grants!Init
  BY PlaceholderCounts, PlaceholdersDiffer DEF Init, Grants!Init

(* reserve() compares now with every counting row of the key, and the       *)
(* window in force is never below the least one.                            *)
LEMMA ReserveGrants ==
  ASSUME TypeOK, NEW c \in Calls, Reserve(c)
  PROVE  Grants!Grant(c)
<1> USE ReceiptAssumption
<1>1. receipts[c] = Absent /\ ~Counts(receipts[c])
  BY PlaceholderCounts DEF Reserve
<1>2. \A d \in Calls : Counts(receipts[d]) /\ KeyOf[c] = KeyOf[d]
                         => created_at[d] + LeastWindow <= now
  BY DEF Reserve, Suppressors, TypeOK
<1>3. \A d \in Calls : receipts'[d] = IF d = c THEN Reserved ELSE receipts[d]
  BY DEF Reserve, TypeOK
<1>4. { d \in Calls : Counts(receipts[d]) }'
        = { d \in Calls : Counts(receipts[d]) } \cup {c}
  BY <1>3, PlaceholderCounts
<1>5. { d \in Calls : receipts[d] = Reserved }'
        = { d \in Calls : receipts[d] = Reserved } \cup {c}
  BY <1>3
<1>6. QED
  BY <1>1, <1>2, <1>4, <1>5 DEF Reserve, Grants!Grant, Grants!SameKey

(* Saving a state that counts settles the grant; saving a rejection or a    *)
(* failure before dispatch gives it back.                                   *)
LEMMA SaveSettles ==
  ASSUME TypeOK, NEW c \in Calls, NEW row \in StateInvariants, SaveResult(c, row)
  PROVE  IF Counts(row) THEN Grants!Settle(c) ELSE Grants!Withdraw(c)
<1>1. receipts[c] = Reserved
  BY DEF SaveResult
<1>2. \A d \in Calls : receipts'[d] = IF d = c THEN row ELSE receipts[d]
  BY DEF SaveResult, TypeOK
<1>3. { d \in Calls : receipts[d] = Reserved }'
        = { d \in Calls : receipts[d] = Reserved } \ {c}
  BY <1>1, <1>2, PlaceholdersDiffer
<1>4. CASE Counts(row)
  <2>1. { d \in Calls : Counts(receipts[d]) }' = { d \in Calls : Counts(receipts[d]) }
    BY <1>1, <1>2, <1>4, PlaceholderCounts
  <2>2. QED
    BY <1>1, <1>3, <1>4, <2>1 DEF SaveResult, Grants!Settle
<1>5. CASE ~Counts(row)
  <2>1. { d \in Calls : Counts(receipts[d]) }'
          = { d \in Calls : Counts(receipts[d]) } \ {c}
    BY <1>2, <1>5
  <2>2. QED
    BY <1>1, <1>3, <1>5, <2>1 DEF SaveResult, Grants!Withdraw
<1>6. QED
  BY <1>4, <1>5

LEMMA ReleaseWithdraws ==
  ASSUME TypeOK, NEW c \in Calls, ReleaseReserved(c)
  PROVE  Grants!Withdraw(c) \/ UNCHANGED vars
<1>1. CASE receipts[c] = Reserved
  <2>1. \A d \in Calls : receipts'[d] = IF d = c THEN Released ELSE receipts[d]
    BY <1>1 DEF ReleaseReserved, TypeOK
  <2>2. { d \in Calls : receipts[d] = Reserved }'
          = { d \in Calls : receipts[d] = Reserved } \ {c}
    BY <2>1, PlaceholdersDiffer
  <2>3. { d \in Calls : Counts(receipts[d]) }'
          = { d \in Calls : Counts(receipts[d]) } \ {c}
    BY <2>1, PlaceholderCounts
  <2>4. QED
    BY <1>1, <2>2, <2>3 DEF ReleaseReserved, Grants!Withdraw
<1>2. CASE receipts[c] # Reserved
  <2>1. receipts' = receipts
    BY <1>2 DEF ReleaseReserved, TypeOK
  <2>2. QED
    BY <2>1 DEF ReleaseReserved, vars
<1>3. QED
  BY <1>1, <1>2

LEMMA StepImplements == TypeOK /\ TypeOK' /\ [Next]_vars => [Grants!Next]_(Grants!vars)
<1> SUFFICES ASSUME TypeOK, TypeOK', [Next]_vars
             PROVE  [Grants!Next]_(Grants!vars)
  OBVIOUS
<1>1. ASSUME NEW c \in Calls, Reserve(c) PROVE Grants!Next
  BY <1>1, ReserveGrants DEF Grants!Next
<1>2. ASSUME NEW c \in Calls, NEW row \in StateInvariants, SaveResult(c, row)
      PROVE  Grants!Next
  BY <1>2, SaveSettles DEF Grants!Next
<1>3. ASSUME NEW c \in Calls, ReleaseReserved(c)
      PROVE  Grants!Next \/ UNCHANGED vars
  BY <1>3, ReleaseWithdraws DEF Grants!Next
<1>4. CASE AdvanceClock \/ SetClockBack
  BY <1>4 DEF AdvanceClock, SetClockBack, Grants!Next, Grants!SetClock, TypeOK
<1>5. CASE Reconfigure
  BY <1>5 DEF Reconfigure, Grants!vars
<1>6. ASSUME UNCHANGED vars PROVE UNCHANGED Grants!vars
  BY <1>6 DEF vars, Grants!vars
<1>7. QED
  BY <1>1, <1>2, <1>3, <1>4, <1>5, <1>6, StepCases

(* Every behaviour of the receipt table is one the abstract grants allow.   *)
THEOREM Implementation == Spec => ImplementsGrants
<1>1. QED
  BY InitialGrants, StepImplements, TypeCorrect, PTL
     DEF Spec, ImplementsGrants, Grants!Spec

-----------------------------------------------------------------------------
(* The promise itself, of any grants whatever implements them.             *)

VARIABLES grants, open, since

Promise == INSTANCE DispatchGrants WITH Window <- LeastWindow

LEMMA PromiseAssumption == Promise!GrantAssumption
  BY ReceiptAssumption DEF Promise!GrantAssumption

(* The variables keep their types. *)
THEOREM GrantsTyped == Promise!Spec => []Promise!TypeOK
<1> USE PromiseAssumption DEF Promise!GrantAssumption
<1>1. Promise!Init => Promise!TypeOK
  BY DEF Promise!Init, Promise!TypeOK
<1>2. Promise!TypeOK /\ [Promise!Next]_(Promise!vars) => Promise!TypeOK'
  <2> SUFFICES ASSUME Promise!TypeOK, [Promise!Next]_(Promise!vars)
               PROVE  Promise!TypeOK'
    OBVIOUS
  <2> USE DEF Promise!TypeOK
  <2>1. ASSUME NEW c \in Calls, Promise!Grant(c) PROVE Promise!TypeOK'
    BY <2>1 DEF Promise!Grant
  <2>2. ASSUME NEW c \in Calls, Promise!Settle(c) PROVE Promise!TypeOK'
    BY <2>2 DEF Promise!Settle
  <2>3. ASSUME NEW c \in Calls, Promise!Withdraw(c) PROVE Promise!TypeOK'
    BY <2>3 DEF Promise!Withdraw
  <2>4. CASE Promise!SetClock
    BY <2>4 DEF Promise!SetClock
  <2>5. CASE UNCHANGED Promise!vars
    BY <2>5 DEF Promise!vars
  <2>6. QED
    BY <2>1, <2>2, <2>3, <2>4, <2>5 DEF Promise!Next
<1>3. QED
  BY <1>1, <1>2, PTL DEF Promise!Spec

(* Grants of one key that count stay a Window apart: only Grant adds to     *)
(* grants, and it compares the new time with every grant that counts.       *)
THEOREM GrantsApart == Promise!Spec => []Promise!GrantsSpaced
<1> USE PromiseAssumption DEF Promise!GrantAssumption
<1>1. Promise!Init => Promise!GrantsSpaced
  BY DEF Promise!Init, Promise!GrantsSpaced
<1>2. /\ Promise!TypeOK /\ Promise!TypeOK' /\ Promise!GrantsSpaced
      /\ [Promise!Next]_(Promise!vars)
      => Promise!GrantsSpaced'
  <2> SUFFICES ASSUME Promise!TypeOK, Promise!TypeOK', Promise!GrantsSpaced,
                      [Promise!Next]_(Promise!vars)
               PROVE  Promise!GrantsSpaced'
    OBVIOUS
  <2>1. ASSUME NEW g \in Calls, Promise!Grant(g) PROVE Promise!GrantsSpaced'
    <3> SUFFICES ASSUME NEW c \in grants', NEW d \in grants',
                        c # d, Promise!SameKey(c, d)
                 PROVE  Promise!Apart(c, d)'
      BY DEF Promise!GrantsSpaced, Promise!SameKey
    <3>1. CASE c # g /\ d # g
      BY <2>1, <3>1 DEF Promise!Grant, Promise!GrantsSpaced, Promise!Apart, Promise!TypeOK
    <3>2. CASE c = g /\ d # g
      BY <2>1, <3>2 DEF Promise!Grant, Promise!Apart, Promise!SameKey, Promise!TypeOK
    <3>3. CASE c # g /\ d = g
      BY <2>1, <3>3 DEF Promise!Grant, Promise!Apart, Promise!SameKey, Promise!TypeOK
    <3>4. QED
      BY <3>1, <3>2, <3>3
  <2>2. ASSUME NEW c \in Calls, Promise!Settle(c) PROVE Promise!GrantsSpaced'
    BY <2>2 DEF Promise!Settle, Promise!GrantsSpaced, Promise!Apart, Promise!SameKey
  <2>3. ASSUME NEW c \in Calls, Promise!Withdraw(c) PROVE Promise!GrantsSpaced'
    BY <2>3 DEF Promise!Withdraw, Promise!GrantsSpaced, Promise!Apart, Promise!SameKey
  <2>4. CASE Promise!SetClock
    BY <2>4 DEF Promise!SetClock, Promise!GrantsSpaced, Promise!Apart, Promise!SameKey
  <2>5. CASE UNCHANGED Promise!vars
    BY <2>5 DEF Promise!vars, Promise!GrantsSpaced, Promise!Apart, Promise!SameKey
  <2>6. QED
    BY <2>1, <2>2, <2>3, <2>4, <2>5 DEF Promise!Next
<1>3. QED
  BY <1>1, <1>2, GrantsTyped, PTL DEF Promise!Spec
=============================================================================
