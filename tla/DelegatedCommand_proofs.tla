----------------------- MODULE DelegatedCommand_proofs -----------------------
(* Proofs about whole calls, for any calls, users, keys, catalog entries,   *)
(* privacy modes, windows and clock readings.                               *)
EXTENDS DelegatedCommand, TLAPS

-----------------------------------------------------------------------------
(* Rows of the receipt table. *)

LEMMA PlaceholderCounts ==
  /\ Receipts!Counts(Receipts!Reserved)
  /\ ~Receipts!Counts(Receipts!Absent)
  /\ ~Receipts!Counts(Receipts!Released)
  /\ Receipts!Reserved # Receipts!Absent
  BY DEF Receipts!Counts, Receipts!Reserved, Receipts!Absent,
         Receipts!Released, Receipts!Status

(* A row saved for a dispatched outcome counts against its key. *)
LEMMA DispatchedRowCounts ==
  ASSUME NEW o \in Executor!Dispatched
  PROVE  Receipts!Counts(RowOf(o))
<1>1. PICK s \in {"completed", "accepted", "external_dispatched", "failed"} :
        o = [state |-> s, dispatched |-> TRUE]
  BY DEF Executor!Dispatched, Executor!Outcome
<1>2. /\ RowOf(o).state = s
      /\ RowOf(o).dispatched
      /\ ~RowOf(o).retryable
  BY <1>1 DEF RowOf, Receipts!Status
<1>3. QED
  BY <1>2 DEF Receipts!Counts

LEMMA OutcomeFlags ==
  /\ \A o \in Executor!Dispatched : o.dispatched = TRUE
  /\ \A o \in Executor!Undispatched : o.dispatched = FALSE
  BY DEF Executor!Dispatched, Executor!Undispatched, Executor!Outcome

LEMMA DispatchedFailureCounts == Receipts!Counts(Receipts!Failed(TRUE))
  BY DEF Receipts!Counts, Receipts!Failed, Receipts!Status

(* fail_or_release leaves the row of a dispatched call counting. *)
LEMMA FailOrReleaseEffect ==
  ASSUME Receipts!TypeOK, NEW c \in Calls, NEW dispatched \in BOOLEAN,
         Receipts!FailOrRelease(c, dispatched)
  PROVE  /\ UNCHANGED <<now, window, created_at>>
         /\ \A d \in Calls : d # c => receipts'[d] = receipts[d]
         /\ \A d \in Calls : Receipts!Counts(receipts'[d])
                               => Receipts!Counts(receipts[d])
         /\ dispatched /\ Receipts!Counts(receipts[c])
              => Receipts!Counts(receipts'[c])
         /\ Receipts!TypeOK'
<1> USE DEF Receipts!TypeOK
<1>1. CASE Receipts!SaveResult(c, Receipts!Failed(dispatched))
  BY <1>1, DispatchedFailureCounts, PlaceholderCounts DEF Receipts!SaveResult
<1>2. CASE ~dispatched /\ Receipts!ReleaseReserved(c)
  BY <1>2, PlaceholderCounts DEF Receipts!ReleaseReserved
<1>3. CASE UNCHANGED Receipts!vars
  BY <1>3 DEF Receipts!vars
<1>4. QED
  BY <1>1, <1>2, <1>3 DEF Receipts!FailOrRelease

LEMMA SaveResultEffect ==
  ASSUME Receipts!TypeOK, NEW c \in Calls, NEW row, Receipts!SaveResult(c, row)
  PROVE  /\ UNCHANGED <<now, window, created_at>>
         /\ \A d \in Calls : receipts'[d] = IF d = c THEN row ELSE receipts[d]
         /\ \A d \in Calls : Receipts!Counts(receipts'[d])
                               => Receipts!Counts(receipts[d])
         /\ Receipts!TypeOK'
  BY PlaceholderCounts DEF Receipts!SaveResult, Receipts!TypeOK

(* Rows that count and have one key stay apart whatever the table does.     *)
LEMMA ReserveKeepsSpacing ==
  ASSUME Receipts!TypeOK, Receipts!GrantsSpaced, NEW r \in Calls,
         Receipts!Reserve(r)
  PROVE  Receipts!GrantsSpaced' /\ Receipts!TypeOK'
<1> USE DelegationAssumption
<1>1. \A d \in Calls :
        receipts'[d] = IF d = r THEN Receipts!Reserved ELSE receipts[d]
  BY DEF Receipts!Reserve, Receipts!TypeOK
<1>2. \A d \in Calls :
        created_at'[d] = IF d = r THEN now ELSE created_at[d]
  BY DEF Receipts!Reserve, Receipts!TypeOK
<1>3. \A d \in Calls : Receipts!Counts(receipts[d]) /\ KeyOf[d] = KeyOf[r]
                          => created_at[d] + LeastWindow <= now
  BY DEF Receipts!Reserve, Receipts!Suppressors, Receipts!TypeOK
<1>4. Receipts!GrantsSpaced'
  BY <1>1, <1>2, <1>3 DEF Receipts!GrantsSpaced, Receipts!Apart
<1>5. Receipts!TypeOK'
  BY DEF Receipts!Reserve, Receipts!TypeOK
<1>6. QED
  BY <1>4, <1>5

LEMMA DroppingKeepsSpacing ==
  ASSUME Receipts!GrantsSpaced, UNCHANGED created_at,
         \A d \in Calls : Receipts!Counts(receipts'[d])
                             => Receipts!Counts(receipts[d])
  PROVE  Receipts!GrantsSpaced'
  BY DEF Receipts!GrantsSpaced, Receipts!Apart

-----------------------------------------------------------------------------
(* What a single call looks like at each of its awaits, what its row then  *)
(* is, and what the executor knows of it.                                  *)
Consistent(c) ==
  /\ pc[c] \in {"idle", "resolving"}
       => receipts[c] = Receipts!Absent /\ stage[c] = "idle"
  /\ pc[c] = "preparing" => receipts[c] = Receipts!Reserved /\ stage[c] = "idle"
  /\ pc[c] = "executing" =>
       receipts[c] = Receipts!Reserved /\ stage[c] \in {"checking", "dispatched", "returned"}
  /\ stage[c] \in {"idle", "checking"} => c \notin scheduled
  /\ stage[c] = "dispatched" => c \in scheduled
  /\ stage[c] = "returned" =>
       \/ c \in scheduled /\ outcome[c] \in Executor!Dispatched
       \/ c \notin scheduled /\ outcome[c] \in Executor!Undispatched
  /\ c \in scheduled => Receipts!Counts(receipts[c])

Typed ==
  /\ Receipts!TypeOK
  /\ Executor!DispatchTypeOK
  /\ pc \in [Calls -> {"idle", "resolving", "preparing", "executing",
                       "replied", "raised", "cancelled", "lost"}]

(* The inductive invariant. *)
Inv ==
  /\ Typed
  /\ Receipts!GrantsSpaced
  /\ \A c \in Calls : Consistent(c)

(* Another call is not disturbed by a step that leaves its state alone. *)
LEMMA Undisturbed ==
  ASSUME NEW d \in Calls, Consistent(d), pc'[d] = pc[d], receipts'[d] = receipts[d],
         stage'[d] = stage[d], outcome'[d] = outcome[d],
         d \in scheduled' <=> d \in scheduled
  PROVE  Consistent(d)'
  BY DEF Consistent, Receipts!Counts, Receipts!Reserved, Receipts!Absent,
         Receipts!Status, Executor!Dispatched, Executor!Undispatched,
         Executor!Outcome

LEMMA InvInit == Init => Inv
<1> SUFFICES ASSUME Init PROVE Inv
  OBVIOUS
<1> USE DelegationAssumption DEF Init, Receipts!Init, Executor!DispatchInit
<1>1. Typed
  BY DEF Typed, Receipts!TypeOK, Executor!DispatchTypeOK, Executor!Stages
<1>2. Receipts!GrantsSpaced
  BY PlaceholderCounts DEF Receipts!GrantsSpaced
<1>3. \A c \in Calls : Consistent(c)
  BY DEF Consistent
<1>4. QED
  BY <1>1, <1>2, <1>3 DEF Inv

(* A step that touches neither the table nor the executor. *)
LEMMA CallMoves ==
  ASSUME Inv, NEW c \in Calls, UNCHANGED <<receiptVars, executorVars>>,
         \/ pc[c] = "idle" /\ (Goto(c, "resolving") \/ Goto(c, "replied"))
         \/ pc[c] = "resolving" /\ (Goto(c, "replied") \/ Goto(c, "raised") \/ Goto(c, "cancelled"))
         \/ pc[c] = "preparing" /\ Goto(c, "cancelled")
  PROVE  Inv'
<1> USE DEF receiptVars, executorVars
<1>1. Typed'
  BY DEF Inv, Typed, Goto, Receipts!TypeOK, Executor!DispatchTypeOK
<1>2. Receipts!GrantsSpaced'
  BY DroppingKeepsSpacing DEF Inv
<1>3. ASSUME NEW d \in Calls PROVE Consistent(d)'
  <2>1. CASE d # c
    BY <2>1, Undisturbed DEF Inv, Typed, Goto
  <2>2. CASE d = c
    BY <2>2 DEF Inv, Typed, Goto, Consistent
  <2>3. QED
    BY <2>1, <2>2
<1>4. QED
  BY <1>1, <1>2, <1>3 DEF Inv

LEMMA ReserveKeepsInv ==
  ASSUME Inv, NEW c \in Calls, Reserve(c)
  PROVE  Inv'
<1> USE DEF Reserve, receiptVars, executorVars
<1>1. Receipts!GrantsSpaced' /\ Receipts!TypeOK'
  BY ReserveKeepsSpacing DEF Inv, Typed
<1>2. Typed'
  BY <1>1 DEF Inv, Typed, Goto, Executor!DispatchTypeOK
<1>3. \A d \in Calls :
        receipts'[d] = IF d = c THEN Receipts!Reserved ELSE receipts[d]
  BY DEF Inv, Typed, Receipts!TypeOK, Receipts!Reserve
<1>4. ASSUME NEW d \in Calls PROVE Consistent(d)'
  <2>1. CASE d # c
    BY <2>1, <1>3, Undisturbed DEF Inv, Typed, Goto
  <2>2. CASE d = c
    BY <2>2, <1>3 DEF Inv, Typed, Goto, Consistent
  <2>3. QED
    BY <2>1, <2>2
<1>5. QED
  BY <1>1, <1>2, <1>4 DEF Inv

(* The executor alone moves: it is entered, steps, or is cancelled. *)
LEMMA ExecutorMovesKeepInv ==
  ASSUME Inv, NEW c \in Calls, UNCHANGED receiptVars,
         \/ /\ pc[c] = "preparing" /\ Goto(c, "executing")
            /\ Executor!Begin(c)
         \/ /\ pc[c] = "executing" /\ UNCHANGED pc
            /\ Executor!Decline(c) \/ Executor!Dispatch(c) \/ Executor!Conclude(c)
         \/ /\ pc[c] = "executing" /\ Goto(c, "cancelled")
            /\ Executor!CancelTool(c)
  PROVE  Inv'
<1> USE DEF receiptVars, Executor!Begin, Executor!Decline, Executor!Dispatch,
            Executor!Conclude, Executor!CancelTool, Executor!Moves
<1>1. Typed'
  BY DEF Inv, Typed, Goto, Receipts!TypeOK, Executor!DispatchTypeOK, Executor!Stages
<1>2. Receipts!GrantsSpaced'
  BY DroppingKeepsSpacing DEF Inv
<1>3. ASSUME NEW d \in Calls PROVE Consistent(d)'
  <2>1. CASE d # c
    <3>1. /\ pc'[d] = pc[d] /\ receipts'[d] = receipts[d]
          /\ stage'[d] = stage[d] /\ outcome'[d] = outcome[d]
          /\ d \in scheduled' <=> d \in scheduled
      BY <2>1 DEF Inv, Typed, Goto, Executor!DispatchTypeOK
    <3>2. QED
      BY <3>1, Undisturbed DEF Inv
  <2>2. CASE d = c
    BY <2>2, PlaceholderCounts
       DEF Inv, Typed, Goto, Consistent, Executor!DispatchTypeOK
  <2>3. QED
    BY <2>1, <2>2
<1>4. QED
  BY <1>1, <1>2, <1>3 DEF Inv

(* The failure path of a call with the right dispatched flag. *)
LEMMA DispatchFailureKeepsInv ==
  ASSUME Inv, NEW c \in Calls, NEW dispatched \in BOOLEAN,
         pc[c] \in {"preparing", "executing"},
         stage[c] \notin {"checking", "dispatched"},
         c \in scheduled => dispatched,
         DispatchFailure(c, dispatched), UNCHANGED executorVars
  PROVE  Inv'
<1> USE DEF DispatchFailure, Answer, executorVars
<1>1. /\ UNCHANGED <<now, window, created_at>>
      /\ \A d \in Calls : d # c => receipts'[d] = receipts[d]
      /\ \A d \in Calls : Receipts!Counts(receipts'[d])
                            => Receipts!Counts(receipts[d])
      /\ dispatched /\ Receipts!Counts(receipts[c])
           => Receipts!Counts(receipts'[c])
      /\ Receipts!TypeOK'
  BY FailOrReleaseEffect DEF Inv, Typed
<1>2. Typed'
  BY <1>1 DEF Inv, Typed, Goto, Executor!DispatchTypeOK
<1>3. Receipts!GrantsSpaced'
  BY <1>1, DroppingKeepsSpacing DEF Inv
<1>4. ASSUME NEW d \in Calls PROVE Consistent(d)'
  <2>1. CASE d # c
    BY <2>1, <1>1, Undisturbed DEF Inv, Typed, Goto
  <2>2. CASE d = c
    BY <2>2, <1>1 DEF Inv, Typed, Goto, Consistent
  <2>3. QED
    BY <2>1, <2>2
<1>5. QED
  BY <1>2, <1>3, <1>4 DEF Inv

LEMMA FinishKeepsInv ==
  ASSUME Inv, NEW c \in Calls, Finish(c)
  PROVE  Inv'
<1> DEFINE row == RowOf(outcome[c])
           dispatched == outcome[c].dispatched
<1> USE DEF Finish
<1>1. /\ dispatched \in BOOLEAN
      /\ c \in scheduled => dispatched /\ Receipts!Counts(row)
  <2>1. CASE c \in scheduled /\ outcome[c] \in Executor!Dispatched
    <3>1. Receipts!Counts(row)
      BY <2>1, DispatchedRowCounts
    <3>2. dispatched = TRUE
      BY <2>1, OutcomeFlags
    <3>3. QED
      BY <3>1, <3>2
  <2>2. CASE c \notin scheduled /\ outcome[c] \in Executor!Undispatched
    <3>1. dispatched = FALSE
      BY <2>2, OutcomeFlags
    <3>2. QED
      BY <2>2, <3>1
  <2>3. QED
    BY <2>1, <2>2 DEF Inv, Consistent
<1>2. CASE DispatchFailure(c, dispatched)
  BY <1>1, <1>2, DispatchFailureKeepsInv
<1>3. CASE Receipts!SaveResult(c, row) /\ Goto(c, "replied")
  <2>1. /\ UNCHANGED <<now, window, created_at>>
        /\ \A d \in Calls : receipts'[d] = IF d = c THEN row ELSE receipts[d]
        /\ \A d \in Calls : Receipts!Counts(receipts'[d])
                              => Receipts!Counts(receipts[d])
        /\ Receipts!TypeOK'
    BY <1>3, SaveResultEffect DEF Inv, Typed
  <2>2. Typed'
    BY <1>3, <2>1 DEF Inv, Typed, Goto, executorVars, Executor!DispatchTypeOK
  <2>3. Receipts!GrantsSpaced'
    BY <2>1, DroppingKeepsSpacing DEF Inv
  <2>4. ASSUME NEW d \in Calls PROVE Consistent(d)'
    <3>1. CASE d # c
      BY <3>1, <1>3, <2>1, Undisturbed DEF Inv, Typed, Goto, executorVars
    <3>2. CASE d = c
      BY <3>2, <1>1, <1>3, <2>1 DEF Inv, Typed, Goto, Consistent, executorVars
    <3>3. QED
      BY <3>1, <3>2
  <2>5. QED
    BY <2>2, <2>3, <2>4 DEF Inv
<1>4. QED
  BY <1>2, <1>3 DEF Answer

(* Steps of the world move no call, or lose those under way. *)
LEMMA WorldKeepsInv ==
  ASSUME Inv, UNCHANGED <<receipts, created_at, executorVars>>,
         \/ UNCHANGED pc
         \/ pc' = [c \in Calls |-> IF InFlight(c) THEN "lost" ELSE pc[c]],
         Receipts!TypeOK'
  PROVE  Inv'
<1> USE DEF executorVars
<1>1. Typed'
  BY DEF Inv, Typed, Executor!DispatchTypeOK
<1>2. Receipts!GrantsSpaced'
  BY DroppingKeepsSpacing DEF Inv
<1>3. ASSUME NEW d \in Calls PROVE Consistent(d)'
  <2>1. CASE pc'[d] = pc[d]
    BY <2>1, Undisturbed DEF Inv
  <2>2. CASE pc'[d] = "lost"
    BY <2>2 DEF Inv, Consistent
  <2>3. QED
    BY <2>1, <2>2
<1>4. QED
  BY <1>1, <1>2, <1>3 DEF Inv

LEMMA InvNext == Inv /\ [Next]_vars => Inv'
<1> SUFFICES ASSUME Inv, [Next]_vars PROVE Inv'
  OBVIOUS
<1> USE DEF callVars, worldVars
<1>1. ASSUME NEW c \in Calls, Ask(c) PROVE Inv'
  BY <1>1, CallMoves DEF Ask, Answer
<1>2. ASSUME NEW c \in Calls, Unresolved(c) \/ Deny(c) \/ SuppressDuplicate(c)
      PROVE  Inv'
  BY <1>2, CallMoves DEF Unresolved, Deny, SuppressDuplicate, Answer
<1>3. ASSUME NEW c \in Calls, Reserve(c) PROVE Inv'
  BY <1>3, ReserveKeepsInv
<1>4. ASSUME NEW c \in Calls, Raise(c) PROVE Inv'
  BY <1>4, CallMoves DEF Raise
<1>5. ASSUME NEW c \in Calls, EnterExecutor(c) PROVE Inv'
  BY <1>5, ExecutorMovesKeepInv DEF EnterExecutor
<1>6. ASSUME NEW c \in Calls, PrepareFails(c) PROVE Inv'
  <2>1. stage[c] = "idle" /\ c \notin scheduled
    BY <1>6 DEF PrepareFails, Inv, Consistent
  <2>2. QED
    BY <1>6, <2>1, DispatchFailureKeepsInv DEF PrepareFails
<1>7. ASSUME NEW c \in Calls, ExecutorStep(c) PROVE Inv'
  BY <1>7, ExecutorMovesKeepInv DEF ExecutorStep
<1>8. ASSUME NEW c \in Calls, Finish(c) PROVE Inv'
  BY <1>8, FinishKeepsInv
<1>9. ASSUME NEW c \in Calls, CancelCall(c) PROVE Inv'
  <2>1. CASE pc[c] \in {"resolving", "preparing"} /\ UNCHANGED executorVars
    BY <1>9, <2>1, CallMoves DEF CancelCall
  <2>2. CASE pc[c] = "executing" /\ Executor!CancelTool(c)
    BY <1>9, <2>2, ExecutorMovesKeepInv DEF CancelCall
  <2>3. QED
    BY <1>9, <2>1, <2>2 DEF CancelCall
<1>10. ASSUME Crash \/ SetPrivacy \/ ChangeEntry \/ UNCHANGED vars PROVE Inv'
  <2>1. Receipts!TypeOK'
    BY <1>10 DEF Inv, Typed, Receipts!TypeOK, Crash, SetPrivacy, ChangeEntry,
                 vars, receiptVars
  <2>2. QED
    BY <1>10, <2>1, WorldKeepsInv
       DEF Crash, SetPrivacy, ChangeEntry, vars, receiptVars
<1>11. ASSUME TimePasses PROVE Inv'
  <2>1. Receipts!TypeOK' /\ UNCHANGED <<receipts, created_at>>
    BY <1>11 DEF TimePasses, Receipts!AdvanceClock, Receipts!SetClockBack,
                 Receipts!Reconfigure, Inv, Typed, Receipts!TypeOK
  <2>2. QED
    BY <1>11, <2>1, WorldKeepsInv DEF TimePasses
<1>12. QED
  BY <1>1, <1>2, <1>3, <1>4, <1>5, <1>6, <1>7, <1>8, <1>9, <1>10, <1>11
     DEF Next, CallStep

LEMMA Invariance == Spec => []Inv
  BY InvInit, InvNext, PTL DEF Spec

-----------------------------------------------------------------------------

(* The receipt of a dispatched command counts against its key for good,     *)
(* whatever SQLite refuses, whoever cancels, and through every restart.     *)
THEOREM KeyKept == Spec => []DispatchedKeepsKey
<1>1. Inv => DispatchedKeepsKey
  BY DEF Inv, Typed, Consistent, DispatchedKeepsKey, Executor!DispatchTypeOK
<1>2. QED
  BY <1>1, Invariance, PTL

(* No command is dispatched twice inside its dedupe window: the tasks that  *)
(* were ever created under one key have receipts a window apart.            *)
THEOREM Spacing == Spec => []DispatchesSpaced
<1>1. Inv => DispatchesSpaced
  BY DEF Inv, Typed, Consistent, DispatchesSpaced, Receipts!GrantsSpaced,
         Executor!DispatchTypeOK
<1>2. QED
  BY <1>1, Invariance, PTL

-----------------------------------------------------------------------------
(* Answers.  What a call answered is still true later: once it is over,    *)
(* nobody schedules a task for it and nobody writes its row.               *)

Success == {"completed", "accepted", "external_dispatched"}

(* An answer about the own receipt. *)
OwnAnswer(c) ==
  /\ reply[c].receipt = c
  /\ reply[c].status.dispatched <=> c \in scheduled
  /\ reply[c].status.retryable => c \notin scheduled
  /\ reply[c].status.state \in Success => receipts[c] = reply[c].status

(* A refusal, or an answer about the receipt of another call. *)
OtherAnswer(c) ==
  /\ c \notin scheduled
  /\ \/ reply[c] = Refused
     \/ /\ reply[c].status.state = "duplicate_suppressed"
        /\ ~reply[c].status.retryable
        /\ reply[c].receipt \in Calls \ {c}

Answered(c) ==
  IF pc[c] = "replied" THEN OwnAnswer(c) \/ OtherAnswer(c) ELSE reply[c] = NoReply

Answers == TypeOK /\ \A c \in Calls : Answered(c)

LEMMA AnswersInit == Init => Answers
<1> SUFFICES ASSUME Init PROVE Answers
  OBVIOUS
<1>1. Typed
  BY InvInit DEF Inv
<1>2. NoReply \in
        [status : [state : {"absent", "rejected", "failed", "completed", "accepted",
                            "external_dispatched", "duplicate_suppressed"},
                   dispatched : BOOLEAN, output_complete : BOOLEAN,
                   retryable : BOOLEAN],
         receipt : Calls \cup {NoCall}]
  BY DEF NoReply, Receipts!Absent, Receipts!Status
<1>3. QED
  BY <1>1, <1>2 DEF Init, Answers, TypeOK, Typed, Answered

(* A step of the call c leaves the state of every other call alone. *)
Elsewhere(c) ==
  \A d \in Calls \ {c} :
    /\ pc'[d] = pc[d]
    /\ reply'[d] = reply[d]
    /\ receipts'[d] = receipts[d]
    /\ d \in scheduled' <=> d \in scheduled

LEMMA FailureElsewhere ==
  ASSUME Inv, Answers, NEW c \in Calls, NEW dispatched \in BOOLEAN,
         DispatchFailure(c, dispatched), UNCHANGED executorVars
  PROVE  Elsewhere(c)
<1>1. \A d \in Calls : d # c => receipts'[d] = receipts[d]
  BY FailOrReleaseEffect DEF Inv, Typed, DispatchFailure
<1>2. QED
  BY <1>1 DEF Answers, TypeOK, DispatchFailure, Answer, Goto, executorVars, Elsewhere

LEMMA FinishCases ==
  ASSUME Inv, NEW c \in Calls, Finish(c)
  PROVE  /\ outcome[c].dispatched \in BOOLEAN
         /\ outcome[c].dispatched <=> c \in scheduled
         /\ outcome[c] \in Executor!Dispatched \cup Executor!Undispatched
<1>1. \/ c \in scheduled /\ outcome[c] \in Executor!Dispatched
      \/ c \notin scheduled /\ outcome[c] \in Executor!Undispatched
  BY DEF Finish, Inv, Consistent
<1>2. CASE c \in scheduled /\ outcome[c] \in Executor!Dispatched
  <2>1. outcome[c].dispatched = TRUE
    BY <1>2, OutcomeFlags
  <2>2. QED
    BY <1>2, <2>1
<1>3. CASE c \notin scheduled /\ outcome[c] \in Executor!Undispatched
  <2>1. outcome[c].dispatched = FALSE
    BY <1>3, OutcomeFlags
  <2>2. QED
    BY <1>3, <2>1
<1>4. QED
  BY <1>1, <1>2, <1>3

LEMMA CallElsewhere ==
  ASSUME Inv, Answers, NEW c \in Calls,
         Ask(c) \/ CallStep(c) \/ Unresolved(c) \/ Raise(c) \/ CancelCall(c)
  PROVE  Elsewhere(c)
<1> USE DEF Answers, TypeOK, Answer, Goto, receiptVars, executorVars, callVars
<1>1. CASE Ask(c) \/ Unresolved(c) \/ Raise(c) \/ Deny(c) \/ SuppressDuplicate(c)
  BY <1>1 DEF Ask, Unresolved, Raise, Deny, SuppressDuplicate, Elsewhere
<1>2. CASE Reserve(c)
  BY <1>2 DEF Reserve, Receipts!Reserve, Elsewhere
<1>3. CASE EnterExecutor(c) \/ ExecutorStep(c) \/ CancelCall(c)
  BY <1>3 DEF EnterExecutor, ExecutorStep, CancelCall, Executor!Begin, Executor!Decline,
              Executor!Dispatch, Executor!Conclude, Executor!CancelTool, Elsewhere
<1>4. CASE PrepareFails(c)
  BY <1>4, FailureElsewhere DEF PrepareFails
<1>5. CASE Finish(c)
  <2>1. outcome[c].dispatched \in BOOLEAN
    BY <1>5, FinishCases
  <2>2. CASE DispatchFailure(c, outcome[c].dispatched)
    BY <1>5, <2>1, <2>2, FailureElsewhere DEF Finish
  <2>3. CASE Receipts!SaveResult(c, RowOf(outcome[c]))
    BY <1>5, <2>3 DEF Finish, DispatchFailure, Receipts!SaveResult, Elsewhere
  <2>4. QED
    BY <1>5, <2>2, <2>3 DEF Finish
<1>6. QED
  BY <1>1, <1>2, <1>3, <1>4, <1>5 DEF CallStep

LEMMA ElsewhereAnswered ==
  ASSUME Answers, NEW c \in Calls, Elsewhere(c), NEW d \in Calls \ {c}
  PROVE  Answered(d)'
  BY DEF Answers, Elsewhere, Answered, OwnAnswer, OtherAnswer, NoReply, Refused, Reply,
         Receipts!Absent, Receipts!Status

Replies == [status : [state : {"absent", "rejected", "failed", "completed", "accepted",
                               "external_dispatched", "duplicate_suppressed"},
                      dispatched : BOOLEAN, output_complete : BOOLEAN,
                      retryable : BOOLEAN],
            receipt : Calls \cup {NoCall}]

LEMMA ReplyTyped ==
  ASSUME NEW s \in {"rejected", "failed", "completed", "accepted",
                    "external_dispatched", "duplicate_suppressed"},
         NEW f \in BOOLEAN, NEW g \in BOOLEAN, NEW h \in BOOLEAN,
         NEW c \in Calls \cup {NoCall}
  PROVE  Reply(Receipts!Status(s, f, g, h), c) \in Replies
  BY DEF Reply, Receipts!Status, Replies

(* A row that counts has Boolean flags. *)
LEMMA RowFlags ==
  ASSUME Receipts!TypeOK, NEW d \in Calls
  PROVE  receipts[d].dispatched \in BOOLEAN /\ receipts[d].output_complete \in BOOLEAN
<1> DEFINE Flagged(row) == row.dispatched \in BOOLEAN /\ row.output_complete \in BOOLEAN
<1>1. ASSUME NEW s, NEW f \in BOOLEAN, NEW g \in BOOLEAN, NEW h
      PROVE  Flagged(Receipts!Status(s, f, g, h))
  BY DEF Receipts!Status
<1> HIDE DEF Flagged
<1>2. Flagged(Receipts!Absent) /\ Flagged(Receipts!Reserved) /\ Flagged(Receipts!Released)
  BY <1>1 DEF Receipts!Absent, Receipts!Reserved, Receipts!Released
<1>3. Flagged(Receipts!Failed(FALSE)) /\ Flagged(Receipts!Failed(TRUE))
  BY <1>1 DEF Receipts!Failed
<1>4. \A row \in Receipts!StateInvariants : Flagged(row)
  BY <1>1, <1>3 DEF Receipts!StateInvariants
<1>5. Flagged(receipts[d])
  BY <1>2, <1>4 DEF Receipts!TypeOK
<1>6. QED
  BY <1>5 DEF Flagged

LEMMA RefuseAnswers ==
  ASSUME Inv, Answers, NEW c \in Calls, pc[c] \in {"idle", "resolving"}, Answer(c, Refused),
         UNCHANGED <<receiptVars, executorVars>>
  PROVE  Refused \in Replies /\ Answered(c)'
<1>1. Refused \in Replies
  BY ReplyTyped DEF Refused
<1>2. c \notin scheduled
  BY DEF Inv, Consistent
<1>3. QED
  BY <1>1, <1>2 DEF Answers, TypeOK, Answer, Goto, executorVars, Answered, OtherAnswer,
                    Refused

LEMMA DuplicateAnswers ==
  ASSUME Inv, Answers, NEW c \in Calls, SuppressDuplicate(c)
  PROVE  reply' \in [Calls -> Replies] /\ Answered(c)'
<1>1. PICK d \in Receipts!Originals(c) :
        Answer(c, Reply(Receipts!Status("duplicate_suppressed", receipts[d].dispatched,
                                        receipts[d].output_complete, FALSE), d))
  BY DEF SuppressDuplicate
<1>2. d \in Calls /\ Receipts!Counts(receipts[d])
  BY DEF Receipts!Originals, Receipts!Suppressors
<1>3. d # c /\ c \notin scheduled
  BY <1>2, PlaceholderCounts DEF Inv, Consistent, SuppressDuplicate
<1> DEFINE r == Reply(Receipts!Status("duplicate_suppressed", receipts[d].dispatched,
                                      receipts[d].output_complete, FALSE), d)
<1>4. r \in Replies
  BY <1>2, RowFlags, ReplyTyped DEF Inv, Typed
<1>5. reply' \in [Calls -> Replies] /\ reply'[c] = r /\ pc'[c] = "replied"
  BY <1>1, <1>4 DEF Answers, TypeOK, Answer, Goto, Replies
<1>6. r.status.state = "duplicate_suppressed" /\ ~r.status.retryable /\ r.receipt = d
  BY DEF Reply, Receipts!Status
<1>7. OtherAnswer(c)'
  BY <1>2, <1>3, <1>5, <1>6 DEF SuppressDuplicate, executorVars, OtherAnswer
<1>8. QED
  BY <1>5, <1>7 DEF Answered

(* The answer of a failure tells what dispatched tells. *)
LEMMA FailureAnswers ==
  ASSUME Inv, Answers, NEW c \in Calls, NEW dispatched \in BOOLEAN,
         dispatched <=> c \in scheduled, UNCHANGED executorVars,
         Answer(c, Reply(Receipts!Failed(dispatched), c))
  PROVE  reply' \in [Calls -> Replies] /\ Answered(c)'
<1> DEFINE r == Reply(Receipts!Failed(dispatched), c)
<1>1. r \in Replies
  BY ReplyTyped DEF Receipts!Failed
<1>2. reply' \in [Calls -> Replies] /\ reply'[c] = r /\ pc'[c] = "replied"
  BY <1>1 DEF Answers, TypeOK, Answer, Goto, Replies
<1>3. /\ r.receipt = c
      /\ r.status.dispatched = dispatched
      /\ r.status.retryable = ~dispatched
      /\ r.status.state = "failed"
  BY DEF Reply, Receipts!Failed, Receipts!Status
<1>4. OwnAnswer(c)'
  BY <1>2, <1>3 DEF executorVars, OwnAnswer, Success
<1>5. QED
  BY <1>2, <1>4 DEF Answered

LEMMA RowOfFlags ==
  ASSUME NEW o \in Executor!Dispatched \cup Executor!Undispatched
  PROVE  /\ \A c \in Calls : Reply(RowOf(o), c) \in Replies
         /\ RowOf(o).dispatched = o.dispatched
         /\ RowOf(o).retryable => ~o.dispatched
<1>1. /\ o.state \in {"rejected", "failed", "completed", "accepted", "external_dispatched"}
      /\ o.dispatched \in BOOLEAN
  <2>1. PICK s \in {"rejected", "failed", "completed", "accepted", "external_dispatched"},
             f \in BOOLEAN :
          o = [state |-> s, dispatched |-> f]
    BY DEF Executor!Dispatched, Executor!Undispatched, Executor!Outcome
  <2>2. QED
    BY <2>1
<1>2. /\ (o.state \in {"completed", "rejected", "failed"}) \in BOOLEAN
      /\ (o.state = "failed" /\ ~o.dispatched) \in BOOLEAN
  OBVIOUS
<1>3. \A c \in Calls : Reply(RowOf(o), c) \in Replies
  BY <1>1, <1>2, ReplyTyped DEF RowOf
<1>4. QED
  BY <1>3 DEF RowOf, Receipts!Status

LEMMA FinishAnswers ==
  ASSUME Inv, Answers, NEW c \in Calls, Finish(c)
  PROVE  reply' \in [Calls -> Replies] /\ Answered(c)'
<1> DEFINE o == outcome[c]
<1>1. /\ o.dispatched \in BOOLEAN
      /\ o.dispatched <=> c \in scheduled
      /\ o \in Executor!Dispatched \cup Executor!Undispatched
      /\ UNCHANGED executorVars
  BY FinishCases DEF Finish
<1>2. CASE Answer(c, Reply(Receipts!Failed(o.dispatched), c))
  BY <1>1, <1>2, FailureAnswers
<1>3. CASE Receipts!SaveResult(c, RowOf(o)) /\ Answer(c, Reply(RowOf(o), c))
  <2>1. receipts'[c] = RowOf(o)
    BY <1>3, SaveResultEffect DEF Inv, Typed
  <2>2. /\ Reply(RowOf(o), c) \in Replies
        /\ RowOf(o).dispatched = o.dispatched
        /\ RowOf(o).retryable => ~o.dispatched
    BY <1>1, RowOfFlags
  <2>3. /\ reply' \in [Calls -> Replies]
        /\ reply'[c] = Reply(RowOf(o), c)
        /\ pc'[c] = "replied"
    BY <1>3, <2>2 DEF Answers, TypeOK, Answer, Goto, Replies
  <2>4. Reply(RowOf(o), c).status = RowOf(o) /\ Reply(RowOf(o), c).receipt = c
    BY DEF Reply
  <2>5. scheduled' = scheduled
    BY <1>1 DEF executorVars
  <2>6. OwnAnswer(c)'
    BY <1>1, <2>1, <2>2, <2>3, <2>4, <2>5 DEF OwnAnswer
  <2>7. QED
    BY <2>3, <2>6 DEF Answered
<1>4. QED
  BY <1>2, <1>3 DEF Finish, DispatchFailure

(* The other steps of a call answer nothing. *)
LEMMA SilentAnswers ==
  ASSUME Answers, NEW c \in Calls, UNCHANGED reply, pc[c] # "replied", pc'[c] # "replied"
  PROVE  Answered(c)'
  BY DEF Answers, Answered, NoReply, Receipts!Absent, Receipts!Status

LEMMA CallAnswers ==
  ASSUME Inv, Answers, NEW c \in Calls,
         Ask(c) \/ CallStep(c) \/ Unresolved(c) \/ Raise(c) \/ CancelCall(c)
  PROVE  reply' \in [Calls -> Replies] /\ Answered(c)'
<1>1. reply \in [Calls -> Replies] /\ pc \in [Calls -> {"idle", "resolving", "preparing",
                       "executing", "replied", "raised", "cancelled", "lost"}]
  BY DEF Answers, TypeOK, Replies
<1>2. CASE Ask(c) /\ Goto(c, "resolving") /\ UNCHANGED reply
  BY <1>1, <1>2, SilentAnswers DEF Ask, Goto
<1>3. CASE /\ Ask(c) \/ Unresolved(c) \/ Deny(c)
           /\ Answer(c, Refused)
  <2>1. Refused \in Replies /\ Answered(c)'
    BY <1>3, RefuseAnswers DEF Ask, Unresolved, Deny
  <2>2. QED
    BY <1>1, <1>3, <2>1 DEF Answer
<1>4. CASE SuppressDuplicate(c)
  BY <1>4, DuplicateAnswers
<1>5. CASE Reserve(c) \/ Raise(c) \/ EnterExecutor(c) \/ ExecutorStep(c) \/ CancelCall(c)
  <2>1. UNCHANGED reply /\ pc[c] # "replied" /\ pc'[c] # "replied"
    BY <1>1, <1>5 DEF Reserve, Raise, EnterExecutor, ExecutorStep, CancelCall, Goto, callVars
  <2>2. QED
    BY <1>1, <2>1, SilentAnswers
<1>6. CASE PrepareFails(c)
  <2>1. FALSE <=> c \in scheduled
    BY <1>6 DEF PrepareFails, Inv, Consistent
  <2>2. QED
    BY <1>6, <2>1, FailureAnswers DEF PrepareFails, DispatchFailure
<1>7. CASE Finish(c)
  BY <1>7, FinishAnswers
<1>8. QED
  BY <1>2, <1>3, <1>4, <1>5, <1>6, <1>7 DEF CallStep, Ask, Unresolved, Deny

LEMMA AnswersNext == Inv /\ Inv' /\ Answers /\ [Next]_vars => Answers'
<1> SUFFICES ASSUME Inv, Inv', Answers, [Next]_vars PROVE Answers'
  OBVIOUS
<1> DEFINE Step(c) == Ask(c) \/ CallStep(c) \/ Unresolved(c) \/ Raise(c) \/ CancelCall(c)
           Kept == reply' \in [Calls -> Replies] /\ \A c \in Calls : Answered(c)'
<1>1. entry' \in [Commands -> Entries] /\ privacy' \in [Targets -> Modes]
  <2>1. CASE SetPrivacy
    BY <2>1 DEF SetPrivacy, Answers, TypeOK
  <2>2. CASE ChangeEntry
    BY <2>2 DEF ChangeEntry, Answers, TypeOK
  <2>3. CASE UNCHANGED worldVars
    BY <2>3 DEF worldVars, Answers, TypeOK
  <2>4. QED
    BY <2>1, <2>2, <2>3
       DEF Next, CallStep, Ask, Unresolved, Raise, CancelCall, Deny, SuppressDuplicate, Reserve,
           EnterExecutor, PrepareFails, ExecutorStep, Finish, Crash, TimePasses, vars, worldVars
<1>2. Kept
  <2>1. ASSUME NEW c \in Calls, Step(c) PROVE Kept
    BY <2>1, CallAnswers, CallElsewhere, ElsewhereAnswered
  <2>2. ASSUME UNCHANGED <<reply, receipts, scheduled>>,
               \A c \in Calls : pc'[c] = pc[c] \/ (InFlight(c) /\ pc'[c] = "lost")
        PROVE  Kept
    BY <2>2 DEF Answers, TypeOK, Replies, Answered, OwnAnswer, OtherAnswer, InFlight, NoReply,
                Refused, Reply, Receipts!Absent, Receipts!Status
  <2>3. CASE Crash
    BY <2>2, <2>3 DEF Crash, receiptVars, executorVars
  <2>4. CASE SetPrivacy \/ ChangeEntry \/ TimePasses \/ UNCHANGED vars
    BY <2>2, <2>4 DEF SetPrivacy, ChangeEntry, TimePasses, vars, receiptVars, executorVars,
       callVars, Receipts!AdvanceClock, Receipts!SetClockBack, Receipts!Reconfigure
  <2>5. QED
    BY <2>1, <2>3, <2>4 DEF Next
<1>3. QED
  BY <1>1, <1>2 DEF Inv, Typed, Answers, TypeOK, Replies

LEMMA AlwaysAnswers == Spec => []Answers
  BY AnswersInit, AnswersNext, Invariance, PTL DEF Spec

(* The variables keep their types: in particular every answer is one of    *)
(* the documented ones.                                                    *)
THEOREM TypeCorrect == Spec => []TypeOK
<1>1. Answers => TypeOK
  BY DEF Answers
<1>2. QED
  BY <1>1, AlwaysAnswers, PTL

(* A caller learns whether its own command was dispatched, and is never    *)
(* invited to retry one that was.                                          *)
THEOREM DispatchTold == Spec => []ReplyTellsDispatch
<1>1. Answers => ReplyTellsDispatch
  <2> SUFFICES ASSUME Answers, NEW c \in Calls
               PROVE  /\ pc[c] = "replied" /\ reply[c].receipt \in {c, NoCall}
                           => (reply[c].status.dispatched <=> c \in scheduled)
                      /\ reply[c].status.retryable => c \notin scheduled
    BY DEF ReplyTellsDispatch
  <2>1. NoCall \notin Calls
    BY DelegationAssumption DEF NoCall
  <2>2. CASE pc[c] # "replied"
    BY <2>2 DEF Answers, Answered, NoReply, Receipts!Absent, Receipts!Status
  <2>3. CASE pc[c] = "replied"
    BY <2>1, <2>3 DEF Answers, Answered, OwnAnswer, OtherAnswer, Refused, Reply,
                      Receipts!Status
  <2>4. QED
    BY <2>2, <2>3
<1>2. QED
  BY <1>1, AlwaysAnswers, PTL

(* A success is answered only with the receipt that is stored for it, and  *)
(* that receipt stays as it was answered.                                  *)
THEOREM SuccessStored == Spec => []SuccessIsStored
<1>1. Answers => SuccessIsStored
  BY DEF Answers, Answered, OwnAnswer, OtherAnswer, Success, SuccessIsStored, NoReply, Refused,
         Reply, Receipts!Absent, Receipts!Status
<1>2. QED
  BY <1>1, AlwaysAnswers, PTL

-----------------------------------------------------------------------------
(* Authorisation *)

(* The early returns, taken together, let through what the policy allows.  *)
LEMMA NotDenied ==
  ASSUME Answers, NEW c \in Calls, ~Denied(c)
  PROVE  Authorised(c)
<1>1. /\ KeyOf[c].command \in Commands
      /\ KeyOf[c].target \in Targets
  BY DelegationAssumption DEF Targets
<1>2. Entry(c) \in Entries /\ Privacy(c) \in Modes
  BY <1>1 DEF Answers, TypeOK, Entry, Privacy
<1>3. /\ Entry(c) = Unknown \/ Entry(c).policy \in {"normal", "sensitive", "forbidden"}
      /\ Privacy(c) \in {"allow", "deny_sensitive", "deny_all"}
  BY <1>2, DelegationAssumption
<1>4. QED
  BY <1>3 DEF Denied, Authorised, SensitiveAcross

(* Only Reserve makes a row reserved. *)
LEMMA OnlyReserve ==
  ASSUME Inv, Next, NEW c \in Calls, receipts[c] # receipts'[c],
         receipts'[c] = Receipts!Reserved
  PROVE  Reserve(c)
<1>1. ASSUME NEW d \in Calls, Reserve(d) PROVE d = c
  BY <1>1 DEF Reserve, Receipts!Reserve, Inv, Typed, Receipts!TypeOK
<1>2. ASSUME NEW d \in Calls, NEW row, Receipts!SaveResult(d, row) PROVE FALSE
  <2>1. receipts'[c] = IF c = d THEN row ELSE receipts[c]
    BY <1>2 DEF Receipts!SaveResult, Inv, Typed, Receipts!TypeOK
  <2>2. row # Receipts!Reserved
    BY <1>2 DEF Receipts!SaveResult, Receipts!StateInvariants, Receipts!Failed,
                Receipts!Reserved, Receipts!Status
  <2>3. QED
    BY <2>1, <2>2
<1>3. ASSUME NEW d \in Calls, Receipts!ReleaseReserved(d) PROVE FALSE
  BY <1>3 DEF Receipts!ReleaseReserved, Inv, Typed, Receipts!TypeOK, Receipts!Reserved,
              Receipts!Released, Receipts!Status
<1>4. receipts' # receipts
  OBVIOUS
<1>5. ASSUME NEW d \in Calls, PrepareFails(d) \/ Finish(d) PROVE FALSE
  BY <1>2, <1>3, <1>4, <1>5 DEF PrepareFails, Finish, DispatchFailure,
     Receipts!FailOrRelease, Receipts!vars
<1>6. \A d \in Calls :
        ~(\/ Ask(d) \/ Unresolved(d) \/ Raise(d) \/ CancelCall(d) \/ Deny(d)
          \/ SuppressDuplicate(d) \/ EnterExecutor(d) \/ ExecutorStep(d))
  BY <1>4 DEF Ask, Unresolved, Raise, CancelCall, Deny, SuppressDuplicate, EnterExecutor,
              ExecutorStep, receiptVars
<1>7. ~(Crash \/ SetPrivacy \/ ChangeEntry \/ TimePasses)
  BY <1>4 DEF Crash, SetPrivacy, ChangeEntry, TimePasses, receiptVars,
              Receipts!AdvanceClock, Receipts!SetClockBack, Receipts!Reconfigure
<1>8. QED
  BY <1>1, <1>5, <1>6, <1>7 DEF Next, CallStep

(* A receipt is reserved only under the policy and the privacy in force at *)
(* that moment.                                                            *)
THEOREM Authorisation == Spec => GrantsAuthorised
<1> DEFINE Allowed == \A c \in Calls :
                        receipts[c] # receipts'[c] /\ receipts'[c] = Receipts!Reserved
                          => Authorised(c)
<1>1. Inv /\ Answers /\ [Next]_vars => [Allowed]_vars
  <2> SUFFICES ASSUME Inv, Answers, Next, NEW c \in Calls, receipts[c] # receipts'[c],
                      receipts'[c] = Receipts!Reserved
               PROVE  Authorised(c)
    OBVIOUS
  <2>1. ~Denied(c)
    BY OnlyReserve DEF Reserve
  <2>2. QED
    BY <2>1, NotDenied
<1>2. QED
  BY <1>1, Invariance, AlwaysAnswers, PTL DEF Spec, GrantsAuthorised
=============================================================================
