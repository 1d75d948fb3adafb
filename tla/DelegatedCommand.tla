-------------------------- MODULE DelegatedCommand --------------------------
(***************************************************************************)
(* DelegatedCommandService.execute(): resolve the target, check catalog    *)
(* policy and the target's privacy mode, reserve a receipt, dispatch, save *)
(* the receipt, answer.  It composes the receipt table (ExecutionReceipts) *)
(* with the executor, of which it relies on CommandDispatch only.          *)
(*                                                                         *)
(* The code between two awaits is one step.  The awaits are the target     *)
(* resolution, the allowed plugins and the executor; between them other    *)
(* calls run, users change their privacy, the catalog changes, and a call  *)
(* may be cancelled.  A crash ends every call under way; rows survive.     *)
(***************************************************************************)
EXTENDS Integers

CONSTANTS
  Calls,             \* calls of the tool execute_astrbot_command
  Users, Commands,
  Keys,              \* what a receipt is deduplicated by; platform and session
                     \* are one and the same here
  KeyOf,             \* the key of each call, once its target is resolved
  Admins,            \* event.is_admin()
  Entries,           \* catalog entries a command may come to have
  Modes,             \* privacy modes a user may come to have
  EnableSensitive,   \* enable_sensitive_delegation
  AllowOverride,     \* allow_admin_target_override
  Windows, LeastWindow, Times, ClockMayStepBack  \* see ExecutionReceipts

Unknown == [permission |-> "none", policy |-> "none", blacklisted |-> FALSE]

ASSUME DelegationAssumption ==
  /\ "none" \notin Calls
  /\ Keys \subseteq [requester : Users, target : Users, command : Commands]
  /\ KeyOf \in [Calls -> Keys]
  /\ Admins \subseteq Users
  /\ Entries \subseteq {Unknown} \cup
       [permission : {"normal", "admin"},
        policy : {"normal", "sensitive", "forbidden"},
        blacklisted : BOOLEAN]
  /\ Modes \subseteq {"allow", "deny_sensitive", "deny_all"}
  /\ EnableSensitive \in BOOLEAN
  /\ AllowOverride \in BOOLEAN
  /\ Windows \subseteq Nat
  /\ LeastWindow \in Windows
  /\ \A w \in Windows : LeastWindow <= w
  /\ Times \subseteq Int
  /\ Times # {}
  /\ ClockMayStepBack \in BOOLEAN

VARIABLES
  now, window, receipts, created_at,  \* the receipt table
  stage, outcome, scheduled,          \* the executor
  pc,                                 \* where execute() of each call is
  reply,                              \* what it answered
  entry,                              \* find_command of each command
  privacy                             \* privacy mode of each target

Receipts == INSTANCE ExecutionReceipts
Executor == INSTANCE CommandDispatch

receiptVars == <<now, window, receipts, created_at>>
executorVars == <<stage, outcome, scheduled>>
callVars == <<pc, reply>>
worldVars == <<entry, privacy>>
vars == <<receiptVars, executorVars, callVars, worldVars>>

NoCall == "none"
NoReply == [status |-> Receipts!Absent, receipt |-> NoCall]

(* Users somebody asks a command for: nobody else's privacy is read. *)
Targets == { KeyOf[c].target : c \in Calls }

(* An answer carries flags like a receipt's, and the receipt they are of. *)
Reply(status, receipt) == [status |-> status, receipt |-> receipt]

Refused == Reply(Receipts!Status("rejected", FALSE, TRUE, FALSE), NoCall)

InFlight(c) == pc[c] \in {"resolving", "preparing", "executing"}

TypeOK ==
  /\ Receipts!TypeOK
  /\ Executor!DispatchTypeOK
  /\ pc \in [Calls -> {"idle", "resolving", "preparing", "executing",
                       "replied", "raised", "cancelled", "lost"}]
  /\ reply \in [Calls ->
       [status : [state : {"absent", "rejected", "failed", "completed", "accepted",
                           "external_dispatched", "duplicate_suppressed"},
                  dispatched : BOOLEAN, output_complete : BOOLEAN,
                  retryable : BOOLEAN],
        receipt : Calls \cup {NoCall}]]
  /\ entry \in [Commands -> Entries]
  /\ privacy \in [Targets -> Modes]

Init ==
  /\ Receipts!Init
  /\ Executor!DispatchInit
  /\ pc = [c \in Calls |-> "idle"]
  /\ reply = [c \in Calls |-> NoReply]
  /\ entry \in [Commands -> Entries]
  /\ privacy \in [Targets -> Modes]

-----------------------------------------------------------------------------
(* The checks between the resolution and the reservation *)

IsAdmin(c) == KeyOf[c].requester \in Admins
CrossUser(c) == KeyOf[c].requester # KeyOf[c].target
Entry(c) == entry[KeyOf[c].command]
Privacy(c) == privacy[KeyOf[c].target]
MayOverride(c) == IsAdmin(c) /\ AllowOverride

SensitiveAcross(c) == CrossUser(c) /\ Entry(c).policy = "sensitive"

(* Fault: an override of privacy is taken for one of the policy. *)
DeniedUnlessOverridden(c) ==
  /\ ~MayOverride(c)
  /\ \/ Entry(c) = Unknown /\ CrossUser(c)
     \/ Entry(c).blacklisted
     \/ Entry(c).permission = "admin" /\ ~IsAdmin(c)
     \/ CrossUser(c) /\ Entry(c).policy = "forbidden"
     \/ SensitiveAcross(c)
     \/ Privacy(c) = "deny_all"
     \/ Privacy(c) = "deny_sensitive" /\ SensitiveAcross(c)

(* The early returns, in the order of the code. *)
Denied(c) ==
  \/ Entry(c) = Unknown /\ CrossUser(c)
  \/ Entry(c).blacklisted
  \/ Entry(c).permission = "admin" /\ ~IsAdmin(c)
  \/ CrossUser(c) /\ Entry(c).policy = "forbidden"
  \/ SensitiveAcross(c) /\ (~IsAdmin(c) \/ ~EnableSensitive)
  \/ Privacy(c) = "deny_all" /\ ~MayOverride(c)
  \/ SensitiveAcross(c) /\ Privacy(c) # "allow" /\ ~MayOverride(c)

-----------------------------------------------------------------------------
(* One call *)

Goto(c, to) == pc' = [pc EXCEPT ![c] = to]

Answer(c, r) ==
  /\ Goto(c, "replied")
  /\ reply' = [reply EXCEPT ![c] = r]

(* The tool is called: refused at once, or resolving its target. *)
Ask(c) ==
  /\ pc[c] = "idle"
  /\ \/ Goto(c, "resolving") /\ UNCHANGED reply
     \/ Answer(c, Refused)
  /\ UNCHANGED <<receiptVars, executorVars, worldVars>>

(* The target is not unique, not operable or unknown. *)
Unresolved(c) ==
  /\ pc[c] = "resolving"
  /\ Answer(c, Refused)
  /\ UNCHANGED <<receiptVars, executorVars, worldVars>>

Deny(c) ==
  /\ pc[c] = "resolving"
  /\ Denied(c)
  /\ Answer(c, Refused)
  /\ UNCHANGED <<receiptVars, executorVars, worldVars>>

(* Faults: a duplicate is answered with the original receipt as it stands; *)
(* a duplicate waits for the original to be final.                         *)
AnswerWithOriginal(c) ==
  /\ pc[c] = "resolving"
  /\ ~Denied(c)
  /\ \E d \in Receipts!Originals(c) : Answer(c, Reply(receipts[d], d))
  /\ UNCHANGED <<receiptVars, executorVars, worldVars>>

AwaitOriginal(c) ==
  /\ pc[c] = "resolving"
  /\ ~Denied(c)
  /\ \E d \in Receipts!Originals(c) :
       receipts[d] # Receipts!Reserved /\ Answer(c, Reply(receipts[d], d))
  /\ UNCHANGED <<receiptVars, executorVars, worldVars>>

(* reserve() finds a receipt that counts: its flags are the answer. *)
SuppressDuplicate(c) ==
  /\ pc[c] = "resolving"
  /\ ~Denied(c)
  /\ \E d \in Receipts!Originals(c) :
       LET row == receipts[d] IN
       Answer(c, Reply(Receipts!Status("duplicate_suppressed", row.dispatched,
                                       row.output_complete, FALSE), d))
  /\ UNCHANGED <<receiptVars, executorVars, worldVars>>

Reserve(c) ==
  /\ pc[c] = "resolving"
  /\ ~Denied(c)
  /\ Receipts!Reserve(c)
  /\ Goto(c, "preparing")
  /\ UNCHANGED <<executorVars, reply, worldVars>>

(* Resolution, a catalog read or reserve() raises: so does the tool. *)
Raise(c) ==
  /\ pc[c] = "resolving"
  /\ Goto(c, "raised")
  /\ UNCHANGED <<receiptVars, executorVars, reply, worldVars>>

(* The allowed plugins are known; the executor is entered. *)
EnterExecutor(c) ==
  /\ pc[c] = "preparing"
  /\ Goto(c, "executing")
  /\ Executor!Begin(c)
  /\ UNCHANGED <<receiptVars, reply, worldVars>>

(* Fault: the dispatched flag is not passed on to fail_or_release. *)
DispatchFailureUnflagged(c, dispatched) ==
  /\ Receipts!FailOrRelease(c, FALSE)
  /\ Answer(c, Reply(Receipts!Failed(FALSE), c))

(* _dispatch_failure: fail_or_release, whose own failure is only reported. *)
DispatchFailure(c, dispatched) ==
  /\ Receipts!FailOrRelease(c, dispatched)
  /\ Answer(c, Reply(Receipts!Failed(dispatched), c))

PrepareFails(c) ==
  /\ pc[c] = "preparing"
  /\ DispatchFailure(c, FALSE)
  /\ UNCHANGED <<executorVars, worldVars>>

(* The executor between its awaits *)
ExecutorStep(c) ==
  /\ pc[c] = "executing"
  /\ Executor!Decline(c) \/ Executor!Dispatch(c) \/ Executor!Conclude(c)
  /\ UNCHANGED <<receiptVars, callVars, worldVars>>

(* Fault: every failure is saved as retryable. *)
RowOfRetryable(o) ==
  IF o.state = "failed" THEN Receipts!Failed(FALSE)
  ELSE Receipts!Status(o.state, o.dispatched,
                       o.state \in {"completed", "rejected"}, FALSE)

(* The row save_result is asked for. *)
RowOf(o) ==
  Receipts!Status(o.state, o.dispatched,
                  o.state \in {"completed", "rejected", "failed"},
                  o.state = "failed" /\ ~o.dispatched)

(* Fault: a failed save is ignored and the result answered anyway. *)
FinishIgnoringSave(c) ==
  /\ pc[c] = "executing"
  /\ stage[c] = "returned"
  /\ Receipts!SaveResult(c, RowOf(outcome[c])) \/ UNCHANGED receiptVars
  /\ Answer(c, Reply(RowOf(outcome[c]), c))
  /\ UNCHANGED <<executorVars, worldVars>>

(* The executor returned: save the receipt and answer.  The save succeeds; *)
(* or commits and its row cannot be read back, so that the failure path    *)
(* finds the row final; or fails.                                          *)
Finish(c) ==
  /\ pc[c] = "executing"
  /\ stage[c] = "returned"
  /\ LET row == RowOf(outcome[c])
         dispatched == outcome[c].dispatched
     IN \/ Receipts!SaveResult(c, row) /\ Answer(c, Reply(row, c))
        \/ /\ Receipts!SaveResult(c, row)
           /\ Answer(c, Reply(Receipts!Failed(dispatched), c))
        \/ DispatchFailure(c, dispatched)
  /\ UNCHANGED <<executorVars, worldVars>>

(* Fault: the except clause catches the cancellation and frees the key. *)
CancelCallReleasing(c) ==
  /\ \/ pc[c] \in {"resolving", "preparing"} /\ UNCHANGED executorVars
     \/ pc[c] = "executing" /\ Executor!CancelTool(c)
  /\ Goto(c, "cancelled")
  /\ Receipts!ReleaseReserved(c)
  /\ UNCHANGED <<reply, worldVars>>

(* The agent run is cancelled at an await. CancelledError is no Exception: *)
(* a reserved row stays reserved.                                          *)
CancelCall(c) ==
  /\ \/ pc[c] \in {"resolving", "preparing"} /\ UNCHANGED executorVars
     \/ pc[c] = "executing" /\ Executor!CancelTool(c)
  /\ Goto(c, "cancelled")
  /\ UNCHANGED <<receiptVars, reply, worldVars>>

-----------------------------------------------------------------------------
(* The world *)

(* The process dies and starts again: calls under way are lost, with what  *)
(* the executor did for them; only rows survive.                           *)
Crash ==
  /\ \E c \in Calls : InFlight(c)
  /\ pc' = [c \in Calls |-> IF InFlight(c) THEN "lost" ELSE pc[c]]
  /\ UNCHANGED <<receiptVars, executorVars, reply, worldVars>>

SetPrivacy ==
  /\ \E u \in Targets, m \in Modes :
       privacy[u] # m /\ privacy' = [privacy EXCEPT ![u] = m]
  /\ UNCHANGED <<receiptVars, executorVars, callVars, entry>>

ChangeEntry ==
  /\ \E k \in Commands, e \in Entries :
       entry[k] # e /\ entry' = [entry EXCEPT ![k] = e]
  /\ UNCHANGED <<receiptVars, executorVars, callVars, privacy>>

TimePasses ==
  /\ Receipts!AdvanceClock \/ Receipts!SetClockBack \/ Receipts!Reconfigure
  /\ UNCHANGED <<executorVars, callVars, worldVars>>

CallStep(c) ==
  \/ Deny(c) \/ SuppressDuplicate(c) \/ Reserve(c)
  \/ EnterExecutor(c) \/ PrepareFails(c) \/ ExecutorStep(c) \/ Finish(c)

Next ==
  \/ \E c \in Calls : Ask(c) \/ CallStep(c) \/ Unresolved(c) \/ Raise(c) \/ CancelCall(c)
  \/ Crash
  \/ SetPrivacy
  \/ ChangeEntry
  \/ TimePasses

(* Awaits end: the resolution and the plugin lookup by themselves, the     *)
(* executor because its ToolReturns holds. That a resolution fails is no   *)
(* way out to rely on, so Unresolved and Raise are not among these steps.  *)
Fairness == \A c \in Calls : WF_vars(CallStep(c))

Spec == Init /\ [][Next]_vars /\ Fairness

-----------------------------------------------------------------------------
(* Properties *)

(* Once a background task was created for a call, its receipt counts for   *)
(* good: no SQLite failure, cancellation, crash, late failure or release   *)
(* makes the key of a dispatched command free before its window is over.   *)
DispatchedKeepsKey == \A c \in scheduled : Receipts!Counts(receipts[c])

(* A command is not dispatched twice inside its dedupe window: receipts of *)
(* two dispatched calls of one key lie at least the smallest window apart, *)
(* whatever fails, is retried, is cancelled or crashes in between.         *)
DispatchesSpaced ==
  \A c, d \in scheduled : c # d /\ KeyOf[c] = KeyOf[d] => Receipts!Apart(c, d)

(* A caller learns whether its own command was dispatched: every answer    *)
(* that is not about an earlier receipt has the flag right, and one that   *)
(* invites a retry is never about a dispatched command.                    *)
ReplyTellsDispatch ==
  \A c \in Calls :
    /\ pc[c] = "replied" /\ reply[c].receipt \in {c, NoCall}
         => (reply[c].status.dispatched <=> c \in scheduled)
    /\ reply[c].status.retryable => c \notin scheduled

(* A success is announced only when its receipt is stored, and stays so.   *)
SuccessIsStored ==
  \A c \in Calls :
    reply[c].status.state \in {"completed", "accepted", "external_dispatched"}
      => receipts[c] = reply[c].status

(* The policy of architecture.md:43, independently of the code's order.    *)
Authorised(c) ==
  /\ ~Entry(c).blacklisted
  /\ IsAdmin(c) \/ Entry(c).permission # "admin"
  /\ CrossUser(c) => Entry(c).policy \in
       {"normal"} \cup IF IsAdmin(c) /\ EnableSensitive THEN {"sensitive"} ELSE {}
  /\ MayOverride(c) \/ Privacy(c) \in
       {"allow"} \cup IF SensitiveAcross(c) THEN {} ELSE {"deny_sensitive"}

(* A receipt is reserved only under the policy and the privacy in force at *)
(* that moment, not those in force when the call began to resolve.         *)
GrantsAuthorised ==
  [][\A c \in Calls : receipts[c] # receipts'[c] /\ receipts'[c] = Receipts!Reserved
                        => Authorised(c)]_vars

(* Every call that began to resolve is answered, unless it raised, was     *)
(* cancelled or was lost: it never waits for a receipt of another call.    *)
CallEnds == \A c \in Calls : pc[c] = "resolving" ~> ~InFlight(c)

(* main.py:160: duplicate_suppressed means the command was accepted. The   *)
(* original it names may end, finally, without having been dispatched.     *)
DuplicateMeansAccepted ==
  \A c \in Calls :
    LET d == reply[c].receipt IN
    reply[c].status.state = "duplicate_suppressed"
      => d \in scheduled \/ InFlight(d) \/ receipts[d] = Receipts!Reserved

(* main.py:161 and the comment before save_result: a retryable failure     *)
(* frees the key for a next attempt. When SQLite refuses the save, the     *)
(* failure and the release, the answer is retryable and the row reserved.  *)
RetryableFreesKey ==
  \A c \in Calls :
    pc[c] = "replied" /\ reply[c].status.retryable
      => ~Receipts!Counts(receipts[c])
=============================================================================
