--------------------------- MODULE CommandDispatch ---------------------------
(***************************************************************************)
(* What CommandExecutor.execute() promises whoever awaits it: a call ends  *)
(* with an outcome whose "dispatched" flag says whether a background task  *)
(* was ever created for it, or is cancelled while it waits.  How long it   *)
(* listens, and what becomes of the task, is left open: CommandExecutor    *)
(* fills that in and is shown to implement this module; DelegatedCommand   *)
(* relies on nothing else.                                                 *)
(***************************************************************************)
CONSTANT Calls

VARIABLES
  stage,      \* where execute() of each call is
  outcome,    \* what it returned
  scheduled   \* calls a background task was created for

dispatchVars == <<stage, outcome, scheduled>>

Stages == {"idle", "checking", "dispatched", "returned", "cancelled"}

Outcome(s, dispatched) == [state |-> s, dispatched |-> dispatched]

NoOutcome == Outcome("none", FALSE)

(* Outcomes before a task exists, and after. *)
Undispatched == { Outcome(s, FALSE) : s \in {"rejected", "failed"} }
Dispatched ==
  { Outcome(s, TRUE) :
      s \in {"completed", "accepted", "external_dispatched", "failed"} }

DispatchTypeOK ==
  /\ stage \in [Calls -> Stages]
  /\ outcome \in [Calls -> {NoOutcome} \cup Undispatched \cup Dispatched]
  /\ scheduled \subseteq Calls

DispatchInit ==
  /\ stage = [c \in Calls |-> "idle"]
  /\ outcome = [c \in Calls |-> NoOutcome]
  /\ scheduled = {}

Moves(c, from, to) ==
  /\ stage[c] = from
  /\ stage' = [stage EXCEPT ![c] = to]

(* execute() is entered and runs its checks, the waking check among them. *)
Begin(c) ==
  /\ Moves(c, "idle", "checking")
  /\ UNCHANGED <<outcome, scheduled>>

Decline(c) ==
  /\ Moves(c, "checking", "returned")
  /\ \E o \in Undispatched : outcome' = [outcome EXCEPT ![c] = o]
  /\ UNCHANGED scheduled

Dispatch(c) ==
  /\ Moves(c, "checking", "dispatched")
  /\ scheduled' = scheduled \cup {c}
  /\ UNCHANGED outcome

Conclude(c) ==
  /\ Moves(c, "dispatched", "returned")
  /\ \E o \in Dispatched : outcome' = [outcome EXCEPT ![c] = o]
  /\ UNCHANGED scheduled

(* The awaiting coroutine is cancelled; a task that exists is not. *)
CancelTool(c) ==
  /\ Moves(c, "checking", "cancelled") \/ Moves(c, "dispatched", "cancelled")
  /\ UNCHANGED <<outcome, scheduled>>

DispatchNext ==
  \E c \in Calls :
    Begin(c) \/ Decline(c) \/ Dispatch(c) \/ Conclude(c) \/ CancelTool(c)

DispatchSpec == DispatchInit /\ [][DispatchNext]_dispatchVars
=============================================================================
