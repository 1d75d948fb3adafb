--------------------------- MODULE CommandExecutor ---------------------------
(***************************************************************************)
(* CommandExecutor: execute() checks a call, hands the command to a        *)
(* background task and listens to that task for a bounded time; shutdown() *)
(* cancels and collects the tasks.  All of it runs on one event loop, so a *)
(* step here is the code between two awaits.                               *)
(*                                                                         *)
(* Time passes by Tick, and only when no coroutine is ready to run, which  *)
(* is how the loop polls.  The AstrBot pipeline (the waking check, the     *)
(* scheduler and its handlers, message sending) is external: it takes any  *)
(* time, succeeds or fails as it likes, may raise CancelledError of its    *)
(* own accord, and may catch the one that cancels it and go on.            *)
(***************************************************************************)
EXTENDS Naturals

CONSTANTS
  Calls,        \* calls of execute()
  External,     \* those of a command that an external bot framework answers
  AutoWindow,   \* ai_command_auto_wait_seconds, in ticks
  CustomWindow, \* wait_seconds of custom calls, in ticks
  Modes,        \* bound: the result modes asked for
  Notices       \* enable_ai_command_result: are notices sent to the chat?

ASSUME ExecutorAssumption ==
  /\ External \subseteq Calls
  /\ AutoWindow \in Nat \ {0}
  /\ CustomWindow \in Nat \ {0}
  /\ Modes \subseteq {"auto", "background", "custom"}
  /\ Notices \in BOOLEAN

VARIABLES
  tool,       \* where execute() of each call is suspended
  request,    \* result_mode
  elapsed,    \* ticks since its task was created, capped at its window
  task,       \* life of its background task
  state,      \* its _CommandTaskState
  cancelling, \* tasks with an undelivered cancel()
  swallowed,  \* tasks that were delivered one and go on
  held,       \* _background_tasks
  shutdown,   \* "up", "draining" (in gather) or "down"
  awaited,    \* the tasks that gather waits for
  outcome     \* what execute() returned

vars == <<tool, request, elapsed, task, state, cancelling, swallowed, held,
          shutdown, awaited, outcome>>

taskVars == <<task, state, cancelling, swallowed, held>>
toolVars == <<tool, request, elapsed, outcome>>
shutdownVars == <<shutdown, awaited>>

Outcome(s, dispatched) == [state |-> s, dispatched |-> dispatched]
NoOutcome == Outcome("none", FALSE)

(* A task is done(): its coroutine returned, or it ended by CancelledError *)
(* or by an exception that cleanup() raised in the finally block.          *)
Ends == {"finished", "aborted"}

NoRequest == "none"

FreshState == [started |-> FALSE, scheduler_initialized |-> FALSE,
               error |-> FALSE, messages |-> FALSE]

TypeOK ==
  /\ tool \in [Calls -> {"idle", "checking", "starting", "notifying",
                         "listening", "returned", "cancelled"}]
  /\ request \in [Calls -> Modes \cup {NoRequest}]
  /\ elapsed \in [Calls -> Nat]
  /\ task \in [Calls -> {"none", "created", "initializing", "processing",
                         "reporting"} \cup Ends]
  /\ state \in [Calls -> [started : BOOLEAN, scheduler_initialized : BOOLEAN,
                          error : BOOLEAN, messages : BOOLEAN]]
  /\ cancelling \subseteq Calls
  /\ swallowed \subseteq Calls
  /\ held \subseteq Calls
  /\ shutdown \in {"up", "draining", "down"}
  /\ awaited \subseteq Calls
  /\ outcome \in [Calls -> [state : {"none", "rejected", "failed", "accepted",
                                     "external_dispatched", "completed"},
                            dispatched : BOOLEAN]]

Init ==
  /\ tool = [c \in Calls |-> "idle"]
  /\ request = [c \in Calls |-> NoRequest]
  /\ elapsed = [c \in Calls |-> 0]
  /\ task = [c \in Calls |-> "none"]
  /\ state = [c \in Calls |-> FreshState]
  /\ cancelling = {}
  /\ swallowed = {}
  /\ held = {}
  /\ shutdown = "up"
  /\ awaited = {}
  /\ outcome = [c \in Calls |-> NoOutcome]

-----------------------------------------------------------------------------
(* Derived state *)

Done(c) == task[c] \in Ends
Alive(c) == task[c] # "none" /\ ~Done(c)

(* background has no result window and borrows auto's for the start-up wait. *)
Window(c) == IF request[c] = "custom" THEN CustomWindow ELSE AutoWindow
TimedOut(c) == elapsed[c] >= Window(c)

(* Fault: the start-up wait is given no timeout. *)
StartWaitUnbounded(c) == Done(c) /\ state[c].started

(* asyncio.wait({task, start_waiter}) asks for both of them to complete. *)
StartWaitOver(c) == (Done(c) /\ state[c].started) \/ TimedOut(c)
ListenOver(c) == Done(c) \/ TimedOut(c)

(* Faults: task.done() is looked at before the error; so is the start-up.  *)
ResultDoneFirst(c) ==
  IF Done(c) THEN Outcome("completed", TRUE)
  ELSE Outcome(IF state[c].error THEN "failed" ELSE "accepted", TRUE)

ResultStartUpFirst(c) ==
  IF ~state[c].scheduler_initialized THEN Outcome("accepted", TRUE)
  ELSE Outcome(IF state[c].error THEN "failed"
               ELSE IF Done(c) THEN "completed" ELSE "accepted", TRUE)

(* _execution_result *)
ExecutionResult(c) ==
  CASE state[c].error -> Outcome("failed", TRUE)
    [] ~state[c].error /\ ~state[c].scheduler_initialized ->
         Outcome("accepted", TRUE)
    [] OTHER ->
         IF c \in External /\ ~state[c].messages
           THEN Outcome("external_dispatched", TRUE)
           ELSE Outcome(IF Done(c) THEN "completed" ELSE "accepted", TRUE)

(* Is a second, listening wait due? *)
Listens(c) ==
  /\ request[c] # "background"
  /\ ~Done(c)
  /\ ~state[c].error
  /\ state[c].scheduler_initialized

-----------------------------------------------------------------------------
(* The tool coroutine: execute() *)

Resume(c, to) ==
  /\ tool' = [tool EXCEPT ![c] = to]
  /\ UNCHANGED <<request, elapsed, outcome>>

(* The coroutine ends, and its locals with it. *)
Leave(c, to) ==
  /\ tool' = [tool EXCEPT ![c] = to]
  /\ request' = [request EXCEPT ![c] = NoRequest]
  /\ elapsed' = [elapsed EXCEPT ![c] = 0]

Return(c, o) ==
  /\ Leave(c, "returned")
  /\ outcome' = [outcome EXCEPT ![c] = o]

Begin(c) ==
  /\ tool[c] = "idle"
  /\ shutdown # "down"
  /\ tool' = [tool EXCEPT ![c] = "checking"]
  /\ \E mode \in Modes : request' = [request EXCEPT ![c] = mode]
  /\ UNCHANGED <<elapsed, outcome, taskVars, shutdownVars>>

(* Bad parameters, no handler, a blacklisted plugin, a stopped pipeline. *)
Reject(c) ==
  /\ tool[c] = "checking"
  /\ Return(c, Outcome("rejected", FALSE))
  /\ UNCHANGED <<taskVars, shutdownVars>>

(* Building the event or the waking check raises. *)
FailBeforeDispatch(c) ==
  /\ tool[c] = "checking"
  /\ Return(c, Outcome("failed", FALSE))
  /\ UNCHANGED <<taskVars, shutdownVars>>

(* Fault: the task is not added to _background_tasks. *)
ScheduleUnreferenced(c) ==
  /\ tool[c] = "checking"
  /\ Resume(c, "starting")
  /\ task' = [task EXCEPT ![c] = "created"]
  /\ UNCHANGED <<state, cancelling, swallowed, held, shutdownVars>>

(* _schedule_command_task *)
Schedule(c) ==
  /\ tool[c] = "checking"
  /\ Resume(c, "starting")
  /\ task' = [task EXCEPT ![c] = "created"]
  /\ held' = held \cup {c}
  /\ UNCHANGED <<state, cancelling, swallowed, shutdownVars>>

(* Past the start-up wait and its notice: listen, or return at once. *)
ListenOrReturn(c) ==
  IF Listens(c)
    THEN Resume(c, "listening")
    ELSE Return(c, ExecutionResult(c))

StartWaitEnds(c) ==
  /\ tool[c] = "starting"
  /\ StartWaitOver(c)
  /\ IF Notices /\ ~state[c].error /\ state[c].scheduler_initialized
       THEN Resume(c, "notifying")
       ELSE ListenOrReturn(c)
  /\ UNCHANGED <<taskVars, shutdownVars>>

(* Fault: a notice that cannot be sent reaches the outer except. *)
NoticeSentOrRaised(c) ==
  /\ tool[c] = "notifying"
  /\ ListenOrReturn(c) \/ Return(c, Outcome("failed", FALSE))
  /\ UNCHANGED <<taskVars, shutdownVars>>

(* The notice was sent, or failed to be: both go on. *)
NoticeSent(c) ==
  /\ tool[c] = "notifying"
  /\ ListenOrReturn(c)
  /\ UNCHANGED <<taskVars, shutdownVars>>

ListenEnds(c) ==
  /\ tool[c] = "listening"
  /\ ListenOver(c)
  /\ Return(c, ExecutionResult(c))
  /\ UNCHANGED <<taskVars, shutdownVars>>

(* The agent run that awaits the tool is cancelled. *)
CancelTool(c) ==
  /\ tool[c] \in {"checking", "starting", "notifying", "listening"}
  /\ Leave(c, "cancelled")
  /\ UNCHANGED <<outcome, taskVars, shutdownVars>>

-----------------------------------------------------------------------------
(* The background task: _dispatch_command_task *)

TaskGoesTo(c, to) ==
  /\ task' = [task EXCEPT ![c] = to]
  /\ held' = IF to \in Ends THEN held \ {c} ELSE held  \* the done callback
  /\ swallowed' = IF to \in Ends THEN swallowed \ {c} ELSE swallowed
  /\ UNCHANGED <<toolVars, shutdownVars>>

(* A step of the task: it runs only while no cancel() awaits delivery. *)
TaskStep(c, from, to) ==
  /\ task[c] = from
  /\ c \notin cancelling
  /\ TaskGoesTo(c, to)
  /\ UNCHANGED cancelling

TaskBegins(c) ==
  /\ TaskStep(c, "created", "initializing")
  /\ UNCHANGED state

SchedulerInitialized(c) ==
  /\ TaskStep(c, "initializing", "processing")
  /\ state' = [state EXCEPT ![c].scheduler_initialized = TRUE,
                            ![c].started = TRUE]

(* The handler sends through the synthetic event, which captures it. *)
HandlerSends(c) ==
  /\ TaskStep(c, "processing", "processing")
  /\ state' = [state EXCEPT ![c].messages = TRUE]

HandlerReturns(c) ==
  /\ TaskStep(c, "processing", "finished")
  /\ UNCHANGED state

(* initialize() raises, a handler raises or the pipeline was stopped: the  *)
(* error is recorded, then a notice of it may be sent.                     *)
TaskFails(c) ==
  /\ \E from \in {"initializing", "processing"} :
       TaskStep(c, from, IF Notices THEN "reporting" ELSE "finished")
  /\ state' = [state EXCEPT ![c].error = TRUE, ![c].started = TRUE]

FailureReported(c) ==
  /\ TaskStep(c, "reporting", "finished")
  /\ UNCHANGED state

(* The finally block sets started, whatever the end. *)
StartedSet(c) == state' = [state EXCEPT ![c].started = TRUE]

(* Code of the pipeline raises CancelledError though nobody cancelled the  *)
(* task. It is no Exception: the error stays as it is.                     *)
PipelineCancelled(c) ==
  /\ \E from \in {"initializing", "processing", "reporting"} :
       TaskStep(c, from, "aborted")
  /\ StartedSet(c)

(* cleanup() raises in the finally block, after a return, a failure or a   *)
(* CancelledError of the pipeline; no notice is sent then.                 *)
CleanupRaises(c) ==
  /\ \E from \in {"initializing", "processing"} : TaskStep(c, from, "aborted")
  /\ StartedSet(c) \/ state' = [state EXCEPT ![c].error = TRUE, ![c].started = TRUE]

(* A cancel() is delivered: CancelledError is raised where the task awaits. *)
Delivered(c) ==
  /\ c \in cancelling
  /\ cancelling' = cancelling \ {c}

(* The task ends by it, or by cleanup() on the way: no error is recorded,  *)
(* and started is set unless the task never began.                         *)
CancelDelivered(c) ==
  /\ Delivered(c)
  /\ TaskGoesTo(c, "aborted")
  /\ state' = [state EXCEPT ![c].started = @ \/ task[c] # "created"]

(* The awaited code catches it, or awaits in a finally block: the task goes *)
(* on, and nobody cancels it again.                                        *)
CancelSwallowed(c) ==
  /\ Delivered(c)
  /\ task[c] # "created"
  /\ swallowed' = swallowed \cup {c}
  /\ UNCHANGED <<task, state, held, toolVars, shutdownVars>>

-----------------------------------------------------------------------------
(* shutdown() *)

(* Fault: the tasks are awaited but not cancelled. *)
ShutdownWithoutCancel ==
  /\ shutdown = "up"
  /\ shutdown' = IF held = {} THEN "down" ELSE "draining"
  /\ awaited' = held
  /\ UNCHANGED <<toolVars, taskVars>>

ShutdownBegins ==
  /\ shutdown = "up"
  /\ shutdown' = IF held = {} THEN "down" ELSE "draining"
  /\ awaited' = held
  /\ cancelling' = held
  /\ UNCHANGED <<toolVars, task, state, swallowed, held>>

ShutdownEnds ==
  /\ shutdown = "draining"
  /\ \A c \in awaited : Done(c)
  /\ shutdown' = "down"
  /\ held' = {}
  /\ awaited' = {}
  /\ UNCHANGED <<toolVars, task, state, cancelling, swallowed>>

-----------------------------------------------------------------------------
(* Time *)

Waiting(c) == tool[c] \in {"starting", "notifying", "listening"}

Ready ==
  \/ cancelling # {}
  \/ \E c \in Calls :
       \/ task[c] = "created"
       \/ tool[c] = "starting" /\ StartWaitOver(c)
       \/ tool[c] = "listening" /\ ListenOver(c)
  \/ shutdown = "draining" /\ \A c \in awaited : Done(c)

Tick ==
  /\ ~Ready
  /\ elapsed' = [c \in Calls |-> IF Waiting(c) /\ ~TimedOut(c)
                                   THEN elapsed[c] + 1 ELSE elapsed[c]]
  /\ UNCHANGED <<tool, request, outcome, taskVars, shutdownVars>>

TaskMoves(c) ==
  \/ TaskBegins(c) \/ SchedulerInitialized(c) \/ HandlerSends(c)
  \/ HandlerReturns(c) \/ TaskFails(c) \/ FailureReported(c)
  \/ PipelineCancelled(c) \/ CleanupRaises(c)
  \/ CancelDelivered(c) \/ CancelSwallowed(c)

ToolStep(c) ==
  \/ Reject(c) \/ FailBeforeDispatch(c) \/ Schedule(c)
  \/ StartWaitEnds(c) \/ NoticeSent(c) \/ ListenEnds(c)

Next ==
  \/ \E c \in Calls :
       \/ Begin(c)
       \/ ToolStep(c)
       \/ CancelTool(c)
       \/ TaskMoves(c)
  \/ ShutdownBegins
  \/ ShutdownEnds
  \/ Tick

(* The loop runs what is ready and time passes. The checks and the notices *)
(* a tool awaits are taken to end; a scheduler or a handler may hang, also *)
(* after a cancellation, which is delivered and no more than that; nobody  *)
(* is obliged to call, to cancel or to shut down.                          *)
Fairness ==
  /\ \A c \in Calls :
       /\ WF_vars(ToolStep(c))
       /\ WF_vars(TaskBegins(c))
       /\ WF_vars(CancelDelivered(c) \/ CancelSwallowed(c))
  /\ WF_vars(ShutdownEnds)
  /\ WF_vars(Tick)

Spec == Init /\ [][Next]_vars /\ Fairness

-----------------------------------------------------------------------------
(* Properties *)

(* A task reported completed is over and recorded no error: the error is   *)
(* looked at before task.done(), and an unfinished task is only accepted.  *)
(* That it ran to its end is more than the code says: a task that ended by *)
(* CancelledError, or by cleanup(), recorded no error either; see          *)
(* CompletedMeansFinished.                                                 *)
CompletedIsOver ==
  \A c \in Calls : outcome[c].state = "completed" => Done(c) /\ ~state[c].error

(* A command that goes on stays referenced until it ends, and is dropped   *)
(* then: the end of a listening window, the cancellation of the tool and a *)
(* failed notice leave the background task, and the reference to it, alone. *)
UnfinishedTasksHeld ==
  shutdown = "up" => held = { c \in Calls : Alive(c) }

(* A caller that is told of no failure although its task did fail learned  *)
(* that the task was still running: a failure seen before the reply is     *)
(* never reported as anything else.                                        *)
FailureNotHidden ==
  [][\A c \in Calls : outcome'[c] # outcome[c] /\ state[c].error
                        => outcome'[c].state = "failed"]_vars

(* Whatever the handler does, hanging included, a call that was begun      *)
(* returns or is cancelled: no mode waits for ever.                        *)
ToolReturns ==
  \A c \in Calls :
    tool[c] = "checking" ~> tool[c] \in {"returned", "cancelled"}

(* shutdown() ends although handlers hang, if those that catch their       *)
(* CancelledError end after all: gather() waits for them without a limit.  *)
ShutdownTerminates ==
  (\A c \in Calls : c \in swallowed ~> c \notin swallowed)
    => ((shutdown = "draining") ~> (shutdown = "down"))

(* The executor keeps what CommandDispatch promises; in particular the     *)
(* dispatched flag of an outcome tells whether a task was created.         *)
Promise == INSTANCE CommandDispatch WITH
  stage <- [c \in Calls |->
              IF tool[c] \in {"starting", "notifying", "listening"}
                THEN "dispatched" ELSE tool[c]],
  scheduled <- { c \in Calls : task[c] # "none" }

ImplementsDispatch == Promise!DispatchSpec

(* main.py:160 tells the agent that completed means the command completed. *)
(* A task that was cancelled, by shutdown() or by its own pipeline, or that *)
(* ended by cleanup(), is done() and has no error, so a tool that still    *)
(* listens reports it as completed.                                        *)
CompletedMeansFinished ==
  \A c \in Calls : outcome[c].state = "completed" => task[c] = "finished"

(* executor.py:57: shutdown cancels and collects every background task.    *)
(* A tool that was still checking when the tasks were listed schedules its *)
(* task afterwards, and nobody cancels that one.                           *)
NothingRunsAfterShutdown ==
  shutdown = "down" => \A c \in Calls : ~Alive(c)

(* main.py:623: background returns as soon as the scheduler has started.   *)
(* The start-up wait asks for the task as well as for the start event, so  *)
(* time passes with the scheduler started and the tool still waiting.      *)
BackgroundReturnsOnStart ==
  [][\A c \in Calls :
       request[c] = "background" /\ tool[c] = "starting"
       /\ state[c].started => elapsed'[c] = elapsed[c]]_vars
=============================================================================
