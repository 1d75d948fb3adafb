----------------------- MODULE CommandExecutor_proofs -----------------------
(***************************************************************************)
(* The safety of the executor for any calls, windows, modes and setting of *)
(* notices, and that it implements CommandDispatch.                        *)
(*                                                                         *)
(* A tool and its task are two processes that only meet in the flags of    *)
(* the task's state.  The invariant says how far one tells of the other: a *)
(* task exists exactly once the tool is past its checks, a cancellation    *)
(* only awaits tasks that are alive, while the plugin is up there is none, *)
(* and until it is down the references are exactly those to tasks alive.   *)
(***************************************************************************)
EXTENDS CommandExecutor, TLAPS

Listening == {"starting", "notifying", "listening"}

TaskFollowsTool ==
  \A c \in Calls : /\ tool[c] \in {"idle", "checking"} => task[c] = "none"
                   /\ tool[c] \in Listening => task[c] # "none"

NoTaskNoError == \A c \in Calls : task[c] = "none" => ~state[c].error

CancellingAlive == \A c \in cancelling : Alive(c)

HeldAreAlive == shutdown # "down" => held = { c \in Calls : Alive(c) }

Inv ==
  /\ TypeOK
  /\ TaskFollowsTool
  /\ NoTaskNoError
  /\ CancellingAlive
  /\ HeldAreAlive
  /\ CompletedIsOver

-----------------------------------------------------------------------------
(* What _execution_result says *)

LEMMA ResultShape ==
  ASSUME NEW c \in Calls, state[c].error \in BOOLEAN
  PROVE  /\ ExecutionResult(c) \in Promise!Dispatched
         /\ ExecutionResult(c).state = "completed" => Done(c) /\ ~state[c].error
         /\ state[c].error => ExecutionResult(c).state = "failed"
  <1>1. CASE state[c].error
    BY <1>1 DEF ExecutionResult, Outcome, Promise!Dispatched, Promise!Outcome
  <1>2. CASE ~state[c].error /\ ~state[c].scheduler_initialized
    BY <1>2 DEF ExecutionResult, Outcome, Promise!Dispatched, Promise!Outcome
  <1>3. CASE ~state[c].error /\ state[c].scheduler_initialized
    BY <1>3 DEF ExecutionResult, Outcome, Promise!Dispatched, Promise!Outcome
  <1>4. QED
    BY <1>1, <1>2, <1>3

Outcomes == [state : {"none", "rejected", "failed", "accepted",
                      "external_dispatched", "completed"},
             dispatched : BOOLEAN]

LEMMA OutcomeInOutcomes ==
  ASSUME NEW s \in {"none", "rejected", "failed", "accepted",
                    "external_dispatched", "completed"},
         NEW b \in BOOLEAN
  PROVE  Outcome(s, b) \in Outcomes
  BY DEF Outcome, Outcomes

LEMMA OutcomeTyped ==
  ASSUME NEW o \in Promise!Dispatched \cup { Outcome("rejected", FALSE), Outcome("failed", FALSE) }
  PROVE  o \in Outcomes
  <1>1. CASE o \in Promise!Dispatched
    <2>1. PICK s \in {"completed", "accepted", "external_dispatched", "failed"} :
            o = Outcome(s, TRUE)
      BY <1>1 DEF Promise!Dispatched, Promise!Outcome, Outcome
    <2>2. QED
      BY <2>1, OutcomeInOutcomes
  <1>2. CASE o \in { Outcome("rejected", FALSE), Outcome("failed", FALSE) }
    BY <1>2, OutcomeInOutcomes
  <1>3. QED
    BY <1>1, <1>2

-----------------------------------------------------------------------------
(* Steps of the tool *)

(* The tool of c goes on or returns o; no task is touched. *)
ToolGoes(c, to, o) ==
  /\ tool' = [tool EXCEPT ![c] = to]
  /\ outcome' = IF to = "returned" THEN [outcome EXCEPT ![c] = o] ELSE outcome
  /\ request' \in [Calls -> Modes \cup {NoRequest}]
  /\ elapsed' \in [Calls -> Nat]
  /\ UNCHANGED <<taskVars, shutdownVars>>

LEMMA ReturnGoes ==
  ASSUME TypeOK, NEW c \in Calls, NEW o, Return(c, o), UNCHANGED <<taskVars, shutdownVars>>
  PROVE  ToolGoes(c, "returned", o)
  BY DEF TypeOK, Return, Leave, ToolGoes

LEMMA ResumeGoes ==
  ASSUME TypeOK, NEW c \in Calls, NEW to \in Listening, NEW o,
         Resume(c, to), UNCHANGED <<taskVars, shutdownVars>>
  PROVE  ToolGoes(c, to, o)
  BY DEF TypeOK, Resume, ToolGoes, Listening

(* Such a step keeps the invariant if the tool is past its checks just     *)
(* when it was, and what it returns is true.                               *)
LEMMA ToolGoesInv ==
  ASSUME Inv, NEW c \in Calls, NEW o, NEW to \in {"checking", "notifying", "listening",
                                                  "returned", "cancelled"},
         ToolGoes(c, to, o),
         to = "checking" => tool[c] = "idle",
         to \in Listening => tool[c] \in Listening,
         to = "returned" =>
           /\ o \in Promise!Dispatched \cup { Outcome("rejected", FALSE), Outcome("failed", FALSE) }
           /\ o.state = "completed" => Done(c) /\ ~state[c].error
  PROVE  Inv'
  <1>. USE DEF ToolGoes, taskVars, shutdownVars
  <1>1. TypeOK'
    <2>1. to = "returned" => o \in Outcomes
      BY OutcomeTyped
    <2>2. QED
      BY <2>1 DEF Inv, TypeOK, Outcomes
  <1>2. TaskFollowsTool'
    BY DEF Inv, TypeOK, TaskFollowsTool, Listening
  <1>3. NoTaskNoError' /\ CancellingAlive' /\ HeldAreAlive'
    BY DEF Inv, NoTaskNoError, CancellingAlive, HeldAreAlive, Alive, Done
  <1>4. CompletedIsOver'
    <2>. SUFFICES ASSUME NEW d \in Calls, outcome'[d].state = "completed"
                  PROVE  Done(d) /\ ~state[d].error
      BY DEF CompletedIsOver, Done
    <2>1. CASE outcome'[d] = outcome[d]
      BY <2>1 DEF Inv, CompletedIsOver
    <2>2. CASE outcome'[d] # outcome[d]
      <3>1. d = c /\ to = "returned" /\ outcome'[d] = o
        BY <2>2 DEF Inv, TypeOK
      <3>2. Done(c) /\ ~state[c].error
        BY <3>1
      <3>3. QED
        BY <3>1, <3>2
    <2>3. QED
      BY <2>1, <2>2
  <1>5. QED
    BY <1>1, <1>2, <1>3, <1>4 DEF Inv

LEMMA BeginInv ==
  ASSUME Inv, NEW c \in Calls, Begin(c)
  PROVE  Inv'
  <1>1. ToolGoes(c, "checking", NoOutcome) /\ tool[c] = "idle"
    BY DEF Inv, TypeOK, Begin, ToolGoes
  <1>2. QED
    BY <1>1, ToolGoesInv DEF Listening

LEMMA DeclineInv ==
  ASSUME Inv, NEW c \in Calls, Reject(c) \/ FailBeforeDispatch(c)
  PROVE  Inv'
  <1>1. PICK s \in {"rejected", "failed"} :
          Return(c, Outcome(s, FALSE)) /\ UNCHANGED <<taskVars, shutdownVars>>
    BY DEF Reject, FailBeforeDispatch
  <1>2. ToolGoes(c, "returned", Outcome(s, FALSE))
    BY <1>1, ReturnGoes DEF Inv
  <1>3. Outcome(s, FALSE).state # "completed"
    BY DEF Outcome
  <1>4. QED
    BY <1>2, <1>3, ToolGoesInv DEF Listening

(* Past the checks: the tool goes on listening or returns what             *)
(* _execution_result says.                                                 *)
WaitOver(c) ==
  /\ tool[c] \in Listening
  /\ \/ \E to \in {"notifying", "listening"} : Resume(c, to)
     \/ Return(c, ExecutionResult(c))
  /\ UNCHANGED <<taskVars, shutdownVars>>

LEMMA WaitSteps ==
  ASSUME NEW c \in Calls, StartWaitEnds(c) \/ NoticeSent(c) \/ ListenEnds(c)
  PROVE  WaitOver(c)
  BY DEF StartWaitEnds, NoticeSent, ListenEnds, ListenOrReturn, WaitOver, Listening

LEMMA WaitInv ==
  ASSUME Inv, NEW c \in Calls, WaitOver(c)
  PROVE  Inv'
  <1>1. ASSUME NEW to \in {"notifying", "listening"}, Resume(c, to) PROVE Inv'
    <2>1. ToolGoes(c, to, NoOutcome)
      BY <1>1, ResumeGoes DEF Inv, WaitOver, Listening
    <2>2. QED
      BY <2>1, ToolGoesInv DEF WaitOver, Listening
  <1>2. ASSUME Return(c, ExecutionResult(c)) PROVE Inv'
    <2>1. ToolGoes(c, "returned", ExecutionResult(c))
      BY <1>2, ReturnGoes DEF Inv, WaitOver
    <2>2. state[c].error \in BOOLEAN
      BY DEF Inv, TypeOK
    <2>3. QED
      BY <2>1, <2>2, ResultShape, ToolGoesInv DEF Listening
  <1>3. QED
    BY <1>1, <1>2 DEF WaitOver

LEMMA CancelToolInv ==
  ASSUME Inv, NEW c \in Calls, CancelTool(c)
  PROVE  Inv'
  <1>1. ToolGoes(c, "cancelled", NoOutcome)
    BY DEF Inv, TypeOK, CancelTool, Leave, ToolGoes
  <1>2. QED
    BY <1>1, ToolGoesInv DEF Listening

LEMMA ScheduleInv ==
  ASSUME Inv, NEW c \in Calls, Schedule(c)
  PROVE  Inv'
  <1>. USE DEF Schedule, Resume, shutdownVars
  <1>1. TypeOK'
    BY DEF Inv, TypeOK
  <1>2. \A d \in Calls : task'[d] = IF d = c THEN "created" ELSE task[d]
    BY DEF Inv, TypeOK
  <1>3. \A d \in Calls : tool'[d] = IF d = c THEN "starting" ELSE tool[d]
    BY DEF Inv, TypeOK
  <1>4. TaskFollowsTool' /\ NoTaskNoError'
    BY <1>2, <1>3 DEF Inv, TaskFollowsTool, NoTaskNoError, Listening
  <1>5. cancelling \subseteq Calls
    BY DEF Inv, TypeOK
  <1>6. CancellingAlive'
    BY <1>2, <1>5 DEF Inv, CancellingAlive, Alive, Done, Ends
  <1>7. HeldAreAlive'
    BY <1>2 DEF Inv, HeldAreAlive, Alive, Done, Ends
  <1>8. CompletedIsOver'
    <2>1. task[c] = "none"
      BY DEF Inv, TaskFollowsTool
    <2>2. QED
      BY <1>2, <2>1 DEF Inv, CompletedIsOver, Done, Ends
  <1>9. QED
    BY <1>1, <1>4, <1>6, <1>7, <1>8 DEF Inv

-----------------------------------------------------------------------------
(* Steps of the task *)

States == [started : BOOLEAN, scheduler_initialized : BOOLEAN,
           error : BOOLEAN, messages : BOOLEAN]

(* The task of c went to one of the points of its life, or is where it was *)
(* with its cancel() delivered; the other tasks keep their state.          *)
LEMMA TaskGoesInv ==
  ASSUME Inv, NEW c \in Calls, Alive(c),
         NEW to \in {"initializing", "processing", "reporting"} \cup Ends,
         TaskGoesTo(c, to),
         \/ cancelling' = cancelling /\ c \notin cancelling
         \/ cancelling' = cancelling \ {c},
         state' \in [Calls -> States],
         \A d \in Calls : d # c => state'[d] = state[d]
  PROVE  Inv'
  <1>. USE DEF TaskGoesTo, toolVars, shutdownVars
  <1>1. TypeOK'
    BY DEF Inv, TypeOK, States
  <1>2. \A d \in Calls : task'[d] = IF d = c THEN to ELSE task[d]
    BY DEF Inv, TypeOK
  <1>3. TaskFollowsTool' /\ NoTaskNoError'
    BY <1>2 DEF Inv, TaskFollowsTool, NoTaskNoError, Alive, Ends
  <1>4. CancellingAlive'
    BY <1>2 DEF Inv, TypeOK, CancellingAlive, Alive, Done
  <1>5. HeldAreAlive'
    BY <1>2 DEF Inv, HeldAreAlive, Alive, Done, Ends
  <1>6. CompletedIsOver'
    <2>. SUFFICES ASSUME NEW d \in Calls, outcome[d].state = "completed"
                  PROVE  task'[d] \in Ends /\ ~state'[d].error
      BY DEF CompletedIsOver, Done
    <2>1. Done(d) /\ ~state[d].error
      BY DEF Inv, CompletedIsOver
    <2>2. d # c
      BY <2>1 DEF Alive, Done
    <2>3. QED
      BY <1>2, <2>1, <2>2 DEF Done
  <1>7. QED
    BY <1>1, <1>3, <1>4, <1>5, <1>6 DEF Inv

(* The flags that steps set. *)
LEMMA FlagsSet ==
  ASSUME Inv, NEW c \in Calls, NEW begun \in BOOLEAN,
         \/ UNCHANGED state
         \/ StartedSet(c)
         \/ state' = [state EXCEPT ![c].started = begun]
         \/ state' = [state EXCEPT ![c].error = TRUE, ![c].started = TRUE]
         \/ state' = [state EXCEPT ![c].scheduler_initialized = TRUE, ![c].started = TRUE]
         \/ state' = [state EXCEPT ![c].messages = TRUE]
  PROVE  /\ state' \in [Calls -> States]
         /\ \A d \in Calls : d # c => state'[d] = state[d]
  <1>1. state \in [Calls -> States]
    BY DEF Inv, TypeOK, States
  <1>2. state[c] \in States
    BY <1>1
  <1>3. ASSUME NEW new \in States, state' = [state EXCEPT ![c] = new]
        PROVE  /\ state' \in [Calls -> States]
               /\ \A d \in Calls : d # c => state'[d] = state[d]
    BY <1>1, <1>3
  <1>4. CASE UNCHANGED state
    BY <1>1, <1>4
  <1>5. CASE state' = [state EXCEPT ![c].started = begun]
    <2>1. [state[c] EXCEPT !.started = begun] \in States
      BY <1>2 DEF States
    <2>2. QED
      BY <1>3, <1>5, <2>1
  <1>6. CASE StartedSet(c)
    <2>1. [state[c] EXCEPT !.started = TRUE] \in States
      BY <1>2 DEF States
    <2>2. QED
      BY <1>3, <1>6, <2>1 DEF StartedSet
  <1>7. CASE state' = [state EXCEPT ![c].error = TRUE, ![c].started = TRUE]
    <2>1. [state[c] EXCEPT !.error = TRUE, !.started = TRUE] \in States
      BY <1>2 DEF States
    <2>2. state' = [state EXCEPT ![c] = [state[c] EXCEPT !.error = TRUE, !.started = TRUE]]
      BY <1>1, <1>7
    <2>3. QED
      BY <1>3, <2>1, <2>2
  <1>8. CASE state' = [state EXCEPT ![c].scheduler_initialized = TRUE, ![c].started = TRUE]
    <2>1. [state[c] EXCEPT !.scheduler_initialized = TRUE, !.started = TRUE] \in States
      BY <1>2 DEF States
    <2>2. state' = [state EXCEPT ![c] = [state[c] EXCEPT !.scheduler_initialized = TRUE,
                                                         !.started = TRUE]]
      BY <1>1, <1>8
    <2>3. QED
      BY <1>3, <2>1, <2>2
  <1>9. CASE state' = [state EXCEPT ![c].messages = TRUE]
    <2>1. [state[c] EXCEPT !.messages = TRUE] \in States
      BY <1>2 DEF States
    <2>2. QED
      BY <1>3, <1>9, <2>1
  <1>10. QED
    BY <1>4, <1>5, <1>6, <1>7, <1>8, <1>9

LEMMA TaskStepInv ==
  ASSUME Inv, NEW c \in Calls, NEW from \in {"created", "initializing", "processing", "reporting"},
         NEW to \in {"initializing", "processing", "reporting"} \cup Ends,
         TaskStep(c, from, to),
         state' \in [Calls -> States],
         \A d \in Calls : d # c => state'[d] = state[d]
  PROVE  Inv'
  <1>1. Alive(c) /\ TaskGoesTo(c, to) /\ c \notin cancelling /\ cancelling' = cancelling
    BY DEF TaskStep, Alive, Done, Ends
  <1>2. QED
    BY <1>1, TaskGoesInv

(* The steps of a task that no cancel() reaches. *)
Undelivered(c) ==
  \/ TaskBegins(c) \/ SchedulerInitialized(c) \/ HandlerSends(c)
  \/ HandlerReturns(c) \/ TaskFails(c) \/ FailureReported(c)
  \/ PipelineCancelled(c) \/ CleanupRaises(c)

LEMMA UndeliveredSteps ==
  ASSUME Inv, NEW c \in Calls, Undelivered(c)
  PROVE  /\ \E from \in {"created", "initializing", "processing", "reporting"},
                to \in {"initializing", "processing", "reporting"} \cup Ends :
              TaskStep(c, from, to)
         /\ state' \in [Calls -> States]
         /\ \A d \in Calls : d # c => state'[d] = state[d]
  <1>1. \E from \in {"created", "initializing", "processing", "reporting"},
           to \in {"initializing", "processing", "reporting"} \cup Ends :
          TaskStep(c, from, to)
    <2>1. CASE TaskBegins(c) \/ SchedulerInitialized(c) \/ HandlerSends(c)
      BY <2>1 DEF TaskBegins, SchedulerInitialized, HandlerSends
    <2>2. CASE HandlerReturns(c) \/ TaskFails(c) \/ FailureReported(c)
      BY <2>2 DEF HandlerReturns, TaskFails, FailureReported, Ends
    <2>3. CASE PipelineCancelled(c) \/ CleanupRaises(c)
      BY <2>3 DEF PipelineCancelled, CleanupRaises, Ends
    <2>4. QED
      BY <2>1, <2>2, <2>3 DEF Undelivered
  <1>2. \/ UNCHANGED state
        \/ StartedSet(c)
        \/ state' = [state EXCEPT ![c].error = TRUE, ![c].started = TRUE]
        \/ state' = [state EXCEPT ![c].scheduler_initialized = TRUE, ![c].started = TRUE]
        \/ state' = [state EXCEPT ![c].messages = TRUE]
    BY DEF Undelivered, TaskBegins, SchedulerInitialized, HandlerSends, HandlerReturns, TaskFails,
           FailureReported, PipelineCancelled, CleanupRaises
  <1>3. QED
    BY <1>1, <1>2, FlagsSet

LEMMA TaskInv ==
  ASSUME Inv, NEW c \in Calls, Undelivered(c)
  PROVE  Inv'
  BY UndeliveredSteps, TaskStepInv

LEMMA CancelDeliveredInv ==
  ASSUME Inv, NEW c \in Calls, CancelDelivered(c)
  PROVE  Inv'
  <1>. DEFINE begun == state[c].started \/ task[c] # "created"
  <1>1. begun \in BOOLEAN
    OBVIOUS
  <1>2. Alive(c)
    BY DEF Inv, CancellingAlive, CancelDelivered, Delivered
  <1>3. state' = [state EXCEPT ![c].started = begun]
    BY DEF CancelDelivered
  <1>. HIDE DEF begun
  <1>4. state' \in [Calls -> States] /\ \A d \in Calls : d # c => state'[d] = state[d]
    BY <1>1, <1>3, FlagsSet
  <1>5. TaskGoesTo(c, "aborted") /\ cancelling' = cancelling \ {c}
    BY DEF CancelDelivered, Delivered
  <1>6. "aborted" \in Ends
    BY DEF Ends
  <1>7. QED
    BY <1>2, <1>4, <1>5, <1>6, TaskGoesInv

LEMMA CancelSwallowedInv ==
  ASSUME Inv, NEW c \in Calls, CancelSwallowed(c)
  PROVE  Inv'
  <1>. USE DEF CancelSwallowed, Delivered, toolVars, shutdownVars
  <1>1. TypeOK'
    BY DEF Inv, TypeOK
  <1>2. CancellingAlive'
    BY DEF Inv, CancellingAlive, Alive, Done
  <1>3. QED
    BY <1>1, <1>2 DEF Inv, TaskFollowsTool, NoTaskNoError, HeldAreAlive, CompletedIsOver,
                      Alive, Done

-----------------------------------------------------------------------------
(* Shutdown and time *)

LEMMA ShutdownInv ==
  ASSUME Inv, ShutdownBegins \/ ShutdownEnds
  PROVE  Inv'
  <1>. USE DEF ShutdownBegins, ShutdownEnds, toolVars
  <1>1. TypeOK'
    BY DEF Inv, TypeOK
  <1>2. TaskFollowsTool' /\ NoTaskNoError'
    BY DEF Inv, TaskFollowsTool, NoTaskNoError
  <1>3. CancellingAlive'
    BY DEF Inv, CancellingAlive, HeldAreAlive, Alive, Done
  <1>4. HeldAreAlive'
    BY DEF Inv, HeldAreAlive, Alive, Done
  <1>5. CompletedIsOver'
    BY DEF Inv, CompletedIsOver, Done
  <1>6. QED
    BY <1>1, <1>2, <1>3, <1>4, <1>5 DEF Inv

LEMMA TickInv ==
  ASSUME Inv, Tick
  PROVE  Inv'
  <1>. USE DEF Tick, taskVars, shutdownVars
  <1>1. TypeOK'
    BY DEF Inv, TypeOK
  <1>2. QED
    BY <1>1 DEF Inv, TaskFollowsTool, NoTaskNoError, CancellingAlive,
                HeldAreAlive, CompletedIsOver, Alive, Done

LEMMA InitInv == Init => Inv
  BY DEF Init, Inv, TypeOK, NoRequest, NoOutcome, Outcome, FreshState, TaskFollowsTool,
         NoTaskNoError, CancellingAlive, HeldAreAlive, CompletedIsOver,
         Alive, Listening

LEMMA NextInv == Inv /\ [Next]_vars => Inv'
  <1>. SUFFICES ASSUME Inv, [Next]_vars PROVE Inv'
    OBVIOUS
  <1>1. ASSUME NEW c \in Calls, Begin(c) PROVE Inv'
    BY <1>1, BeginInv
  <1>2. ASSUME NEW c \in Calls, Reject(c) \/ FailBeforeDispatch(c) PROVE Inv'
    BY <1>2, DeclineInv
  <1>3. ASSUME NEW c \in Calls, Schedule(c) PROVE Inv'
    BY <1>3, ScheduleInv
  <1>4. ASSUME NEW c \in Calls, StartWaitEnds(c) \/ NoticeSent(c) \/ ListenEnds(c)
        PROVE  Inv'
    BY <1>4, WaitSteps, WaitInv
  <1>5. ASSUME NEW c \in Calls, CancelTool(c) PROVE Inv'
    BY <1>5, CancelToolInv
  <1>6. ASSUME NEW c \in Calls, TaskMoves(c) PROVE Inv'
    <2>1. Undelivered(c) \/ CancelDelivered(c) \/ CancelSwallowed(c)
      BY <1>6 DEF TaskMoves, Undelivered
    <2>2. QED
      BY <2>1, TaskInv, CancelDeliveredInv, CancelSwallowedInv
  <1>7. CASE ShutdownBegins \/ ShutdownEnds
    BY <1>7, ShutdownInv
  <1>8. CASE Tick
    BY <1>8, TickInv
  <1>9. CASE UNCHANGED vars
    BY <1>9 DEF vars, Inv, TypeOK, TaskFollowsTool, NoTaskNoError, CancellingAlive,
                 HeldAreAlive, CompletedIsOver, Alive, Done
  <1>10. QED
    BY <1>1, <1>2, <1>3, <1>4, <1>5, <1>6, <1>7, <1>8, <1>9 DEF Next, ToolStep

LEMMA AlwaysInv == Spec => []Inv
  BY InitInv, NextInv, PTL DEF Spec

-----------------------------------------------------------------------------
(* Results *)

(* The variables keep their types: every outcome is one that execute() is  *)
(* declared to return.                                                     *)
THEOREM TypeCorrect == Spec => []TypeOK
  <1>1. Inv => TypeOK
    BY DEF Inv
  <1>2. QED
    BY <1>1, AlwaysInv, PTL

(* A task that execute() reported completed is over and has recorded no    *)
(* error, through shutdown and whatever way the task ended.                *)
THEOREM CompletedOver == Spec => []CompletedIsOver
  <1>1. Inv => CompletedIsOver
    BY DEF Inv
  <1>2. QED
    BY <1>1, AlwaysInv, PTL

(* _background_tasks holds exactly the tasks that are not over.            *)
THEOREM TasksHeld == Spec => []UnfinishedTasksHeld
  <1>1. Inv => UnfinishedTasksHeld
    BY DEF Inv, HeldAreAlive, UnfinishedTasksHeld
  <1>2. QED
    BY <1>1, AlwaysInv, PTL

-----------------------------------------------------------------------------
(* What a step may return *)

(* Of all steps only these return something: the checks that decline, and  *)
(* the end of a wait.                                                      *)
Returning(c) ==
  \/ Reject(c)
  \/ FailBeforeDispatch(c)
  \/ WaitOver(c)

LEMMA OthersReturnNothing ==
  ASSUME Inv, Next, outcome' # outcome
  PROVE  \E c \in Calls : Returning(c)
  <1>1. ASSUME NEW c \in Calls, ToolStep(c) PROVE Returning(c)
    BY <1>1, WaitSteps DEF ToolStep, Returning, Schedule, Resume
  <1>2. ASSUME NEW c \in Calls, TaskMoves(c) \/ Begin(c) \/ CancelTool(c)
        PROVE  FALSE
    <2>1. ~(Begin(c) \/ CancelTool(c))
      BY DEF Begin, CancelTool
    <2>2. ~Undelivered(c)
      BY UndeliveredSteps DEF TaskStep, TaskGoesTo, toolVars
    <2>3. ~(CancelDelivered(c) \/ CancelSwallowed(c))
      BY DEF CancelDelivered, CancelSwallowed, TaskGoesTo, toolVars
    <2>4. QED
      BY <1>2, <2>1, <2>2, <2>3 DEF TaskMoves, Undelivered
  <1>3. ~(ShutdownBegins \/ ShutdownEnds \/ Tick)
    BY DEF ShutdownBegins, ShutdownEnds, Tick, toolVars
  <1>4. QED
    BY <1>1, <1>2, <1>3 DEF Next

LEMMA ReturningOutcome ==
  ASSUME Inv, NEW c \in Calls, Returning(c)
  PROVE  /\ \A d \in Calls \ {c} : outcome'[d] = outcome[d]
         /\ state[c].error /\ outcome'[c] # outcome[c] => outcome'[c].state = "failed"
  <1>1. state[c].error \in BOOLEAN /\ outcome \in [Calls -> Outcomes]
    BY DEF Inv, TypeOK, Outcomes
  <1>2. CASE Reject(c) \/ FailBeforeDispatch(c)
    <2>1. ~state[c].error
      BY <1>2 DEF Inv, TaskFollowsTool, NoTaskNoError, Reject, FailBeforeDispatch
    <2>2. QED
      BY <1>1, <1>2, <2>1 DEF Reject, FailBeforeDispatch, Return
  <1>3. CASE WaitOver(c)
    <2>1. CASE \E to \in {"notifying", "listening"} : Resume(c, to)
      BY <2>1 DEF Resume
    <2>2. CASE Return(c, ExecutionResult(c))
      BY <1>1, <2>2, ResultShape DEF Return
    <2>3. QED
      BY <1>3, <2>1, <2>2 DEF WaitOver
  <1>4. QED
    BY <1>2, <1>3 DEF Returning

(* What execute() returns after its task has failed is that it failed.     *)
THEOREM FailuresShown == Spec => FailureNotHidden
  <1>. DEFINE Shown == \A c \in Calls : outcome'[c] # outcome[c] /\ state[c].error
                                           => outcome'[c].state = "failed"
  <1>1. Inv /\ [Next]_vars => [Shown]_vars
    <2>. SUFFICES ASSUME Inv, Next, outcome' # outcome PROVE Shown
      BY DEF vars
    <2>1. PICK c \in Calls : Returning(c)
      BY OthersReturnNothing
    <2>2. QED
      BY <2>1, ReturningOutcome
  <1>2. QED
    BY <1>1, AlwaysInv, PTL DEF Spec, FailureNotHidden

-----------------------------------------------------------------------------
(* The executor implements CommandDispatch *)

Stage == [c \in Calls |-> IF tool[c] \in {"starting", "notifying", "listening"}
                            THEN "dispatched" ELSE tool[c]]
Scheduled == { c \in Calls : task[c] # "none" }

DispatchStep == [Promise!DispatchNext]_(Promise!dispatchVars)

LEMMA Quiet ==
  ASSUME Stage' = Stage, Scheduled' = Scheduled, outcome' = outcome
  PROVE  DispatchStep
  BY DEF DispatchStep, Stage, Scheduled, Promise!dispatchVars

LEMMA Moved ==
  ASSUME Inv, NEW c \in Calls, NEW to, tool' = [tool EXCEPT ![c] = to]
  PROVE  Stage' = [Stage EXCEPT ![c] = IF to \in {"starting", "notifying", "listening"}
                                         THEN "dispatched" ELSE to]
  BY DEF Inv, TypeOK, Stage

LEMMA TaskQuiet ==
  ASSUME Inv, NEW c \in Calls, task[c] # "none",
         NEW to \in {"initializing", "processing", "reporting"} \cup Ends, TaskGoesTo(c, to)
  PROVE  DispatchStep
  <1>1. Scheduled' = Scheduled
    BY DEF Inv, TypeOK, Scheduled, Ends, TaskGoesTo
  <1>2. Stage' = Stage /\ outcome' = outcome
    BY DEF Stage, TaskGoesTo, toolVars
  <1>3. QED
    BY <1>1, <1>2, Quiet

LEMMA BeginDispatches ==
  ASSUME Inv, NEW c \in Calls, Begin(c)
  PROVE  DispatchStep
  <1>1. Stage' = [Stage EXCEPT ![c] = "checking"] /\ Stage[c] = "idle"
    BY Moved DEF Begin, Stage
  <1>2. outcome' = outcome /\ Scheduled' = Scheduled
    BY DEF Begin, taskVars, Scheduled
  <1>3. Promise!Begin(c)
    BY <1>1, <1>2 DEF Promise!Begin, Promise!Moves, Stage, Scheduled
  <1>4. QED
    BY <1>3 DEF DispatchStep, Promise!DispatchNext

LEMMA DeclineDispatches ==
  ASSUME Inv, NEW c \in Calls, Reject(c) \/ FailBeforeDispatch(c)
  PROVE  DispatchStep
  <1>1. PICK s \in {"rejected", "failed"} :
          tool[c] = "checking" /\ Return(c, Outcome(s, FALSE)) /\ UNCHANGED taskVars
    BY DEF Reject, FailBeforeDispatch
  <1>2. Stage' = [Stage EXCEPT ![c] = "returned"] /\ Stage[c] = "checking"
    BY <1>1, Moved DEF Return, Leave, Stage
  <1>3. Scheduled' = Scheduled
    BY <1>1 DEF taskVars, Scheduled
  <1>4. /\ Outcome(s, FALSE) \in Promise!Undispatched
        /\ outcome' = [outcome EXCEPT ![c] = Outcome(s, FALSE)]
    BY <1>1 DEF Return, Outcome, Promise!Undispatched, Promise!Outcome
  <1>5. Promise!Decline(c)
    BY <1>2, <1>3, <1>4 DEF Promise!Decline, Promise!Moves, Stage, Scheduled
  <1>6. QED
    BY <1>5 DEF DispatchStep, Promise!DispatchNext

LEMMA ScheduleDispatches ==
  ASSUME Inv, NEW c \in Calls, Schedule(c)
  PROVE  DispatchStep
  <1>1. Stage' = [Stage EXCEPT ![c] = "dispatched"] /\ Stage[c] = "checking"
    BY Moved DEF Schedule, Resume, Stage
  <1>2. Scheduled' = Scheduled \cup {c} /\ outcome' = outcome
    BY DEF Inv, TypeOK, Schedule, Resume, Scheduled
  <1>3. Promise!Dispatch(c)
    BY <1>1, <1>2 DEF Promise!Dispatch, Promise!Moves, Stage, Scheduled
  <1>4. QED
    BY <1>3 DEF DispatchStep, Promise!DispatchNext

LEMMA WaitDispatches ==
  ASSUME Inv, NEW c \in Calls, WaitOver(c)
  PROVE  DispatchStep
  <1>1. Stage[c] = "dispatched" /\ Scheduled' = Scheduled
    BY DEF WaitOver, Listening, Stage, Scheduled, taskVars
  <1>2. CASE \E to \in {"notifying", "listening"} : Resume(c, to)
    <2>1. Stage' = [Stage EXCEPT ![c] = "dispatched"] /\ outcome' = outcome
      BY <1>2, Moved DEF Resume
    <2>2. Stage' = Stage
      BY <1>1, <2>1 DEF Stage
    <2>3. QED
      BY <1>1, <2>1, <2>2, Quiet
  <1>3. CASE Return(c, ExecutionResult(c))
    <2>1. Stage' = [Stage EXCEPT ![c] = "returned"]
      BY <1>3, Moved DEF Return, Leave
    <2>2. /\ ExecutionResult(c) \in Promise!Dispatched
          /\ outcome' = [outcome EXCEPT ![c] = ExecutionResult(c)]
      BY <1>3, ResultShape DEF Inv, TypeOK, Return
    <2>3. Promise!Conclude(c)
      BY <1>1, <2>1, <2>2 DEF Promise!Conclude, Promise!Moves, Stage, Scheduled
    <2>4. QED
      BY <2>3 DEF DispatchStep, Promise!DispatchNext
  <1>4. QED
    BY <1>2, <1>3 DEF WaitOver

LEMMA CancelToolDispatches ==
  ASSUME Inv, NEW c \in Calls, CancelTool(c)
  PROVE  DispatchStep
  <1>1. /\ Stage' = [Stage EXCEPT ![c] = "cancelled"]
        /\ Stage[c] \in {"checking", "dispatched"}
    BY Moved DEF CancelTool, Leave, Stage
  <1>2. outcome' = outcome /\ Scheduled' = Scheduled
    BY DEF CancelTool, taskVars, Scheduled
  <1>3. Promise!CancelTool(c)
    BY <1>1, <1>2 DEF Promise!CancelTool, Promise!Moves, Stage, Scheduled
  <1>4. QED
    BY <1>3 DEF DispatchStep, Promise!DispatchNext

LEMMA TaskDispatches ==
  ASSUME Inv, NEW c \in Calls, TaskMoves(c)
  PROVE  DispatchStep
  <1>1. CASE CancelDelivered(c)
    <2>1. task[c] # "none"
      BY <1>1 DEF Inv, CancellingAlive, CancelDelivered, Delivered, Alive, Done
    <2>2. TaskGoesTo(c, "aborted") /\ "aborted" \in Ends
      BY <1>1 DEF CancelDelivered, Ends
    <2>3. QED
      BY <2>1, <2>2, TaskQuiet
  <1>2. CASE CancelSwallowed(c)
    <2>1. UNCHANGED <<tool, task, outcome>>
      BY <1>2 DEF CancelSwallowed, toolVars
    <2>2. QED
      BY <2>1, Quiet DEF Stage, Scheduled
  <1>3. CASE Undelivered(c)
    BY <1>3, UndeliveredSteps, TaskQuiet DEF TaskStep
  <1>4. QED
    BY <1>1, <1>2, <1>3 DEF TaskMoves, Undelivered

LEMMA InitDispatches == Init => Promise!DispatchInit
  BY DEF Init, Promise!DispatchInit, NoOutcome, Outcome, Promise!NoOutcome, Promise!Outcome

LEMMA NextDispatches == Inv /\ [Next]_vars => DispatchStep
  <1>. SUFFICES ASSUME Inv, [Next]_vars PROVE DispatchStep
    OBVIOUS
  <1>1. ASSUME NEW c \in Calls, Begin(c) PROVE DispatchStep
    BY <1>1, BeginDispatches
  <1>2. ASSUME NEW c \in Calls, ToolStep(c) PROVE DispatchStep
    BY <1>2, DeclineDispatches, ScheduleDispatches, WaitSteps, WaitDispatches DEF ToolStep
  <1>3. ASSUME NEW c \in Calls, CancelTool(c) PROVE DispatchStep
    BY <1>3, CancelToolDispatches
  <1>4. ASSUME NEW c \in Calls, TaskMoves(c) PROVE DispatchStep
    BY <1>4, TaskDispatches
  <1>5. CASE ShutdownBegins \/ ShutdownEnds \/ Tick \/ UNCHANGED vars
    <2>1. UNCHANGED <<tool, task, outcome>>
      BY <1>5 DEF ShutdownBegins, ShutdownEnds, Tick, vars, toolVars, taskVars
    <2>2. QED
      BY <2>1, Quiet DEF Stage, Scheduled
  <1>6. QED
    BY <1>1, <1>2, <1>3, <1>4, <1>5 DEF Next

(* The executor keeps what CommandDispatch promises: an outcome is         *)
(* returned once, and its dispatched flag tells whether a task was created *)
(* for the call.                                                           *)
THEOREM Implementation == Spec => ImplementsDispatch
  <1>1. Spec => Promise!DispatchInit /\ [][Promise!DispatchNext]_(Promise!dispatchVars)
    BY InitDispatches, NextDispatches, AlwaysInv, PTL DEF Spec, DispatchStep
  <1>2. QED
    BY <1>1 DEF ImplementsDispatch, Promise!DispatchSpec
=============================================================================
