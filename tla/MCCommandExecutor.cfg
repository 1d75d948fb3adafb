SPECIFICATION Spec
CONSTANTS
  c1 = c1
  c2 = c2
  Calls <- MCCalls
  External <- MCExternal
  AutoWindow = 1
  CustomWindow = 2
  Modes = {"background", "custom"}
  Notices = TRUE
INVARIANTS
  CompletedIsOver
  UnfinishedTasksHeld
PROPERTIES
  FailureNotHidden
  ImplementsDispatch
  ToolReturns
  ShutdownTerminates
CHECK_DEADLOCK FALSE
