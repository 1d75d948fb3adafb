SPECIFICATION Spec
CONSTANTS
  c1 = c1
  c2 = c2
  Calls <- MCOneCall
  External <- MCExternal
  AutoWindow = 1
  CustomWindow = 2
  Modes = {"auto", "background", "custom"}
  Notices = TRUE
INVARIANTS
  CompletedMeansFinished
CHECK_DEADLOCK FALSE
