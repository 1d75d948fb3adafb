SPECIFICATION Spec
CONSTANTS
  c1 = c1
  c2 = c2
  c3 = c3
  admin = admin
  member = member
  friend = friend
  help = help
  Calls <- MCCalls
  Commands <- MCCommands
  Keys <- MCKeys
  Admins <- MCAdmins
  Users <- MCUsers
  KeyOf <- MCRetryKeyOf
  Entries <- MCOneEntry
  Modes <- MCOneMode
  EnableSensitive = TRUE
  AllowOverride = FALSE
  Windows <- MCOneWindow
  LeastWindow = 2
  Times <- MCTimes
  ClockMayStepBack = FALSE
INVARIANTS
  DuplicateMeansAccepted
CHECK_DEADLOCK FALSE
