SPECIFICATION Spec
CONSTANTS
  c1 = c1
  c2 = c2
  c3 = c3
  admin = admin
  member = member
  friend = friend
  help = help
  Calls <- MCCalls
  Commands <- MCCommands
  Keys <- MCKeys
  Admins <- MCAdmins
  Users <- MCUsers
  KeyOf <- MCPolicyKeyOf
  Entries <- MCEntries
  Modes <- MCModes
  EnableSensitive = TRUE
  AllowOverride = TRUE
  Windows <- MCWindows
  LeastWindow = 1
  Times <- MCShortTimes
  ClockMayStepBack = FALSE
PROPERTIES
  GrantsAuthorised
CHECK_DEADLOCK FALSE
