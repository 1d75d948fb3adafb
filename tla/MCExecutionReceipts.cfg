SPECIFICATION Spec
CONSTANTS
  c1 = c1
  c2 = c2
  c3 = c3
  k1 = k1
  k2 = k2
  Calls <- MCCalls
  Keys <- MCKeys
  KeyOf <- MCKeyOf
  Times <- MCTimes
  Windows <- MCWindows
  LeastWindow = 2
  ClockMayStepBack = TRUE
INVARIANTS
  TypeOK
  GrantsSpaced
PROPERTIES
  SettledForever
  ImplementsGrants
