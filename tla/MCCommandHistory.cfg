SPECIFICATION Spec
CONSTANTS
  c = c
  d = d
  e = e
  u = u
  v = v
  j = j
  k = k
  Calls = {c, d}
  Users = {u}
  Keys = {j, k}
  UserOf <- MCOneUserOf
  Retention = 1
  MaxId = 3
  MaxUses = 2
INVARIANTS
  CountsCoverDetails
  DetailNamesItsCommand
PROPERTY TextNeedsConsentNow
SYMMETRY Symmetry
