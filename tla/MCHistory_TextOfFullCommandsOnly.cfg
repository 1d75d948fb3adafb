SPECIFICATION Spec
CONSTANTS
  c = c
  d = d
  e = e
  u = u
  v = v
  j = j
  k = k
  Calls = {c, d, e}
  Users = {u, v}
  Keys = {j, k}
  UserOf <- MCUserOf
  Retention = 1
  MaxId = 2
  MaxUses = 2
PROPERTY TextOfFullCommandsOnly
