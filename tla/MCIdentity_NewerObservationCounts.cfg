SPECIFICATION Spec
CONSTANTS
  u = u
  v = v
  n = n
  m = m
  c = c
  d = d
  Users = {u, v}
  RequesterOf <- MCRequesterOf
  Names = {n}
  NamesOf <- MCSameNames
  ShortOf <- MCOneShort
  PartsOf <- MCOneParts
  Calls = {c}
  Asked = {"target"}
  AliasTexts = {}
  Retention = 1
  MaxWait = 1
  MaxRefs = 1
PROPERTY NewerObservationCounts
