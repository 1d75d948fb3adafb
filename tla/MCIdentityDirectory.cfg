SPECIFICATION Spec
CONSTANTS
  u = u
  v = v
  n = n
  m = m
  c = c
  d = d
  Users = {u, v}
  RequesterOf <- MCRequesterOf
  Names = {n, m}
  NamesOf <- MCNamesOf
  ShortOf <- MCShortOf
  PartsOf <- MCPartsOf
  Calls = {c}
  Asked = {"alias", "manage"}
  AliasTexts = {n}
  Retention = 0
  MaxWait = 1
  MaxRefs = 1
INVARIANTS
  RefusalRespected
  ResolvedIsPresent
  NameIsUnique
PROPERTY ReferencesLast
