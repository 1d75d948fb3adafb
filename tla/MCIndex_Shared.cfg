SPECIFICATION Spec
CONSTANTS
  h = h
  p = p
  v = v
  w = w
  empty = empty
  g = g
  hidden = hidden
  Plugins = {h, p}
  This = h
  Versions = {v, w}
  Aliased = {p}
  Rivals <- MCRivals
  Directories = {empty, g, hidden}
  Empty = empty
  VisibleOf <- MCVisibleOf
  NamesOf <- MCNamesOf
  ReplacedBy <- MCApart
  Faults = {}
  MaxFaults = 1
  MaxDue = 2
INVARIANTS
  ShownHandlersHaveRows
