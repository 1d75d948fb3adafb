SPECIFICATION Spec
CONSTANTS
  p = p
  q = q
  k1 = k1
  k2 = k2
  k3 = k3
  g = g
  a = a
  b = b
  Plugins = {p, q}
  Keys <- MCKeys
  PluginOf <- MCPluginOf
  TypeOf <- MCTypeOf
  TriggerOf <- MCTriggerOf
  TaggedOf <- MCTaggedOf
  Overlaid <- MCOverlaid
  Groups = {g}
  Triggers <- MCTriggers
  Texts <- MCTexts
  MatchedBy <- MCMatchedBy
  LengthOf <- MCLengthOf
  Stored <- MCStored
  Decisions <- MCDecisions
  MaxEvents = 2
INVARIANTS
  SchemaHolds
  RowsFollowRegistry
  FoundIsAdmissible
PROPERTY UpdatesOnlyTighten
