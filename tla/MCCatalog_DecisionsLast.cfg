SPECIFICATION DecisionSpec
CONSTANTS
  p = p
  q = q
  k1 = k1
  k2 = k2
  k3 = k3
  g = g
  a = a
  b = b
  Plugins = {p}
  Keys <- MCKeys
  PluginOf <- MCOnePluginOf
  TypeOf <- MCCommandTypeOf
  TriggerOf <- MCTriggerOf
  TaggedOf <- MCTaggedOf
  Overlaid <- MCOverlaid
  Groups = {g}
  Triggers <- MCTriggers
  Texts <- MCTexts
  MatchedBy <- MCMatchedBy
  LengthOf <- MCLengthOf
  Stored <- MCNothing
  Decisions <- MCDecisions
  MaxEvents = 2
INVARIANT DecisionsLast
