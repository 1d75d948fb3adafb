SPECIFICATION DirectorySpec
CONSTANTS
  p = p
  g = g
  h = h
  a = a
  b = b
  Plugins = {p}
  Keys <- MCKeys
  PluginOf <- MCPluginOf
  TypeOf <- MCTypeOf
  TriggerOf <- MCTriggerOf
  TaggedOf <- MCTaggedOf
  Overlaid <- MCOverlaid
  Groups = {g, h}
  Triggers <- MCTriggers
  Texts <- MCTriggers
  MatchedBy <- MCMatchedBy
  LengthOf <- MCLengthOf
  Stored <- MCStored
  Decisions <- MCDecisions
  MaxEvents = 1
  Submitted <- MCOneSubmitted
PROPERTY UntouchedGroupsKept
