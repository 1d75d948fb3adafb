------------------------- MODULE MCCustomDirectory -------------------------
EXTENDS CustomDirectory, TLC

CONSTANTS p, g, h, a, b

MCKeys == {}
MCPluginOf == [k \in MCKeys |-> p]
MCTypeOf == [k \in MCKeys |-> "command"]
MCTriggerOf == [k \in MCKeys |-> a]
MCTriggers == {a, b}
MCTaggedOf == [t \in MCTriggers |-> t]
MCMatchedBy == [t \in MCTriggers |-> {t}]
MCOverlaid == {}
MCLengthOf == [t \in MCTriggers |-> 1]
MCDecisions == { <<Keep, "sensitive", Keep>> }

Custom(key, aliases, link, policy) ==
  [group |-> g, type |-> "command", key |-> key, aliases |-> aliases, link |-> link,
   missing |-> FALSE, permission |-> "normal", policy |-> policy, history |-> "command"]

(* The trigger b is ambiguous where both are in a group. *)
Linked == Custom(b, {}, p, "normal")
Plain == Custom(a, {b}, NoPlugin, "sensitive")
MCStored == { Linked, Plain }
MCSubmitted == { Plain }
MCOneSubmitted == { Custom(b, {}, p, "normal") }
=============================================================================
