-------------------------- MODULE MCCommandCatalog --------------------------
(* A command of plugin p, a regex handler of q and a command of q with the *)
(* name of p's, which a custom command may have too; and a custom regex,   *)
(* linked to p, that matches the texts q's matches, and is as long as a.   *)
EXTENDS CommandCatalog, TLC

CONSTANTS p, q, k1, k2, k3, g, a, b

MCKeys == {k1, k2, k3}
MCPluginOf == k1 :> p @@ k2 :> q @@ k3 :> q
MCOnePluginOf == [k \in MCKeys |-> p]
MCTypeOf == k1 :> "command" @@ k2 :> "regex" @@ k3 :> "command"
MCCommandTypeOf == [k \in MCKeys |-> "command"]
MCTriggerOf == k1 :> a @@ k2 :> b @@ k3 :> a
MCTriggers == {a, b, "tagged", "custom"}
MCTaggedOf == [t \in MCTriggers |-> "tagged"]
MCOverlaid == {k1, k3}

(* The stored pattern of q's handler matches texts that begin "regex:".    *)
MCTexts == {a, b, "regex:b"}
MCMatchedBy == a :> {a} @@ b :> {b, "custom"} @@ "regex:b" :> {"tagged", "custom"}
MCLengthOf == [t \in MCTriggers |-> 1]

Custom(key, link) ==
  [group |-> g, type |-> "regex", key |-> key, aliases |-> {}, link |-> link, missing |-> FALSE,
   permission |-> "normal", policy |-> "normal", history |-> "full"]
MCNothing == {}
MCStored == { Custom("custom", p) }

MCDecisions ==
  { <<Keep, "forbidden", "none">>, <<"normal", "normal", "full">> }
=============================================================================
