------------------------- MODULE MCCatalogDecisions -------------------------
(* The catalog with a memory of the policies set by hand.                  *)
EXTENDS MCCommandCatalog

VARIABLE decided   \* the policy an administrator last left on each row

decisionVars == <<catalogVars, decided>>

DecisionInit == Init /\ decided = [k \in Keys |-> "normal"]

DecisionNext ==
  \/ /\ UpdatePolicy
     /\ decided' = [k \in Keys |-> IF runtime'[k] = runtime[k] THEN decided[k]
                                   ELSE runtime'[k].policy]
  \/ (WorldStep \/ SyncStep) /\ UNCHANGED decided

DecisionSpec == DecisionInit /\ [][DecisionNext]_decisionVars

(* architecture.md:43: updates by a plugin only move to the stricter side, *)
(* so a command is never laxer than an administrator decided.  AstrBot     *)
(* updates a plugin by unloading and loading it, and unloading deletes the *)
(* row the decision was stored in.                                         *)
DecisionsLast ==
  \A k \in Keys : runtime[k] # NoRow => PolicyRank[runtime[k].policy] >= PolicyRank[decided[k]]
=============================================================================
