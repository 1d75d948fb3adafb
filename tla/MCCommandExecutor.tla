------------------------- MODULE MCCommandExecutor -------------------------
(* Calls that share the executor; a custom window longer than the auto one. *)
EXTENDS CommandExecutor, TLC

CONSTANTS c1, c2

MCCalls == {c1, c2}
MCOneCall == {c1}
MCExternal == {c1}
MCSymmetry == Permutations(MCCalls)
=============================================================================
