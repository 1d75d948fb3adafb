-------------------------- MODULE MCCommandHistory --------------------------
EXTENDS CommandHistory, TLC

CONSTANTS c, d, e, u, v, j, k

Symmetry == Permutations({c, d}) \cup Permutations({j, k})
MCOneUserOf == [x \in {c, d} |-> u]
MCUserOf == c :> u @@ d :> u @@ e :> v
=============================================================================
