--------------------------- MODULE MCCommandIndex ---------------------------
(* This plugin and another one, each in two versions.                      *)
EXTENDS CommandIndex, TLC

CONSTANTS h, p, v, w, empty, g, hidden

MCSymmetry == Permutations({v, w})

(* hidden is g with its one group hidden. *)
MCVisibleOf == [d \in Directories |-> IF d = hidden THEN empty ELSE d]
MCNamesOf == [d \in Directories |-> IF d = g THEN {"g"} ELSE {}]

(* An alias of p has the name of the command of h, and so has a custom     *)
(* command of g.                                                           *)
MCRivals == [x \in Plugins |-> IF x = h THEN {p} ELSE {}]
MCReplacing == [d \in Directories |-> IF d = empty THEN {} ELSE {h}]

MCUnrivalled == [x \in Plugins |-> {}]
MCApart == [d \in Directories |-> {}]
=============================================================================
