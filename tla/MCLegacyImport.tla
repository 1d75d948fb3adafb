--------------------------- MODULE MCLegacyImport ---------------------------
EXTENDS LegacyImport, TLC

CONSTANTS plugin, cli, first, second, a, b, x, y

(* Both files name x, one names y too. *)
MCNamesIn == a :> {x} @@ b :> {x, y}
=============================================================================
