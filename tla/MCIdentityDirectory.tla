------------------------ MODULE MCIdentityDirectory ------------------------
EXTENDS IdentityDirectory, TLC

CONSTANTS u, v, n, m, c, d

(* m is n followed by something more: n is its first segment. *)
MCNamesOf == u :> {n} @@ v :> {n, m}
MCSameNames == u :> {n} @@ v :> {n}
MCShortOf == [x \in {n, m} |-> n]
MCPartsOf == n :> {n} @@ m :> {n, m}
MCOneShort == n :> n
MCOneParts == n :> {n}
MCRequesterOf == [x \in Calls |-> u]
=============================================================================
