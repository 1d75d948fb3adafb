------------------------- MODULE MCDelegatedCommand -------------------------
(* Retries: an admin asks again and again for one command on behalf of     *)
(* another user.  Policy: an admin and a member each ask for it, for that  *)
(* same user, while its catalog entry and the user's privacy change.       *)
EXTENDS DelegatedCommand, TLC

CONSTANTS c1, c2, c3, admin, member, friend, help

MCUsers == {admin, member, friend}
MCCommands == {help}
MCCalls == {c1, c2}
MCThreeCalls == {c1, c2, c3}
MCSymmetry == Permutations(MCThreeCalls)
MCAdmins == {admin}

Key(requester, target) ==
  [requester |-> requester, target |-> target, command |-> help]

MCKeys == { Key(r, friend) : r \in MCUsers }
MCRetryKeyOf == [c \in Calls |-> Key(admin, friend)]
MCPolicyKeyOf == c1 :> Key(admin, friend) @@ c2 :> Key(member, friend)

CatalogEntry(permission, policy) ==
  [permission |-> permission, policy |-> policy, blacklisted |-> FALSE]

MCOneEntry == { CatalogEntry("normal", "normal") }
MCEntries ==
  { Unknown, CatalogEntry("normal", "normal"), CatalogEntry("normal", "sensitive"),
    CatalogEntry("normal", "forbidden"), CatalogEntry("admin", "sensitive"),
    [CatalogEntry("normal", "normal") EXCEPT !.blacklisted = TRUE] }

MCOneMode == {"allow"}
MCModes == {"allow", "deny_sensitive", "deny_all"}

MCShortTimes == 0..1
MCTimes == 0..3
MCOneWindow == {2}
MCWindows == {1, 2}
=============================================================================
