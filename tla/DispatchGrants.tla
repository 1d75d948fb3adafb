--------------------------- MODULE DispatchGrants ---------------------------
(***************************************************************************)
(* What the receipt table promises its callers, with no table in sight.    *)
(* A call asks for the right to dispatch one command under a dedupe key.   *)
(* While a grant for that key counts, the key is closed to every other     *)
(* call for a Window of wall-clock time.  An open grant may be withdrawn   *)
(* (nothing was dispatched) or settled (something was); a settled grant is *)
(* never withdrawn.  ExecutionReceipts is shown to implement this.         *)
(***************************************************************************)
EXTENDS Integers

CONSTANTS
  Calls,    \* execute_astrbot_command calls
  Keys,     \* (platform, session, requester, target, normalized command)
  KeyOf,    \* the dedupe key of each call
  Window,   \* the least window a key stays closed
  Times     \* readings of the wall clock

(* What the theorems about the grants suppose of the constants.            *)
GrantAssumption ==
  /\ KeyOf \in [Calls -> Keys]
  /\ Window \in Nat
  /\ Times \subseteq Int
  /\ Times # {}

VARIABLES
  now,      \* the wall clock, which may be set back
  grants,   \* calls whose grant still counts
  open,     \* those of them that are not settled
  since     \* when a call was granted

vars == <<now, grants, open, since>>

TypeOK ==
  /\ now \in Times
  /\ grants \subseteq Calls
  /\ open \subseteq grants
  /\ since \in [Calls -> Int]

Init ==
  /\ now \in Times
  /\ grants = {}
  /\ open = {}
  /\ since = [c \in Calls |-> 0]

SameKey(c, d) == KeyOf[c] = KeyOf[d]

(* A key is granted again only when every grant that counts is a Window old. *)
Grant(c) ==
  /\ c \notin grants
  /\ \A d \in grants : SameKey(c, d) => since[d] + Window <= now
  /\ grants' = grants \cup {c}
  /\ open' = open \cup {c}
  /\ since' = [since EXCEPT ![c] = now]
  /\ UNCHANGED now

Settle(c) ==
  /\ c \in open
  /\ open' = open \ {c}
  /\ UNCHANGED <<now, grants, since>>

Withdraw(c) ==
  /\ c \in open
  /\ open' = open \ {c}
  /\ grants' = grants \ {c}
  /\ UNCHANGED <<now, since>>

SetClock ==
  /\ now' \in Times
  /\ UNCHANGED <<grants, open, since>>

Next ==
  \/ \E c \in Calls : Grant(c) \/ Settle(c) \/ Withdraw(c)
  \/ SetClock

Spec == Init /\ [][Next]_vars

-----------------------------------------------------------------------------
(* Two grants of one key that both count are at least a Window apart,      *)
(* whatever the clock did in between.                                      *)
Apart(c, d) == since[c] + Window <= since[d] \/ since[d] + Window <= since[c]

GrantsSpaced ==
  \A c, d \in grants : c # d /\ SameKey(c, d) => Apart(c, d)
=============================================================================
