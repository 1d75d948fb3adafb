-------------------------- MODULE ExecutionReceipts --------------------------
(***************************************************************************)
(* ExecutionReceiptService over the table execution_receipts.  Every       *)
(* operation is one BEGIN IMMEDIATE transaction, so it is one step here;   *)
(* callers are free to issue them in any order, and a write that SQLite    *)
(* refuses leaves the table as it was.                                     *)
(*                                                                         *)
(* A receipt_id is minted per reserving call, so rows are indexed by call. *)
(* The target, messages, result and error columns are not modelled: no     *)
(* guard of the service reads them back.                                   *)
(***************************************************************************)
EXTENDS Integers

CONSTANTS
  Calls,            \* calls that ask for a dispatch
  Keys,             \* (platform, session, requester, target, normalized command)
  KeyOf,            \* the key of each call
  Windows,          \* values ai_command_dedupe_window_seconds may be configured to
  LeastWindow,      \* the smallest of them
  Times,            \* readings of datetime.now(timezone.utc)
  ClockMayStepBack  \* is the wall clock ever set back?

ASSUME ReceiptAssumption ==
  /\ KeyOf \in [Calls -> Keys]
  /\ Windows \subseteq Nat
  /\ LeastWindow \in Windows
  /\ \A w \in Windows : LeastWindow <= w
  /\ Times \subseteq Int
  /\ Times # {}
  /\ ClockMayStepBack \in BOOLEAN

VARIABLES
  now,         \* the wall clock
  window,      \* dedupe_window of the running service
  receipts,    \* the row of each call: state and flags
  created_at   \* when that row was inserted

vars == <<now, window, receipts, created_at>>

-----------------------------------------------------------------------------
(* Rows *)

Status(s, dispatched, output_complete, retryable) ==
  [state |-> s, dispatched |-> dispatched,
   output_complete |-> output_complete, retryable |-> retryable]

Absent   == Status("absent", FALSE, FALSE, FALSE)    \* no row was ever inserted
Reserved == Status("reserved", FALSE, FALSE, FALSE)
Released == Status("released", FALSE, FALSE, FALSE)  \* the row was deleted

Failed(dispatched) == Status("failed", dispatched, TRUE, ~dispatched)

(* The combinations save_result accepts. *)
StateInvariants ==
  { Status("completed", TRUE, TRUE, FALSE),
    Status("accepted", TRUE, FALSE, FALSE),
    Status("external_dispatched", TRUE, FALSE, FALSE),
    Status("rejected", FALSE, TRUE, FALSE),
    Failed(FALSE), Failed(TRUE) }

TypeOK ==
  /\ now \in Times
  /\ window \in Windows
  /\ receipts \in [Calls -> StateInvariants \cup {Absent, Reserved, Released}]
  /\ created_at \in [Calls -> Int]

(* The rows the WHERE clause of reserve counts against a key. *)
Counts(row) ==
  \/ row.state \in {"reserved", "completed", "accepted", "external_dispatched"}
  \/ row.state = "failed" /\ row.dispatched /\ ~row.retryable

(* Fault: only finished receipts suppress, so a reserved one does not. *)
SuppressorsFinishedOnly(c) ==
  { d \in Calls : /\ KeyOf[d] = KeyOf[c]
                  /\ Counts(receipts[d])
                  /\ receipts[d] # Reserved
                  /\ created_at[d] > now - window }

Suppressors(c) ==
  { d \in Calls : /\ KeyOf[d] = KeyOf[c]
                  /\ Counts(receipts[d])
                  /\ created_at[d] > now - window }

(* ORDER BY created_at DESC LIMIT 1: the receipt a duplicate is answered with. *)
Originals(c) ==
  { d \in Suppressors(c) :
      \A e \in Suppressors(c) : created_at[e] <= created_at[d] }

-----------------------------------------------------------------------------
(* Operations *)

Init ==
  /\ now \in Times
  /\ window \in Windows
  /\ receipts = [c \in Calls |-> Absent]
  /\ created_at = [c \in Calls |-> 0]

(* reserve() finds no suppressing row and inserts its own. *)
Reserve(c) ==
  /\ receipts[c] = Absent
  /\ Suppressors(c) = {}
  /\ receipts' = [receipts EXCEPT ![c] = Reserved]
  /\ created_at' = [created_at EXCEPT ![c] = now]
  /\ UNCHANGED <<now, window>>

(* Fault: the UPDATE sets execution_state and forgets the flag columns. *)
SaveResultStateOnly(c, row) ==
  /\ receipts[c] = Reserved
  /\ receipts' = [receipts EXCEPT ![c].state = row.state]
  /\ UNCHANGED <<now, window, created_at>>

(* Fault: the check that the row is still reserved is dropped. *)
SaveResultAnyRow(c, row) ==
  /\ row \in StateInvariants
  /\ receipts[c] \notin {Absent, Released}
  /\ receipts' = [receipts EXCEPT ![c] = row]
  /\ UNCHANGED <<now, window, created_at>>

(* save_result() finalises a reserved row; any other row is an error. *)
SaveResult(c, row) ==
  /\ row \in StateInvariants
  /\ receipts[c] = Reserved
  /\ receipts' = [receipts EXCEPT ![c] = row]
  /\ UNCHANGED <<now, window, created_at>>

(* Fault: the DELETE names the receipt and not its state. *)
ReleaseAnyRow(c) ==
  /\ receipts' = [receipts EXCEPT ![c] = IF @ # Absent THEN Released ELSE @]
  /\ UNCHANGED <<now, window, created_at>>

(* release_reserved() deletes the row only while it is reserved. *)
ReleaseReserved(c) ==
  /\ receipts' = [receipts EXCEPT ![c] = IF @ = Reserved THEN Released ELSE @]
  /\ UNCHANGED <<now, window, created_at>>

(* fail_or_release(): persist the failure; failing that, release the row   *)
(* unless a handler may have run; failing that too, keep it.               *)
FailOrRelease(c, dispatched) ==
  \/ SaveResult(c, Failed(dispatched))
  \/ ~dispatched /\ ReleaseReserved(c)
  \/ UNCHANGED vars

AdvanceClock ==
  /\ \E t \in Times : t > now /\ now' = t
  /\ UNCHANGED <<window, receipts, created_at>>

SetClockBack ==
  /\ ClockMayStepBack
  /\ \E t \in Times : t < now /\ now' = t
  /\ UNCHANGED <<window, receipts, created_at>>

(* reconfigure(), or a restart under another configuration. *)
Reconfigure ==
  /\ \E w \in Windows \ {window} : window' = w
  /\ UNCHANGED <<now, receipts, created_at>>

Next ==
  \/ \E c \in Calls : Reserve(c)
  \/ \E c \in Calls, row \in StateInvariants : SaveResult(c, row)
  \/ \E c \in Calls, dispatched \in BOOLEAN : FailOrRelease(c, dispatched)
  \/ AdvanceClock
  \/ SetClockBack
  \/ Reconfigure

Spec == Init /\ [][Next]_vars

-----------------------------------------------------------------------------
(* Properties *)

(* Two rows of one key that both suppress retries were inserted at least   *)
(* the smallest configured window apart, through clock steps, restarts     *)
(* with another window, failures, releases and retries in any order: the   *)
(* table never admits a second dispatch inside the window of a first.      *)
Apart(c, d) ==
  \/ created_at[c] + LeastWindow <= created_at[d]
  \/ created_at[d] + LeastWindow <= created_at[c]

GrantsSpaced ==
  \A c, d \in Calls :
    c # d /\ KeyOf[c] = KeyOf[d] /\ Counts(receipts[c]) /\ Counts(receipts[d])
      => Apart(c, d)

(* A finalised receipt is final: no late save, failure path or release may *)
(* rewrite or delete it, and a deleted receipt never comes back.           *)
SettledForever ==
  [][\A c \in Calls : receipts[c] \notin {Absent, Reserved}
                        => receipts'[c] = receipts[c]]_vars

(* The table implements DispatchGrants: a row that counts is a grant, a    *)
(* reserved row is an open one.                                            *)
Grants == INSTANCE DispatchGrants WITH
  Window <- LeastWindow,
  grants <- { c \in Calls : Counts(receipts[c]) },
  open   <- { c \in Calls : receipts[c] = Reserved },
  since  <- created_at

ImplementsGrants == Grants!Spec
=============================================================================
