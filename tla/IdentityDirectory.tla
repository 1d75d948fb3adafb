------------------------- MODULE IdentityDirectory -------------------------
(***************************************************************************)
(* Whom a name, reference or alias means in one group chat.                *)
(*                                                                         *)
(* The plugin observes messages, asks the platform for the group's members *)
(* when only a name is given (the one await of a resolution), and lets     *)
(* requesters keep personal aliases.  A resolution serves a delegated call *)
(* ("target"), stores an alias, or lets an administrator set somebody's    *)
(* privacy ("manage").  Everything else is synchronous SQLite.             *)
(*                                                                         *)
(* Times are ages: how long ago a row was seen, a resolution begun.  Other *)
(* chats, the bot's own account, identity_source and masking are left out; *)
(* names are compared as normalize_identity_name leaves them.              *)
(***************************************************************************)
EXTENDS Integers, FiniteSets

CONSTANTS
  Users, Names,
  NamesOf,     \* names each user may go by
  ShortOf,     \* the first segment of a name
  PartsOf,     \* the names contained in a name
  Calls, RequesterOf,
  Retention,   \* retention_days
  Asked,       \* bound: purposes of resolutions
  AliasTexts,  \* bound: names made aliases
  MaxWait,     \* bound: ticks a roster query may take
  MaxRefs      \* bound: references issued for a user

Nobody == "nobody"
Absent == "absent"
Modes == {"allow", "deny_all"}   \* deny_sensitive resolves as allow does
Requesters == { RequesterOf[c] : c \in Calls }

ASSUME IdentityAssumption ==
  /\ NamesOf \in [Users -> SUBSET Names]
  /\ ShortOf \in [Names -> Names]
  /\ PartsOf \in [Names -> SUBSET Names]
  /\ RequesterOf \in [Calls -> Users]
  /\ Retention \in Nat /\ MaxWait \in Nat /\ MaxRefs \in Nat
  /\ Asked \subseteq {"target", "alias", "manage"} /\ AliasTexts \subseteq Names
  /\ Nobody \notin Users /\ Absent \notin Names

VARIABLES
  members,   \* the platform's members and their names
  rows,      \* session_participants
  refs,      \* identity_references: which of a user's references is stored
  issued,    \* references ever drawn for a user
  aliases,   \* personal_aliases
  privacy,   \* user_privacy_settings
  calls,     \* resolutions waiting for the roster
  reply      \* what the last step answered

identityVars == <<members, rows, refs, issued, aliases, privacy, calls, reply>>
tableVars == <<rows, refs, issued, aliases, privacy>>

Oldest == Retention + MaxWait + 1   \* ages beyond are alike

Row == [name : Names, age : 0..Oldest, active : BOOLEAN]
NoRow == [name |-> Absent, age |-> 0, active |-> FALSE]

Roster == [Users -> Names \cup {Absent}]
Unasked == [u \in Users |-> "unasked"]
Call == [purpose : Asked, name : Names \cup {Absent}, alias : AliasTexts \cup {Absent},
         age : 0..MaxWait, roster : Roster \cup {Unasked}]
Idle == [purpose |-> "idle", name |-> Absent, alias |-> Absent, age |-> 0, roster |-> Unasked]

Reply == [purpose : Asked, status : {"resolved", "unavailable", "ambiguous", "not_found"},
          user : Users \cup {Nobody}, via : {"explicit", "ref", "alias", "name"},
          name : Names \cup {Absent}, age : 0..MaxWait]
NoReply == [purpose |-> "none", status |-> "none", user |-> Nobody, via |-> "none",
            name |-> Absent, age |-> 0]

TypeOK ==
  /\ members \in Roster
  /\ rows \in [Users -> Row \cup {NoRow}]
  /\ refs \in [Users -> 0..MaxRefs]
  /\ issued \in [Users -> 0..MaxRefs]
  /\ aliases \in [Requesters -> [Names -> Users \cup {Nobody}]]
  /\ privacy \in [Users -> Modes]
  /\ calls \in [Calls -> Call \cup {Idle}]
  /\ reply \in Reply \cup {NoReply}

Init ==
  /\ members \in Roster
  /\ \A u \in Users : members[u] \in NamesOf[u] \cup {Absent}
  /\ rows = [u \in Users |-> NoRow]
  /\ refs = [u \in Users |-> 0]
  /\ issued = [u \in Users |-> 0]
  /\ aliases = [r \in Requesters |-> [n \in Names |-> Nobody]]
  /\ privacy = [u \in Users |-> "allow"]
  /\ calls = [c \in Calls |-> Idle]
  /\ reply = NoReply

-----------------------------------------------------------------------------
(* Tables *)

(* Seen within the retention window that ended when a call of age began.   *)
Fresh(row, age) == row # NoRow /\ row.active /\ row.age - age <= Retention

Observed(us, names) ==
  [u \in Users |-> IF u \in us THEN [name |-> names[u], age |-> 0, active |-> TRUE] ELSE rows[u]]

(* get_or_create_identity_reference for each of us. *)
Refer(us) ==
  LET new == { u \in us : refs[u] = 0 } IN
  /\ \A u \in new : issued[u] < MaxRefs
  /\ issued' = [u \in Users |-> IF u \in new THEN issued[u] + 1 ELSE issued[u]]
  /\ refs' = [u \in Users |-> IF u \in new THEN issued'[u] ELSE refs[u]]

-----------------------------------------------------------------------------
(* Answers *)

(* Fault: aliases may be set for whoever a reference names. *)
OperableForTarget(call, u) == call.purpose \in {"alias", "manage"} \/ privacy[u] # "deny_all"

(* The settings getter: management ignores privacy. *)
Operable(call, u) == call.purpose = "manage" \/ privacy[u] # "deny_all"

Answer(call, status, u, via) ==
  reply' = [purpose |-> call.purpose, status |-> status, user |-> u, via |-> via,
            name |-> call.name, age |-> call.age]

Saved(r, n, u) == [aliases EXCEPT ![r][n] = u]
Chosen(u, mode) == [privacy EXCEPT ![u] = mode]

(* _resolved, and what its caller does next: set_alias stores the alias,   *)
(* the management command the new mode.                                    *)
Resolved(c, call, u, via) ==
  IF Operable(call, u)
    THEN /\ Answer(call, "resolved", u, via)
         /\ Refer({u})
         /\ aliases' = IF call.purpose = "alias"
                         THEN Saved(RequesterOf[c], call.alias, u) ELSE aliases
         /\ IF call.purpose = "manage"
              THEN \E mode \in Modes : privacy' = Chosen(u, mode)
              ELSE UNCHANGED privacy
    ELSE /\ Answer(call, "unavailable", u, via)
         /\ UNCHANGED <<refs, issued, aliases, privacy>>

(* Candidates carry a reference only where they are operable. *)
Ambiguous(call, us, via) ==
  /\ Answer(call, "ambiguous", Nobody, via)
  /\ Refer({ u \in us : Operable(call, u) })
  /\ UNCHANGED <<aliases, privacy>>

(* Fault: any one of the users of that name is taken. *)
MatchFirst(c, call, us, table) ==
  LET exact == { u \in us : table[u].name = call.name }
      short == { u \in us : ShortOf[table[u].name] = call.name }
      best == IF exact # {} THEN exact ELSE short
  IN IF best # {} THEN \E u \in best : Resolved(c, call, u, "name")
     ELSE Answer(call, "not_found", Nobody, "name") /\ UNCHANGED <<refs, issued, aliases, privacy>>

(* _match_rows: exact names, else first segments, else candidates only. *)
Match(c, call, us, table) ==
  LET exact == { u \in us : table[u].name = call.name }
      short == { u \in us : ShortOf[table[u].name] = call.name }
      fuzzy == { u \in us : call.name \in PartsOf[table[u].name] }
      best == IF exact # {} THEN exact ELSE short
  IN \/ \E u \in best : best = {u} /\ Resolved(c, call, u, "name")
     \/ Cardinality(best) > 1 /\ Ambiguous(call, best, "name")
     \/ best = {} /\ fuzzy # {} /\ Ambiguous(call, fuzzy, "name")
     \/ /\ best = {} /\ fuzzy = {}
        /\ Answer(call, "not_found", Nobody, "name")
        /\ UNCHANGED <<refs, issued, aliases, privacy>>

-----------------------------------------------------------------------------
(* resolve, up to its await *)

NewCall(purpose, name, alias) ==
  [purpose |-> purpose, name |-> name, alias |-> alias, age |-> 0, roster |-> Unasked]

Wait(c, call) ==
  /\ calls' = [calls EXCEPT ![c] = call]
  /\ reply' = NoReply
  /\ UNCHANGED <<members, tableVars>>

(* usr_...: a stored reference of a user seen lately. *)
ByReference(c, call) ==
  \E u \in Users : \E n \in 1..issued[u] :
    IF refs[u] = n /\ Fresh(rows[u], 0)
      THEN Resolved(c, call, u, "ref") /\ UNCHANGED <<members, rows, calls>>
      ELSE Wait(c, call)

(* uid:..., a number, or the id of somebody seen lately. *)
ByUid(c, call) ==
  \E u \in Users : Resolved(c, call, u, "explicit") /\ UNCHANGED <<members, rows, calls>>

(* Those @-mentioned under the name given; the mention is an observation.  *)
(* A reply to one person is taken alike.                                   *)
ByMention(c, call) ==
  \E us \in SUBSET { u \in Users : members[u] # Absent } :
    /\ us # {}
    /\ rows' = Observed(us, members)
    /\ IF Cardinality(us) = 1 THEN \E u \in us : Resolved(c, call, u, "explicit")
                              ELSE Ambiguous(call, us, "explicit")
    /\ UNCHANGED <<members, calls>>

(* Fault: an alias counts however long ago its user was seen. *)
AliasedEver(c, call) ==
  { u \in Users : aliases[RequesterOf[c]][call.name] = u }

(* The requester's alias, unless its user has gone or was not seen lately. *)
Aliased(c, call) ==
  { u \in Users : aliases[RequesterOf[c]][call.name] = u /\ Fresh(rows[u], 0) }

ByName(c, call) ==
  IF Aliased(c, call) # {}
    THEN /\ \E u \in Aliased(c, call) : Resolved(c, call, u, "alias")
         /\ UNCHANGED <<members, rows, calls>>
    ELSE Wait(c, call)

Resolve(c) ==
  /\ calls[c] = Idle
  /\ \E purpose \in Asked, alias \in AliasTexts \cup {Absent} :
       LET unnamed == NewCall(purpose, Absent, alias) IN
       /\ alias = Absent <=> purpose # "alias"
       /\ \/ ByReference(c, unnamed)
          \/ ByUid(c, unnamed)
          \/ ByMention(c, unnamed)
          \/ \E n \in Names : ByName(c, NewCall(purpose, n, alias))

-----------------------------------------------------------------------------
(* resolve, from its await on *)

(* The platform takes its list at some time before get_group returns. *)
PlatformLists(c) ==
  /\ calls[c] # Idle /\ calls[c].roster = Unasked
  /\ calls' = [calls EXCEPT ![c].roster = members]
  /\ reply' = NoReply
  /\ UNCHANGED <<members, tableVars>>

(* replace_live_roster, stamped with the time the resolution began. *)
Replaced(call) ==
  [u \in Users |->
     IF call.roster[u] # Absent
       THEN [name |-> call.roster[u], age |-> call.age, active |-> TRUE]
     ELSE IF rows[u] # NoRow THEN [rows[u] EXCEPT !.active = FALSE]
     ELSE NoRow]

Matched(c, us, table) ==
  LET call == calls[c] IN
  IF call.name = Absent
    THEN Answer(call, "not_found", Nobody, "name") /\ UNCHANGED <<refs, issued, aliases, privacy>>
    ELSE Match(c, call, us, table)

RosterArrives(c) ==
  LET call == calls[c] IN
  /\ call # Idle /\ call.roster # Unasked
  /\ \E u \in Users : call.roster[u] # Absent
  /\ rows' = Replaced(call)
  /\ Matched(c, { u \in Users : rows'[u].active }, rows')
  /\ calls' = [calls EXCEPT ![c] = Idle]
  /\ UNCHANGED members

(* No list, an error or an incomplete list: the observations decide. *)
RosterUnavailable(c) ==
  /\ calls[c] # Idle
  /\ Matched(c, { u \in Users : Fresh(rows[u], calls[c].age) }, rows)
  /\ calls' = [calls EXCEPT ![c] = Idle]
  /\ UNCHANGED <<members, rows>>

(* The agent run or the process ends. *)
Abandon(c) ==
  /\ calls[c] # Idle
  /\ calls' = [calls EXCEPT ![c] = Idle]
  /\ reply' = NoReply
  /\ UNCHANGED <<members, tableVars>>

-----------------------------------------------------------------------------
(* Everybody else *)

Silently(changed) == reply' = NoReply /\ UNCHANGED changed

JoinLeaveRename(u) ==
  /\ \E n \in NamesOf[u] \cup {Absent} : n # members[u] /\ members' = [members EXCEPT ![u] = n]
  /\ Silently(<<tableVars, calls>>)

(* observe_event: the sender and those mentioned. *)
Observe(u) ==
  /\ members[u] # Absent
  /\ \E us \in SUBSET { v \in Users : members[v] # Absent } : rows' = Observed(us \cup {u}, members)
  /\ Silently(<<members, refs, issued, aliases, privacy, calls>>)

SetPrivacy(u) ==
  /\ \E mode \in Modes : privacy' = Chosen(u, mode)
  /\ Silently(<<members, rows, refs, issued, aliases, calls>>)

Removed(r, ns) ==
  [aliases EXCEPT ![r] = [n \in Names |-> IF n \in ns THEN Nobody ELSE @[n]]]

(* One alias or all of them. *)
DeleteAlias(r) ==
  /\ \E ns \in SUBSET AliasTexts : aliases' = Removed(r, ns)
  /\ Silently(<<members, rows, refs, issued, privacy, calls>>)

AliasTargets(r) == { u \in Users : \E n \in Names : aliases[r][n] = u }

(* list_aliases hands out references of operable targets. *)
ListAliases(r) ==
  /\ Refer({ u \in AliasTargets(r) : /\ Fresh(rows[u], 0)
                                    /\ privacy[u] # "deny_all" })
  /\ Silently(<<members, rows, aliases, privacy, calls>>)

(* Fault: references are kept only for active rows. *)
CleanupInactive ==
  /\ rows' = [u \in Users |-> IF rows[u].age > Retention THEN NoRow ELSE rows[u]]
  /\ refs' = [u \in Users |-> IF Fresh(rows[u], 0) THEN refs[u] ELSE 0]
  /\ Silently(<<members, issued, aliases, privacy, calls>>)

(* cleanup_observed_identities: aliases stay. *)
Cleanup ==
  LET expired == { u \in Users : rows[u].age > Retention } IN
  /\ rows' = [u \in Users |-> IF u \in expired THEN NoRow ELSE rows[u]]
  /\ refs' = [u \in Users |-> IF u \in expired THEN 0 ELSE refs[u]]
  /\ Silently(<<members, issued, aliases, privacy, calls>>)

AliasCommand(r) == DeleteAlias(r) \/ ListAliases(r)

Tick ==
  /\ \A c \in Calls : calls[c].age < MaxWait
  /\ rows' = [u \in Users |-> IF rows[u] # NoRow /\ rows[u].age < Oldest
                                THEN [rows[u] EXCEPT !.age = @ + 1] ELSE rows[u]]
  /\ calls' = [c \in Calls |-> IF calls[c] = Idle THEN Idle ELSE [calls[c] EXCEPT !.age = @ + 1]]
  /\ Silently(<<members, refs, issued, aliases, privacy>>)

CallStep(c) == Resolve(c) \/ PlatformLists(c) \/ RosterArrives(c) \/ RosterUnavailable(c)

Next ==
  \/ \E c \in Calls : CallStep(c) \/ Abandon(c)
  \/ \E u \in Users : JoinLeaveRename(u) \/ Observe(u) \/ SetPrivacy(u)
  \/ \E r \in Requesters : AliasCommand(r)
  \/ Cleanup \/ Tick

Spec == Init /\ [][Next]_identityVars

-----------------------------------------------------------------------------
(* Properties *)

(* architecture.md:33: somebody who has refused everything is not operated *)
(* and nobody's alias, whatever way they were named, and also when the     *)
(* refusal came while the resolution waited for the roster.                *)
RefusalRespected ==
  reply.status = "resolved" /\ reply.purpose # "manage" => privacy[reply.user] # "deny_all"

(* References, aliases and names only mean somebody who is in the group as *)
(* far as is known and was seen in the retention window when the request   *)
(* was made: not somebody who left, nor a row kept for an alias.           *)
ResolvedIsPresent ==
  reply.status = "resolved" /\ reply.via # "explicit" => Fresh(rows[reply.user], reply.age)

(* architecture.md:31: a name held by several gives candidates only.  Who  *)
(* is resolved by name shares it with nobody known to be present, and by   *)
(* a first segment only if nobody has the whole name.                      *)
NameIsUnique ==
  reply.status = "resolved" /\ reply.via = "name" =>
    \A v \in Users \ {reply.user} :
      Fresh(rows[v], reply.age) => /\ rows[v].name # reply.name
                                   /\ rows[reply.user].name # reply.name
                                        => ShortOf[rows[v].name] # reply.name

(* A reference handed out keeps meaning its user, through roster changes,  *)
(* leaving, refusals and cleanups, until the user's row has expired.       *)
ReferencesLast ==
  [][\A u \in Users : refs[u] # 0 /\ refs'[u] # refs[u] =>
       rows[u] # NoRow /\ rows[u].age > Retention]_identityVars

(* architecture.md:31 at the moment of asking: whoever spoke under a name  *)
(* after the request was made counts when that name is resolved.  The code *)
(* lets an older roster put such a person out of the group.                *)
NewerObservationCounts ==
  [][\A c \in Calls, u, v \in Users :
       /\ calls[c].name # Absent /\ u # v
       /\ rows[v].active /\ rows[v].name = calls[c].name /\ rows[v].age < calls[c].age
       /\ RosterArrives(c)
       => ~(reply'.status = "resolved" /\ reply'.user = u)]_identityVars
=============================================================================
