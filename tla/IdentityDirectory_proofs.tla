---------------------- MODULE IdentityDirectory_proofs ----------------------
(***************************************************************************)
(* Identities for any users, names, purposes and retention, however long   *)
(* a roster query takes.                                                   *)
(*                                                                         *)
(* What a resolution answers is decided in its last step, from the tables  *)
(* as that step leaves them; so what is said of an answer is proved of     *)
(* that step.  The invariant it needs of the steps before is the types:    *)
(* in particular that a resolution never waited longer than rows may age.  *)
(***************************************************************************)
EXTENDS IdentityDirectory, TLAPS

(* The tables a resolution writes, the participants aside. *)
TablesTyped ==
  /\ refs \in [Users -> 0..MaxRefs]
  /\ issued \in [Users -> 0..MaxRefs]
  /\ aliases \in [Requesters -> [Names -> Users \cup {Nobody}]]
  /\ privacy \in [Users -> Modes]

(* No reference that is stored changes. *)
ReferencesKept == \A u \in Users : refs[u] # 0 => refs'[u] = refs[u]

(* The step answers call. *)
Answers(call) ==
  /\ reply' \in Reply
  /\ reply'.purpose = call.purpose
  /\ reply'.name = call.name
  /\ reply'.age = call.age

(* The step answers call with no more than the tables it may write. *)
Effect(call) == Answers(call) /\ TablesTyped' /\ ReferencesKept /\ RefusalRespected'

-----------------------------------------------------------------------------
(* Answers *)

LEMMA ReferEffect ==
  ASSUME TablesTyped, NEW us \in SUBSET Users, Refer(us)
  PROVE  /\ refs' \in [Users -> 0..MaxRefs]
         /\ issued' \in [Users -> 0..MaxRefs]
         /\ ReferencesKept
  <1>1. MaxRefs \in Nat
    BY IdentityAssumption
  <1>2. \A u \in Users : issued'[u] \in 0..MaxRefs
    BY <1>1 DEF TablesTyped, Refer
  <1>3. issued' \in [Users -> 0..MaxRefs]
    BY <1>2 DEF Refer
  <1>4. refs' \in [Users -> 0..MaxRefs]
    BY <1>2 DEF TablesTyped, Refer
  <1>5. ReferencesKept
    BY DEF Refer, ReferencesKept
  <1>6. QED
    BY <1>3, <1>4, <1>5

LEMMA AnswerEffect ==
  ASSUME NEW call \in Call, NEW u \in Users \cup {Nobody},
         NEW status \in {"resolved", "unavailable", "ambiguous", "not_found"},
         NEW via \in {"explicit", "ref", "alias", "name"}, Answer(call, status, u, via)
  PROVE  /\ Answers(call)
         /\ reply'.status = status /\ reply'.user = u /\ reply'.via = via
  BY DEF Answer, Answers, Call, Reply

LEMMA ResolvedEffect ==
  ASSUME TablesTyped, NEW c \in Calls, NEW call \in Call, NEW u \in Users,
         NEW via \in {"explicit", "ref", "alias", "name"}, Resolved(c, call, u, via)
  PROVE  /\ Effect(call)
         /\ reply'.user = u /\ reply'.via = via
  <1>1. CASE Operable(call, u)
    <2>1. Answer(call, "resolved", u, via) /\ Refer({u})
      BY <1>1 DEF Resolved
    <2>2. /\ Answers(call)
          /\ reply'.status = "resolved" /\ reply'.user = u /\ reply'.via = via
      BY <2>1, AnswerEffect
    <2>3. /\ refs' \in [Users -> 0..MaxRefs]
          /\ issued' \in [Users -> 0..MaxRefs]
          /\ ReferencesKept
      BY <2>1, ReferEffect
    <2>4. aliases' \in [Requesters -> [Names -> Users \cup {Nobody}]]
      <3>1. CASE aliases' = aliases
        BY <3>1 DEF TablesTyped
      <3>2. CASE aliases' = Saved(RequesterOf[c], call.alias, u)
        BY <3>2 DEF TablesTyped, Saved
      <3>3. QED
        BY <1>1, <3>1, <3>2 DEF Resolved
    <2>5. privacy' \in [Users -> Modes]
      BY <1>1 DEF Resolved, Chosen, TablesTyped
    <2>6. call.purpose # "manage" => privacy' = privacy /\ privacy[u] # "deny_all"
      BY <1>1 DEF Resolved, Operable
    <2>7. RefusalRespected'
      BY <2>2, <2>6 DEF RefusalRespected, Answers
    <2>8. QED
      BY <2>2, <2>3, <2>4, <2>5, <2>7 DEF Effect, TablesTyped
  <1>2. CASE ~Operable(call, u)
    <2>1. Answer(call, "unavailable", u, via) /\ UNCHANGED <<refs, issued, aliases, privacy>>
      BY <1>2 DEF Resolved
    <2>2. /\ Answers(call)
          /\ reply'.status = "unavailable" /\ reply'.user = u /\ reply'.via = via
      BY <2>1, AnswerEffect
    <2>3. QED
      BY <2>1, <2>2 DEF Effect, TablesTyped, ReferencesKept, RefusalRespected
  <1>3. QED
    BY <1>1, <1>2

LEMMA AmbiguousEffect ==
  ASSUME TablesTyped, NEW call \in Call, NEW us \in SUBSET Users,
         NEW via \in {"explicit", "ref", "alias", "name"}, Ambiguous(call, us, via)
  PROVE  Effect(call) /\ reply'.status = "ambiguous"
  <1>1. /\ Answers(call)
        /\ reply'.status = "ambiguous"
    BY AnswerEffect DEF Ambiguous
  <1>2. /\ refs' \in [Users -> 0..MaxRefs]
        /\ issued' \in [Users -> 0..MaxRefs]
        /\ ReferencesKept
    BY ReferEffect DEF Ambiguous
  <1>3. QED
    BY <1>1, <1>2 DEF Ambiguous, Effect, TablesTyped, RefusalRespected

LEMMA NotFoundEffect ==
  ASSUME TablesTyped, NEW call \in Call, Answer(call, "not_found", Nobody, "name"),
         UNCHANGED <<refs, issued, aliases, privacy>>
  PROVE  Effect(call) /\ reply'.status = "not_found"
  <1>1. Answers(call) /\ reply'.status = "not_found"
    BY AnswerEffect
  <1>2. QED
    BY <1>1 DEF Effect, TablesTyped, ReferencesKept, RefusalRespected

(* Whom a match resolves is one of us, and shares the name with no other.  *)
Singled(call, us, table) ==
  reply'.status = "resolved" =>
    /\ reply'.via = "name"
    /\ reply'.user \in us
    /\ \A v \in us \ {reply'.user} :
         /\ table[v].name # call.name
         /\ table[reply'.user].name # call.name => ShortOf[table[v].name] # call.name

LEMMA MatchEffect ==
  ASSUME TablesTyped, NEW c \in Calls, NEW call \in Call, NEW us \in SUBSET Users, NEW table,
         Match(c, call, us, table)
  PROVE  Effect(call) /\ Singled(call, us, table)
  <1>. DEFINE exact == { u \in us : table[u].name = call.name }
              short == { u \in us : ShortOf[table[u].name] = call.name }
              fuzzy == { u \in us : call.name \in PartsOf[table[u].name] }
              best == IF exact # {} THEN exact ELSE short
  <1>1. ASSUME NEW u \in best, best = {u}, Resolved(c, call, u, "name")
        PROVE  Effect(call) /\ Singled(call, us, table)
    <2>1. Effect(call) /\ reply'.user = u /\ reply'.via = "name"
      BY <1>1, ResolvedEffect
    <2>2. \A v \in us \ {u} :
            /\ table[v].name # call.name
            /\ table[u].name # call.name => ShortOf[table[v].name] # call.name
      BY <1>1
    <2>3. QED
      BY <1>1, <2>1, <2>2 DEF Singled
  <1>2. CASE Ambiguous(call, best, "name") \/ Ambiguous(call, fuzzy, "name")
    BY <1>2, AmbiguousEffect DEF Singled
  <1>3. CASE Answer(call, "not_found", Nobody, "name") /\ UNCHANGED <<refs, issued, aliases, privacy>>
    BY <1>3, NotFoundEffect DEF Singled
  <1>4. QED
    BY <1>1, <1>2, <1>3 DEF Match

LEMMA MatchedEffect ==
  ASSUME TypeOK, NEW c \in Calls, calls[c] # Idle, NEW us \in SUBSET Users, NEW table,
         Matched(c, us, table)
  PROVE  calls[c] \in Call /\ Effect(calls[c]) /\ Singled(calls[c], us, table)
  <1>1. calls[c] \in Call /\ TablesTyped
    BY DEF TypeOK, TablesTyped
  <1>2. CASE calls[c].name = Absent
    BY <1>1, <1>2, NotFoundEffect DEF Matched, Singled
  <1>3. CASE calls[c].name # Absent
    BY <1>1, <1>3, MatchEffect DEF Matched
  <1>4. QED
    BY <1>2, <1>3

-----------------------------------------------------------------------------
(* What an answer means *)

AnswerSound == RefusalRespected /\ ResolvedIsPresent /\ NameIsUnique

(* What every step preserves or establishes. *)
Good == TypeOK' /\ AnswerSound' /\ ReferencesKept

LEMMA Typed ==
  ASSUME TypeOK
  PROVE  TablesTyped
  BY DEF TypeOK, TablesTyped

LEMMA SilentSound ==
  ASSUME reply' = NoReply
  PROVE  AnswerSound' /\ reply' \in Reply \cup {NoReply}
  BY DEF NoReply, AnswerSound, RefusalRespected, ResolvedIsPresent, NameIsUnique

LEMMA NewCallTyped ==
  ASSUME NEW purpose \in Asked, NEW name \in Names \cup {Absent},
         NEW alias \in AliasTexts \cup {Absent}
  PROVE  NewCall(purpose, name, alias) \in Call
  <1>1. 0 \in 0..MaxWait
    BY IdentityAssumption
  <1>2. QED
    BY <1>1 DEF NewCall, Call

LEMMA ObservedTyped ==
  ASSUME TypeOK, NEW us \in SUBSET { u \in Users : members[u] # Absent }
  PROVE  Observed(us, members)  \in [Users -> Row \cup {NoRow}]
  <1>1. 0 \in 0..Oldest
    BY IdentityAssumption DEF Oldest
  <1>2. \A u \in us : members[u] \in Names
    BY DEF TypeOK, Roster
  <1>3. QED
    BY <1>1, <1>2 DEF Observed, Row, TypeOK

(* A step that resolves an explicit person, or nobody. *)
LEMMA ExplicitSound ==
  ASSUME NEW call, Effect(call), reply'.status = "resolved" => reply'.via = "explicit"
  PROVE  AnswerSound'
  BY DEF Effect, AnswerSound, ResolvedIsPresent, NameIsUnique

(* What a match resolves, when those matched are all who are fresh.        *)
LEMMA SingledSound ==
  ASSUME NEW call, NEW us \in SUBSET Users, Effect(call), Singled(call, us, rows'),
         \A u \in Users : u \in us <=> Fresh(rows'[u], call.age)
  PROVE  AnswerSound'
  <1>1. RefusalRespected' /\ reply'.age = call.age /\ reply'.name = call.name
    BY DEF Effect, Answers
  <1>2. ResolvedIsPresent'
    BY <1>1 DEF Singled, ResolvedIsPresent, Fresh
  <1>3. NameIsUnique'
    BY <1>1 DEF Singled, NameIsUnique, Fresh
  <1>4. QED
    BY <1>1, <1>2, <1>3 DEF AnswerSound

-----------------------------------------------------------------------------
(* Steps of a resolution *)

LEMMA WaitGood ==
  ASSUME TypeOK, NEW c \in Calls, NEW call \in Call, Wait(c, call)
  PROVE  Good
  <1>1. calls' \in [Calls -> Call \cup {Idle}]
    BY DEF Wait, TypeOK
  <1>2. AnswerSound' /\ reply' \in Reply \cup {NoReply}
    BY SilentSound DEF Wait
  <1>3. TypeOK'
    BY <1>1, <1>2 DEF Wait, tableVars, TypeOK
  <1>4. ReferencesKept
    BY DEF Wait, tableVars, ReferencesKept
  <1>5. QED
    BY <1>2, <1>3, <1>4 DEF Good

LEMMA EffectTyped ==
  ASSUME TypeOK, NEW call, Effect(call), members' = members,
         rows' \in [Users -> Row \cup {NoRow}], calls' \in [Calls -> Call \cup {Idle}]
  PROVE  TypeOK' /\ ReferencesKept
  BY DEF TypeOK, Effect, TablesTyped, Answers

(* By a reference or an alias: of somebody fresh. *)
LEMMA KnownGood ==
  ASSUME TypeOK, NEW c \in Calls, NEW call \in Call, call.age = 0, NEW u \in Users,
         NEW via \in {"ref", "alias"}, Fresh(rows[u], 0),
         Resolved(c, call, u, via), UNCHANGED <<members, rows, calls>>
  PROVE  Good
  <1>1. Effect(call) /\ reply'.user = u /\ reply'.via = via
    BY Typed, ResolvedEffect
  <1>2. TypeOK' /\ ReferencesKept
    BY <1>1, EffectTyped DEF TypeOK
  <1>3. RefusalRespected' /\ reply'.age = 0
    BY <1>1 DEF Effect, Answers
  <1>4. ResolvedIsPresent'
    BY <1>1, <1>3 DEF ResolvedIsPresent, Fresh
  <1>5. NameIsUnique'
    BY <1>1 DEF NameIsUnique
  <1>6. QED
    BY <1>2, <1>3, <1>4, <1>5 DEF Good, AnswerSound

LEMMA ByReferenceGood ==
  ASSUME TypeOK, NEW c \in Calls, NEW call \in Call, call.age = 0, ByReference(c, call)
  PROVE  Good
  <1>1. PICK u \in Users : \E n \in 1..issued[u] :
               IF refs[u] = n /\ Fresh(rows[u], 0)
                 THEN Resolved(c, call, u, "ref") /\ UNCHANGED <<members, rows, calls>>
                 ELSE Wait(c, call)
    BY DEF ByReference
  <1>2. \/ /\ Fresh(rows[u], 0)
           /\ Resolved(c, call, u, "ref") /\ UNCHANGED <<members, rows, calls>>
        \/ Wait(c, call)
    BY <1>1
  <1>3. QED
    BY <1>2, WaitGood, KnownGood

LEMMA ByUidGood ==
  ASSUME TypeOK, NEW c \in Calls, NEW call \in Call, ByUid(c, call)
  PROVE  Good
  <1>1. PICK u \in Users :
          Resolved(c, call, u, "explicit") /\ UNCHANGED <<members, rows, calls>>
    BY DEF ByUid
  <1>2. Effect(call) /\ reply'.via = "explicit"
    BY <1>1, Typed, ResolvedEffect
  <1>3. TypeOK' /\ ReferencesKept
    BY <1>1, <1>2, EffectTyped DEF TypeOK
  <1>4. AnswerSound'
    BY <1>2, ExplicitSound
  <1>5. QED
    BY <1>3, <1>4 DEF Good

LEMMA ByMentionGood ==
  ASSUME TypeOK, NEW c \in Calls, NEW call \in Call, ByMention(c, call)
  PROVE  Good
  <1>1. PICK us \in SUBSET { u \in Users : members[u] # Absent } :
          /\ rows' = Observed(us, members)
          /\ \/ \E u \in us : Resolved(c, call, u, "explicit")
             \/ Ambiguous(call, us, "explicit")
          /\ UNCHANGED <<members, calls>>
    BY DEF ByMention
  <1>2. us \in SUBSET Users
    BY <1>1
  <1>3. Effect(call) /\ (reply'.status = "resolved" => reply'.via = "explicit")
    BY <1>1, <1>2, Typed, ResolvedEffect, AmbiguousEffect
  <1>4. rows' \in [Users -> Row \cup {NoRow}]
    BY <1>1, ObservedTyped
  <1>5. TypeOK' /\ ReferencesKept
    BY <1>1, <1>3, <1>4, EffectTyped DEF TypeOK
  <1>6. AnswerSound'
    BY <1>3, ExplicitSound
  <1>7. QED
    BY <1>5, <1>6 DEF Good

LEMMA ByNameGood ==
  ASSUME TypeOK, NEW c \in Calls, NEW call \in Call, call.age = 0, ByName(c, call)
  PROVE  Good
  <1>1. CASE Wait(c, call)
    BY <1>1, WaitGood
  <1>2. ASSUME NEW u \in Aliased(c, call), Resolved(c, call, u, "alias"),
               UNCHANGED <<members, rows, calls>>
        PROVE  Good
    <2>1. u \in Users /\ Fresh(rows[u], 0)
      BY DEF Aliased
    <2>2. QED
      BY <1>2, <2>1, KnownGood
  <1>3. QED
    BY <1>1, <1>2 DEF ByName

LEMMA ResolveGood ==
  ASSUME TypeOK, NEW c \in Calls, Resolve(c)
  PROVE  Good
  <1>1. PICK purpose \in Asked, alias \in AliasTexts \cup {Absent} :
          \/ ByReference(c, NewCall(purpose, Absent, alias))
          \/ ByUid(c, NewCall(purpose, Absent, alias))
          \/ ByMention(c, NewCall(purpose, Absent, alias))
          \/ \E n \in Names : ByName(c, NewCall(purpose, n, alias))
    BY DEF Resolve
  <1>2. \A n \in Names \cup {Absent} :
          NewCall(purpose, n, alias) \in Call /\ NewCall(purpose, n, alias).age = 0
    <2>1. \A n \in Names \cup {Absent} : NewCall(purpose, n, alias).age = 0
      BY DEF NewCall
    <2>2. QED
      BY <2>1, NewCallTyped
  <1>3. QED
    BY <1>1, <1>2, ByReferenceGood, ByUidGood, ByMentionGood, ByNameGood

LEMMA ReplacedTyped ==
  ASSUME TypeOK, NEW call \in Call, call.roster # Unasked
  PROVE  /\ Replaced(call) \in [Users -> Row \cup {NoRow}]
         /\ \A u \in Users : Replaced(call)[u].active <=> Fresh(Replaced(call)[u], call.age)
  <1>1. call.roster \in Roster /\ call.age \in 0..MaxWait
    BY DEF Call
  <1>2. MaxWait \in Nat /\ Retention \in Nat /\ Absent \notin Names /\ call.age \in 0..Oldest
    BY <1>1, IdentityAssumption DEF Oldest
  <1>3. SUFFICES ASSUME NEW u \in Users
                 PROVE  /\ Replaced(call)[u] \in Row \cup {NoRow}
                        /\ Replaced(call)[u].active <=> Fresh(Replaced(call)[u], call.age)
    BY DEF Replaced
  <1>4. CASE call.roster[u] # Absent
    <2>1. Replaced(call)[u] = [name |-> call.roster[u], age |-> call.age, active |-> TRUE]
      BY <1>4 DEF Replaced
    <2>2. call.roster[u] \in Names
      BY <1>1, <1>4 DEF Roster
    <2>3. QED
      BY <1>2, <2>1, <2>2 DEF Row, Fresh, NoRow
  <1>5. CASE call.roster[u] = Absent /\ rows[u] # NoRow
    <2>1. Replaced(call)[u] = [rows[u] EXCEPT !.active = FALSE]
      BY <1>5 DEF Replaced
    <2>2. rows[u] \in Row
      BY <1>5 DEF TypeOK
    <2>3. QED
      BY <2>1, <2>2 DEF Row, Fresh
  <1>6. CASE call.roster[u] = Absent /\ rows[u] = NoRow
    BY <1>6 DEF Replaced, Fresh, NoRow
  <1>7. QED
    BY <1>4, <1>5, <1>6

LEMMA RosterArrivesGood ==
  ASSUME TypeOK, NEW c \in Calls, RosterArrives(c)
  PROVE  Good
  <1>. DEFINE us == { u \in Users : rows'[u].active }
  <1>1. /\ calls[c] # Idle /\ calls[c].roster # Unasked
        /\ rows' = Replaced(calls[c])
        /\ Matched(c, us, rows')
        /\ calls' = [calls EXCEPT ![c] = Idle]
        /\ members' = members
    BY DEF RosterArrives
  <1>2. us \in SUBSET Users
    OBVIOUS
  <1>3. calls[c] \in Call /\ Effect(calls[c]) /\ Singled(calls[c], us, rows')
    BY <1>1, <1>2, MatchedEffect
  <1>4. /\ rows' \in [Users -> Row \cup {NoRow}]
        /\ \A u \in Users : u \in us <=> Fresh(rows'[u], calls[c].age)
    BY <1>1, <1>3, ReplacedTyped
  <1>5. calls' \in [Calls -> Call \cup {Idle}]
    BY <1>1 DEF TypeOK
  <1>6. TypeOK' /\ ReferencesKept
    BY <1>1, <1>3, <1>4, <1>5, EffectTyped
  <1>7. AnswerSound'
    BY <1>2, <1>3, <1>4, SingledSound
  <1>8. QED
    BY <1>6, <1>7 DEF Good

LEMMA RosterUnavailableGood ==
  ASSUME TypeOK, NEW c \in Calls, RosterUnavailable(c)
  PROVE  Good
  <1>. DEFINE us == { u \in Users : Fresh(rows[u], calls[c].age) }
  <1>1. /\ calls[c] # Idle
        /\ Matched(c, us, rows)
        /\ calls' = [calls EXCEPT ![c] = Idle]
        /\ members' = members /\ rows' = rows
    BY DEF RosterUnavailable
  <1>2. us \in SUBSET Users
    OBVIOUS
  <1>3. calls[c] \in Call /\ Effect(calls[c]) /\ Singled(calls[c], us, rows')
    BY <1>1, <1>2, MatchedEffect
  <1>4. \A u \in Users : u \in us <=> Fresh(rows'[u], calls[c].age)
    BY <1>1
  <1>5. calls' \in [Calls -> Call \cup {Idle}] /\ rows' \in [Users -> Row \cup {NoRow}]
    BY <1>1 DEF TypeOK
  <1>6. TypeOK' /\ ReferencesKept
    BY <1>1, <1>3, <1>5, EffectTyped
  <1>7. AnswerSound'
    BY <1>2, <1>3, <1>4, SingledSound
  <1>8. QED
    BY <1>6, <1>7 DEF Good

-----------------------------------------------------------------------------
(* Everybody else's steps *)

(* A step that answers nothing. *)
LEMMA SilentGood ==
  ASSUME TypeOK, reply' = NoReply,
         members' \in Roster, rows' \in [Users -> Row \cup {NoRow}],
         calls' \in [Calls -> Call \cup {Idle}], TablesTyped', ReferencesKept
  PROVE  Good
  <1>1. AnswerSound' /\ reply' \in Reply \cup {NoReply}
    BY SilentSound
  <1>2. TypeOK'
    BY <1>1 DEF TypeOK, TablesTyped
  <1>3. QED
    BY <1>1, <1>2 DEF Good

LEMMA PlatformListsGood ==
  ASSUME TypeOK, NEW c \in Calls, PlatformLists(c)
  PROVE  Good
  <1>1. calls[c] \in Call
    BY DEF PlatformLists, TypeOK
  <1>2. [calls[c] EXCEPT !.roster = members] \in Call
    BY <1>1 DEF TypeOK, Call
  <1>3. calls' \in [Calls -> Call \cup {Idle}]
    BY <1>2 DEF PlatformLists, TypeOK
  <1>4. TablesTyped' /\ ReferencesKept
    BY DEF PlatformLists, tableVars, TypeOK, TablesTyped, ReferencesKept
  <1>5. QED
    BY <1>3, <1>4, SilentGood DEF PlatformLists, tableVars, TypeOK

LEMMA AbandonGood ==
  ASSUME TypeOK, NEW c \in Calls, Abandon(c)
  PROVE  Good
  <1>1. calls' \in [Calls -> Call \cup {Idle}]
    BY DEF Abandon, TypeOK
  <1>2. TablesTyped' /\ ReferencesKept
    BY DEF Abandon, tableVars, TypeOK, TablesTyped, ReferencesKept
  <1>3. QED
    BY <1>1, <1>2, SilentGood DEF Abandon, tableVars, TypeOK

LEMMA JoinLeaveRenameGood ==
  ASSUME TypeOK, NEW u \in Users, JoinLeaveRename(u)
  PROVE  Good
  <1>1. NamesOf[u] \subseteq Names
    BY IdentityAssumption
  <1>2. members' \in Roster
    BY <1>1 DEF JoinLeaveRename, TypeOK, Roster
  <1>3. TablesTyped' /\ ReferencesKept
    BY DEF JoinLeaveRename, Silently, tableVars, TypeOK, TablesTyped, ReferencesKept
  <1>4. QED
    BY <1>2, <1>3, SilentGood DEF JoinLeaveRename, Silently, tableVars, TypeOK

LEMMA ObserveGood ==
  ASSUME TypeOK, NEW u \in Users, Observe(u)
  PROVE  Good
  <1>1. PICK us \in SUBSET { v \in Users : members[v] # Absent } :
          rows' = Observed(us \cup {u}, members)
    BY DEF Observe
  <1>2. us \cup {u} \in SUBSET { v \in Users : members[v] # Absent }
    BY DEF Observe
  <1>3. rows' \in [Users -> Row \cup {NoRow}]
    BY <1>1, <1>2, ObservedTyped
  <1>4. TablesTyped' /\ ReferencesKept
    BY DEF Observe, Silently, TypeOK, TablesTyped, ReferencesKept
  <1>5. QED
    BY <1>3, <1>4, SilentGood DEF Observe, Silently, TypeOK

LEMMA SetPrivacyGood ==
  ASSUME TypeOK, NEW u \in Users, SetPrivacy(u)
  PROVE  Good
  <1>1. privacy' \in [Users -> Modes]
    BY DEF SetPrivacy, Chosen, TypeOK
  <1>2. TablesTyped' /\ ReferencesKept
    BY <1>1 DEF SetPrivacy, Silently, TypeOK, TablesTyped, ReferencesKept
  <1>3. QED
    BY <1>2, SilentGood DEF SetPrivacy, Silently, TypeOK

LEMMA AliasCommandGood ==
  ASSUME TypeOK, NEW r \in Requesters, AliasCommand(r)
  PROVE  Good
  <1>1. CASE DeleteAlias(r)
    <2>1. PICK ns \in SUBSET AliasTexts : aliases' = Removed(r, ns)
      BY <1>1 DEF DeleteAlias
    <2>2. aliases' \in [Requesters -> [Names -> Users \cup {Nobody}]]
      BY <2>1 DEF Removed, TypeOK
    <2>3. TablesTyped' /\ ReferencesKept
      BY <1>1, <2>2 DEF DeleteAlias, Silently, TypeOK, TablesTyped, ReferencesKept
    <2>4. QED
      BY <1>1, <2>3, SilentGood DEF DeleteAlias, Silently, TypeOK
  <1>2. CASE ListAliases(r)
    <2>1. PICK us \in SUBSET Users : Refer(us)
      BY <1>2 DEF ListAliases, AliasTargets
    <2>2. /\ refs' \in [Users -> 0..MaxRefs]
          /\ issued' \in [Users -> 0..MaxRefs]
          /\ ReferencesKept
      BY <2>1, Typed, ReferEffect
    <2>3. TablesTyped'
      BY <1>2, <2>2 DEF ListAliases, Silently, TypeOK, TablesTyped
    <2>4. QED
      BY <1>2, <2>2, <2>3, SilentGood DEF ListAliases, Silently, TypeOK
  <1>3. QED
    BY <1>1, <1>2 DEF AliasCommand

LEMMA TickGood ==
  ASSUME TypeOK, Tick
  PROVE  Good
  <1>1. MaxWait \in Nat /\ Oldest \in Nat
    BY IdentityAssumption DEF Oldest
  <1>2. ASSUME NEW u \in Users
        PROVE  rows'[u] \in Row \cup {NoRow}
    <2>1. CASE rows[u] # NoRow /\ rows[u].age < Oldest
      <3>1. rows[u] \in Row
        BY <2>1 DEF TypeOK
      <3>2. rows[u].age + 1 \in 0..Oldest
        BY <1>1, <2>1, <3>1 DEF Row
      <3>3. [rows[u] EXCEPT !.age = @ + 1] \in Row
        BY <3>1, <3>2 DEF Row
      <3>4. QED
        BY <2>1, <3>3 DEF Tick
    <2>2. CASE ~(rows[u] # NoRow /\ rows[u].age < Oldest)
      BY <2>2 DEF Tick, TypeOK
    <2>3. QED
      BY <2>1, <2>2
  <1>3. ASSUME NEW c \in Calls, calls[c] # Idle
        PROVE  [calls[c] EXCEPT !.age = @ + 1] \in Call
    <2>1. calls[c] \in Call /\ calls[c].age < MaxWait
      BY <1>3 DEF TypeOK, Tick
    <2>2. calls[c].age + 1 \in 0..MaxWait
      BY <1>1, <2>1 DEF Call
    <2>3. QED
      BY <2>1, <2>2 DEF Call
  <1>4. rows' \in [Users -> Row \cup {NoRow}]
    BY <1>2 DEF Tick
  <1>5. calls' \in [Calls -> Call \cup {Idle}]
    BY <1>3 DEF Tick
  <1>6. TablesTyped' /\ ReferencesKept
    BY DEF Tick, Silently, TypeOK, TablesTyped, ReferencesKept
  <1>7. QED
    BY <1>4, <1>5, <1>6, SilentGood DEF Tick, Silently, TypeOK

(* The cleanup is the one step that takes references away. *)
LEMMA CleanupSteps ==
  ASSUME TypeOK, Cleanup
  PROVE  /\ TypeOK' /\ AnswerSound'
         /\ \A u \in Users : refs'[u] # refs[u] => rows[u].age > Retention
  <1>1. AnswerSound' /\ reply' \in Reply \cup {NoReply}
    BY SilentSound DEF Cleanup, Silently
  <1>2. rows' \in [Users -> Row \cup {NoRow}] /\ refs' \in [Users -> 0..MaxRefs]
    BY IdentityAssumption DEF Cleanup, TypeOK
  <1>3. TypeOK'
    BY <1>1, <1>2 DEF Cleanup, Silently, TypeOK
  <1>4. QED
    BY <1>1, <1>3 DEF Cleanup

-----------------------------------------------------------------------------
(* The theorems *)

LEMMA InitTyped ==
  ASSUME Init
  PROVE  TypeOK /\ AnswerSound
  <1>1. MaxRefs \in Nat
    BY IdentityAssumption
  <1>2. TypeOK
    BY <1>1 DEF Init, TypeOK, Modes
  <1>3. AnswerSound
    BY DEF Init, NoReply, AnswerSound, RefusalRespected, ResolvedIsPresent, NameIsUnique
  <1>4. QED
    BY <1>2, <1>3

LEMMA NextGood ==
  ASSUME TypeOK, Next
  PROVE  Good \/ Cleanup
  <1>1. ASSUME NEW c \in Calls, CallStep(c) \/ Abandon(c)
        PROVE  Good
    BY <1>1, ResolveGood, PlatformListsGood, RosterArrivesGood, RosterUnavailableGood,
       AbandonGood DEF CallStep
  <1>2. ASSUME NEW u \in Users, JoinLeaveRename(u) \/ Observe(u) \/ SetPrivacy(u)
        PROVE  Good
    BY <1>2, JoinLeaveRenameGood, ObserveGood, SetPrivacyGood
  <1>3. ASSUME NEW r \in Requesters, AliasCommand(r)
        PROVE  Good
    BY <1>3, AliasCommandGood
  <1>4. CASE Tick
    BY <1>4, TickGood
  <1>5. QED
    BY <1>1, <1>2, <1>3, <1>4 DEF Next

LEMMA StepsSound ==
  ASSUME TypeOK, AnswerSound, [Next]_identityVars
  PROVE  /\ TypeOK' /\ AnswerSound'
         /\ \A u \in Users : refs[u] # 0 /\ refs'[u] # refs[u] =>
              rows[u] # NoRow /\ rows[u].age > Retention
  <1>1. CASE UNCHANGED identityVars
    <2>1. TypeOK' /\ refs' = refs
      BY <1>1 DEF identityVars, TypeOK
    <2>2. AnswerSound'
      BY <1>1 DEF identityVars, AnswerSound, RefusalRespected, ResolvedIsPresent, NameIsUnique
    <2>3. QED
      BY <2>1, <2>2
  <1>2. CASE Good
    BY <1>2 DEF Good, ReferencesKept
  <1>3. CASE Cleanup
    <2>1. ~(NoRow.age > Retention)
      BY IdentityAssumption DEF NoRow
    <2>2. \A u \in Users : rows[u].age > Retention => rows[u] # NoRow
      <3>. SUFFICES ASSUME NEW u \in Users, rows[u] = NoRow
                    PROVE  ~(rows[u].age > Retention)
        BY Zenon
      <3>1. QED
        BY <2>1
    <2>3. QED
      BY <1>3, <2>2, CleanupSteps
  <1>4. QED
    BY <1>1, <1>2, <1>3, NextGood

(* Every reachable state is typed and its answer sound. *)
LEMMA AlwaysSound == Spec => [](TypeOK /\ AnswerSound)
  <1>1. Init => TypeOK /\ AnswerSound
    BY InitTyped
  <1>2. TypeOK /\ AnswerSound /\ [Next]_identityVars => (TypeOK /\ AnswerSound)'
    BY StepsSound
  <1>3. QED
    BY <1>1, <1>2, PTL DEF Spec

(* No row, reference, alias or resolution ever leaves its range; a         *)
(* resolution is answered before it is older than MaxWait.                 *)
THEOREM TypeCorrect == Spec => []TypeOK
  BY AlwaysSound, PTL

(* _resolved reads the privacy setting in the step that answers, so that a *)
(* refusal set while the roster was awaited is respected.                  *)
THEOREM RefusalsRespected == Spec => []RefusalRespected
  <1>1. AnswerSound => RefusalRespected
    BY DEF AnswerSound
  <1>2. QED
    BY <1>1, AlwaysSound, PTL

(* Only somebody who is known to be present is found by a reference, an    *)
(* alias or a name.                                                        *)
THEOREM ResolvedArePresent == Spec => []ResolvedIsPresent
  <1>1. AnswerSound => ResolvedIsPresent
    BY DEF AnswerSound
  <1>2. QED
    BY <1>1, AlwaysSound, PTL

(* Nobody is resolved by a name that another person present has as well.   *)
THEOREM NamesUnique == Spec => []NameIsUnique
  <1>1. AnswerSound => NameIsUnique
    BY DEF AnswerSound
  <1>2. QED
    BY <1>1, AlwaysSound, PTL

(* A stored reference keeps meaning its user until the row has expired.    *)
THEOREM ReferencesKeep == Spec => ReferencesLast
  <1>1. TypeOK /\ AnswerSound /\ [Next]_identityVars =>
          [\A u \in Users : refs[u] # 0 /\ refs'[u] # refs[u] =>
             rows[u] # NoRow /\ rows[u].age > Retention]_identityVars
    BY StepsSound
  <1>2. QED
    BY <1>1, AlwaysSound, PTL DEF Spec, ReferencesLast
=============================================================================
