------------------------- MODULE TenantChoiceProofs -------------------------
(***************************************************************************)
(* The tenants a session is given, for every configuration, every list of *)
(* preferred tenants, and any tenants granted and taken away meanwhile.        *)
(***************************************************************************)
EXTENDS TenantChoice, TenantResolverProofs

(* An answer was resolved, with the cookie of that moment, from what holds still;   *)
(* and it is in the cookie.                                                 *)
AnswerResolved ==
    Resolved =>
        /\ \E last \in Names \cup {Undefined} :
              answer = resolveTenant(User, asked, last, granted, confNow, tenancyNow)
        /\ isValidTenant(answer) => cookie = answer

ChoiceTyped ==
    /\ confNow \in ConfChoices /\ tenancyNow \in TenancyChoices /\ granted \in Availables
    /\ asked \in Queries \cup {<<>>}
    /\ cookie \in Names \cup {Undefined} /\ answer \in Names \cup {Undefined, NoneYet}

ChoiceInv == ChoiceTyped /\ AnswerResolved

-----------------------------------------------------------------------------
(* Where there is one to be found, one is found. *)
LEMMA FirstInFound ==
    ASSUME NEW seq \in Seq(Names), NEW S, NEW i \in DOMAIN seq, seq[i] \in S
    PROVE  FirstIn(seq, S) \in Names
<1> DEFINE hits == {k \in DOMAIN seq : seq[k] \in S}
<1>1. hits \subseteq Nat /\ hits # {}
  OBVIOUS
<1>2. PICK m \in hits : \A k \in hits : ~(k < m)
  BY <1>1, LeastIndex
<1>3. m \in DOMAIN seq /\ seq[m] \in S /\ \A j \in DOMAIN seq : j < m => seq[j] \notin S
  BY <1>2
<1> DEFINE first == CHOOSE k \in DOMAIN seq :
                      seq[k] \in S /\ \A j \in DOMAIN seq : j < k => seq[j] \notin S
<1>4. first \in DOMAIN seq
  BY <1>3
<1>5. FirstIn(seq, S) = seq[first]
  BY DEF FirstIn
<1> QED BY <1>4, <1>5

(* What is asked for first is what is looked at first. *)
LEMMA FirstAsked ==
    ASSUME NEW seq \in Seq(Names), seq # <<>>, NEW S, seq[1] \in S
    PROVE  FirstIn(seq, S) = seq[1]
<1>1. 1 \in DOMAIN seq /\ DOMAIN seq \subseteq Nat /\ \A j \in DOMAIN seq : ~(j < 1)
  OBVIOUS
<1> DEFINE isFirst(k) == seq[k] \in S /\ \A j \in DOMAIN seq : j < k => seq[j] \notin S
           first == CHOOSE k \in DOMAIN seq : isFirst(k)
<1>2. isFirst(1)
  BY <1>1
<1>3. \A k \in DOMAIN seq : isFirst(k) => k = 1
  BY <1>1
<1>4. FirstIn(seq, S) = seq[first]
  BY <1>1 DEF FirstIn
<1> HIDE DEF isFirst
<1>5. first = 1
  BY <1>1, <1>2, <1>3
<1> QED BY <1>4, <1>5

(* While the user holds a tenant besides their own, a fallback gives one. *)
LEMMA FallbackFound ==
    ASSUME NEW username, NEW available_ \in Seq(Names), Others(username, available_) # {}
    PROVE  Fallback(username, available_) # Undefined
<1> DEFINE others == Others(username, available_)
           rest == IF others = {globalTenantName} THEN others ELSE others \ {globalTenantName}
<1>1. Fallback(username, available_) = FirstIn(available_, rest)
  BY DEF Fallback
<1>2. rest # {}
  OBVIOUS
<1>3. \A t \in rest : \E i \in DOMAIN available_ : available_[i] = t
  BY DEF Others
<1> HIDE DEF rest
<1>4. FirstIn(available_, rest) \in Names
  BY <1>2, <1>3, FirstInFound
<1> QED BY <1>1, <1>4, NamesAssumption

(* resolve() turns a user away exactly when their own name is all they have. *)
LEMMA ResolveRefuses ==
    ASSUME NEW username \in Names \ {GlobalTenant, PrivateTenant},
           NEW requested \in Names \cup {Undefined}, NEW preferred,
           NEW available_ \in Seq(Names), NEW conf_ \in Conf, NEW tenancy_ \in Tenancy
    PROVE  resolve(username, requested, preferred, available_,
                   conf_.global, tenancy_.mt, tenancy_.private) = Undefined
             <=> Entitled(available_, conf_, tenancy_) \subseteq {username}
<1> DEFINE answer_ == resolve(username, requested, preferred, available_,
                              conf_.global, tenancy_.mt, tenancy_.private)
           entitled == Entitled(available_, conf_, tenancy_)
           others == Others(username, available_)
<1>0. conf_.global \in BOOLEAN /\ tenancy_.private \in BOOLEAN /\ tenancy_.mt \in BOOLEAN
  BY DEF Conf, Tenancy
<1>1. GlobalTenant # Undefined /\ PrivateTenant # Undefined
  BY NamesAssumption DEF PRIVATE_TENANTS, GLOBAL_TENANTS
<1>2. CASE ~tenancy_.mt
  BY <1>0, <1>1, <1>2 DEF resolve, Entitled
<1>3. CASE tenancy_.mt
  <2>1. entitled = {available_[i] : i \in DOMAIN available_}
                   \cup (IF conf_.global THEN {GlobalTenant} ELSE {})
                   \cup (IF tenancy_.private THEN {PrivateTenant} ELSE {})
    BY <1>3 DEF Entitled
  <2>2. {available_[i] : i \in DOMAIN available_} \subseteq {username} <=> others = {}
    BY DEF Others
  <2>3. entitled \subseteq {username} <=> ~conf_.global /\ ~tenancy_.private /\ others = {}
    <3> HIDE DEF others, entitled
    <3> QED BY <1>0, <2>1, <2>2
  <2>4. ~conf_.global /\ ~tenancy_.private /\ others = {} => answer_ = Undefined
    BY DEF resolve
  <2>5. ASSUME answer_ = Undefined, ~(~conf_.global /\ ~tenancy_.private /\ others = {})
        PROVE  FALSE
    <3>1. conf_.global \/ tenancy_.private => answer_ # Undefined
      BY <1>0, <1>1, <1>3 DEF resolve
    <3>2. ~conf_.global /\ ~tenancy_.private /\ others # {}
      BY <1>0, <2>5, <3>1
    <3>3. Fallback(username, available_) # Undefined
      BY <3>2, FallbackFound
    <3> QED BY <1>3, <2>5, <3>2, <3>3 DEF resolve
  <2> HIDE DEF answer_, entitled, others
  <2> QED BY <2>3, <2>4, <2>5 DEF answer_, entitled
<1> QED BY <1>2, <1>3

(* The entry point selects a name, or nothing. *)
LEMMA ResolvedBy ==
    ASSUME ChoiceTyped, NEW last \in Names \cup {Undefined}
    PROVE  /\ asked \in Seq(Names) /\ granted \in Seq(Names)
           /\ confNow \in Conf /\ confNow.preferred \in Seq(Names) /\ tenancyNow \in Tenancy
           /\ SelectedTenant(asked, last, tenancyNow.default, tenancyNow.mt)
                 \in Names \cup {Undefined}
<1>1. confNow \in Conf /\ tenancyNow \in Tenancy
  BY ChoiceAssumption DEF ChoiceTyped
<1>4. asked \in Seq(Names)
  <2>1. << >> \in Seq(Names)
    OBVIOUS
  <2>2. asked = << >> \/ asked \in Queries
    BY DEF ChoiceTyped
  <2> QED BY <2>1, <2>2, ChoiceAssumption
<1>2. granted \in Seq(Names)
  BY ChoiceAssumption DEF ChoiceTyped
<1>3. SelectedTenant(asked, last, tenancyNow.default, tenancyNow.mt) \in Names \cup {Undefined}
  BY <1>1, <1>4, SelectedName
<1> QED BY <1>1, <1>2, <1>3, <1>4 DEF Conf

-----------------------------------------------------------------------------
LEMMA ChoiceInvInit == ChoiceInit => ChoiceInv
BY DEF ChoiceInit, ChoiceInv, ChoiceTyped, AnswerResolved, Resolved

LEMMA ChoiceInvNext ==
    ASSUME ChoiceInv, [ChoiceNext]_choiceVars
    PROVE  ChoiceInv'
<1>1. CASE Request
  <2>1. /\ asked' \in Queries /\ UNCHANGED <<confNow, tenancyNow, granted>>
        /\ answer' = resolveTenant(User, asked', cookie, granted, confNow, tenancyNow)
        /\ cookie' = IF isValidTenant(answer') THEN answer' ELSE cookie
    BY <1>1 DEF Request
  <2>2. asked' \in Seq(Names) /\ cookie \in Names \cup {Undefined}
    BY <2>1, ChoiceAssumption DEF ChoiceInv, ChoiceTyped
  <2>3. granted \in Seq(Names) /\ confNow \in Conf /\ tenancyNow \in Tenancy
    BY <2>2, ResolvedBy DEF ChoiceInv
  <2>4. answer' \in Names \cup {Undefined}
    BY <2>1, <2>2, <2>3, ResolveTenantEntitled
  <2>5. cookie' \in Names \cup {Undefined}
    BY <2>1, <2>2, <2>4
  <2>6. ChoiceTyped'
    BY <2>1, <2>4, <2>5 DEF ChoiceInv, ChoiceTyped
  <2>7. AnswerResolved'
    BY <2>1, <2>2 DEF AnswerResolved
  <2> QED BY <2>6, <2>7 DEF ChoiceInv
<1>2. CASE Regrant
  BY <1>2 DEF Regrant, ChoiceInv, ChoiceTyped, AnswerResolved, Resolved
<1>3. CASE UNCHANGED choiceVars
  BY <1>3 DEF choiceVars, ChoiceInv, ChoiceTyped, AnswerResolved, Resolved
<1> QED BY <1>1, <1>2, <1>3 DEF ChoiceNext

(* The invariant of every session. *)
THEOREM ChoiceInvariant == ChoiceSpec => []ChoiceInv
BY ChoiceInvInit, ChoiceInvNext, PTL DEF ChoiceSpec

(* A session is only ever given tenants its user is entitled to under the        *)
(* configuration in force (server/multitenancy/tenant_resolver.ts, resolve). *)
THEOREM SessionEntitled == ChoiceSpec => []OnlyEntitled
<1>1. ASSUME ChoiceInv
      PROVE  OnlyEntitled
  <2> SUFFICES ASSUME Resolved, isValidTenant(answer)
               PROVE  answer \in Entitled(granted, confNow, tenancyNow)
    BY DEF OnlyEntitled
  <2>1. PICK last \in Names \cup {Undefined} :
           answer = resolveTenant(User, asked, last, granted, confNow, tenancyNow)
    BY <1>1 DEF ChoiceInv, AnswerResolved
  <2>2. asked \in Seq(Names) /\ granted \in Seq(Names) /\ confNow \in Conf /\ tenancyNow \in Tenancy
    BY <1>1, <2>1, ResolvedBy DEF ChoiceInv
  <2> QED BY <2>1, <2>2, ResolveTenantEntitled DEF isValidTenant
<1> QED BY <1>1, ChoiceInvariant, PTL

(* A user is turned away exactly when their own name is all they have. *)
THEOREM SessionRefusal == ChoiceSpec => []RefusedOnlyWithoutTenant
<1>1. ASSUME ChoiceInv
      PROVE  RefusedOnlyWithoutTenant
  <2> SUFFICES ASSUME Resolved
               PROVE  answer = Undefined <=> Entitled(granted, confNow, tenancyNow) \subseteq {User}
    BY DEF RefusedOnlyWithoutTenant
  <2>1. PICK last \in Names \cup {Undefined} :
           answer = resolveTenant(User, asked, last, granted, confNow, tenancyNow)
    BY <1>1 DEF ChoiceInv, AnswerResolved
  <2>2. /\ granted \in Seq(Names) /\ confNow \in Conf /\ tenancyNow \in Tenancy
        /\ SelectedTenant(asked, last, tenancyNow.default, tenancyNow.mt)
              \in Names \cup {Undefined}
    BY <1>1, <2>1, ResolvedBy DEF ChoiceInv
  <2> DEFINE selected == SelectedTenant(asked, last, tenancyNow.default, tenancyNow.mt)
  <2>3. answer = resolve(User, selected, confNow.preferred, granted, confNow.global, tenancyNow.mt,
                         tenancyNow.private)
    BY <2>1 DEF resolveTenant
  <2>4. User \in Names \ {GlobalTenant, PrivateTenant}
    BY ChoiceAssumption
  <2> HIDE DEF selected
  <2>5. selected \in Names \cup {Undefined}
    BY <2>2 DEF selected
  <2>6. resolve(User, selected, confNow.preferred, granted, confNow.global, tenancyNow.mt,
                tenancyNow.private) = Undefined
          <=> Entitled(granted, confNow, tenancyNow) \subseteq {User}
    BY <2>2, <2>4, <2>5, ResolveRefuses, Zenon
  <2> QED BY <2>3, <2>6
<1> QED BY <1>1, ChoiceInvariant, PTL

(* Who asks for a tenant they hold is given it. *)
THEOREM SessionAsked == ChoiceSpec => []AskedAndHeld
<1>1. ASSUME ChoiceInv
      PROVE  AskedAndHeld
  <2> SUFFICES ASSUME Resolved, tenancyNow.mt, asked # <<>>, In(asked[1], granted),
                      Entitled(granted, confNow, tenancyNow) # {User}
               PROVE  answer = asked[1]
    BY DEF AskedAndHeld
  <2>1. PICK last \in Names \cup {Undefined} :
           answer = resolveTenant(User, asked, last, granted, confNow, tenancyNow)
    BY <1>1 DEF ChoiceInv, AnswerResolved
  <2>2. asked \in Seq(Names) /\ granted \in Seq(Names) /\ confNow \in Conf /\ tenancyNow \in Tenancy
    BY <1>1, <2>1, ResolvedBy DEF ChoiceInv
  <2>3. asked[1] \in Names /\ asked[1] # GlobalTenant
    <3>1. \A i \in DOMAIN granted : granted[i] # GlobalTenant
      BY <1>1, ChoiceAssumption DEF ChoiceInv, ChoiceTyped
    <3>2. asked[1] \in Names
      BY <2>2
    <3> QED BY <3>1, <3>2 DEF In
  <2>4. FirstIn(asked, Truthy) = asked[1]
    BY <2>2, <2>3, FirstAsked DEF Truthy
  <2>5. asked[1] # Undefined
    BY <2>3, NamesAssumption
  <2>6. SelectedTenant(asked, last, tenancyNow.default, tenancyNow.mt) = asked[1]
    BY <2>4, <2>5 DEF SelectedTenant
  <2>7. confNow.global \in BOOLEAN /\ tenancyNow.private \in BOOLEAN
    BY <2>2 DEF Conf, Tenancy
  <2>8. ~(~confNow.global /\ ~tenancyNow.private /\ Others(User, granted) = {})
    <3> SUFFICES ASSUME ~confNow.global, ~tenancyNow.private, Others(User, granted) = {}
                 PROVE  FALSE
      OBVIOUS
    <3>1. Entitled(granted, confNow, tenancyNow) = {granted[i] : i \in DOMAIN granted}
      BY DEF Entitled
    <3>2. {granted[i] : i \in DOMAIN granted} \subseteq {User}
      BY DEF Others
    <3>3. asked[1] \in {granted[i] : i \in DOMAIN granted}
      BY DEF In
    <3> QED BY <3>1, <3>2, <3>3
  <2>9. ResolveRequested(User, asked[1], granted, confNow.global, tenancyNow.private) = asked[1]
    BY DEF ResolveRequested
  <2> QED BY <2>1, <2>5, <2>6, <2>8, <2>9 DEF resolveTenant, resolve, isValidTenant
<1> QED BY <1>1, ChoiceInvariant, PTL

(* A session that does not ask for another tenant keeps the one it has. *)
THEOREM SessionStays == ChoiceSpec => StaysPut
<1> DEFINE Stays == Resolved /\ isValidTenant(answer) /\ answer' # NoneYet /\ asked' = <<>>
                        => answer' = answer
<1>1. ASSUME ChoiceInv, ChoiceInv', [ChoiceNext]_choiceVars
      PROVE  [Stays]_choiceVars
  <2> SUFFICES ASSUME ChoiceNext, Resolved, isValidTenant(answer), answer' # NoneYet, asked' = <<>>
               PROVE  answer' = answer
    BY <1>1
  <2>1. Request
    BY DEF ChoiceNext, Regrant
  <2>2. PICK last \in Names \cup {Undefined} :
           answer = resolveTenant(User, asked, last, granted, confNow, tenancyNow)
    BY <1>1 DEF ChoiceInv, AnswerResolved
  <2>3. /\ asked \in Seq(Names) /\ granted \in Seq(Names) /\ confNow \in Conf
        /\ confNow.preferred \in Seq(Names) /\ tenancyNow \in Tenancy
        /\ SelectedTenant(asked, last, tenancyNow.default, tenancyNow.mt)
              \in Names \cup {Undefined}
    BY <1>1, <2>2, ResolvedBy DEF ChoiceInv
  <2>4. confNow.global \in BOOLEAN /\ tenancyNow.mt \in BOOLEAN /\ tenancyNow.private \in BOOLEAN
    BY <2>3 DEF Conf, Tenancy
  <2>5. answer \in Names /\ cookie = answer
    BY <1>1, ChoiceAssumption DEF ChoiceInv, ChoiceTyped, AnswerResolved, Resolved,
          isValidTenant
  <2>6. SelectedTenant(<<>>, answer, tenancyNow.default, tenancyNow.mt) = answer
    BY <2>5, CookieSelected
  <2>7. answer' = resolve(User, answer, confNow.preferred, granted, confNow.global, tenancyNow.mt,
                         tenancyNow.private)
    BY <2>1, <2>5, <2>6 DEF Request, resolveTenant
  <2>8. answer = resolve(User, SelectedTenant(asked, last, tenancyNow.default, tenancyNow.mt),
                         confNow.preferred, granted, confNow.global, tenancyNow.mt,
                         tenancyNow.private)
    BY <2>2 DEF resolveTenant
  <2> QED BY <2>3, <2>4, <2>5, <2>7, <2>8, ResolveStable
<1>2. ChoiceInv /\ ChoiceInv' /\ [ChoiceNext]_choiceVars => [Stays]_choiceVars
  BY <1>1
<1>3. []ChoiceInv /\ [][ChoiceNext]_choiceVars => [][Stays]_choiceVars
  BY <1>2, PTL
<1> QED BY <1>3, ChoiceInvariant, PTL DEF ChoiceSpec, StaysPut
=============================================================================
