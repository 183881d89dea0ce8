------------------------ MODULE TenantResolverProofs ------------------------
(***************************************************************************)
(* What resolve() returns, for every configuration, every list of preferred *)
(* tenants and every set of tenants a user can hold.                        *)
(***************************************************************************)
EXTENDS TenantResolver, WellFoundedInduction, TLAPS

LEMMA LeastIndex ==
    ASSUME NEW S, S \subseteq Nat, S # {}
    PROVE  \E m \in S : \A k \in S : ~(k < m)
<1>1. PICK m \in S : \A k \in S : ~(<<k, m>> \in OpToRel(<, Nat))
  BY NatLessThanWellFounded, WFMin, Zenon
<1>2. \A k \in S : ~(k < m)
  BY <1>1 DEF OpToRel
<1> QED BY <1>2

(* A tenant found by FirstIn is a member of the sequence and of the set. *)
LEMMA FirstInMember ==
    ASSUME NEW seq \in Seq(Names), NEW S
    PROVE  \/ FirstIn(seq, S) = Undefined
           \/ FirstIn(seq, S) \in S /\ In(FirstIn(seq, S), seq)
<1> DEFINE hits == {i \in DOMAIN seq : seq[i] \in S}
<1>1. CASE hits = {}
  BY <1>1 DEF FirstIn
<1>2. CASE hits # {}
  <2>1. hits \subseteq Nat
    OBVIOUS
  <2>2. PICK m \in hits : \A k \in hits : ~(k < m)
    BY <1>2, <2>1, LeastIndex
  <2>3. \E i \in DOMAIN seq : seq[i] \in S /\ \A j \in DOMAIN seq : j < i => seq[j] \notin S
    BY <2>2
  <2> DEFINE first == CHOOSE i \in DOMAIN seq :
                        seq[i] \in S /\ \A j \in DOMAIN seq : j < i => seq[j] \notin S
  <2>4. first \in DOMAIN seq /\ seq[first] \in S
    BY <2>3
  <2>5. FirstIn(seq, S) = seq[first]
    BY <1>2 DEF FirstIn
  <2> QED BY <2>4, <2>5 DEF In
<1> QED BY <1>1, <1>2

-----------------------------------------------------------------------------
(* The three ways a tenant is chosen under multitenancy. *)

Choices(available, globalOn, privateOn) ==
    {available[i] : i \in DOMAIN available}
    \cup (IF globalOn THEN {GlobalTenant} ELSE {})
    \cup (IF privateOn THEN {PrivateTenant} ELSE {})

LEMMA RequestedChoice ==
    ASSUME NEW username, NEW requested \in Names, NEW available \in Seq(Names),
           NEW globalOn \in BOOLEAN, NEW privateOn \in BOOLEAN
    PROVE  ResolveRequested(username, requested, available, globalOn, privateOn)
             \in Choices(available, globalOn, privateOn) \cup {Undefined}
BY DEF ResolveRequested, Choices, In

LEMMA PreferredChoice ==
    ASSUME NEW username, NEW element \in Names, NEW available \in Seq(Names),
           NEW globalOn \in BOOLEAN, NEW privateOn \in BOOLEAN
    PROVE  ResolvePreferred(username, element, available, globalOn, privateOn)
             \in Choices(available, globalOn, privateOn) \cup {Undefined}
BY DEF ResolvePreferred, Choices, In

LEMMA FirstPreferredChoice ==
    ASSUME NEW username, NEW preferred \in Seq(Names), NEW available \in Seq(Names),
           NEW globalOn \in BOOLEAN, NEW privateOn \in BOOLEAN
    PROVE  FirstPreferred(username, preferred, available, globalOn, privateOn)
             \in Choices(available, globalOn, privateOn) \cup {Undefined}
<1> DEFINE pick(e) == ResolvePreferred(username, e, available, globalOn, privateOn)
           hit == FirstIn(preferred, {e \in Names : pick(e) # Undefined})
<1>1. hit = Undefined \/ hit \in {e \in Names : pick(e) # Undefined}
  BY FirstInMember, Zenon
<1>2. CASE hit = Undefined
  BY <1>2, Zenon DEF FirstPreferred
<1>3. CASE hit # Undefined
  <2>1. hit \in Names
    BY <1>1, <1>3
  <2>2. FirstPreferred(username, preferred, available, globalOn, privateOn) = pick(hit)
    BY <1>3, Zenon DEF FirstPreferred
  <2> QED BY <2>1, <2>2, PreferredChoice
<1> QED BY <1>2, <1>3

LEMMA FallbackChoice ==
    ASSUME NEW username, NEW available \in Seq(Names), NEW globalOn, NEW privateOn
    PROVE  Fallback(username, available) \in Choices(available, globalOn, privateOn) \cup {Undefined}
<1>1. \A S : \/ FirstIn(available, S) = Undefined
             \/ In(FirstIn(available, S), available)
  BY FirstInMember
<1> QED BY <1>1 DEF Fallback, Choices, In

(* Whatever a request asks for and whatever is preferred, resolve() gives a *)
(* tenant the user is entitled to, or none.                                 *)
THEOREM ResolveEntitled ==
    ASSUME NEW username, NEW requested \in Names \cup {Undefined},
           NEW preferred \in Seq(Names), NEW available \in Seq(Names),
           NEW conf \in Conf, NEW tenancy \in Tenancy
    PROVE  resolve(username, requested, preferred, available,
                   conf.global, tenancy.mt, tenancy.private)
             \in Entitled(available, conf, tenancy) \cup {Undefined}
<1> DEFINE wanted == IF isValidTenant(requested)
                     THEN ResolveRequested(username, requested, available,
                                           conf.global, tenancy.private)
                     ELSE Undefined
           liked == FirstPreferred(username, preferred, available, conf.global, tenancy.private)
           choices == Choices(available, conf.global, tenancy.private)
<1>0. conf.global \in BOOLEAN /\ tenancy.private \in BOOLEAN /\ tenancy.mt \in BOOLEAN
  BY DEF Conf, Tenancy
<1>1. wanted \in choices \cup {Undefined}
  BY <1>0, RequestedChoice DEF isValidTenant
<1>2. liked \in choices \cup {Undefined}
  BY <1>0, FirstPreferredChoice
<1>3. Fallback(username, available) \in choices \cup {Undefined}
  BY <1>0, FallbackChoice
<1>4. CASE ~tenancy.mt
  BY <1>4 DEF resolve, Entitled
<1>5. CASE tenancy.mt
  <2>1. Entitled(available, conf, tenancy) = choices
    BY <1>5 DEF Entitled, Choices
  <2>2. conf.global => GlobalTenant \in choices
    BY DEF Choices
  <2>3. tenancy.private => PrivateTenant \in choices
    BY DEF Choices
  <2> HIDE DEF choices, wanted, liked
  <2>4. resolve(username, requested, preferred, available,
                conf.global, tenancy.mt, tenancy.private) \in
          {Undefined, wanted, liked, Fallback(username, available)}
          \cup (IF conf.global THEN {GlobalTenant} ELSE {})
          \cup (IF tenancy.private THEN {PrivateTenant} ELSE {})
    BY <1>0, <1>5 DEF resolve, wanted, liked
  <2> QED BY <1>0, <1>1, <1>2, <1>3, <2>1, <2>2, <2>3, <2>4
<1> QED BY <1>0, <1>4, <1>5

LEMMA SelectedName ==
    ASSUME NEW asked \in Seq(Names), NEW cookieTenant \in Names \cup {Undefined},
           NEW tenancy \in Tenancy
    PROVE  SelectedTenant(asked, cookieTenant, tenancy.default, tenancy.mt)
             \in Names \cup {Undefined}
<1>1. FirstIn(asked, Truthy) = Undefined \/ FirstIn(asked, Truthy) \in Truthy
  BY FirstInMember
<1> QED BY <1>1 DEF SelectedTenant, Truthy, isValidTenant, Tenancy

LEMMA EntitledNames ==
    ASSUME NEW available \in Seq(Names), NEW conf, NEW tenancy
    PROVE  Entitled(available, conf, tenancy) \subseteq Names
BY NamesAssumption DEF Entitled, PRIVATE_TENANTS, GLOBAL_TENANTS

(* The same for the entry point: no query, cookie or default gets a user    *)
(* into a tenant they are not entitled to.                                  *)
THEOREM ResolveTenantEntitled ==
    ASSUME NEW username, NEW asked \in Seq(Names),
           NEW cookieTenant \in Names \cup {Undefined},
           NEW available \in Seq(Names), NEW conf \in Conf, NEW tenancy \in Tenancy
    PROVE  /\ resolveTenant(username, asked, cookieTenant, available, conf, tenancy)
                \in Entitled(available, conf, tenancy) \cup {Undefined}
           /\ resolveTenant(username, asked, cookieTenant, available, conf, tenancy)
                \in Names \cup {Undefined}
<1>1. conf.preferred \in Seq(Names)
  BY DEF Conf
<1> DEFINE selected == SelectedTenant(asked, cookieTenant, tenancy.default, tenancy.mt)
<1>2. selected \in Names \cup {Undefined}
  BY SelectedName
<1>3. resolveTenant(username, asked, cookieTenant, available, conf, tenancy)
        \in Entitled(available, conf, tenancy) \cup {Undefined}
  BY <1>1, <1>2, ResolveEntitled DEF resolveTenant
<1> QED BY <1>3, EntitledNames

-----------------------------------------------------------------------------
(* With nothing asked for, the tenant in the cookie is the one requested. *)
LEMMA CookieSelected ==
    ASSUME NEW cookieTenant \in Names, NEW default, NEW mtEnabled
    PROVE  SelectedTenant(<<>>, cookieTenant, default, mtEnabled) = cookieTenant
<1>1. FirstIn(<<>>, Truthy) = Undefined
  BY DEF FirstIn
<1> QED BY <1>1, NamesAssumption DEF SelectedTenant, isValidTenant

LEMMA PreferredPrivate ==
    ASSUME NEW username, NEW preferred \in Seq(Names), NEW available \in Seq(Names),
           NEW globalOn \in BOOLEAN, NEW privateOn \in BOOLEAN,
           FirstPreferred(username, preferred, available, globalOn, privateOn) = PrivateTenant
    PROVE  In(username, available) \/ In(PrivateTenant, available)
<1> DEFINE pick(e) == ResolvePreferred(username, e, available, globalOn, privateOn)
           hit == FirstIn(preferred, {e \in Names : pick(e) # Undefined})
<1>0. PrivateTenant # Undefined
  BY NamesAssumption DEF PRIVATE_TENANTS
<1>1. hit # Undefined
  BY <1>0, Zenon DEF FirstPreferred
<1>2. pick(hit) = PrivateTenant
  BY <1>1, Zenon DEF FirstPreferred
<1>3. pick(hit) = PrivateTenant => In(username, available) \/ In(PrivateTenant, available)
  BY <1>0 DEF ResolvePreferred, GlobalTenant, PrivateTenant
<1> QED BY <1>2, <1>3

(* A session's tenant does not drift: resolving the tenant a request was     *)
(* given, with the same grants and settings, gives that tenant again.        *)
THEOREM ResolveStable ==
    ASSUME NEW username, NEW requested \in Names \cup {Undefined},
           NEW preferred \in Seq(Names), NEW available \in Seq(Names),
           NEW globalOn \in BOOLEAN, NEW mtEnabled \in BOOLEAN, NEW privateOn \in BOOLEAN,
           NEW t \in Names,
           t = resolve(username, requested, preferred, available, globalOn, mtEnabled, privateOn)
    PROVE  resolve(username, t, preferred, available, globalOn, mtEnabled, privateOn) = t
<1> DEFINE again == resolve(username, t, preferred, available, globalOn, mtEnabled, privateOn)
           wanted(q) == ResolveRequested(username, q, available, globalOn, privateOn)
           liked == FirstPreferred(username, preferred, available, globalOn, privateOn)
           choices == Choices(available, globalOn, privateOn)
<1>0. t # Undefined /\ PrivateTenant # Undefined /\ GlobalTenant # Undefined
      /\ PrivateTenant \in PRIVATE_TENANTS /\ GlobalTenant \in GLOBAL_TENANTS
      /\ GlobalTenant \notin PRIVATE_TENANTS /\ PrivateTenant \notin GLOBAL_TENANTS
  BY NamesAssumption DEF PRIVATE_TENANTS, GLOBAL_TENANTS, PrivateTenant, GlobalTenant
<1>1. ~(~globalOn /\ ~privateOn /\ Others(username, available) = {})
  BY <1>0 DEF resolve
<1>2. CASE ~mtEnabled
  BY <1>1, <1>2 DEF resolve
<1>3. CASE mtEnabled
  <2>0. wanted(t) # Undefined => again = wanted(t)
    BY <1>0, <1>1, <1>3 DEF resolve, isValidTenant
  <2>1. CASE In(t, available)
    BY <1>0, <2>0, <2>1 DEF ResolveRequested
  <2>2. CASE ~In(t, available)
    <3>1. requested \in Names => wanted(requested) \in choices \cup {Undefined}
      BY RequestedChoice
    <3>2. liked \in choices \cup {Undefined}
      BY FirstPreferredChoice
    <3>3. Fallback(username, available) \in choices \cup {Undefined}
      BY FallbackChoice
    <3> DEFINE first == IF isValidTenant(requested) THEN wanted(requested) ELSE Undefined
    <3>4. t = IF first # Undefined THEN first
              ELSE IF liked # Undefined THEN liked
              ELSE IF globalOn THEN GlobalTenant
              ELSE IF privateOn THEN PrivateTenant
              ELSE Fallback(username, available)
      BY <1>1, <1>3 DEF resolve
    <3>5. first \in choices \cup {Undefined}
      BY <3>1 DEF isValidTenant
    <3>6. t \in choices
      <4> HIDE DEF first, liked, choices
      <4>1. globalOn => GlobalTenant \in choices
        BY DEF choices, Choices
      <4>2. privateOn => PrivateTenant \in choices
        BY DEF choices, Choices
      <4> QED BY <1>0, <3>2, <3>3, <3>4, <3>5, <4>1, <4>2
    <3>7. (t = GlobalTenant /\ globalOn) \/ (t = PrivateTenant /\ privateOn)
      BY <2>2, <3>6 DEF Choices, In
    <3>8. CASE t = GlobalTenant /\ globalOn
      BY <1>0, <2>0, <2>2, <3>8 DEF ResolveRequested
    <3>9. CASE t = PrivateTenant /\ privateOn
      <4>1. CASE In(username, available)
        BY <1>0, <2>0, <2>2, <3>9, <4>1 DEF ResolveRequested
      <4>2. CASE ~In(username, available)
        <5>1. wanted(t) = Undefined
          BY <1>0, <2>2, <3>9, <4>2 DEF ResolveRequested
        <5>2. first # PrivateTenant
          BY <1>0, <2>2, <3>9, <4>2 DEF ResolveRequested
        <5>3. liked # PrivateTenant
          BY <2>2, <3>9, <4>2, PreferredPrivate
        <5> HIDE DEF first, liked
        <5>4. liked = Undefined /\ ~globalOn
          BY <1>0, <3>4, <3>9, <5>2, <5>3
        <5>5. again = PrivateTenant
          BY <1>0, <1>1, <1>3, <3>9, <5>1, <5>4 DEF resolve, liked, isValidTenant
        <5> QED BY <3>9, <5>5
      <4> QED BY <4>1, <4>2
    <3> QED BY <3>7, <3>8, <3>9
  <2> QED BY <2>1, <2>2
<1> QED BY <1>2, <1>3
=============================================================================
