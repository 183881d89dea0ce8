--------------------------- MODULE TenantResolver ---------------------------
(***************************************************************************)
(* How the server picks the tenant of a request:                           *)
(* server/multitenancy/tenant_resolver.ts.                                 *)
(*                                                                         *)
(* Tenant names are strings, because the code compares them with the       *)
(* literals below.  availableTenants, an object in the code, is the        *)
(* sequence of its keys: the last fallback takes the first key in          *)
(* insertion order.                                                        *)
(***************************************************************************)
EXTENDS Naturals, Sequences

CONSTANTS
    Names,       \* tenant and user names that can occur
    LowerCase,   \* String.prototype.toLowerCase on those names
    Undefined    \* JavaScript's undefined

PrivateTenant == "__user__"
GlobalTenant == ""
globalTenantName == "global_tenant"

(* Fault: the symbol the server itself stores in the cookie is forgotten. *)
PRIVATE_TENANTS_UnderNamesOnly == {"private", "Private"}

PRIVATE_TENANTS == {PrivateTenant, "private", "Private"}
GLOBAL_TENANTS == {"global", GlobalTenant, "Global"}

ASSUME NamesAssumption ==
    /\ PRIVATE_TENANTS \cup GLOBAL_TENANTS \cup {globalTenantName} \subseteq Names
    /\ Undefined \notin Names
    /\ LowerCase \in [Names -> Names]

-----------------------------------------------------------------------------
(* Note: the empty string is a valid tenant, the global one. *)
isValidTenant(tenant) == tenant # Undefined

(* The strings a JavaScript condition holds for: neither undefined nor empty. *)
Truthy == Names \ {GlobalTenant}

(* `t in availableTenants' *)
In(t, available) == \E i \in DOMAIN available : available[i] = t

(* The first element of seq that is in S, or Undefined. *)
FirstIn(seq, S) ==
    IF \E i \in DOMAIN seq : seq[i] \in S
    THEN seq[CHOOSE i \in DOMAIN seq :
                /\ seq[i] \in S
                /\ \A j \in DOMAIN seq : j < i => seq[j] \notin S]
    ELSE Undefined

(* Fault: the cookie is looked at before the query. *)
SelectedTenant_CookieFirst(asked, cookieTenant, default, mtEnabled) ==
    IF isValidTenant(cookieTenant) THEN cookieTenant
    ELSE IF FirstIn(asked, Truthy) # Undefined THEN FirstIn(asked, Truthy)
    ELSE IF default \in Truthy /\ mtEnabled THEN default
    ELSE Undefined

(* What the request asks for: `asked' lists the three query parameters and  *)
(* the two headers in the order the code looks at them; an empty one is     *)
(* passed over.  Then the cookie's tenant, then the default tenant.         *)
SelectedTenant(asked, cookieTenant, default, mtEnabled) ==
    LET explicit == FirstIn(asked, Truthy)
    IN  IF explicit # Undefined THEN explicit
        ELSE IF isValidTenant(cookieTenant) THEN cookieTenant
        ELSE IF default \in Truthy /\ mtEnabled THEN default
        ELSE Undefined

(* Fault: the global tenant is given even where it is switched off. *)
ResolveRequested_AnyGlobal(username, requested, available, globalOn, privateOn) ==
    IF In(requested, available) THEN requested
    ELSE IF privateOn /\ In(username, available) /\ requested \in PRIVATE_TENANTS
         THEN PrivateTenant
    ELSE IF requested \in GLOBAL_TENANTS THEN GlobalTenant
    ELSE Undefined

(* The body of resolve()'s `if (isValidTenant(requestedTenant))'. *)
ResolveRequested(username, requested, available, globalOn, privateOn) ==
    IF In(requested, available) THEN requested
    ELSE IF privateOn /\ In(username, available) /\ requested \in PRIVATE_TENANTS
         THEN PrivateTenant
    ELSE IF globalOn /\ requested \in GLOBAL_TENANTS THEN GlobalTenant
    ELSE Undefined

(* One round of resolve()'s loop over the preferred tenants. *)
ResolvePreferred(username, element, available, globalOn, privateOn) ==
    LET tenant == LowerCase[element]
    IN  IF globalOn /\ tenant \in GLOBAL_TENANTS THEN GlobalTenant
        ELSE IF privateOn /\ tenant \in PRIVATE_TENANTS /\ In(username, available)
             THEN PrivateTenant
        ELSE IF In(tenant, available) THEN tenant
        ELSE Undefined

(* The keys left for findKey(): neither the user's own name nor, when some  *)
(* other key remains, the global tenant's.                                  *)
Others(username, available) ==
    {available[i] : i \in DOMAIN available} \ {username}

(* Fault: the global tenant's key is dropped even when it is the only one. *)
Fallback_NeverGlobal(username, available) ==
    FirstIn(available, Others(username, available) \ {globalTenantName})

Fallback(username, available) ==
    LET others == Others(username, available)
        rest   == IF others = {globalTenantName} THEN others
                                                 ELSE others \ {globalTenantName}
    IN  FirstIn(available, rest)

FirstPreferred(username, preferred, available, globalOn, privateOn) ==
    LET pick(e) == ResolvePreferred(username, e, available, globalOn, privateOn)
        hit == FirstIn(preferred, {e \in Names : pick(e) # Undefined})
    IN  IF hit = Undefined THEN Undefined ELSE pick(hit)

resolve(username, requested, preferred, available, globalOn, mtEnabled, privateOn) ==
    LET wanted == IF isValidTenant(requested)
                  THEN ResolveRequested(username, requested, available, globalOn, privateOn)
                  ELSE Undefined
        liked  == FirstPreferred(username, preferred, available, globalOn, privateOn)
    IN  IF ~globalOn /\ ~privateOn /\ Others(username, available) = {} THEN Undefined
        ELSE IF ~mtEnabled THEN IF globalOn THEN GlobalTenant ELSE Undefined
        ELSE IF wanted # Undefined THEN wanted
        ELSE IF liked # Undefined THEN liked
        ELSE IF globalOn THEN GlobalTenant
        ELSE IF privateOn THEN PrivateTenant
        ELSE Fallback(username, available)

(* resolveTenant(): conf is the plugin's configuration (enable_global and    *)
(* the preferred tenants), tenancy the backend's dashboardsinfo answer.      *)
resolveTenant(username, asked, cookieTenant, available, conf, tenancy) ==
    resolve(username,
            SelectedTenant(asked, cookieTenant, tenancy.default, tenancy.mt),
            conf.preferred, available, conf.global, tenancy.mt, tenancy.private)

-----------------------------------------------------------------------------
(* The tenants a user may be given: a reference definition that does not    *)
(* depend on what was asked for or in which order the choices are tried.    *)
Entitled(available, conf, tenancy) ==
    IF ~tenancy.mt
    THEN IF conf.global THEN {GlobalTenant} ELSE {}
    ELSE {available[i] : i \in DOMAIN available}
         \cup (IF conf.global THEN {GlobalTenant} ELSE {})
         \cup (IF tenancy.private THEN {PrivateTenant} ELSE {})

Conf == [global : BOOLEAN, preferred : Seq(Names)]
Tenancy == [mt : BOOLEAN, private : BOOLEAN, default : Names \cup {Undefined}]
=============================================================================
