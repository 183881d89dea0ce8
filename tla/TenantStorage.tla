---------------------------- MODULE TenantStorage ----------------------------
(***************************************************************************)
(* A running server with tenants: the tenant a request works in              *)
(* (TenantResolver), the namespace of its saved objects                      *)
(* (saved_objects_wrapper.ts), whether it is read-only (readonly_service.ts), *)
(* and the settings of tenancy (multitenancy/routes.ts), while the process    *)
(* comes and goes (PluginLifecycle).                                        *)
(*                                                                         *)
(* A namespace is the tenant it is named after and, when the user's name is    *)
(* appended, the user.                                                      *)
(***************************************************************************)
EXTENDS PluginLifecycle, TenantResolver

CONSTANTS
    Users,
    Requests,        \* requests that can be under way at the same time
    Objects,         \* saved objects: their types and ids
    available,       \* authinfo: per user the tenants
    writable,        \* authinfo: per user those with write access
    Asked,           \* tenants a request may name
    Tenancies,       \* settings of tenancy
    MaxObjects,      \* bound: saved objects there are
    MaxChanges       \* bound: changes of those settings

config == "config"   \* the type of the settings object

ASSUME StorageAssumption ==
    /\ Users \subseteq Names
    /\ Asked \subseteq Truthy
    /\ Tenancies \subseteq Tenancy
    /\ available \in [Users -> Seq(Names)]
    /\ writable \in [Users -> SUBSET Names]
    /\ MaxObjects \in Nat /\ MaxChanges \in Nat

VARIABLES
    tenancy,         \* dashboardsinfo
    session,         \* the browser's session cookie: user and tenant
    req,             \* the requests
    objects,         \* saved objects, each in a namespace
    made,            \* history: each with the place it was made in
    changes
storageVars == <<tenancy, session, req, objects, made, changes>>
vars == <<lifecycle, storageVars>>

Idle == [at |-> "idle"]
Session(user, tenant) == [user |-> user, tenant |-> tenant]
Namespace(tenant, user) == [tenant |-> tenant, user |-> user]
DefaultNamespace == Namespace("default", Undefined)

Init ==
    /\ LifecycleInit
    /\ tenancy \in Tenancies
    /\ session \in {Session(u, Undefined) : u \in Users}
    /\ req = [r \in Requests |-> Idle]
    /\ objects = {} /\ made = {} /\ changes = 0

-----------------------------------------------------------------------------
(* A login gives a cookie without a tenant. *)
login(user) ==
    /\ phase = "started" /\ \A r \in Requests : req[r] = Idle
    /\ session' = Session(user, Undefined)
    /\ UNCHANGED <<tenancy, req, objects, made, changes>>

Send(r, asked) ==
    /\ phase = "started" /\ req[r] = Idle
    /\ req' = [req EXCEPT ![r] = [at |-> "sent", user |-> session.user, asked |-> asked,
                                  cookie |-> session.tenant]]
    /\ UNCHANGED <<tenancy, session, objects, made, changes>>

(* The tenant of the request, which is set into its cookie. *)
authHandler(r) ==
    /\ req[r].at = "sent"
    /\ LET q == req[r]
           tenant == IF ~Multitenant THEN Undefined
                     ELSE resolveTenant(q.user, q.asked, q.cookie, available[q.user],
                                        [global |-> TRUE, preferred |-> <<>>], tenancy)
       IN  req' = [req EXCEPT ![r] = [at |-> "in", user |-> q.user, cookie |-> q.cookie,
                                      tenant |-> tenant]]
    /\ UNCHANGED <<tenancy, session, objects, made, changes>>

CookieAfter(q) == IF Multitenant THEN q.tenant ELSE q.cookie

(* The cookie names the tenant of the request; without the aggregation view the *)
(* backend is told it, unless it is the global one.                          *)
Settled(q) ==
    \/ q.cookie = q.tenant
    \/ q.tenant = GlobalTenant /\ q.cookie = Undefined
    \/ ~Wrapped /\ q.tenant # GlobalTenant

(* The answer of a handler: its result, what it should be (meant), and the     *)
(* tenant the cookie is given.                                              *)
Answered(r, op, result, meant, tenant) ==
    req' = [req EXCEPT ![r] = [at |-> "answered", user |-> @.user, sets |-> tenant, op |-> op,
                               result |-> result, meant |-> meant, settled |-> Settled(@)]]

Deliver(r) ==
    /\ req[r].at = "answered"
    /\ session' = Session(req[r].user, req[r].sets)
    /\ req' = [req EXCEPT ![r] = Idle]
    /\ UNCHANGED <<tenancy, objects, made, changes>>

-----------------------------------------------------------------------------
AllTypes == {o.type : o \in Objects}

(* Fault: private tenants share their namespace. *)
getNamespaceValue_Shared(tenant, user) == Namespace(tenant, Undefined)

getNamespaceValue(tenant, user) ==
    IF tenant = PrivateTenant /\ conf.enable_private THEN Namespace(tenant, user)
                                                     ELSE Namespace(tenant, Undefined)

(* Where the user means to work. *)
Place(tenant, user) == Namespace(tenant, IF tenant = PrivateTenant THEN user ELSE Undefined)

MadeAt(q, types) == {o \in Objects : o.type \in types /\ <<o, Place(q.tenant, q.user)>> \in made}

Handles(r) == Wrapped /\ req[r].at = "in"

(* create, bulkCreate and bulkUpdate have no options of their own: called        *)
(* without any, the namespace is put nowhere.                                *)
NamespaceGiven(q, options) ==
    IF options THEN getNamespaceValue(q.tenant, q.user) ELSE DefaultNamespace

createWithNamespace(r, object, options) ==
    LET q == req[r]
        in == NamespaceGiven(q, options)
    IN  /\ Handles(r)
        /\ <<object, in>> \notin objects /\ Cardinality(objects) < MaxObjects
        /\ objects' = objects \cup {<<object, in>>}
        /\ made' = IF options THEN made \cup {<<object, Place(q.tenant, q.user)>>} ELSE made
        /\ Answered(r, "create", {object}, {}, CookieAfter(q))
        /\ UNCHANGED <<tenancy, session, changes>>

deleteWithNamespace(r, object) ==
    LET q == req[r]
        in == getNamespaceValue(q.tenant, q.user)
    IN  /\ Handles(r)
        /\ <<object, in>> \in objects
        /\ objects' = objects \ {<<object, in>>}
        /\ made' = made \ {<<object, Place(q.tenant, q.user)>>}
        /\ Answered(r, "delete", {object}, {}, CookieAfter(q))
        /\ UNCHANGED <<tenancy, session, changes>>

Within(namespaces, types) == {o \in Objects : o.type \in types /\
                                 \E ns \in namespaces : <<o, ns>> \in objects}

(* get, update, bulkGet and checkConflicts: which of all objects they would     *)
(* reach.                                                                   *)
getWithNamespace(r) ==
    LET q == req[r]
    IN  /\ Handles(r)
        /\ Answered(r, "get", Within({getNamespaceValue(q.tenant, q.user)},
                                     AllTypes), MadeAt(q, AllTypes), CookieAfter(q))
        /\ UNCHANGED <<tenancy, session, objects, made, changes>>

bulkUpdateWithNamespace(r, options) ==
    LET q == req[r]
    IN  /\ Handles(r)
        /\ Answered(r, IF options THEN "get" ELSE "elsewhere",
                    Within({NamespaceGiven(q, options)}, AllTypes), MadeAt(q, AllTypes),
                    CookieAfter(q))
        /\ UNCHANGED <<tenancy, session, objects, made, changes>>

(* The namespace of a search: here enable_private is not looked at. *)
SearchNamespace(q) ==
    IF q.tenant = PrivateTenant THEN Namespace(q.tenant, q.user) ELSE Namespace(q.tenant, Undefined)

findWithNamespace(r, types) ==
    /\ Handles(r)
    /\ Answered(r, "find", Within({SearchNamespace(req[r])}, types), MadeAt(req[r], types),
                CookieAfter(req[r]))
    /\ UNCHANGED <<tenancy, session, objects, made, changes>>

(* Fault: the settings object is looked for like any other. *)
FoundIn_AnyConfig(q, types, namespaces) == Within(namespaces, types)

(* A search that names namespaces finds the settings in its own only, if that   *)
(* is one of them.                                                          *)
FoundIn(q, types, namespaces) ==
    Within(namespaces, types \ {config})
    \cup Within(namespaces \cap {SearchNamespace(q)}, types \cap {config})

findInNamespaces(r, types, namespaces) ==
    /\ Handles(r)
    /\ Answered(r, "search", FoundIn(req[r], types, namespaces),
                MadeAt(req[r], types \cap {config}), CookieAfter(req[r]))
    /\ UNCHANGED <<tenancy, session, objects, made, changes>>

-----------------------------------------------------------------------------
(* What authinfo says of the tenant asked for: the securitytenant header that   *)
(* the handler has set, which is empty with the aggregation view.            *)
user_requested_tenant(q) == IF Wrapped \/ q.tenant = Undefined THEN GlobalTenant ELSE q.tenant

(* Fault: the global tenant is looked up under the name it has in the cookie. *)
isReadOnlyTenant_ByCookieName(user, requested) ==
    requested # PrivateTenant /\ requested \notin writable[user]

isReadOnlyTenant(user, requested) ==
    LET currentTenant == IF requested \in Truthy THEN requested ELSE globalTenantName
    IN  currentTenant # PrivateTenant /\ currentTenant \notin writable[user]

(* What a user may do in a tenant, as the backend would say. *)
ReadsOnly(user, tenant) ==
    tenant # PrivateTenant
    /\ (IF tenant = GlobalTenant THEN globalTenantName ELSE tenant) \notin writable[user]

(* The cookie it reads is the one the request arrived with. *)
isReadonly(r) ==
    LET q == req[r]
        requested == IF user_requested_tenant(q) \in Truthy THEN user_requested_tenant(q)
                     ELSE q.cookie
    IN  /\ q.at = "in"
        /\ Answered(r, "readonly",
                    Multitenant /\ tenancy.mt /\ isReadOnlyTenant(q.user, requested),
                    Multitenant /\ tenancy.mt /\ ReadsOnly(q.user, q.tenant), CookieAfter(q))
        /\ UNCHANGED <<tenancy, session, objects, made, changes>>

(* A failing call is logged, and the tenant taken for writable. *)
isReadonlyFails(r) ==
    /\ req[r].at = "in"
    /\ Answered(r, "failed", FALSE, FALSE, CookieAfter(req[r]))
    /\ UNCHANGED <<tenancy, session, objects, made, changes>>

(* POST multitenancy/tenant, GET multitenancy/tenant. *)
postTenant(r, tenant) ==
    /\ Multitenant /\ req[r].at = "in"
    /\ Answered(r, "switch", {}, {}, tenant)
    /\ UNCHANGED <<tenancy, session, objects, made, changes>>

getTenant(r) ==
    /\ Multitenant /\ req[r].at = "in"
    /\ Answered(r, "tenant", {}, {}, CookieAfter(req[r]))
    /\ UNCHANGED <<tenancy, session, objects, made, changes>>

(* PUT configuration/tenancy/config. *)
putMultitenancyConfigurations(r, settings) ==
    /\ Multitenant /\ req[r].at = "in" /\ changes < MaxChanges
    /\ tenancy' = settings
    /\ changes' = changes + 1
    /\ Answered(r, "settings", {}, {}, CookieAfter(req[r]))
    /\ UNCHANGED <<session, objects, made>>

(* With the process go the requests it was serving. *)
Down ==
    /\ Ends
    /\ req' = [r \in Requests |-> Idle]
    /\ UNCHANGED <<tenancy, session, objects, made, changes>>

Serve(r) ==
    \/ \E asked \in {<<>>} \cup {<<t>> : t \in Asked} : Send(r, asked)
    \/ authHandler(r) \/ Deliver(r)
    \/ \E object \in Objects :
          deleteWithNamespace(r, object)
          \/ \E options \in BOOLEAN : createWithNamespace(r, object, options)
    \/ getWithNamespace(r)
    \/ \E options \in BOOLEAN : bulkUpdateWithNamespace(r, options)
    \/ \E types \in (SUBSET AllTypes) \ {{}} :
          \/ findWithNamespace(r, types)
          \/ \E namespaces \in SUBSET {ns \in {o[2] : o \in objects} : ns # DefaultNamespace} :
                namespaces # {} /\ findInNamespaces(r, types, namespaces)
    \/ isReadonly(r) \/ isReadonlyFails(r) \/ getTenant(r)
    \/ \E tenant \in Asked \cup {GlobalTenant} : postTenant(r, tenant)
    \/ \E settings \in Tenancies : putMultitenancyConfigurations(r, settings)

Next ==
    \/ Goes /\ UNCHANGED storageVars
    \/ Down
    \/ \E user \in Users : login(user) /\ UNCHANGED lifecycle
    \/ \E r \in Requests : Serve(r) /\ UNCHANGED lifecycle

Spec == Init /\ [][Next]_vars

-----------------------------------------------------------------------------
Shown(op) == {r \in Requests : req[r].at = "answered" /\ req[r].op = op}

(* Where the plugin's own configuration allows private tenants, what a request  *)
(* reaches and finds in its tenant is exactly what was made there, with options *)
(* and by whomever the tenant is shared with, and nothing of another place.   A  *)
(* bulkUpdate without options works outside its tenant, and is not among them.  *)
TenantHolds ==
    conf.enable_private =>
        \A r \in Shown("get") \cup Shown("find") : req[r].result = req[r].meant

(* A search over several tenants finds the settings of the working one only. *)
SettingsOfOwnTenant ==
    conf.enable_private =>
        \A r \in Shown("search") : {o \in req[r].result : o.type = config} \subseteq req[r].meant

(* A page is read-only exactly where the user has no write access to the tenant  *)
(* of its request, once the session's cookie names that tenant (without the     *)
(* aggregation view, it need only do so for the global tenant).               *)
ReadonlyIsRight ==
    \A r \in Shown("readonly") :
        req[r].settled => req[r].result = req[r].meant
=============================================================================
