------------------------- MODULE TenantStorageProofs -------------------------
(***************************************************************************)
(* The migration, the saved objects of a tenant and read-only mode, for any    *)
(* number of indices, requests, users, tenants and objects, any tenants the    *)
(* users hold, and a process that stops at any time.                         *)
(***************************************************************************)
EXTENDS TenantStorage, TenantResolverProofs

-----------------------------------------------------------------------------
(* The migration.                                                          *)

(* What a running migration has taken off its list is up to date: this is why  *)
(* an empty list means that all are.                                        *)
Migrating ==
    /\ todo \subseteq Indices /\ migrated \subseteq Indices
    /\ migration \in {"running", "done"} => Indices \subseteq todo \cup migrated
    /\ migration = "done" => todo = {}

LEMMA MigratingInit == Init => Migrating
BY DEF Init, LifecycleInit, Migrating

LEMMA MigratingNext == Migrating /\ [Next]_vars => Migrating'
<1> SUFFICES ASSUME Migrating, [Next]_vars PROVE Migrating'
  OBVIOUS
<1>1. CASE Goes
  <2>1. CASE setup
    BY <2>1 DEF setup, Migrating
  <2>2. CASE start
    BY <2>2 DEF start, Migrating
  <2>3. CASE getTenantInfoWithInternalUser
    BY <2>3 DEF getTenantInfoWithInternalUser, Migrating
  <2>4. CASE migrateTenantIndices
    BY <2>4 DEF migrateTenantIndices, Migrating
  <2>5. ASSUME NEW index \in Indices, migrate(index) PROVE Migrating'
    BY <2>5 DEF migrate, Migrating
  <2> QED BY <1>1, <2>1, <2>2, <2>3, <2>4, <2>5 DEF Goes
<1>2. CASE Ends
  <2>1. Stopped /\ UNCHANGED <<conf, migrated>>
    BY <1>2 DEF Ends, crash, migrateFails
  <2> QED BY <2>1 DEF Stopped, Migrating
<1>3. CASE UNCHANGED lifecycle
  BY <1>3 DEF lifecycle, Migrating
<1> QED BY <1>1, <1>2, <1>3 DEF Next, Down, vars

(* However often the server was stopped in the middle, one that has finished   *)
(* its migration has left no index out.                                     *)
THEOREM MigrationComplete == Spec => []NoneLeftOut
<1>1. Migrating => NoneLeftOut
  BY DEF Migrating, NoneLeftOut
<1> QED BY <1>1, MigratingInit, MigratingNext, PTL DEF Spec

-----------------------------------------------------------------------------
(* The tenant of a request.                                                *)

MaybeTenant == Names \cup {Undefined}

Held(user) == {available[user][i] : i \in DOMAIN available[user]}

(* What is known of a request at each of its stages: the tenant the handlers   *)
(* see is one of the user's own, the global or the private one.               *)
WellFormed(q) ==
    /\ q.at = "sent" => q.user \in Users /\ q.asked \in Seq(Names) /\ q.cookie \in MaybeTenant
    /\ q.at = "in" =>
          /\ q.user \in Users /\ q.cookie \in MaybeTenant
          /\ Multitenant => q.tenant \in Held(q.user) \cup {GlobalTenant, PrivateTenant}
    /\ q.at = "answered" => q.user \in Users /\ q.sets \in MaybeTenant

Typed ==
    /\ conf \in Confs /\ tenancy \in Tenancy
    /\ session.user \in Users /\ session.tenant \in MaybeTenant
    /\ DOMAIN req = Requests /\ req = [r \in Requests |-> req[r]]
    /\ \A r \in Requests : WellFormed(req[r])

(* With the global tenant enabled some tenant is always found. *)
LEMMA GlobalResolves ==
    ASSUME NEW user, NEW requested, NEW preferred, NEW held, NEW mt, NEW private
    PROVE  resolve(user, requested, preferred, held, TRUE, mt, private) # Undefined
BY NamesAssumption DEF resolve, GLOBAL_TENANTS

LEMMA RequestTenant ==
    ASSUME NEW user \in Users, NEW asked \in Seq(Names), NEW cookie \in MaybeTenant,
           tenancy \in Tenancy
    PROVE  resolveTenant(user, asked, cookie, available[user],
                         [global |-> TRUE, preferred |-> <<>>], tenancy)
             \in Held(user) \cup {GlobalTenant, PrivateTenant}
<1> DEFINE plugin == [global |-> TRUE, preferred |-> <<>>]
           chosen == resolveTenant(user, asked, cookie, available[user], plugin, tenancy)
<1>1. plugin \in Conf /\ available[user] \in Seq(Names)
  BY StorageAssumption DEF Conf
<1>2. chosen \in Entitled(available[user], plugin, tenancy) \cup {Undefined}
  <2> HIDE DEF plugin
  <2> QED BY <1>1, ResolveTenantEntitled DEF MaybeTenant
<1>3. chosen # Undefined
  BY GlobalResolves DEF resolveTenant
<1>4. Entitled(available[user], plugin, tenancy)
        \subseteq Held(user) \cup {GlobalTenant, PrivateTenant}
  BY DEF Entitled, Held
<1> HIDE DEF chosen
<1> QED BY <1>2, <1>3, <1>4 DEF chosen

-----------------------------------------------------------------------------
(* What was made, and what is there.                                       *)

Places == {Namespace(t, u) : t \in Names \ {"default"}, u \in Users \cup {Undefined}}

(* Outside the namespace of objects created without options, an object is where *)
(* it was made and nowhere else.                                            *)
Kept == \A o \in Objects, at \in Places : <<o, at>> \in made <=> <<o, at>> \in objects

(* No tenant has the name of the namespace without a tenant. *)
NoneCalledDefault == \A u \in Users : ~In("default", available[u])

(* Where tenants are kept apart. *)
Separate == conf.enable_private /\ NoneCalledDefault

(* What the answers say. *)
Right(q) ==
    q.at = "answered" =>
        /\ Separate /\ q.op \in {"get", "find"} => q.result = q.meant
        /\ Separate /\ q.op = "search" =>
              {o \in q.result : o.type = config} \subseteq q.meant
        /\ q.op = "readonly" /\ q.settled => q.result = q.meant

StorageInv ==
    /\ Typed
    /\ Separate => Kept
    /\ \A r \in Requests : Right(req[r])

LEMMA StorageInit == Init => StorageInv
<1> SUFFICES ASSUME Init PROVE StorageInv
  OBVIOUS
<1>1. conf \in Confs /\ tenancy \in Tenancy
  BY StorageAssumption DEF Init, LifecycleInit
<1>2. session.user \in Users /\ session.tenant \in MaybeTenant
  BY DEF Init, Session, MaybeTenant
<1>3. req = [r \in Requests |-> Idle] /\ objects = {} /\ made = {}
  BY DEF Init
<1>4. \A r \in Requests : WellFormed(req[r]) /\ Right(req[r])
  BY <1>3 DEF Idle, WellFormed, Right
<1> QED BY <1>1, <1>2, <1>3, <1>4 DEF StorageInv, Typed, Kept

(* A step that gives one request a new state, and nothing to the rest. *)
LEMMA OneRequest ==
    ASSUME Typed, \A o \in Requests : Right(req[o]), NEW r \in Requests, NEW q,
           req' = [req EXCEPT ![r] = q], conf' = conf,
           WellFormed(q), Right(q)
    PROVE  /\ DOMAIN req' = Requests /\ req' = [o \in Requests |-> req'[o]]
           /\ \A o \in Requests : WellFormed(req[o])'
           /\ \A o \in Requests : Right(req[o])'
<1>1. DOMAIN req' = Requests /\ req' = [o \in Requests |-> req'[o]]
  BY DEF Typed
<1>2. \A o \in Requests : req'[o] = IF o = r THEN q ELSE req[o]
  BY DEF Typed
<1>3. \A o \in Requests : WellFormed(req'[o]) /\ Right(req'[o])
  BY <1>2 DEF Typed
<1>4. \A o \in Requests : WellFormed(req[o])' <=> WellFormed(req'[o])
  BY DEF WellFormed, Multitenant
<1>5. \A o \in Requests : Right(req[o])' <=> Right(req'[o])
  BY DEF Right, Separate
<1> QED BY <1>1, <1>3, <1>4, <1>5

(* Nothing but the requests and the session changes. *)
StoreUnchanged == UNCHANGED <<conf, tenancy, objects, made>>

LEMMA SendKeeps ==
    ASSUME StorageInv, NEW r \in Requests, NEW asked \in Seq(Names), Send(r, asked),
           UNCHANGED lifecycle
    PROVE  StorageInv'
<1> DEFINE q == [at |-> "sent", user |-> session.user, asked |-> asked,
                 cookie |-> session.tenant]
<1>1. req' = [req EXCEPT ![r] = q] /\ StoreUnchanged /\ session' = session
  BY DEF Send, lifecycle, StoreUnchanged
<1>2. WellFormed(q) /\ Right(q)
  BY DEF WellFormed, Right, StorageInv, Typed
<1> HIDE DEF q
<1> QED BY <1>1, <1>2, OneRequest DEF StorageInv, Typed, Kept, StoreUnchanged, Separate

LEMMA ResolveKeeps ==
    ASSUME StorageInv, NEW r \in Requests, authHandler(r), UNCHANGED lifecycle
    PROVE  StorageInv'
<1> DEFINE tenant == IF ~Multitenant THEN Undefined
                     ELSE resolveTenant(req[r].user, req[r].asked, req[r].cookie,
                                        available[req[r].user],
                                        [global |-> TRUE, preferred |-> <<>>], tenancy)
           q == [at |-> "in", user |-> req[r].user, cookie |-> req[r].cookie,
                 tenant |-> tenant]
<1>1. req' = [req EXCEPT ![r] = q] /\ StoreUnchanged /\ session' = session
  BY DEF authHandler, lifecycle, StoreUnchanged
<1>2. /\ req[r].user \in Users /\ req[r].asked \in Seq(Names)
      /\ req[r].cookie \in MaybeTenant /\ tenancy \in Tenancy
  BY DEF authHandler, StorageInv, Typed, WellFormed
<1>3. Multitenant => tenant \in Held(req[r].user) \cup {GlobalTenant, PrivateTenant}
  BY <1>2, RequestTenant
<1>4. WellFormed(q) /\ Right(q)
  <2> HIDE DEF tenant
  <2> QED BY <1>2, <1>3 DEF WellFormed, Right
<1> HIDE DEF q
<1> QED BY <1>1, <1>4, OneRequest DEF StorageInv, Typed, Kept, StoreUnchanged, Separate

LEMMA DeliverKeeps ==
    ASSUME StorageInv, NEW r \in Requests, Deliver(r), UNCHANGED lifecycle
    PROVE  StorageInv'
<1>1. req' = [req EXCEPT ![r] = Idle] /\ StoreUnchanged
  BY DEF Deliver, lifecycle, StoreUnchanged
<1>2. WellFormed(Idle) /\ Right(Idle)
  BY DEF WellFormed, Right, Idle
<1>3. session'.user \in Users /\ session'.tenant \in MaybeTenant
  BY DEF Deliver, Session, StorageInv, Typed, WellFormed
<1> HIDE DEF Idle
<1> QED BY <1>1, <1>2, <1>3, OneRequest DEF StorageInv, Typed, Kept, StoreUnchanged,
           Separate

(* An answer: what is left to show of a handler is that its answer is right and *)
(* that the objects are still where they were made.                         *)
LEMMA AnswerKeeps ==
    ASSUME StorageInv, NEW r \in Requests, NEW op, NEW result, NEW meant,
           NEW sets \in MaybeTenant,
           req[r].at = "in", Answered(r, op, result, meant, sets),
           conf' = conf, tenancy' \in Tenancy, session' = session,
           Separate => Kept',
           Separate /\ op \in {"get", "find"} => result = meant,
           Separate /\ op = "search" =>
             {o \in result : o.type = config} \subseteq meant,
           op = "readonly" /\ Settled(req[r]) => result = meant
    PROVE  StorageInv'
<1> DEFINE q == [at |-> "answered", user |-> req[r].user, sets |-> sets, op |-> op,
                 result |-> result, meant |-> meant, settled |-> Settled(req[r])]
<1>1. req' = [req EXCEPT ![r] = q]
  BY DEF Answered
<1>2. WellFormed(q)
  BY DEF WellFormed, StorageInv, Typed
<1>3. Right(q)
  BY DEF Right
<1> HIDE DEF q
<1> QED BY <1>1, <1>2, <1>3, OneRequest DEF StorageInv, Typed, Separate

LEMMA HeldNames == \A u \in Users : Held(u) \subseteq Names
BY StorageAssumption DEF Held

LEMMA CookieAfterType ==
    ASSUME Typed, NEW r \in Requests, req[r].at = "in"
    PROVE  CookieAfter(req[r]) \in MaybeTenant
BY HeldNames, NamesAssumption
   DEF Typed, WellFormed, CookieAfter, MaybeTenant, GLOBAL_TENANTS, PRIVATE_TENANTS

(* A request works in a place of its own, which is where its user means to be,  *)
(* and never in the namespace without a tenant.                             *)
LEMMA WorkingPlace ==
    ASSUME NoneCalledDefault, Typed, NEW r \in Requests, Handles(r)
    PROVE  /\ Place(req[r].tenant, req[r].user) \in Places
           /\ SearchNamespace(req[r]) = Place(req[r].tenant, req[r].user)
           /\ conf.enable_private =>
                 getNamespaceValue(req[r].tenant, req[r].user)
                   = Place(req[r].tenant, req[r].user)
<1>1. /\ req[r].user \in Users
      /\ req[r].tenant \in Held(req[r].user) \cup {GlobalTenant, PrivateTenant}
  BY DEF Handles, Wrapped, Multitenant, Typed, WellFormed
<1>2. req[r].tenant \in Names
  BY <1>1, HeldNames, NamesAssumption DEF GLOBAL_TENANTS, PRIVATE_TENANTS
<1>3. req[r].tenant # "default"
  BY <1>1 DEF NoneCalledDefault, In, Held, GlobalTenant, PrivateTenant
<1>4. Place(req[r].tenant, req[r].user) \in Places
  BY <1>1, <1>2, <1>3 DEF Place, Places
<1> QED BY <1>4 DEF SearchNamespace, Place, getNamespaceValue

LEMMA DefaultIsNoPlace == DefaultNamespace \notin Places
<1> SUFFICES ASSUME NEW t \in Names \ {"default"}, NEW u, DefaultNamespace = Namespace(t, u)
             PROVE  FALSE
  BY DEF Places
<1>1. DefaultNamespace.tenant = "default" /\ Namespace(t, u).tenant = t
  BY DEF DefaultNamespace, Namespace
<1> QED BY <1>1

(* What is found in a place is what was made there. *)
LEMMA WithinIsMade ==
    ASSUME Kept, NEW at \in Places, NEW types
    PROVE  Within({at}, types) = {o \in Objects : o.type \in types /\ <<o, at>> \in made}
BY DEF Kept, Within

LEMMA CreateKeeps ==
    ASSUME StorageInv, NEW r \in Requests, NEW object \in Objects,
           NEW options \in BOOLEAN,
           createWithNamespace(r, object, options), UNCHANGED lifecycle
    PROVE  StorageInv'
<1> DEFINE in == NamespaceGiven(req[r], options)
           place == Place(req[r].tenant, req[r].user)
<1>1. /\ Handles(r)
      /\ objects' = objects \cup {<<object, in>>}
      /\ made' = IF options THEN made \cup {<<object, place>>} ELSE made
      /\ Answered(r, "create", {object}, {}, CookieAfter(req[r]))
      /\ UNCHANGED <<conf, tenancy, session>>
  BY DEF createWithNamespace, lifecycle
<1>2. Typed /\ req[r].at = "in"
  BY <1>1 DEF Handles, StorageInv
<1>3. CookieAfter(req[r]) \in MaybeTenant
  BY <1>2, CookieAfterType
<1>4. ASSUME Separate PROVE Kept'
  <2>1. place \in Places /\ getNamespaceValue(req[r].tenant, req[r].user) = place
    BY <1>1, <1>2, <1>4, WorkingPlace DEF Separate
  <2>2. Kept
    BY <1>4 DEF StorageInv
  <2> HIDE DEF place
  <2>3. CASE options
    BY <1>1, <2>1, <2>2, <2>3 DEF Kept, NamespaceGiven
  <2>4. CASE ~options
    BY <1>1, <2>2, <2>4, DefaultIsNoPlace DEF Kept, NamespaceGiven
  <2> QED BY <2>3, <2>4
<1>5. tenancy' \in Tenancy /\ conf' = conf /\ session' = session
  BY <1>1, <1>2 DEF Typed
<1> QED BY <1>1, <1>2, <1>3, <1>4, <1>5, AnswerKeeps

LEMMA DeleteKeeps ==
    ASSUME StorageInv, NEW r \in Requests, NEW object \in Objects,
           deleteWithNamespace(r, object), UNCHANGED lifecycle
    PROVE  StorageInv'
<1> DEFINE in == getNamespaceValue(req[r].tenant, req[r].user)
           place == Place(req[r].tenant, req[r].user)
<1>1. /\ Handles(r)
      /\ objects' = objects \ {<<object, in>>}
      /\ made' = made \ {<<object, place>>}
      /\ Answered(r, "delete", {object}, {}, CookieAfter(req[r]))
      /\ UNCHANGED <<conf, tenancy, session>>
  BY DEF deleteWithNamespace, lifecycle
<1>2. Typed /\ req[r].at = "in"
  BY <1>1 DEF Handles, StorageInv
<1>3. CookieAfter(req[r]) \in MaybeTenant
  BY <1>2, CookieAfterType
<1>4. ASSUME Separate PROVE Kept'
  <2>1. in = place
    BY <1>1, <1>2, <1>4, WorkingPlace DEF Separate
  <2> HIDE DEF in, place
  <2> QED BY <1>1, <1>4, <2>1 DEF StorageInv, Kept, Separate
<1>5. tenancy' \in Tenancy /\ conf' = conf /\ session' = session
  BY <1>1, <1>2 DEF Typed
<1> QED BY <1>1, <1>2, <1>3, <1>4, <1>5, AnswerKeeps

(* Answers that read the objects and change nothing. *)
LEMMA ReadKeeps ==
    ASSUME StorageInv, NEW r \in Requests, NEW types,
           \/ types = AllTypes /\ (getWithNamespace(r) \/ bulkUpdateWithNamespace(r, TRUE))
           \/ findWithNamespace(r, types),
           UNCHANGED lifecycle
    PROVE  StorageInv'
<1> DEFINE place == Place(req[r].tenant, req[r].user)
           meant == MadeAt(req[r], types)
<1>1. PICK op \in {"get", "find"}, in \in {getNamespaceValue(req[r].tenant, req[r].user),
                                           SearchNamespace(req[r])} :
         /\ Handles(r)
         /\ Answered(r, op, Within({in}, types), meant, CookieAfter(req[r]))
         /\ UNCHANGED <<conf, tenancy, session, objects, made>>
  BY DEF getWithNamespace, bulkUpdateWithNamespace, NamespaceGiven, findWithNamespace, lifecycle
<1>2. Typed /\ req[r].at = "in"
  BY <1>1 DEF Handles, StorageInv
<1>3. CookieAfter(req[r]) \in MaybeTenant
  BY <1>2, CookieAfterType
<1>4. ASSUME Separate PROVE Kept' /\ Within({in}, types) = meant
  <2>1. place \in Places /\ in = place
    BY <1>1, <1>2, <1>4, WorkingPlace DEF Separate
  <2>2. Kept
    BY <1>4 DEF StorageInv
  <2>3. Within({in}, types) = meant
    BY <2>1, <2>2, WithinIsMade DEF MadeAt
  <2> QED BY <1>1, <2>2, <2>3 DEF Kept
<1>5. tenancy' \in Tenancy /\ conf' = conf /\ session' = session
  BY <1>1, <1>2 DEF Typed
<1> HIDE DEF meant
<1> QED BY <1>1, <1>2, <1>3, <1>4, <1>5, AnswerKeeps

(* A search over namespaces some object is in: what it finds of the settings   *)
(* is in the working one.                                                   *)
LEMMA SearchKeeps ==
    ASSUME StorageInv, NEW r \in Requests, NEW types, NEW namespaces,
           findInNamespaces(r, types, namespaces), UNCHANGED lifecycle
    PROVE  StorageInv'
<1> DEFINE place == Place(req[r].tenant, req[r].user)
           found == FoundIn(req[r], types, namespaces)
           meant == MadeAt(req[r], types \cap {config})
<1>1. /\ Handles(r)
      /\ Answered(r, "search", found, meant, CookieAfter(req[r]))
      /\ UNCHANGED <<conf, tenancy, session, objects, made>>
  BY DEF findInNamespaces, lifecycle
<1>2. Typed /\ req[r].at = "in"
  BY <1>1 DEF Handles, StorageInv
<1>3. CookieAfter(req[r]) \in MaybeTenant
  BY <1>2, CookieAfterType
<1>4. ASSUME Separate
      PROVE  Kept' /\ {o \in found : o.type = config} \subseteq meant
  <2>1. place \in Places /\ SearchNamespace(req[r]) = place
    BY <1>1, <1>2, <1>4, WorkingPlace DEF Separate
  <2>2. Kept
    BY <1>4 DEF StorageInv
  <2>3. meant = Within({place}, types \cap {config})
    BY <2>1, <2>2, WithinIsMade DEF MadeAt
  <2>4. {o \in found : o.type = config} \subseteq Within({place}, types \cap {config})
    BY <2>1 DEF FoundIn, Within
  <2> QED BY <1>1, <2>2, <2>3, <2>4 DEF Kept
<1>5. tenancy' \in Tenancy /\ conf' = conf /\ session' = session
  BY <1>1, <1>2 DEF Typed
<1> HIDE DEF found, meant
<1> QED BY <1>1, <1>2, <1>3, <1>4, <1>5, AnswerKeeps

(* Read-only mode looks up the tenant the backend knows the request by, or the  *)
(* one the cookie came with: once these name the same tenant the answer is the  *)
(* one the user's rights give.                                              *)
LEMMA ReadonlyKeeps ==
    ASSUME StorageInv, NEW r \in Requests, isReadonly(r), UNCHANGED lifecycle
    PROVE  StorageInv'
<1> DEFINE q == req[r]
           requested == IF user_requested_tenant(q) \in Truthy THEN user_requested_tenant(q)
                        ELSE q.cookie
           result == Multitenant /\ tenancy.mt /\ isReadOnlyTenant(q.user, requested)
           meant == Multitenant /\ tenancy.mt /\ ReadsOnly(q.user, q.tenant)
<1>1. /\ q.at = "in"
      /\ Answered(r, "readonly", result, meant, CookieAfter(q))
      /\ UNCHANGED <<conf, tenancy, session, objects, made>>
  BY DEF isReadonly, lifecycle
<1>2. Typed
  BY DEF StorageInv
<1>3. CookieAfter(q) \in MaybeTenant
  BY <1>1, <1>2, CookieAfterType
<1>4. Separate => Kept'
  BY <1>1 DEF StorageInv, Kept, Separate
<1>5. ASSUME Settled(q) PROVE result = meant
  <2>1. CASE ~Multitenant
    BY <2>1
  <2>2. CASE Multitenant
    <3>1. q.tenant \in Names
      BY <1>1, <1>2, <2>2, HeldNames, NamesAssumption
         DEF Typed, WellFormed, GLOBAL_TENANTS, PRIVATE_TENANTS
    <3>2. requested = q.tenant \/ (q.tenant = GlobalTenant /\ requested \notin Truthy)
      BY <1>5, <3>1, NamesAssumption DEF Settled, user_requested_tenant, Truthy
    <3> HIDE DEF requested
    <3> QED BY <3>1, <3>2 DEF isReadOnlyTenant, ReadsOnly, Truthy, GlobalTenant,
                              PrivateTenant, globalTenantName
  <2> QED BY <2>1, <2>2
<1>6. tenancy' \in Tenancy /\ conf' = conf /\ session' = session
  BY <1>1, <1>2 DEF Typed
<1> HIDE DEF result, meant
<1> QED BY <1>1, <1>2, <1>3, <1>4, <1>5, <1>6, AnswerKeeps

(* The other routes. *)
LEMMA RouteKeeps ==
    ASSUME StorageInv, NEW r \in Requests, UNCHANGED lifecycle,
           \/ isReadonlyFails(r) \/ getTenant(r) \/ bulkUpdateWithNamespace(r, FALSE)
           \/ \E tenant \in Asked \cup {GlobalTenant} : postTenant(r, tenant)
           \/ \E settings \in Tenancies : putMultitenancyConfigurations(r, settings)
    PROVE  StorageInv'
<1>1. Typed /\ GlobalTenant \in MaybeTenant /\ Asked \subseteq MaybeTenant
  BY StorageAssumption, NamesAssumption DEF StorageInv, MaybeTenant, GLOBAL_TENANTS, Truthy
<1>2. req[r].at = "in"
  BY DEF isReadonlyFails, getTenant, postTenant, putMultitenancyConfigurations,
     bulkUpdateWithNamespace, Handles
<1>3. CookieAfter(req[r]) \in MaybeTenant
  BY <1>1, <1>2, CookieAfterType
<1>4. tenancy' \in Tenancy /\ UNCHANGED <<conf, session, objects, made>>
  BY <1>1, StorageAssumption DEF isReadonlyFails, getTenant, postTenant,
     putMultitenancyConfigurations, bulkUpdateWithNamespace, lifecycle, Typed
<1>5. Separate => Kept'
  BY <1>4 DEF StorageInv, Kept, Separate
<1>6. \A op \in {"failed", "tenant", "switch", "settings", "elsewhere"} :
         op \notin {"get", "find", "search", "readonly"}
  OBVIOUS
<1>7. CASE isReadonlyFails(r)
  <2>1. Answered(r, "failed", FALSE, FALSE, CookieAfter(req[r]))
    BY <1>7 DEF isReadonlyFails
  <2> QED BY <1>2, <1>3, <1>4, <1>5, <2>1, AnswerKeeps
<1>8. CASE getTenant(r)
  <2>1. Answered(r, "tenant", {}, {}, CookieAfter(req[r]))
    BY <1>8 DEF getTenant
  <2> QED BY <1>2, <1>3, <1>4, <1>5, <1>6, <2>1, AnswerKeeps
<1>9. ASSUME NEW tenant \in Asked \cup {GlobalTenant}, postTenant(r, tenant)
      PROVE  StorageInv'
  <2>1. Answered(r, "switch", {}, {}, tenant)
    BY <1>9 DEF postTenant
  <2>2. tenant \in MaybeTenant
    BY <1>1
  <2> QED BY <1>2, <1>4, <1>5, <1>6, <2>1, <2>2, AnswerKeeps
<1>10. ASSUME NEW settings \in Tenancies, putMultitenancyConfigurations(r, settings)
       PROVE  StorageInv'
  <2>1. Answered(r, "settings", {}, {}, CookieAfter(req[r]))
    BY <1>10 DEF putMultitenancyConfigurations
  <2> QED BY <1>2, <1>3, <1>4, <1>5, <1>6, <2>1, AnswerKeeps
<1>11. CASE bulkUpdateWithNamespace(r, FALSE)
  <2>1. PICK result, meant : Answered(r, "elsewhere", result, meant, CookieAfter(req[r]))
    BY <1>11 DEF bulkUpdateWithNamespace
  <2> QED BY <1>2, <1>3, <1>4, <1>5, <1>6, <2>1, AnswerKeeps
<1> QED BY <1>7, <1>8, <1>9, <1>10, <1>11

LEMMA ServeKeeps ==
    ASSUME StorageInv, NEW r \in Requests, Serve(r), UNCHANGED lifecycle
    PROVE  StorageInv'
<1>1. \A asked \in {<<>>} \cup {<<t>> : t \in Asked} : asked \in Seq(Names)
  <2>1. <<>> \in Seq(Names)
    OBVIOUS
  <2>2. ASSUME NEW t \in Asked PROVE <<t>> \in Seq(Names)
    <3>1. t \in Names
      BY StorageAssumption DEF Truthy
    <3> QED BY <3>1
  <2> QED BY <2>1, <2>2
<1> QED BY <1>1, SendKeeps, ResolveKeeps, DeliverKeeps, CreateKeeps, DeleteKeeps, ReadKeeps,
           SearchKeeps, ReadonlyKeeps, RouteKeeps DEF Serve

LEMMA StorageNext ==
    ASSUME StorageInv, [Next]_vars
    PROVE  StorageInv'
<1>1. CASE Goes /\ UNCHANGED storageVars
  <2>1. conf' = conf
    BY <1>1 DEF Goes, setup, start, getTenantInfoWithInternalUser, migrate,
          migrateTenantIndices
  <2>2. \A r \in Requests : WellFormed(req[r])' /\ Right(req[r])'
    BY <1>1, <2>1 DEF storageVars, StorageInv, Typed, WellFormed, Right, Separate,
          Multitenant
  <2> QED BY <1>1, <2>1, <2>2 DEF storageVars, StorageInv, Typed, Kept, Separate
<1>2. CASE Down
  <2>1. conf' = conf /\ UNCHANGED <<tenancy, session, objects, made>>
    BY <1>2 DEF Down, Ends, crash, migrateFails
  <2>2. req' = [r \in Requests |-> Idle]
    BY <1>2 DEF Down
  <2>3. \A r \in Requests : WellFormed(req[r])' /\ Right(req[r])'
    BY <2>2 DEF Idle, WellFormed, Right
  <2> QED BY <2>1, <2>2, <2>3 DEF StorageInv, Typed, Kept, Separate
<1>3. ASSUME NEW user \in Users, login(user), UNCHANGED lifecycle PROVE StorageInv'
  <2>1. UNCHANGED <<conf, tenancy, req, objects, made>>
    BY <1>3 DEF login, lifecycle
  <2>2. session'.user \in Users /\ session'.tenant \in MaybeTenant
    BY <1>3 DEF login, Session, MaybeTenant
  <2>3. \A r \in Requests : WellFormed(req[r])' /\ Right(req[r])'
    BY <2>1 DEF StorageInv, Typed, WellFormed, Right, Separate, Multitenant
  <2> QED BY <2>1, <2>2, <2>3 DEF StorageInv, Typed, Kept, Separate
<1>4. CASE UNCHANGED vars
  <2>1. UNCHANGED <<conf, tenancy, session, req, objects, made>>
    BY <1>4 DEF vars, lifecycle, storageVars
  <2>2. \A r \in Requests : WellFormed(req[r])' /\ Right(req[r])'
    BY <2>1 DEF StorageInv, Typed, WellFormed, Right, Separate, Multitenant
  <2> QED BY <2>1, <2>2 DEF StorageInv, Typed, Kept, Separate
<1> QED BY <1>1, <1>2, <1>3, <1>4, ServeKeeps DEF Next

(* With private tenants allowed, what a request reaches and finds in its tenant *)
(* is what was made there and nothing of another place, as long as no tenant is  *)
(* called like the namespace of the objects that have none.  Calls without the    *)
(* options that carry the namespace are outside it.                            *)
THEOREM TenantsHold == ASSUME NoneCalledDefault PROVE Spec => []TenantHolds
<1>1. StorageInv => TenantHolds
  BY DEF StorageInv, TenantHolds, Shown, Right, Separate
<1>2. Init => StorageInv
  BY StorageInit
<1>3. StorageInv /\ [Next]_vars => StorageInv'
  BY StorageNext
<1> QED BY <1>1, <1>2, <1>3, PTL DEF Spec

(* A search over several tenants finds the settings of the working one only. *)
THEOREM OwnSettings == ASSUME NoneCalledDefault PROVE Spec => []SettingsOfOwnTenant
<1>1. StorageInv => SettingsOfOwnTenant
  BY DEF StorageInv, SettingsOfOwnTenant, Shown, Right, Separate
<1>2. Init => StorageInv
  BY StorageInit
<1>3. StorageInv /\ [Next]_vars => StorageInv'
  BY StorageNext
<1> QED BY <1>1, <1>2, <1>3, PTL DEF Spec

(* A page is read-only exactly where the user may not write, once the cookie    *)
(* names the tenant of the request.                                         *)
THEOREM ReadonlyWhereNotWritable == Spec => []ReadonlyIsRight
<1>1. StorageInv => ReadonlyIsRight
  BY DEF StorageInv, ReadonlyIsRight, Shown, Right
<1>2. Init => StorageInv
  BY StorageInit
<1>3. StorageInv /\ [Next]_vars => StorageInv'
  BY StorageNext
<1> QED BY <1>1, <1>2, <1>3, PTL DEF Spec
=============================================================================
