----------------------------- MODULE AuthHandler -----------------------------
(***************************************************************************)
(* AuthenticationType.authHandler (server/auth/types/authentication_type.ts) *)
(* with the route handlers that write the session cookie themselves: login,  *)
(* anonymous login, logout, the login page, and the tenant switch.           *)
(*                                                                         *)
(* One browser sends several requests at a time.  Each carries the cookie   *)
(* the browser held when it was sent; the server works on that copy, yields *)
(* at every call to the backend, and sends a new cookie back with its       *)
(* answer.  Answers arrive in any order, or never; the last one to arrive    *)
(* wins.  Meanwhile time passes and administrators change the backend.       *)
(***************************************************************************)
EXTENDS SessionCookie

CONSTANTS
    Reqs,          \* requests that can be under way at the same time
    Requests,      \* what the browser may send
    CredUser,      \* the user behind a credential
    Forbidden,     \* opensearch_security.auth.forbidden_usernames
    Backends,      \* the states the security backend can be in
    Denied,        \* what a backend says of a user it does not know
    BackendErrors, \* whether a call to the backend may fail for no reason
    Keepalive,     \* opensearch_security.session.keepalive
    Multitenancy,  \* opensearch_security.multitenancy.enabled
    Config,        \* the other multitenancy settings
    ProxyLogin,    \* opensearch_security.proxycache.login_endpoint is set
    MaxTime,       \* bound on the clock
    MaxChanges     \* bound on the changes of the backend

Kinds == {"page", "api", "asset", "capabilities", "public", "tenant",
          "login", "anonymous", "logout", "loginPage"}
Asks == Seq(Names)
Request == [kind : Kinds, via : Via \cup {"none"}, cred : Creds, asked : Asks, tenant : Names]
Backend == [grant : [Users -> Seq(Names) \cup {Denied}], tenancy : Tenancy]

ASSUME HandlerAssumption ==
    /\ Requests \subseteq Request
    /\ CredUser \in [Creds -> Users] /\ CredUser[Anonymous] = AnonymousUser
    /\ Forbidden \subseteq Users
    /\ Backends \subseteq Backend /\ Backends # {}
    /\ Denied \notin Seq(Names)
    /\ BackendErrors \in BOOLEAN /\ Keepalive \in BOOLEAN /\ Multitenancy \in BOOLEAN
    /\ ProxyLogin \in BOOLEAN
    /\ Config \in Conf
    /\ MaxTime \in Nat /\ MaxChanges \in Nat

VARIABLES
    now, backend, changes,
    jar,       \* the session cookie in the browser
    pc,        \* where each request is
    request,   \* what it asks
    stored,    \* the cookie it arrived with
    cookie,    \* the cookie object the handler works on
    info,      \* the first authinfo answer it got
    tenant,    \* authState.selectedTenant
    out,       \* the Set-Cookie its answer will carry
    reply,     \* the answer
    told,      \* history: the last thing the user was told, see Told
    expect,    \* history: what the user had been told when the request was sent
    seen       \* history: the backend states since the request was sent

serverVars == <<stored, cookie, info, tenant, out, reply>>
history == <<told, expect, seen>>
vars == <<now, backend, changes, jar, pc, request, serverVars, history>>

NoSet == [authType |-> "unchanged"]
NoInfo == [user |-> NoUser, available |-> <<>>]
Info == [user : Users \cup {NoUser}, available : Seq(Names)]

Outcomes == {"none", "authenticated", "anonymous", "notHandled", "redirect",
             "unauthorized", "badRequest", "error", "ok"}
Reply == [outcome : Outcomes, user : Users \cup {NoUser}, tenant : Names \cup {Undefined}]
Answer(outcome) == [outcome |-> outcome, user |-> NoUser, tenant |-> Undefined]

(* What the browser's user knows: nothing in particular, that they are       *)
(* logged out, or that they now work in a tenant.  Only answers that arrive  *)
(* while nothing else is under way count.                                    *)
Told == [said : {"nothing", "loggedOut", "switched"}, tenant : Names \cup {Undefined}]
Nothing == [said |-> "nothing", tenant |-> Undefined]

Steps == {"idle", "sent", "credential", "bare", "resolve", "dashboardsinfo", "authinfo",
          "handler", "answered"}

TypeOK ==
    /\ now \in 0..MaxTime /\ changes \in 0..MaxChanges /\ backend \in Backends
    /\ jar \in Cookie
    /\ pc \in [Reqs -> Steps]
    /\ request \in [Reqs -> Request]
    /\ stored \in [Reqs -> Cookie]
    /\ cookie \in [Reqs -> Cookie]
    /\ info \in [Reqs -> Info]
    /\ tenant \in [Reqs -> Names \cup {Undefined}]
    /\ out \in [Reqs -> Cookie \cup {NoSet}]
    /\ reply \in [Reqs -> Reply]
    /\ told \in Told
    /\ expect \in [Reqs -> Told]
    /\ seen \in [Reqs -> SUBSET Backends]

Blank == [kind |-> "public", via |-> "none", cred |-> Anonymous, asked |-> <<>>,
          tenant |-> GlobalTenant]

Init ==
    /\ now = 0 /\ changes = 0 /\ backend \in Backends
    /\ jar = NoCookie
    /\ pc = [r \in Reqs |-> "idle"]
    /\ request = [r \in Reqs |-> Blank]
    /\ stored = [r \in Reqs |-> NoCookie]
    /\ cookie = [r \in Reqs |-> NoCookie]
    /\ info = [r \in Reqs |-> NoInfo]
    /\ tenant = [r \in Reqs |-> Undefined]
    /\ out = [r \in Reqs |-> NoSet]
    /\ reply = [r \in Reqs |-> Answer("none")]
    /\ told = Nothing
    /\ expect = [r \in Reqs |-> Nothing]
    /\ seen = [r \in Reqs |-> {}]

-----------------------------------------------------------------------------
(* The browser, the clock and the administrators.                          *)

(* Requests by which the user wants something of the session. *)
Intends(q) ==
    \/ q.kind \in {"login", "anonymous", "logout", "loginPage", "tenant"}
    \/ q.asked # <<>>
    \/ requestIncludesAuthInfo(q.via)

Send(r, q) ==
    /\ pc[r] = "idle"
    /\ pc' = [pc EXCEPT ![r] = "sent"]
    /\ request' = [request EXCEPT ![r] = q]
    /\ stored' = [stored EXCEPT ![r] = jar]
    /\ told' = IF Intends(q) THEN Nothing ELSE told
    /\ expect' = [expect EXCEPT ![r] = IF Intends(q) THEN Nothing ELSE told]
    /\ seen' = [seen EXCEPT ![r] = {backend}]
    /\ UNCHANGED <<now, backend, changes, jar, cookie, info, tenant, out, reply>>

Alone(r) == \A o \in Reqs \ {r} : pc[o] = "idle"

Clearing == {"logout", "loginPage"}

ToldBy(r) ==
    CASE Alone(r) /\ request[r].kind \in Clearing ->
            [said |-> "loggedOut", tenant |-> Undefined]
      [] Alone(r) /\ request[r].kind = "tenant" /\ reply[r].outcome = "ok" ->
            [said |-> "switched", tenant |-> request[r].tenant]
      [] OTHER -> told

(* The request slot is free again; what it held no longer matters. *)
Forget(r) ==
    /\ pc' = [pc EXCEPT ![r] = "idle"]
    /\ request' = [request EXCEPT ![r] = Blank]
    /\ stored' = [stored EXCEPT ![r] = NoCookie]
    /\ cookie' = [cookie EXCEPT ![r] = NoCookie]
    /\ info' = [info EXCEPT ![r] = NoInfo]
    /\ tenant' = [tenant EXCEPT ![r] = Undefined]
    /\ out' = [out EXCEPT ![r] = NoSet]
    /\ reply' = [reply EXCEPT ![r] = Answer("none")]
    /\ expect' = [expect EXCEPT ![r] = Nothing]
    /\ seen' = [seen EXCEPT ![r] = {}]
    /\ UNCHANGED <<now, backend, changes>>

(* The answer arrives: the browser obeys its Set-Cookie. *)
Deliver(r) ==
    /\ pc[r] = "answered"
    /\ jar' = IF out[r] = NoSet THEN jar ELSE out[r]
    /\ told' = ToldBy(r)
    /\ Forget(r)

(* The answer is lost, with the cookie it carried. *)
Lose(r) ==
    /\ pc[r] = "answered"
    /\ Forget(r)
    /\ UNCHANGED <<jar, told>>

Tick ==
    /\ now < MaxTime
    /\ now' = now + 1
    /\ UNCHANGED <<backend, changes, jar, pc, request, serverVars, history>>

(* Roles, users or the tenancy settings change.  No promise about the tenant *)
(* outlives that.                                                            *)
Administer ==
    /\ changes < MaxChanges
    /\ changes' = changes + 1
    /\ backend' \in Backends \ {backend}
    /\ seen' = [r \in Reqs |-> IF pc[r] = "idle" THEN {} ELSE seen[r] \cup {backend'}]
    /\ told' = IF told.said = "switched" THEN Nothing ELSE told
    /\ expect' = [r \in Reqs |-> IF expect[r].said = "switched" THEN Nothing ELSE expect[r]]
    /\ UNCHANGED <<now, jar, pc, request, serverVars>>

-----------------------------------------------------------------------------
(* What the backend answers.                                               *)

Available(cred) == backend.grant[CredUser[cred]]

Accepts(cred) == TokenExp[cred] > now /\ Available(cred) # Denied

(* What authinfo says of an accepted credential. *)
AuthInfo(cred) == [user |-> CredUser[cred], available |-> Available(cred)]

Refuses(cred) == ~Accepts(cred) \/ BackendErrors

-----------------------------------------------------------------------------
(* AuthenticationType.authHandler.                                         *)

unchangedBySteps == <<now, backend, changes, jar, request, stored, history>>

Finish(r, answer) ==
    /\ pc' = [pc EXCEPT ![r] = "answered"]
    /\ reply' = [reply EXCEPT ![r] = answer]

Guarded(r) == request[r].kind \in {"page", "api", "asset", "capabilities", "public", "tenant"}

(* authNotRequired: the routes listed in unauthenticated_routes. *)
PassPublic(r) ==
    /\ pc[r] = "sent" /\ request[r].kind = "public"
    /\ Finish(r, Answer("anonymous"))
    /\ UNCHANGED <<unchangedBySteps, cookie, info, tenant, out>>

ByCredential(r) == requestIncludesAuthInfo(request[r].via)

(* The request brings its own credential: ask the backend about it; or, when  *)
(* the token in its URL is not put into a header, about a request that brings *)
(* none.                                                                      *)
TakeCredential(r) ==
    /\ pc[r] = "sent" /\ Guarded(r) /\ request[r].kind # "public" /\ ByCredential(r)
    /\ LET q == request[r]
       IN  pc' = [pc EXCEPT ![r] =
                    IF q.via = "urlparam" /\ ~AddsUrlToken(ReadCookie(stored[r], now))
                    THEN "bare" ELSE "credential"]
    /\ UNCHANGED <<unchangedBySteps, cookie, info, tenant, out, reply>>

(* The credential the backend is asked about. *)
Asking(r) == pc[r] \in {"credential", "bare"}
AskedOf(r) == IF pc[r] = "bare" THEN Anonymous ELSE request[r].cred

(* With an authInfo and no tenant to resolve, the request is authenticated;  *)
(* only the tenant switch has a handler that touches the cookie.             *)
Authenticate(r, user, chosen) ==
    /\ pc' = [pc EXCEPT ![r] = IF request[r].kind = "tenant" THEN "handler" ELSE "answered"]
    /\ reply' = [reply EXCEPT ![r] =
                    [outcome |-> "authenticated", user |-> user, tenant |-> chosen]]

(* Fault: the browser's session is updated instead of replaced. *)
CredentialAccepted_Merged(r) ==
    /\ Asking(r)
    /\ Accepts(AskedOf(r))
    /\ LET q == request[r]
           answer == AuthInfo(AskedOf(r))
           fresh == getCookie(q.via, q.cred, answer.user, now)
           kept == IF Readable(stored[r], now) THEN [stored[r] EXCEPT !.cred = q.cred]
                                               ELSE fresh
       IN  /\ info' = [info EXCEPT ![r] = answer]
           /\ cookie' = [cookie EXCEPT ![r] = kept]
           /\ out' = [out EXCEPT ![r] = kept]
           /\ IF Multitenancy
              THEN pc' = [pc EXCEPT ![r] = "dashboardsinfo"] /\ UNCHANGED reply
              ELSE Authenticate(r, answer.user, Undefined)
    /\ UNCHANGED <<unchangedBySteps, tenant>>

(* The new cookie is made of the credential presented and of the user the      *)
(* backend answered, also when it was not asked about that credential.  It     *)
(* keeps the tenant of the one the browser sent, whoever's session that was.   *)
CredentialAccepted(r) ==
    /\ Asking(r)
    /\ Accepts(AskedOf(r))
    /\ LET q == request[r]
           answer == AuthInfo(AskedOf(r))
           browserCookie == ReadCookie(stored[r], now)
           fresh == getCookie(q.via, q.cred, answer.user, now)
           kept == IF browserCookie # NoCookie /\ isValidTenant(browserCookie.tenant)
                   THEN [fresh EXCEPT !.tenant = browserCookie.tenant] ELSE fresh
       IN  /\ info' = [info EXCEPT ![r] = answer]
           /\ cookie' = [cookie EXCEPT ![r] = kept]
           /\ out' = [out EXCEPT ![r] = kept]
           /\ IF Multitenancy
              THEN pc' = [pc EXCEPT ![r] = "dashboardsinfo"] /\ UNCHANGED reply
              ELSE Authenticate(r, answer.user, Undefined)
    /\ UNCHANGED <<unchangedBySteps, tenant>>

CredentialRefused(r) ==
    /\ Asking(r)
    /\ Refuses(AskedOf(r))
    /\ Finish(r, Answer("unauthorized"))
    /\ UNCHANGED <<unchangedBySteps, cookie, info, tenant, out>>

(* handleUnauthedRequest of the configured type; with several types, that of *)
(* MultipleAuthentication.                                                   *)
handleUnauthedRequest(kind) ==
    IF AuthTypes = <<PROXY>> THEN IF ProxyLogin THEN "redirect" ELSE "notHandled"
    ELSE IF kind = "page" /\ AuthTypes # <<JWT>> THEN "redirect"
    ELSE "unauthorized"

Unauthed(r) ==
    CASE request[r].kind = "asset" -> "notHandled"
      [] request[r].kind = "capabilities" -> "anonymous"
      [] OTHER -> handleUnauthedRequest(request[r].kind)

ByCookie(r) ==
    pc[r] = "sent" /\ Guarded(r) /\ request[r].kind # "public" /\ ~ByCredential(r)

GoodCookie(r) == Readable(stored[r], now) /\ isValidCookie(stored[r])

RejectCookie(r) ==
    /\ ByCookie(r)
    /\ ~GoodCookie(r)
    /\ out' = [out EXCEPT ![r] = NoCookie]
    /\ Finish(r, Answer(Unauthed(r)))
    /\ UNCHANGED <<unchangedBySteps, cookie, info, tenant>>

AcceptCookie(r) ==
    /\ ByCookie(r)
    /\ GoodCookie(r)
    /\ LET renewed == [stored[r] EXCEPT !.expiryTime = getKeepAliveExpiry(stored[r], now)]
       IN  IF Keepalive
           THEN /\ cookie' = [cookie EXCEPT ![r] = renewed]
                /\ out' = [out EXCEPT ![r] = renewed]
           ELSE /\ cookie' = [cookie EXCEPT ![r] = stored[r]]
                /\ UNCHANGED out
    /\ pc' = [pc EXCEPT ![r] = IF Multitenancy THEN "resolve" ELSE "authinfo"]
    /\ UNCHANGED <<unchangedBySteps, info, tenant, reply>>

(* resolveTenant() first asks who the cookie's user is ... *)
ResolveAuthinfo(r) ==
    /\ pc[r] = "resolve"
    /\ Accepts(cookie[r].cred)
    /\ info' = [info EXCEPT ![r] = AuthInfo(cookie[r].cred)]
    /\ pc' = [pc EXCEPT ![r] = "dashboardsinfo"]
    /\ UNCHANGED <<unchangedBySteps, cookie, tenant, out, reply>>

(* ... and on failure (UnauthenticatedError) the session is over, except that *)
(* an asset request leaves the cookie as it is.                              *)
ResolveUnauthenticated(r) ==
    /\ pc[r] = "resolve"
    /\ Refuses(cookie[r].cred)
    /\ IF request[r].kind = "asset"
       THEN Finish(r, Answer("notHandled")) /\ UNCHANGED out
       ELSE /\ Finish(r, Answer(handleUnauthedRequest(request[r].kind)))
            /\ out' = [out EXCEPT ![r] = NoCookie]
    /\ UNCHANGED <<unchangedBySteps, cookie, info, tenant>>

(* Fault: the tenant in the cookie is trusted. *)
Resolved_Trusting(r) ==
    IF isValidTenant(cookie[r].tenant) THEN cookie[r].tenant
    ELSE resolveTenant(info[r].user, request[r].asked, Undefined,
                       info[r].available, Config, backend.tenancy)

Resolved(r) ==
    resolveTenant(info[r].user, request[r].asked, cookie[r].tenant,
                  info[r].available, Config, backend.tenancy)

(* ... then what the tenancy settings are; the rest runs without a pause. *)
ResolveDashboardsinfo(r) ==
    /\ pc[r] = "dashboardsinfo"
    /\ isValidTenant(Resolved(r))
    /\ tenant' = [tenant EXCEPT ![r] = Resolved(r)]
    /\ LET moved == [cookie[r] EXCEPT !.tenant = Resolved(r)]
       IN  IF Resolved(r) # cookie[r].tenant
           THEN /\ cookie' = [cookie EXCEPT ![r] = moved]
                /\ out' = [out EXCEPT ![r] = moved]
           ELSE UNCHANGED <<cookie, out>>
    /\ IF ByCredential(r)
       THEN Authenticate(r, info[r].user, Resolved(r))
       ELSE pc' = [pc EXCEPT ![r] = "authinfo"] /\ UNCHANGED reply
    /\ UNCHANGED <<unchangedBySteps, info>>

NoTenant(r) ==
    /\ pc[r] = "dashboardsinfo"
    /\ ~isValidTenant(Resolved(r))
    /\ Finish(r, Answer("badRequest"))
    /\ UNCHANGED <<unchangedBySteps, cookie, info, tenant, out>>

(* Any other error is thrown on and becomes an internal error; the cookie    *)
(* already set goes out with it.                                             *)
DashboardsinfoFails(r) ==
    /\ pc[r] = "dashboardsinfo" /\ BackendErrors
    /\ Finish(r, Answer("error"))
    /\ UNCHANGED <<unchangedBySteps, cookie, info, tenant, out>>

(* Fault: a cookie that is still valid is taken for a user who still exists. *)
FinalAuthinfo_Cached(r) ==
    /\ pc[r] = "authinfo"
    /\ Authenticate(r, CredUser[cookie[r].cred], tenant[r])
    /\ UNCHANGED <<unchangedBySteps, cookie, info, tenant, out>>

(* Fault: only a failing call is answered, not a user refused by it. *)
FinalAuthinfoFails_Hanging(r) ==
    /\ pc[r] = "authinfo"
    /\ BackendErrors /\ Accepts(cookie[r].cred)
    /\ Finish(r, Answer("error"))
    /\ UNCHANGED <<unchangedBySteps, cookie, info, tenant, out>>

(* The answer to the first authinfo call is gone: ask again. *)
FinalAuthinfo(r) ==
    /\ pc[r] = "authinfo"
    /\ Accepts(cookie[r].cred)
    /\ Authenticate(r, AuthInfo(cookie[r].cred).user, tenant[r])
    /\ UNCHANGED <<unchangedBySteps, cookie, info, tenant, out>>

FinalAuthinfoFails(r) ==
    /\ pc[r] = "authinfo"
    /\ Refuses(cookie[r].cred)
    /\ Finish(r, Answer("error"))
    /\ UNCHANGED <<unchangedBySteps, cookie, info, tenant, out>>

-----------------------------------------------------------------------------
(* The route handlers that write the cookie.                               *)

(* Fault: the tenant chosen is acknowledged but not stored. *)
SwitchTenant_Unsaved(r) ==
    /\ pc[r] = "handler"
    /\ Finish(r, Answer("ok"))
    /\ UNCHANGED <<unchangedBySteps, cookie, info, tenant, out>>

(* POST /api/v1/multitenancy/tenant reads the request's cookie a second time *)
(* and stores it with the tenant of the body, unchecked.  The object it gets *)
(* is the one authHandler has renewed, unless the request came with its own  *)
(* credential: then it is the browser's, as sent.                            *)
SwitchTenant(r) ==
    /\ pc[r] = "handler"
    /\ LET sent == IF ByCredential(r) THEN stored[r] ELSE cookie[r]
           switched == [sent EXCEPT !.tenant = request[r].tenant]
       IN  IF Readable(sent, now)
           THEN /\ out' = [out EXCEPT ![r] = switched]
                /\ Finish(r, Answer("ok"))
           ELSE /\ out' = [out EXCEPT ![r] = IF sent = NoCookie THEN @ ELSE NoCookie]
                /\ Finish(r, Answer("badRequest"))
    /\ UNCHANGED <<unchangedBySteps, cookie, info, tenant>>

Opens(r, kind) == pc[r] = "sent" /\ request[r].kind = kind

(* The cookie a password or an anonymous login leaves: no tenant yet. *)
BasicSession(user, cred) ==
    [authType |-> BASIC, username |-> user, cred |-> cred,
     expiryTime |-> now + Ttl, tenant |-> Undefined]

(* POST /auth/login *)
LoginForbidden(r) ==
    /\ Opens(r, "login")
    /\ CredUser[request[r].cred] \in Forbidden
    /\ Finish(r, Answer("badRequest"))
    /\ UNCHANGED <<unchangedBySteps, cookie, info, tenant, out>>

LoginAccepted(r) ==
    /\ Opens(r, "login")
    /\ CredUser[request[r].cred] \notin Forbidden
    /\ Accepts(request[r].cred)
    /\ out' = [out EXCEPT ![r] = BasicSession(CredUser[request[r].cred], request[r].cred)]
    /\ Finish(r, Answer("ok"))
    /\ UNCHANGED <<unchangedBySteps, cookie, info, tenant>>

LoginRefused(r) ==
    /\ Opens(r, "login")
    /\ CredUser[request[r].cred] \notin Forbidden
    /\ Refuses(request[r].cred)
    /\ Finish(r, Answer("unauthorized"))
    /\ UNCHANGED <<unchangedBySteps, cookie, info, tenant, out>>

(* GET /auth/anonymous: to the login page when it cannot be. *)
LoginAnonymous(r) ==
    /\ Opens(r, "anonymous")
    /\ AnonymousEnabled /\ Accepts(Anonymous)
    /\ out' = [out EXCEPT ![r] = BasicSession(AnonymousUser, Anonymous)]
    /\ Finish(r, Answer("redirect"))
    /\ UNCHANGED <<unchangedBySteps, cookie, info, tenant>>

AnonymousRefused(r) ==
    /\ Opens(r, "anonymous")
    /\ ~AnonymousEnabled \/ Refuses(Anonymous)
    /\ Finish(r, Answer("redirect"))
    /\ UNCHANGED <<unchangedBySteps, cookie, info, tenant, out>>

(* Fault: the logout leaves the cookie alone. *)
Logout_KeepsCookie(r) ==
    /\ Opens(r, "logout")
    /\ Finish(r, Answer("ok"))
    /\ UNCHANGED <<unchangedBySteps, cookie, info, tenant, out>>

(* POST /auth/logout, and the login page, drop the session. *)
Logout(r) ==
    /\ Opens(r, "logout")
    /\ out' = [out EXCEPT ![r] = NoCookie]
    /\ Finish(r, Answer("ok"))
    /\ UNCHANGED <<unchangedBySteps, cookie, info, tenant>>

LoginPage(r) ==
    /\ Opens(r, "loginPage")
    /\ out' = [out EXCEPT ![r] = NoCookie]
    /\ Finish(r, Answer("ok"))
    /\ UNCHANGED <<unchangedBySteps, cookie, info, tenant>>

-----------------------------------------------------------------------------
AuthStep(r) ==
    \/ PassPublic(r)
    \/ TakeCredential(r) \/ CredentialAccepted(r) \/ CredentialRefused(r)
    \/ RejectCookie(r) \/ AcceptCookie(r)
    \/ ResolveAuthinfo(r) \/ ResolveUnauthenticated(r)
    \/ ResolveDashboardsinfo(r) \/ NoTenant(r) \/ DashboardsinfoFails(r)
    \/ FinalAuthinfo(r) \/ FinalAuthinfoFails(r)

RouteStep(r) ==
    \/ SwitchTenant(r)
    \/ LoginForbidden(r) \/ LoginAccepted(r) \/ LoginRefused(r)
    \/ LoginAnonymous(r) \/ AnonymousRefused(r)
    \/ Logout(r) \/ LoginPage(r)

Server(r) == AuthStep(r) \/ RouteStep(r)

Next ==
    \/ \E r \in Reqs, q \in Requests : Send(r, q)
    \/ \E r \in Reqs : AuthStep(r)
    \/ \E r \in Reqs : RouteStep(r)
    \/ \E r \in Reqs : Deliver(r)
    \/ \E r \in Reqs : Lose(r)
    \/ Tick
    \/ Administer

Spec == Init /\ [][Next]_vars

(* A handler that has begun goes on: the event loop runs it again once the   *)
(* backend has answered or its call has failed.  An answer sent is received  *)
(* or lost.                                                                  *)
Fairness == \A r \in Reqs : WF_vars(Server(r)) /\ WF_vars(Deliver(r) \/ Lose(r))

FairSpec == Spec /\ Fairness

-----------------------------------------------------------------------------
(* Properties.                                                             *)

(* Whoever is let in was known to the backend at some moment between sending *)
(* the request and the answer: a cookie, however fresh, is never enough, so  *)
(* a user removed before the request was sent is not let in.                 *)
Vouched(r) ==
    reply[r].outcome = "authenticated" => \E b \in seen[r] : b.grant[reply[r].user] # Denied

AdmittedWasVouched == \A r \in Reqs : Vouched(r)

WasEntitled(r, user, chosen) ==
    \E grants, settings \in seen[r] :
        /\ grants.grant[user] # Denied
        /\ chosen \in Entitled(grants.grant[user], Config, settings.tenancy)

(* The tenant the request is given was one its user was entitled to, going by *)
(* grants and settings that were in force while it was under way, whatever    *)
(* the cookie held: the tenant of another user's session, one stored          *)
(* unchecked by the tenant switch, or one withdrawn since.                    *)
Placed(r) ==
    reply[r].outcome = "authenticated" /\ Multitenancy =>
        WasEntitled(r, reply[r].user, reply[r].tenant)

TenantWasEntitled == \A r \in Reqs : Placed(r)

(* Why the two hold: the state of the backend is watched from the moment a    *)
(* request is sent, an authinfo answer not yet used was given by one of the   *)
(* states seen, and so was the tenant resolved while the final answer about   *)
(* the user is outstanding.  The user of a cookie is the one its credential    *)
(* belongs to, so the two answers are about the same user.                    *)
WasGranted(r, user, available) ==
    \E b \in seen[r] : b.grant[user] = available

Watching(r) == pc[r] # "idle" => backend \in seen[r]

Unanswered(r) ==
    pc[r] \notin {"handler", "answered"} => reply[r].outcome # "authenticated"

InfoJustified(r) ==
    pc[r] = "dashboardsinfo" =>
        /\ info[r].user \in Users
        /\ WasGranted(r, info[r].user, info[r].available)
        /\ ~ByCredential(r) => info[r].user = CredUser[cookie[r].cred]

ChoiceJustified(r) ==
    pc[r] = "authinfo" /\ Multitenancy => WasEntitled(r, CredUser[cookie[r].cred], tenant[r])

Sound(r) ==
    /\ Watching(r) /\ Unanswered(r) /\ InfoJustified(r) /\ ChoiceJustified(r)
    /\ Vouched(r) /\ Placed(r)

Justified == \A r \in Reqs : Sound(r)

(* Once a tenant switch has been acknowledged with nothing else under way,    *)
(* requests sent after it work in the tenant chosen, if it is theirs, until   *)
(* the user or an administrator changes something.                            *)
SwitchHonoured ==
    \A r \in Reqs :
        reply[r].outcome = "authenticated" /\ expect[r].said = "switched" /\ Multitenancy =>
            reply[r].tenant = resolveTenant(info[r].user, <<>>, expect[r].tenant,
                                            info[r].available, Config, backend.tenancy)

(* What the handler says of itself: a request that brings a credential, in a   *)
(* header or in its URL, is authenticated by it, that is, let in as the user   *)
(* behind it.                                                                *)
CredentialDecides ==
    \A r \in Reqs :
        reply[r].outcome = "authenticated" /\ ByCredential(r) =>
            reply[r].user = CredUser[request[r].cred]

(* Once a logout has been acknowledged with nothing else under way, the       *)
(* browser holds no session and none of its requests is let in until the user *)
(* presents a credential again.                                               *)
LogoutHolds ==
    /\ told.said = "loggedOut" => jar = NoCookie
    /\ \A r \in Reqs : expect[r].said = "loggedOut" => reply[r].outcome # "authenticated"

(* A JWT session in the browser never outlasts the token it was opened with,  *)
(* however often it is kept alive.                                            *)
ExpiryWithinToken ==
    jar # NoCookie /\ jar.authType = JWT => jar.expiryTime <= TokenExp[jar.cred]

(* Every request is answered, or its answer lost: no path through the handler *)
(* and no failing call leaves one hanging.                                    *)
EveryRequestEnds == \A r \in Reqs : pc[r] = "sent" ~> pc[r] = "idle"

(* The credentials a request presents. *)
Presents(q) ==
    IF q.kind = "anonymous" THEN {Anonymous}
    ELSE {c \in {q.cred} : q.kind = "login" \/ requestIncludesAuthInfo(q.via)}

Promise == INSTANCE BrowserSession WITH
    carried <- [r \in Reqs |->
        [cookie |-> stored[r], presents |-> Presents(request[r]), under |-> pc[r] # "idle"]]

(* However requests interleave, the cookie in the browser is only ever what   *)
(* BrowserSession allows.                                                     *)
ImplementsBrowserSession == Promise!Spec
=============================================================================
