-------------------------- MODULE AuthHandlerProofs --------------------------
(***************************************************************************)
(* AuthHandler's invariants and its refinement of BrowserSession, for any  *)
(* number of concurrent requests, any users, tenants, tokens and           *)
(* configuration, and any changes of the backend.                          *)
(***************************************************************************)
EXTENDS AuthHandler, TenantResolverProofs

-----------------------------------------------------------------------------
(* Cookies keep their shape.                                               *)

LEMMA RetenantedSession ==
    ASSUME NEW c \in Session, NEW t \in Names \cup {Undefined}
    PROVE  [c EXCEPT !.tenant = t] \in Session
BY DEF Session

LEMMA RenewedSession ==
    ASSUME NEW c \in Session, NEW e \in Nat
    PROVE  [c EXCEPT !.expiryTime = e] \in Session
BY DEF Session

LEMMA ExpirationNat ==
    ASSUME NEW c \in Creds, NEW d \in Nat
    PROVE  getExpirationDate(c, d) \in Nat
BY CookieAssumption DEF getExpirationDate

LEMMA KeepAliveNat ==
    ASSUME NEW c \in Session, NEW t \in Nat
    PROVE  getKeepAliveExpiry(c, t) \in Nat
<1>1. t + Ttl \in Nat /\ c.expiryTime \in Nat /\ c.cred \in Creds
  BY CookieAssumption DEF Session
<1> QED BY <1>1, ExpirationNat DEF getKeepAliveExpiry

LEMMA NewSession ==
    ASSUME NEW via, requestIncludesAuthInfo(via), NEW c \in Creds, NEW u \in Users, NEW t \in Nat
    PROVE  getCookie(via, c, u, t) \in Session
<1>1. t + Ttl \in Nat /\ Anonymous \in Creds
  BY CookieAssumption
<1>2. getExpirationDate(c, t + Ttl) \in Nat
  BY <1>1, ExpirationNat
<1>3. /\ JwtCookie(c, u, t) \in Session
      /\ SamlCookie(c, u, t) \in Session
      /\ ProxyCookie(c, t) \in Session
  BY <1>1, <1>2 DEF JwtCookie, SamlCookie, ProxyCookie, Session
<1>4. BasicCookie(c, u, t) \in Session
  BY <1>1 DEF BasicCookie, Session
<1> QED BY <1>3, <1>4 DEF getCookie

LEMMA ReadableSession ==
    ASSUME NEW c \in Cookie, NEW t, Readable(c, t)
    PROVE  c \in Session
BY DEF Cookie, Readable

LEMMA BasicSessionType ==
    ASSUME NEW u \in Users, NEW c \in Creds, now \in Nat
    PROVE  BasicSession(u, c) \in Session
BY CookieAssumption DEF BasicSession, Session

LEMMA SessionIsCookie == Session \subseteq Cookie /\ NoCookie \in Cookie
BY DEF Cookie

-----------------------------------------------------------------------------
(* Between its first step and its answer a request works on a session, and   *)
(* no later than its answer it has none.                                     *)
Working == {"resolve", "dashboardsinfo", "authinfo"}

Typed ==
    /\ TypeOK
    /\ \A r \in Reqs : pc[r] \in Working => cookie[r] \in Session
    /\ \A r \in Reqs : pc[r] \in {"credential", "bare"} => requestIncludesAuthInfo(request[r].via)
    /\ \A r \in Reqs : pc[r] = "bare" => request[r].via = "urlparam"

LEMMA TypedInit == Init => Typed
<1> SUFFICES ASSUME Init PROVE Typed
  OBVIOUS
<1>1. Blank \in Request
  BY NamesAssumption, CookieAssumption
     DEF Blank, Request, Kinds, Asks, GLOBAL_TENANTS
<1>2. NoInfo \in Info /\ Answer("none") \in Reply /\ Nothing \in Told
  BY DEF NoInfo, Info, Answer, Reply, Outcomes, Nothing, Told
<1>3. TypeOK
  BY <1>1, <1>2, SessionIsCookie, HandlerAssumption DEF Init, TypeOK, Steps
<1> QED BY <1>3 DEF Typed, Init, Working

LEMMA TypedSend ==
    ASSUME Typed, NEW r \in Reqs, NEW q \in Requests, Send(r, q)
    PROVE  Typed'
<1>1. q \in Request /\ Nothing \in Told
  BY HandlerAssumption DEF Nothing, Told
<1> QED BY <1>1 DEF Typed, TypeOK, Send, Steps, Working

LEMMA TypedForget ==
    ASSUME Typed, NEW r \in Reqs, Forget(r), jar' \in Cookie, told' \in Told
    PROVE  Typed'
<1>1. Blank \in Request
  BY NamesAssumption, CookieAssumption
     DEF Blank, Request, Kinds, Asks, GLOBAL_TENANTS
<1>2. NoInfo \in Info /\ Answer("none") \in Reply /\ Nothing \in Told
  BY DEF NoInfo, Info, Answer, Reply, Outcomes, Nothing, Told
<1>3. TypeOK'
  BY <1>1, <1>2, SessionIsCookie DEF Forget, Typed, TypeOK, Steps
<1> QED BY <1>3 DEF Forget, Typed, TypeOK, Working, Steps

LEMMA TypedDeliver ==
    ASSUME Typed, NEW r \in Reqs, Deliver(r)
    PROVE  Typed'
<1>1. jar' \in Cookie
  BY DEF Deliver, Typed, TypeOK
<1>2. told' \in Told
  BY DEF Deliver, ToldBy, Told, Typed, TypeOK, Request
<1> QED BY <1>1, <1>2, TypedForget DEF Deliver

LEMMA TypedWorld ==
    ASSUME Typed, \/ Tick
                  \/ Administer
                  \/ \E r \in Reqs : Lose(r)
    PROVE  Typed'
<1>1. CASE Tick
  BY <1>1, HandlerAssumption DEF Tick, Typed, TypeOK, serverVars, history
<1>2. CASE Administer
  <2>1. Nothing \in Told
    BY DEF Nothing, Told
  <2> QED BY <1>2, <2>1, HandlerAssumption DEF Administer, Typed, TypeOK, serverVars
<1>3. ASSUME NEW r \in Reqs, Lose(r) PROVE Typed'
  <2>1. jar' \in Cookie /\ told' \in Told
    BY <1>3 DEF Lose, Typed, TypeOK
  <2> QED BY <1>3, <2>1, TypedForget DEF Lose
<1> QED BY <1>1, <1>2, <1>3

-----------------------------------------------------------------------------
(* The server's steps change one request only. *)

LEMMA AnswerType == \A o \in Outcomes : Answer(o) \in Reply
BY DEF Answer, Reply

LEMMA BackendInfo ==
    ASSUME TypeOK, NEW c \in Creds, Accepts(c)
    PROVE  AuthInfo(c) \in Info /\ CredUser[c] \in Users /\ AuthInfo(c).user = CredUser[c]
<1>1. CredUser[c] \in Users /\ backend \in Backend
  BY HandlerAssumption DEF TypeOK
<1>2. Available(c) \in Seq(Names)
  BY <1>1 DEF Accepts, Available, Backend
<1> QED BY <1>1, <1>2 DEF AuthInfo, Info

LEMMA TypedCredential ==
    ASSUME Typed, NEW r \in Reqs, PassPublic(r) \/ TakeCredential(r) \/ CredentialRefused(r)
    PROVE  Typed'
<1>1. Answer("anonymous") \in Reply /\ Answer("unauthorized") \in Reply
  BY AnswerType DEF Outcomes
<1>2. CASE PassPublic(r)
  BY <1>1, <1>2 DEF PassPublic, Finish, unchangedBySteps, history, Typed, TypeOK,
        Steps, Working
<1>3. CASE TakeCredential(r)
  <2>1. /\ ByCredential(r) /\ UNCHANGED <<unchangedBySteps, cookie, info, tenant, out, reply>>
        /\ \E p \in {"credential", "bare"} :
              /\ pc' = [pc EXCEPT ![r] = p]
              /\ p = "bare" => request[r].via = "urlparam"
    BY <1>3 DEF TakeCredential
  <2> QED BY <2>1 DEF ByCredential, unchangedBySteps, history, Typed, TypeOK, Steps, Working
<1>4. CASE CredentialRefused(r)
  BY <1>1, <1>4 DEF CredentialRefused, Finish, unchangedBySteps, history, Typed, TypeOK,
                    Steps, Working
<1> QED BY <1>2, <1>3, <1>4

(* What a request is asked about, and what is made of the answer. *)
LEMMA AskedCred ==
    ASSUME Typed, NEW r \in Reqs, CredentialAccepted(r)
    PROVE  /\ AskedOf(r) \in Creds /\ pc[r] \in {"credential", "bare"} /\ Accepts(AskedOf(r))
           /\ AuthInfo(AskedOf(r)) \in Info /\ AuthInfo(AskedOf(r)).user = CredUser[AskedOf(r)]
           /\ CredUser[AskedOf(r)] \in Users
           /\ AuthInfo(AskedOf(r)).available = Available(AskedOf(r))
<1>1. AskedOf(r) \in Creds /\ pc[r] \in {"credential", "bare"} /\ Accepts(AskedOf(r))
  BY CookieAssumption DEF CredentialAccepted, Asking, AskedOf, Typed, TypeOK, Request
<1> QED BY <1>1, BackendInfo DEF Typed, AuthInfo

LEMMA TypedCredentialAccepted ==
    ASSUME Typed, NEW r \in Reqs, CredentialAccepted(r)
    PROVE  Typed'
<1> DEFINE q == request[r]
           answer == AuthInfo(AskedOf(r))
           browserCookie == ReadCookie(stored[r], now)
           fresh == getCookie(q.via, q.cred, answer.user, now)
           kept == IF browserCookie # NoCookie /\ isValidTenant(browserCookie.tenant)
                   THEN [fresh EXCEPT !.tenant = browserCookie.tenant] ELSE fresh
<1>1. q.cred \in Creds /\ now \in Nat /\ requestIncludesAuthInfo(q.via) /\ stored[r] \in Cookie
  BY AskedCred DEF Typed, TypeOK, Request
<1>2. answer \in Info /\ answer.user \in Users
  BY AskedCred
<1>3. fresh \in Session
  BY <1>1, <1>2, NewSession
<1>4. browserCookie # NoCookie => browserCookie.tenant \in Names \cup {Undefined}
  <2>1. browserCookie # NoCookie => browserCookie \in Session
    BY <1>1, ReadableSession DEF ReadCookie
  <2> QED BY <2>1 DEF Session
<1>5. kept \in Session
  <2> HIDE DEF fresh, browserCookie
  <2> QED BY <1>3, <1>4, RetenantedSession
<1>6. /\ info' = [info EXCEPT ![r] = answer]
      /\ cookie' = [cookie EXCEPT ![r] = kept]
      /\ out' = [out EXCEPT ![r] = kept]
      /\ \/ pc' = [pc EXCEPT ![r] = "dashboardsinfo"] /\ reply' = reply
         \/ Authenticate(r, answer.user, Undefined)
      /\ UNCHANGED <<unchangedBySteps, tenant>>
  BY DEF CredentialAccepted
<1>7. [outcome |-> "authenticated", user |-> answer.user, tenant |-> Undefined] \in Reply
  BY <1>2 DEF Reply, Outcomes
<1> HIDE DEF kept, answer
<1> QED BY <1>2, <1>5, <1>6, <1>7, SessionIsCookie
        DEF Authenticate, unchangedBySteps, history, Typed, TypeOK, Steps, Working

LEMMA UnauthedOutcome ==
    \A k : handleUnauthedRequest(k) \in Outcomes
BY DEF handleUnauthedRequest, Outcomes

LEMMA TypedCookie ==
    ASSUME Typed, NEW r \in Reqs, RejectCookie(r) \/ AcceptCookie(r)
    PROVE  Typed'
<1>1. CASE RejectCookie(r)
  <2>1. Answer(Unauthed(r)) \in Reply
    BY UnauthedOutcome, AnswerType DEF Unauthed, Outcomes
  <2> QED BY <1>1, <2>1, SessionIsCookie
          DEF RejectCookie, Finish, unchangedBySteps, history, Typed, TypeOK, Steps, Working
<1>2. CASE AcceptCookie(r)
  <2> DEFINE renewed == [stored[r] EXCEPT !.expiryTime = getKeepAliveExpiry(stored[r], now)]
  <2>1. stored[r] \in Session
    BY <1>2, ReadableSession DEF AcceptCookie, GoodCookie, Typed, TypeOK
  <2>2. now \in Nat
    BY DEF Typed, TypeOK
  <2>3. renewed \in Session
    BY <2>1, <2>2, KeepAliveNat, RenewedSession
  <2> HIDE DEF renewed
  <2>4. /\ \/ cookie' = [cookie EXCEPT ![r] = renewed] /\ out' = [out EXCEPT ![r] = renewed]
           \/ cookie' = [cookie EXCEPT ![r] = stored[r]] /\ UNCHANGED out
        /\ pc' = [pc EXCEPT ![r] = IF Multitenancy THEN "resolve" ELSE "authinfo"]
        /\ UNCHANGED <<unchangedBySteps, info, tenant, reply>>
    BY <1>2 DEF AcceptCookie, renewed
  <2> QED BY <2>1, <2>3, <2>4, SessionIsCookie
          DEF unchangedBySteps, history, Typed, TypeOK, Steps, Working
<1> QED BY <1>1, <1>2

LEMMA ResolvedName ==
    ASSUME TypeOK, NEW r \in Reqs, cookie[r] \in Session
    PROVE  /\ Resolved(r) \in Names \cup {Undefined}
           /\ Resolved(r) \in Entitled(info[r].available, Config, backend.tenancy)
                              \cup {Undefined}
<1>1. /\ request[r].asked \in Seq(Names) /\ info[r].available \in Seq(Names)
      /\ backend.tenancy \in Tenancy /\ Config \in Conf
  BY HandlerAssumption DEF TypeOK, Request, Asks, Info, Backend
<1>2. cookie[r].tenant \in Names \cup {Undefined}
  BY DEF Session
<1> QED BY <1>1, <1>2, ResolveTenantEntitled DEF Resolved

LEMMA TypedResolve ==
    ASSUME Typed, NEW r \in Reqs, ResolveAuthinfo(r) \/ ResolveUnauthenticated(r)
    PROVE  Typed'
<1>1. CASE ResolveAuthinfo(r)
  <2>1. cookie[r] \in Session /\ cookie[r].cred \in Creds
    BY <1>1 DEF ResolveAuthinfo, Typed, Working, Session
  <2>2. AuthInfo(cookie[r].cred) \in Info
    BY <1>1, <2>1, BackendInfo DEF ResolveAuthinfo, Typed
  <2> QED BY <1>1, <2>1, <2>2
          DEF ResolveAuthinfo, unchangedBySteps, history, Typed, TypeOK, Steps, Working
<1>2. CASE ResolveUnauthenticated(r)
  <2>1. /\ Answer("notHandled") \in Reply
        /\ Answer(handleUnauthedRequest(request[r].kind)) \in Reply
    BY UnauthedOutcome, AnswerType DEF Outcomes
  <2> QED BY <1>2, <2>1, SessionIsCookie
          DEF ResolveUnauthenticated, Finish, unchangedBySteps, history, Typed, TypeOK,
              Steps, Working
<1> QED BY <1>1, <1>2

LEMMA TypedDashboardsinfo ==
    ASSUME Typed, NEW r \in Reqs, ResolveDashboardsinfo(r)
    PROVE  Typed'
<1> DEFINE moved == [cookie[r] EXCEPT !.tenant = Resolved(r)]
<1>1. cookie[r] \in Session
  BY DEF ResolveDashboardsinfo, Typed, Working
<1>2. Resolved(r) \in Names \cup {Undefined}
  BY <1>1, ResolvedName DEF Typed
<1>3. moved \in Session
  BY <1>1, <1>2, RetenantedSession
<1>4. [outcome |-> "authenticated", user |-> info[r].user, tenant |-> Resolved(r)] \in Reply
  BY <1>2 DEF Reply, Outcomes, Typed, TypeOK, Info
<1>5. /\ tenant' = [tenant EXCEPT ![r] = Resolved(r)]
      /\ \/ cookie' = [cookie EXCEPT ![r] = moved] /\ out' = [out EXCEPT ![r] = moved]
         \/ UNCHANGED <<cookie, out>>
      /\ \/ Authenticate(r, info[r].user, Resolved(r))
         \/ pc' = [pc EXCEPT ![r] = "authinfo"] /\ UNCHANGED reply
      /\ UNCHANGED <<unchangedBySteps, info>>
  BY DEF ResolveDashboardsinfo
<1> HIDE DEF moved
<1> QED BY <1>1, <1>2, <1>3, <1>4, <1>5, SessionIsCookie
        DEF Authenticate, unchangedBySteps, history, Typed, TypeOK, Steps, Working

LEMMA TypedFinal ==
    ASSUME Typed, NEW r \in Reqs,
           NoTenant(r) \/ DashboardsinfoFails(r) \/ FinalAuthinfo(r) \/ FinalAuthinfoFails(r)
    PROVE  Typed'
<1>1. Answer("badRequest") \in Reply /\ Answer("error") \in Reply
  BY AnswerType DEF Outcomes
<1>2. CASE NoTenant(r)
  BY <1>1, <1>2 DEF NoTenant, Finish, unchangedBySteps, history, Typed, TypeOK, Steps,
        Working
<1>3. CASE DashboardsinfoFails(r)
  BY <1>1, <1>3 DEF DashboardsinfoFails, Finish, unchangedBySteps, history, Typed, TypeOK,
                    Steps, Working
<1>4. CASE FinalAuthinfoFails(r)
  BY <1>1, <1>4 DEF FinalAuthinfoFails, Finish, unchangedBySteps, history, Typed, TypeOK,
                    Steps, Working
<1>5. CASE FinalAuthinfo(r)
  <2>1. cookie[r] \in Session /\ cookie[r].cred \in Creds
    BY <1>5 DEF FinalAuthinfo, Typed, Working, Session
  <2>2. AuthInfo(cookie[r].cred).user \in Users
    BY <1>5, <2>1, BackendInfo DEF FinalAuthinfo, Typed
  <2>3. [outcome |-> "authenticated", user |-> AuthInfo(cookie[r].cred).user,
         tenant |-> tenant[r]] \in Reply
    BY <2>2 DEF Reply, Outcomes, Typed, TypeOK
  <2> QED BY <1>5, <2>3 DEF FinalAuthinfo, Authenticate, unchangedBySteps, history, Typed,
                            TypeOK, Steps, Working
<1> QED BY <1>2, <1>3, <1>4, <1>5

LEMMA TypedSwitch ==
    ASSUME Typed, NEW r \in Reqs, SwitchTenant(r)
    PROVE  Typed'
<1> DEFINE sent == IF ByCredential(r) THEN stored[r] ELSE cookie[r]
           switched == [sent EXCEPT !.tenant = request[r].tenant]
<1>1. sent \in Cookie /\ request[r].tenant \in Names
  BY DEF Typed, TypeOK, Request
<1>2. Answer("ok") \in Reply /\ Answer("badRequest") \in Reply
  BY AnswerType DEF Outcomes
<1>3. Readable(sent, now) => switched \in Cookie
  BY <1>1, ReadableSession, RetenantedSession, SessionIsCookie
<1>4. /\ \/ Readable(sent, now) /\ out' = [out EXCEPT ![r] = switched] /\ Finish(r, Answer("ok"))
         \/ /\ out' = out \/ out' = [out EXCEPT ![r] = NoCookie]
            /\ Finish(r, Answer("badRequest"))
      /\ UNCHANGED <<unchangedBySteps, cookie, info, tenant>>
  BY DEF SwitchTenant, Typed, TypeOK
<1> HIDE DEF sent, switched
<1> QED BY <1>2, <1>3, <1>4, SessionIsCookie
        DEF Finish, unchangedBySteps, history, Typed, TypeOK, Steps, Working

LEMMA TypedRoute ==
    ASSUME Typed, NEW r \in Reqs, RouteStep(r)
    PROVE  Typed'
<1>1. /\ Answer("badRequest") \in Reply /\ Answer("ok") \in Reply
      /\ Answer("unauthorized") \in Reply /\ Answer("redirect") \in Reply
  BY AnswerType DEF Outcomes
<1>2. request[r].cred \in Creds /\ CredUser[request[r].cred] \in Users /\ now \in Nat
  BY HandlerAssumption DEF Typed, TypeOK, Request
<1>3. /\ BasicSession(CredUser[request[r].cred], request[r].cred) \in Cookie
      /\ BasicSession(AnonymousUser, Anonymous) \in Cookie
  BY <1>2, CookieAssumption, BasicSessionType, SessionIsCookie
<1>4. CASE SwitchTenant(r)
  BY <1>4, TypedSwitch
<1>5. CASE LoginForbidden(r) \/ LoginRefused(r) \/ AnonymousRefused(r)
  BY <1>1, <1>5 DEF LoginForbidden, LoginRefused, AnonymousRefused, Finish,
                    unchangedBySteps, history, Typed, TypeOK, Steps, Working
<1>6. CASE LoginAccepted(r) \/ LoginAnonymous(r)
  BY <1>1, <1>3, <1>6 DEF LoginAccepted, LoginAnonymous, Finish,
                          unchangedBySteps, history, Typed, TypeOK, Steps, Working
<1>7. CASE Logout(r) \/ LoginPage(r)
  BY <1>1, <1>7, SessionIsCookie DEF Logout, LoginPage, Finish,
                    unchangedBySteps, history, Typed, TypeOK, Steps, Working
<1> QED BY <1>4, <1>5, <1>6, <1>7 DEF RouteStep

LEMMA TypedNext ==
    ASSUME Typed, [Next]_vars
    PROVE  Typed'
<1>1. ASSUME NEW r \in Reqs, AuthStep(r) PROVE Typed'
  BY <1>1, TypedCredential, TypedCredentialAccepted, TypedCookie, TypedResolve,
     TypedDashboardsinfo, TypedFinal DEF AuthStep
<1>2. CASE UNCHANGED vars
  BY <1>2 DEF vars, serverVars, history, Typed, TypeOK
<1>3. CASE Next
  BY <1>1, <1>3, TypedSend, TypedDeliver, TypedWorld, TypedRoute DEF Next
<1> QED BY <1>2, <1>3

(* The state stays well formed: whatever the interleaving, what the browser  *)
(* holds and what an answer sets is a whole session cookie or none.          *)
THEOREM TypeCorrect == Spec => []TypeOK
<1>1. Init => Typed
  BY TypedInit
<1>2. Typed /\ [Next]_vars => Typed'
  BY TypedNext
<1>3. Typed => TypeOK
  BY DEF Typed
<1> QED BY <1>1, <1>2, <1>3, PTL DEF Spec

-----------------------------------------------------------------------------
(* Who is let in, and into which tenant.                                   *)

(* Steps of other requests, and changes of the backend, which the request's   *)
(* history records, leave what is known of a request standing.               *)
LEMMA SoundPreserved ==
    ASSUME NEW o \in Reqs, Sound(o),
           pc'[o] = pc[o], request'[o] = request[o], cookie'[o] = cookie[o],
           info'[o] = info[o], tenant'[o] = tenant[o], reply'[o] = reply[o],
           seen[o] \subseteq seen'[o] \/ pc[o] = "idle",
           pc[o] # "idle" => backend' \in seen'[o]
    PROVE  Sound(o)'
<1>1. CASE pc[o] = "idle"
  BY <1>1 DEF Sound, Watching, Unanswered, InfoJustified, ChoiceJustified, Vouched, Placed
<1>2. CASE pc[o] # "idle"
  <2>1. Watching(o)' /\ Unanswered(o)'
    BY <1>2 DEF Sound, Watching, Unanswered
  <2>2. InfoJustified(o)'
    BY <1>2 DEF Sound, InfoJustified, WasGranted, ByCredential
  <2>3. ChoiceJustified(o)'
    BY <1>2 DEF Sound, ChoiceJustified, WasEntitled
  <2>4. Vouched(o)' /\ Placed(o)'
    BY <1>2 DEF Sound, Vouched, Placed, WasEntitled
  <2> QED BY <2>1, <2>2, <2>3, <2>4 DEF Sound
<1> QED BY <1>1, <1>2

LEMMA SoundInit == Init => Justified
BY DEF Init, Justified, Sound, Watching, Unanswered, InfoJustified, ChoiceJustified,
       Vouched, Placed, Answer

LEMMA SoundSend ==
    ASSUME Typed, Justified, NEW r \in Reqs, NEW q \in Requests, Send(r, q)
    PROVE  Justified'
<1> SUFFICES ASSUME NEW o \in Reqs PROVE Sound(o)'
  BY DEF Justified
<1>1. CASE o # r
  BY <1>1, SoundPreserved DEF Send, Justified, Typed, TypeOK, Sound, Watching
<1>2. CASE o = r
  <2>1. pc'[r] = "sent" /\ seen'[r] = {backend} /\ backend' = backend
        /\ reply'[r].outcome # "authenticated"
    BY DEF Send, Typed, TypeOK, Justified, Sound, Unanswered
  <2> QED BY <1>2, <2>1 DEF Sound, Watching, Unanswered, InfoJustified, ChoiceJustified,
                            Vouched, Placed
<1> QED BY <1>1, <1>2

LEMMA SoundForget ==
    ASSUME Typed, Justified, NEW r \in Reqs, Forget(r)
    PROVE  Justified'
<1> SUFFICES ASSUME NEW o \in Reqs PROVE Sound(o)'
  BY DEF Justified
<1>1. CASE o # r
  BY <1>1, SoundPreserved DEF Forget, Justified, Typed, TypeOK, Sound, Watching
<1>2. CASE o = r
  <2>1. pc'[r] = "idle" /\ reply'[r].outcome # "authenticated"
    BY DEF Forget, Typed, TypeOK, Answer
  <2> QED BY <1>2, <2>1 DEF Sound, Watching, Unanswered, InfoJustified, ChoiceJustified,
                            Vouched, Placed
<1> QED BY <1>1, <1>2

LEMMA SoundWorld ==
    ASSUME Typed, Justified, Tick \/ Administer
    PROVE  Justified'
<1> SUFFICES ASSUME NEW o \in Reqs PROVE Sound(o)'
  BY DEF Justified
<1>1. CASE Tick
  BY <1>1, SoundPreserved DEF Tick, serverVars, history, Justified, Sound, Watching
<1>2. CASE Administer
  BY <1>2, SoundPreserved DEF Administer, serverVars, Justified, Sound, Watching,
        Typed, TypeOK
<1> QED BY <1>1, <1>2

Untouched(o) ==
    /\ pc'[o] = pc[o] /\ cookie'[o] = cookie[o] /\ info'[o] = info[o]
    /\ tenant'[o] = tenant[o] /\ out'[o] = out[o] /\ reply'[o] = reply[o]

LEMMA OthersUntouched ==
    ASSUME TypeOK, NEW r \in Reqs, NEW o \in Reqs \ {r}, Server(r)
    PROVE  Untouched(o) /\ UNCHANGED unchangedBySteps
<1>1. CASE PassPublic(r) \/ CredentialRefused(r) \/ NoTenant(r) \/ DashboardsinfoFails(r)
           \/ FinalAuthinfoFails(r)
  BY <1>1 DEF PassPublic, CredentialRefused, NoTenant, DashboardsinfoFails,
              FinalAuthinfoFails, Finish, Untouched, TypeOK
<1>2. CASE TakeCredential(r) \/ FinalAuthinfo(r) \/ CredentialAccepted(r)
  BY <1>2 DEF TakeCredential, FinalAuthinfo, CredentialAccepted, Authenticate,
        Untouched, TypeOK
<1>3. CASE RejectCookie(r) \/ AcceptCookie(r) \/ ResolveAuthinfo(r) \/ ResolveUnauthenticated(r)
  BY <1>3 DEF RejectCookie, AcceptCookie, ResolveAuthinfo, ResolveUnauthenticated, Finish,
              Untouched, TypeOK
<1>4. CASE ResolveDashboardsinfo(r)
  BY <1>4 DEF ResolveDashboardsinfo, Authenticate, Untouched, TypeOK
<1>5. CASE SwitchTenant(r)
  BY <1>5 DEF SwitchTenant, Finish, Untouched, TypeOK
<1>6. CASE LoginForbidden(r) \/ LoginAccepted(r) \/ LoginRefused(r) \/ LoginAnonymous(r)
           \/ AnonymousRefused(r) \/ Logout(r) \/ LoginPage(r)
  BY <1>6 DEF LoginForbidden, LoginAccepted, LoginRefused, LoginAnonymous, AnonymousRefused,
              Logout, LoginPage, Finish, Untouched, TypeOK
<1> QED BY <1>1, <1>2, <1>3, <1>4, <1>5, <1>6 DEF Server, AuthStep, RouteStep

(* It is enough to look at the request that takes the step. *)
LEMMA SoundIfOwn ==
    ASSUME Typed, Justified, NEW r \in Reqs, Server(r), Sound(r)'
    PROVE  Justified'
<1> SUFFICES ASSUME NEW o \in Reqs \ {r} PROVE Sound(o)'
  BY DEF Justified
<1>1. Untouched(o) /\ UNCHANGED unchangedBySteps
  BY OthersUntouched DEF Typed
<1> QED BY <1>1, SoundPreserved
        DEF Untouched, unchangedBySteps, history, Justified, Sound, Watching

(* A request that is answered without being let in has nothing to justify.   *)
LEMMA SoundRefusal ==
    ASSUME Typed, Justified, NEW r \in Reqs, pc[r] # "idle", UNCHANGED unchangedBySteps,
           NEW p \in {"credential", "bare", "resolve", "answered"}, pc'[r] = p,
           reply'[r].outcome # "authenticated"
    PROVE  Sound(r)'
BY DEF Justified, Sound, Watching, Unanswered, InfoJustified, ChoiceJustified, Vouched,
   Placed, unchangedBySteps, history

LEMMA AnswerNotIn == \A o \in Outcomes \ {"authenticated"} : Answer(o).outcome # "authenticated"
BY DEF Answer

(* What the backend says now is recorded as said while the request runs. *)
LEMMA AcceptedGranted ==
    ASSUME TypeOK, NEW r \in Reqs, backend \in seen[r], NEW c \in Creds, Accepts(c)
    PROVE  /\ WasGranted(r, CredUser[c], Available(c))
           /\ Available(c) # Denied
           /\ \E b \in seen[r] : b.grant[CredUser[c]] # Denied
BY DEF WasGranted, Accepts, Available

(* So is the tenancy under which a tenant is resolved. *)
LEMMA ResolvedEntitled ==
    ASSUME Typed, Justified, NEW r \in Reqs, pc[r] = "dashboardsinfo",
           isValidTenant(Resolved(r))
    PROVE  /\ WasEntitled(r, info[r].user, Resolved(r))
           /\ \E b \in seen[r] : b.grant[info[r].user] # Denied
<1>1. backend \in seen[r]
  BY DEF Justified, Sound, Watching
<1>2. PICK b \in seen[r] : b.grant[info[r].user] = info[r].available
  BY DEF Justified, Sound, InfoJustified, WasGranted
<1>3. info[r].available # Denied
  BY HandlerAssumption DEF Typed, TypeOK, Info
<1>4. cookie[r] \in Session
  BY DEF Typed, Working
<1>5. Resolved(r) \in Entitled(info[r].available, Config, backend.tenancy)
  BY <1>4, ResolvedName DEF Typed, isValidTenant
<1> QED BY <1>1, <1>2, <1>3, <1>5 DEF WasEntitled

LEMMA SoundRefusals ==
    ASSUME Typed, Justified, NEW r \in Reqs,
           \/ PassPublic(r) \/ CredentialRefused(r) \/ RejectCookie(r)
           \/ ResolveUnauthenticated(r) \/ NoTenant(r) \/ DashboardsinfoFails(r)
           \/ FinalAuthinfoFails(r) \/ RouteStep(r)
    PROVE  Sound(r)'
<1>1. pc[r] # "idle" /\ UNCHANGED unchangedBySteps
  BY DEF PassPublic, CredentialRefused, Asking, RejectCookie, ByCookie, ResolveUnauthenticated,
         NoTenant, DashboardsinfoFails, FinalAuthinfoFails, RouteStep, SwitchTenant, Opens,
         LoginForbidden, LoginAccepted, LoginRefused, LoginAnonymous, AnonymousRefused,
         Logout, LoginPage
<1>2. \E o \in Outcomes \ {"authenticated"} : Finish(r, Answer(o))
  <2>1. \A k : handleUnauthedRequest(k) \in Outcomes \ {"authenticated"}
    BY DEF handleUnauthedRequest, Outcomes
  <2>2. Unauthed(r) \in Outcomes \ {"authenticated"}
    BY <2>1 DEF Unauthed, Outcomes
  <2>3. {"anonymous", "unauthorized", "notHandled", "badRequest", "error", "ok", "redirect"}
          \subseteq Outcomes \ {"authenticated"}
    BY DEF Outcomes
  <2>4. CASE PassPublic(r) \/ CredentialRefused(r) \/ RejectCookie(r)
             \/ ResolveUnauthenticated(r) \/ NoTenant(r) \/ DashboardsinfoFails(r)
             \/ FinalAuthinfoFails(r)
    BY <2>1, <2>2, <2>3, <2>4
       DEF PassPublic, CredentialRefused, RejectCookie, ResolveUnauthenticated, NoTenant,
           DashboardsinfoFails, FinalAuthinfoFails
  <2>5. CASE RouteStep(r)
    BY <2>3, <2>5
       DEF RouteStep, SwitchTenant, LoginForbidden, LoginAccepted, LoginRefused,
           LoginAnonymous, AnonymousRefused, Logout, LoginPage
  <2> QED BY <2>4, <2>5
<1>3. pc'[r] = "answered" /\ reply'[r].outcome # "authenticated"
  BY <1>2, AnswerNotIn DEF Finish, Typed, TypeOK
<1> QED BY <1>1, <1>3, SoundRefusal

LEMMA SoundStart ==
    ASSUME Typed, Justified, NEW r \in Reqs, TakeCredential(r)
    PROVE  Sound(r)'
BY SoundRefusal DEF TakeCredential, Typed, TypeOK, Justified, Sound, Unanswered

LEMMA SoundAcceptCookie ==
    ASSUME Typed, Justified, NEW r \in Reqs, AcceptCookie(r)
    PROVE  Sound(r)'
BY DEF AcceptCookie, ByCookie, Typed, TypeOK, unchangedBySteps, history, Justified, Sound,
       Watching, Unanswered, InfoJustified, ChoiceJustified, Vouched, Placed

LEMMA SoundCredentialAccepted ==
    ASSUME Typed, Justified, NEW r \in Reqs, CredentialAccepted(r)
    PROVE  Sound(r)'
<1> DEFINE answer == AuthInfo(AskedOf(r))
<1>1. /\ pc[r] \in {"credential", "bare"} /\ Accepts(AskedOf(r)) /\ info' = [info EXCEPT ![r] = answer]
      /\ IF Multitenancy
         THEN pc' = [pc EXCEPT ![r] = "dashboardsinfo"] /\ UNCHANGED reply
         ELSE Authenticate(r, answer.user, Undefined)
      /\ UNCHANGED unchangedBySteps
  BY AskedCred DEF CredentialAccepted
<1>2. AskedOf(r) \in Creds
  BY AskedCred
<1>3. backend \in seen[r] /\ reply[r].outcome # "authenticated"
  BY <1>1 DEF Justified, Sound, Watching, Unanswered
<1>4. /\ answer.user = CredUser[AskedOf(r)] /\ answer.user \in Users
      /\ answer.available = Available(AskedOf(r))
  BY AskedCred
<1>5. WasGranted(r, answer.user, answer.available)
      /\ \E b \in seen[r] : b.grant[answer.user] # Denied
  BY <1>1, <1>2, <1>3, <1>4, AcceptedGranted DEF Typed
<1>6. ByCredential(r)
  BY <1>1 DEF Typed, ByCredential
<1> HIDE DEF answer
<1>7. CASE Multitenancy
  BY <1>1, <1>3, <1>4, <1>5, <1>6, <1>7 DEF Typed, TypeOK, unchangedBySteps, history,
     Sound, Watching, Unanswered, InfoJustified, ChoiceJustified, Vouched, Placed,
     WasGranted, ByCredential
<1>8. CASE ~Multitenancy
  <2>1. pc'[r] \in {"handler", "answered"} /\ reply'[r].user = answer.user
    BY <1>1, <1>8 DEF Authenticate, Typed, TypeOK
  <2> QED BY <1>1, <1>3, <1>5, <1>8, <2>1
          DEF Typed, TypeOK, unchangedBySteps, history, Sound, Watching, Unanswered,
              InfoJustified, ChoiceJustified, Vouched, Placed
<1> QED BY <1>7, <1>8

LEMMA SoundResolveAuthinfo ==
    ASSUME Typed, Justified, NEW r \in Reqs, ResolveAuthinfo(r)
    PROVE  Sound(r)'
<1>1. cookie[r].cred \in Creds /\ pc[r] = "resolve" /\ Accepts(cookie[r].cred)
  BY DEF ResolveAuthinfo, Typed, Working, Session
<1>2. backend \in seen[r] /\ reply[r].outcome # "authenticated"
  BY <1>1 DEF Justified, Sound, Watching, Unanswered
<1>3. /\ AuthInfo(cookie[r].cred).user = CredUser[cookie[r].cred]
      /\ CredUser[cookie[r].cred] \in Users
      /\ AuthInfo(cookie[r].cred).available = Available(cookie[r].cred)
  BY <1>1, BackendInfo DEF Typed, AuthInfo
<1>4. WasGranted(r, CredUser[cookie[r].cred], Available(cookie[r].cred))
  BY <1>1, <1>2, AcceptedGranted DEF Typed
<1> QED BY <1>1, <1>2, <1>3, <1>4
        DEF ResolveAuthinfo, Typed, TypeOK, unchangedBySteps, history, Sound, Watching,
            Unanswered, InfoJustified, ChoiceJustified, Vouched, Placed, WasGranted

LEMMA SoundDashboardsinfo ==
    ASSUME Typed, Justified, NEW r \in Reqs, ResolveDashboardsinfo(r)
    PROVE  Sound(r)'
<1>1. pc[r] = "dashboardsinfo" /\ isValidTenant(Resolved(r)) /\ cookie[r] \in Session
  BY DEF ResolveDashboardsinfo, Typed, Working
<1>2. backend \in seen[r] /\ reply[r].outcome # "authenticated" /\ InfoJustified(r)
  BY <1>1 DEF Justified, Sound, Watching, Unanswered
<1>3. WasEntitled(r, info[r].user, Resolved(r)) /\ \E b \in seen[r] : b.grant[info[r].user] # Denied
  BY <1>1, ResolvedEntitled
<1>4. cookie'[r].cred = cookie[r].cred
  BY <1>1 DEF ResolveDashboardsinfo, Typed, TypeOK, Session
<1>5. CASE ByCredential(r)
  <2>1. /\ pc'[r] \in {"handler", "answered"} /\ reply'[r].user = info[r].user
        /\ reply'[r].tenant = Resolved(r) /\ UNCHANGED unchangedBySteps
    BY <1>5 DEF ResolveDashboardsinfo, Authenticate, Typed, TypeOK
  <2> QED BY <1>2, <1>3, <2>1
          DEF unchangedBySteps, history, Sound, Watching, Unanswered, InfoJustified,
              ChoiceJustified, Vouched, Placed, WasEntitled
<1>6. CASE ~ByCredential(r)
  <2>1. /\ pc'[r] = "authinfo" /\ reply' = reply /\ tenant'[r] = Resolved(r)
        /\ UNCHANGED unchangedBySteps
    BY <1>6 DEF ResolveDashboardsinfo, Typed, TypeOK
  <2>2. info[r].user = CredUser[cookie'[r].cred]
    BY <1>1, <1>2, <1>4, <1>6 DEF InfoJustified
  <2> QED BY <1>2, <1>3, <2>1, <2>2
          DEF unchangedBySteps, history, Sound, Watching, Unanswered, InfoJustified,
              ChoiceJustified, Vouched, Placed, WasEntitled
<1> QED BY <1>5, <1>6

LEMMA SoundFinalAuthinfo ==
    ASSUME Typed, Justified, NEW r \in Reqs, FinalAuthinfo(r)
    PROVE  Sound(r)'
<1>1. cookie[r].cred \in Creds /\ pc[r] = "authinfo" /\ Accepts(cookie[r].cred)
  BY DEF FinalAuthinfo, Typed, Working, Session
<1>2. backend \in seen[r] /\ ChoiceJustified(r)
  BY <1>1 DEF Justified, Sound, Watching
<1>3. \E b \in seen[r] : b.grant[CredUser[cookie[r].cred]] # Denied
  BY <1>1, <1>2, AcceptedGranted DEF Typed
<1>4. /\ pc'[r] \in {"handler", "answered"} /\ reply'[r].user = CredUser[cookie[r].cred]
      /\ reply'[r].tenant = tenant[r] /\ UNCHANGED unchangedBySteps
  BY <1>1, BackendInfo DEF FinalAuthinfo, Authenticate, Typed, TypeOK
<1> QED BY <1>1, <1>2, <1>3, <1>4
        DEF unchangedBySteps, history, Sound, Watching, Unanswered, InfoJustified,
            ChoiceJustified, Vouched, Placed, WasEntitled

LEMMA SoundNext ==
    ASSUME Typed, Justified, [Next]_vars
    PROVE  Justified'
<1>1. ASSUME NEW r \in Reqs, Server(r) PROVE Justified'
  <2>1. Sound(r)'
    BY <1>1, SoundRefusals, SoundStart, SoundAcceptCookie, SoundCredentialAccepted,
       SoundResolveAuthinfo, SoundDashboardsinfo, SoundFinalAuthinfo DEF Server, AuthStep
  <2> QED BY <1>1, <2>1, SoundIfOwn
<1>2. ASSUME NEW r \in Reqs, Deliver(r) \/ Lose(r) PROVE Justified'
  BY <1>2, SoundForget DEF Deliver, Lose
<1>3. CASE UNCHANGED vars
  BY <1>3, SoundPreserved DEF vars, serverVars, history, Justified, Sound, Watching
<1> QED BY <1>1, <1>2, <1>3, SoundSend, SoundWorld DEF Next, Server

(* Every request let in was vouched for while it was under way, and the tenant *)
(* it was given was one its user was entitled to then.                        *)
THEOREM AdmissionJustified == Spec => []Justified
<1>1. Init => Typed /\ Justified
  BY TypedInit, SoundInit
<1>2. Typed /\ Justified /\ [Next]_vars => (Typed /\ Justified)'
  BY TypedNext, SoundNext
<1> QED BY <1>1, <1>2, PTL DEF Spec

(* A cookie is never enough to be let in: the backend knew the user.          *)
THEOREM AdmittedVouched == Spec => []AdmittedWasVouched
<1>1. Justified => AdmittedWasVouched
  BY DEF Justified, Sound, AdmittedWasVouched
<1> QED BY <1>1, AdmissionJustified, PTL

(* Nobody is given a tenant that is not theirs, whatever the cookie says.     *)
THEOREM TenantEntitled == Spec => []TenantWasEntitled
<1>1. Justified => TenantWasEntitled
  BY DEF Justified, Sound, TenantWasEntitled
<1> QED BY <1>1, AdmissionJustified, PTL

-----------------------------------------------------------------------------
(***************************************************************************)
(* What the one cookie of a browser can become, for any number of requests  *)
(* under way: AuthHandler implements BrowserSession.                        *)
(***************************************************************************)

-----------------------------------------------------------------------------
(* Where the cookie a handler works on can come from.                      *)

Kept(r, c) ==
    \/ Promise!Renews(stored[r], c)
    \/ Promise!Opened(Presents(request[r]), c)

Carries(r) ==
    /\ pc[r] \in Working \cup {"handler"} => cookie[r] \in Session /\ Kept(r, cookie[r])
    /\ out[r] \in {NoSet, NoCookie} \/ (out[r] \in Session /\ Kept(r, out[r]))
    /\ pc[r] = "idle" => out[r] = NoSet
    /\ pc[r] \in {"credential", "bare"} => request[r].kind # "anonymous"

Carried == \A r \in Reqs : Carries(r)

(* The abstract specification speaks of the same cookies. *)
LEMMA SameCookies ==
    Promise!Session = Session /\ Promise!NoCookie = NoCookie /\ Promise!SAML = SAML
BY DEF Promise!Session, Session, Promise!NoCookie, NoCookie, Promise!SAML, SAML,
       Promise!BASIC, BASIC, Promise!JWT, JWT

(* A session is neither of the two values that are not sessions. *)
LEMMA SessionsDiffer ==
    ASSUME NEW c \in Session
    PROVE  c # NoCookie /\ c # NoSet
BY DEF Session, NoCookie, NoSet, BASIC, JWT, SAML

(* Giving a cookie another tenant does not change where it comes from. *)
LEMMA KeptRetenanted ==
    ASSUME NEW r \in Reqs, NEW c \in Session, Kept(r, c), NEW t \in Names \cup {Undefined}
    PROVE  Kept(r, [c EXCEPT !.tenant = t])
<1> DEFINE d == [c EXCEPT !.tenant = t]
<1>1. d \in Session /\ d # NoCookie
  BY RetenantedSession, SessionsDiffer
<1>2. /\ d.authType = c.authType /\ d.username = c.username
      /\ d.cred = c.cred /\ d.expiryTime = c.expiryTime
  BY DEF Session
<1> HIDE DEF d
<1>3. Kept(r, d)
  BY <1>1, <1>2, SameCookies DEF Kept, Promise!Renews, Promise!Opened
<1> QED BY <1>3 DEF d

(* A cookie with the end it had, or a new one within the time to live from    *)
(* now where that is allowed, renews the one the request came with.           *)
LEMMA KeptStored ==
    ASSUME Typed, NEW r \in Reqs, stored[r] \in Session
    PROVE  /\ Kept(r, stored[r])
           /\ Keepalive => Kept(r, [stored[r] EXCEPT !.expiryTime =
                                        getKeepAliveExpiry(stored[r], now)])
<1> DEFINE e == getKeepAliveExpiry(stored[r], now)
           d == [stored[r] EXCEPT !.expiryTime = e]
<1>1. now \in Nat /\ stored[r].cred \in Creds /\ stored[r].expiryTime \in Nat
  BY DEF Typed, TypeOK, Session
<1>2. stored[r] # NoCookie
  BY SessionsDiffer
<1>3. Kept(r, stored[r])
  BY <1>2, SameCookies DEF Kept, Promise!Renews
<1>4. e = stored[r].expiryTime \/ (stored[r].authType # SAML /\ e <= now + Ttl)
  <2>1. getExpirationDate(stored[r].cred, now + Ttl) <= now + Ttl
    BY <1>1, CookieAssumption DEF getExpirationDate
  <2>2. now + Ttl <= now + Ttl
    BY <1>1, CookieAssumption
  <2>3. CASE stored[r].authType = JWT
    BY <2>1, <2>2, <2>3 DEF getKeepAliveExpiry, JWT, SAML
  <2>4. CASE stored[r].authType = SAML
    BY <2>4 DEF getKeepAliveExpiry, JWT, SAML
  <2>5. CASE stored[r].authType # JWT /\ stored[r].authType # SAML
    BY <2>2, <2>5 DEF getKeepAliveExpiry
  <2> QED BY <2>3, <2>4, <2>5
<1>5. e \in Nat
  BY <1>1, KeepAliveNat
<1> HIDE DEF e
<1>6. d \in Session /\ d # NoCookie
  BY <1>5, RenewedSession, SessionsDiffer
<1>7. /\ d.authType = stored[r].authType /\ d.username = stored[r].username
      /\ d.cred = stored[r].cred /\ d.expiryTime = e
  BY DEF Session
<1> HIDE DEF d
<1>8. Keepalive => Kept(r, d)
  BY <1>2, <1>4, <1>6, <1>7, SameCookies DEF Kept, Promise!Renews
<1> QED BY <1>3, <1>8 DEF d, e

(* Only JWT takes its token from the URL. *)
LEMMA UrlTokenIsJwt ==
    ASSUME requestIncludesAuthInfo("urlparam")
    PROVE  FirstType("urlparam") = JWT
<1> DEFINE hits == {i \in DOMAIN AuthTypes : Recognises(AuthTypes[i], "urlparam")}
<1>1. hits \subseteq Nat /\ hits # {}
  BY CookieAssumption DEF requestIncludesAuthInfo
<1>2. PICK m \in hits : \A k \in hits : ~(k < m)
  BY <1>1, LeastIndex
<1>3. \E i \in DOMAIN AuthTypes :
        /\ Recognises(AuthTypes[i], "urlparam")
        /\ \A j \in DOMAIN AuthTypes : j < i => ~Recognises(AuthTypes[j], "urlparam")
  BY <1>2
<1>4. Recognises(FirstType("urlparam"), "urlparam")
  BY <1>3 DEF FirstType
<1>5. "urlparam" # "proxyheader" /\ "urlparam" # "authorization" /\ JWT # PROXY
  BY DEF JWT, PROXY
<1> QED BY <1>4, <1>5 DEF Recognises

(* A session made of the request's own credential is opened by it. *)
LEMMA KeptNew ==
    ASSUME Typed, NEW r \in Reqs, CredentialAccepted(r), request[r].kind # "anonymous"
    PROVE  LET q == request[r]
           IN  /\ getCookie(q.via, q.cred, AuthInfo(AskedOf(r)).user, now) \in Session
               /\ Kept(r, getCookie(q.via, q.cred, AuthInfo(AskedOf(r)).user, now))
<1> DEFINE q == request[r]
           u == AuthInfo(AskedOf(r)).user
           c == getCookie(q.via, q.cred, u, now)
<1>1. q.cred \in Creds /\ now \in Nat /\ requestIncludesAuthInfo(q.via) /\ u \in Users
  BY AskedCred DEF Typed, TypeOK, Request
<1>2. \/ u = CredUser[q.cred]
      \/ u = AnonymousUser /\ FirstType(q.via) = JWT
  <2>1. CASE pc[r] = "bare"
    <3>1. q.via = "urlparam"
      BY <2>1 DEF Typed
    <3>2. u = AnonymousUser
      BY <2>1, AskedCred, HandlerAssumption DEF AskedOf
    <3> QED BY <1>1, <3>1, <3>2, UrlTokenIsJwt
  <2>2. CASE pc[r] # "bare"
    BY <2>2, AskedCred DEF AskedOf
  <2> QED BY <2>1, <2>2
<1>3. c \in Session /\ c # NoCookie
  BY <1>1, NewSession, SessionsDiffer
<1>4. now + Ttl \in Nat /\ getExpirationDate(q.cred, now + Ttl) <= now + Ttl
  BY <1>1, CookieAssumption DEF getExpirationDate
<1>5. c \in {JwtCookie(q.cred, u, now), SamlCookie(q.cred, u, now), ProxyCookie(q.cred, now),
             BasicCookie(q.cred, u, now)}
  BY DEF getCookie
<1>6. /\ c.cred = q.cred \/ (c.cred = Anonymous /\ u = AnonymousUser)
      /\ c.username \in {u, NoUser}
      /\ c.expiryTime <= now + Ttl
  BY <1>4, <1>5 DEF JwtCookie, SamlCookie, ProxyCookie, BasicCookie
<1>7. FirstType(q.via) = JWT => c.cred = q.cred
  <2>1. FirstType(q.via) = JWT => c = JwtCookie(q.cred, u, now)
    BY DEF getCookie, JWT, SAML, PROXY
  <2> QED BY <2>1 DEF JwtCookie
<1>8. /\ c.cred = q.cred \/ (c.cred = Anonymous /\ CredUser[q.cred] = AnonymousUser)
      /\ c.username \in {CredUser[q.cred], AnonymousUser, NoUser}
  BY <1>2, <1>6, <1>7
<1>9. Presents(q) = {q.cred}
  BY <1>1 DEF Presents
<1> HIDE DEF c
<1>10. Promise!Opened(Presents(q), c)
  BY <1>1, <1>3, <1>6, <1>9, <1>8, SameCookies DEF Promise!Opened
<1> QED BY <1>3, <1>10 DEF Kept, c

(* So is the session of a login, with a password or anonymous. *)
LEMMA KeptLogin ==
    ASSUME Typed, NEW r \in Reqs
    PROVE  /\ request[r].kind = "login" =>
               Kept(r, BasicSession(CredUser[request[r].cred], request[r].cred))
           /\ request[r].kind = "anonymous" => Kept(r, BasicSession(AnonymousUser, Anonymous))
<1>1. /\ request[r].cred \in Creds /\ Anonymous \in Creds /\ CredUser \in [Creds -> Users]
      /\ now + Ttl \in Nat /\ now \in Nat /\ CredUser[Anonymous] = AnonymousUser
  BY CookieAssumption, HandlerAssumption DEF Typed, TypeOK, Request
<1> DEFINE p == BasicSession(CredUser[request[r].cred], request[r].cred)
           a == BasicSession(AnonymousUser, Anonymous)
<1>2. p \in Session /\ a \in Session /\ p # NoCookie /\ a # NoCookie
  BY <1>1, BasicSessionType, SessionsDiffer, CookieAssumption
<1>3. /\ p.cred = request[r].cred /\ p.username = CredUser[request[r].cred]
      /\ a.cred = Anonymous /\ a.username = CredUser[Anonymous]
      /\ p.expiryTime <= now + Ttl /\ a.expiryTime <= now + Ttl
  BY <1>1 DEF BasicSession
<1>4. /\ request[r].kind = "login" => Presents(request[r]) = {request[r].cred}
      /\ request[r].kind = "anonymous" => Presents(request[r]) = {Anonymous}
  BY DEF Presents
<1> HIDE DEF p, a
<1> QED BY <1>2, <1>3, <1>4, SameCookies DEF Kept, Promise!Opened, p, a

-----------------------------------------------------------------------------
(* The invariant.                                                          *)

(* What a request carries stays good while other requests run and time passes. *)
LEMMA CarriesStays ==
    ASSUME Typed, NEW o \in Reqs, Carries(o), now' \in Nat, now <= now',
           stored'[o] = stored[o], request'[o] = request[o], pc'[o] = pc[o],
           cookie'[o] = cookie[o], out'[o] = out[o]
    PROVE  Carries(o)'
<1>1. now \in Nat /\ Ttl \in Nat
  BY CookieAssumption DEF Typed, TypeOK
<1>2. ASSUME NEW c \in Session, Kept(o, c)
      PROVE  \/ Promise!Renews(stored[o], c)'
             \/ Promise!Opened(Presents(request[o]), c)'
  BY <1>1, <1>2, SameCookies DEF Kept, Promise!Renews, Promise!Opened, Session
<1> QED BY <1>2 DEF Carries, Kept

(* A step of the request's own: it is enough to say what it then carries.     *)
LEMMA CarriesStep ==
    ASSUME NEW r \in Reqs, UNCHANGED unchangedBySteps, NEW p, NEW c, NEW s,
           pc'[r] = p, cookie'[r] = c, out'[r] = s,
           p # "idle", p \in {"credential", "bare"} => request[r].kind # "anonymous",
           p \in Working \cup {"handler"} => c \in Session /\ Kept(r, c),
           s \in {NoSet, NoCookie} \/ (s \in Session /\ Kept(r, s))
    PROVE  Carries(r)'
<1>1. now' = now /\ stored'[r] = stored[r] /\ request'[r] = request[r]
  BY DEF unchangedBySteps
<1>2. ASSUME NEW d, Kept(r, d)
      PROVE  \/ Promise!Renews(stored[r], d)'
             \/ Promise!Opened(Presents(request[r]), d)'
  BY <1>1, <1>2 DEF Kept, Promise!Renews, Promise!Opened
<1> QED BY <1>1, <1>2 DEF Carries, Kept

LEMMA CarriesAnswer ==
    ASSUME Typed, Carried, NEW r \in Reqs, UNCHANGED unchangedBySteps,
           pc'[r] = "answered", out'[r] \in {out[r], NoCookie}
    PROVE  Carries(r)'
<1>1. out'[r] \in {NoSet, NoCookie} \/ (out'[r] \in Session /\ Kept(r, out'[r]))
  BY DEF Carried, Carries
<1> QED BY <1>1, CarriesStep DEF Working

LEMMA CarriesRefusals ==
    ASSUME Typed, Carried, NEW r \in Reqs,
           \/ PassPublic(r) \/ CredentialRefused(r) \/ RejectCookie(r)
           \/ ResolveUnauthenticated(r) \/ NoTenant(r) \/ DashboardsinfoFails(r)
           \/ FinalAuthinfoFails(r) \/ LoginForbidden(r) \/ LoginRefused(r)
           \/ AnonymousRefused(r) \/ Logout(r) \/ LoginPage(r)
    PROVE  Carries(r)'
<1>1. UNCHANGED unchangedBySteps /\ pc'[r] = "answered" /\ out'[r] \in {out[r], NoCookie}
  <2>1. CASE PassPublic(r) \/ CredentialRefused(r) \/ RejectCookie(r)
             \/ ResolveUnauthenticated(r) \/ NoTenant(r)
    BY <2>1 DEF PassPublic, CredentialRefused, RejectCookie, ResolveUnauthenticated,
       NoTenant, Finish, Typed, TypeOK
  <2>2. CASE DashboardsinfoFails(r) \/ FinalAuthinfoFails(r) \/ LoginForbidden(r)
             \/ LoginRefused(r) \/ AnonymousRefused(r) \/ Logout(r) \/ LoginPage(r)
    BY <2>2 DEF DashboardsinfoFails, FinalAuthinfoFails, LoginForbidden, LoginRefused,
                AnonymousRefused, Logout, LoginPage, Finish, Typed, TypeOK
  <2> QED BY <2>1, <2>2
<1> QED BY <1>1, CarriesAnswer

(* Steps that go on with the cookie at hand. *)
LEMMA CarriesGoingOn ==
    ASSUME Typed, Carried, NEW r \in Reqs,
           TakeCredential(r) \/ ResolveAuthinfo(r) \/ FinalAuthinfo(r)
    PROVE  Carries(r)'
<1>1. CASE TakeCredential(r)
  <2>1. /\ request[r].kind # "anonymous" /\ pc'[r] \in {"credential", "bare"}
        /\ UNCHANGED unchangedBySteps /\ out'[r] = out[r]
    BY <1>1 DEF TakeCredential, Guarded, Typed, TypeOK
  <2>2. out[r] \in {NoSet, NoCookie} \/ (out[r] \in Session /\ Kept(r, out[r]))
    BY DEF Carried, Carries
  <2> QED BY <2>1, <2>2, CarriesStep DEF Working
<1>2. CASE ResolveAuthinfo(r) \/ FinalAuthinfo(r)
  <2>1. /\ pc[r] \in Working /\ pc'[r] \in {"dashboardsinfo", "handler", "answered"}
        /\ cookie'[r] = cookie[r] /\ out'[r] = out[r] /\ UNCHANGED unchangedBySteps
    BY <1>2 DEF ResolveAuthinfo, FinalAuthinfo, Authenticate, Working, Typed, TypeOK
  <2>2. /\ cookie[r] \in Session /\ Kept(r, cookie[r])
        /\ out[r] \in {NoSet, NoCookie} \/ (out[r] \in Session /\ Kept(r, out[r]))
    BY <2>1 DEF Carried, Carries
  <2> QED BY <2>1, <2>2, CarriesStep
<1> QED BY <1>1, <1>2

LEMMA CarriesAcceptCookie ==
    ASSUME Typed, Carried, NEW r \in Reqs, AcceptCookie(r)
    PROVE  Carries(r)'
<1> DEFINE renewed == [stored[r] EXCEPT !.expiryTime = getKeepAliveExpiry(stored[r], now)]
<1>1. stored[r] \in Session /\ now \in Nat
  BY ReadableSession DEF AcceptCookie, GoodCookie, Typed, TypeOK
<1>2. renewed \in Session /\ Kept(r, stored[r]) /\ (Keepalive => Kept(r, renewed))
  BY <1>1, KeepAliveNat, RenewedSession, KeptStored
<1>3. out[r] \in {NoSet, NoCookie} \/ (out[r] \in Session /\ Kept(r, out[r]))
  BY DEF Carried, Carries
<1>4. /\ UNCHANGED unchangedBySteps /\ pc'[r] \in {"resolve", "authinfo"}
      /\ \/ Keepalive /\ cookie'[r] = renewed /\ out'[r] = renewed
         \/ cookie'[r] = stored[r] /\ out'[r] = out[r]
  BY DEF AcceptCookie, Typed, TypeOK
<1> HIDE DEF renewed
<1> QED BY <1>1, <1>2, <1>3, <1>4, CarriesStep

LEMMA CarriesCredentialAccepted ==
    ASSUME Typed, Carried, NEW r \in Reqs, CredentialAccepted(r)
    PROVE  Carries(r)'
<1> DEFINE q == request[r]
           browserCookie == ReadCookie(stored[r], now)
           fresh == getCookie(q.via, q.cred, AuthInfo(AskedOf(r)).user, now)
           kept == IF browserCookie # NoCookie /\ isValidTenant(browserCookie.tenant)
                   THEN [fresh EXCEPT !.tenant = browserCookie.tenant] ELSE fresh
<1>1. q.kind # "anonymous"
  BY AskedCred DEF Carried, Carries
<1>2. fresh \in Session /\ Kept(r, fresh)
  BY <1>1, KeptNew
<1>3. browserCookie # NoCookie => browserCookie.tenant \in Names \cup {Undefined}
  <2>1. browserCookie # NoCookie => browserCookie \in Session
    BY ReadableSession DEF ReadCookie, Typed, TypeOK
  <2> QED BY <2>1 DEF Session
<1>4. kept \in Session /\ Kept(r, kept)
  <2> HIDE DEF fresh, browserCookie
  <2> QED BY <1>2, <1>3, RetenantedSession, KeptRetenanted
<1>5. /\ UNCHANGED unchangedBySteps /\ pc'[r] \in {"dashboardsinfo", "handler", "answered"}
      /\ cookie'[r] = kept /\ out'[r] = kept
  BY DEF CredentialAccepted, Authenticate, Typed, TypeOK
<1> HIDE DEF kept
<1> QED BY <1>4, <1>5, CarriesStep

LEMMA CarriesDashboardsinfo ==
    ASSUME Typed, Carried, NEW r \in Reqs, ResolveDashboardsinfo(r)
    PROVE  Carries(r)'
<1> DEFINE moved == [cookie[r] EXCEPT !.tenant = Resolved(r)]
<1>1. pc[r] \in Working
  BY DEF ResolveDashboardsinfo, Working
<1>2. /\ cookie[r] \in Session /\ Kept(r, cookie[r])
      /\ out[r] \in {NoSet, NoCookie} \/ (out[r] \in Session /\ Kept(r, out[r]))
  BY <1>1 DEF Carried, Carries
<1>3. moved \in Session /\ Kept(r, moved)
  BY <1>2, ResolvedName, RetenantedSession, KeptRetenanted DEF Typed
<1>4. /\ UNCHANGED unchangedBySteps /\ pc'[r] \in {"authinfo", "handler", "answered"}
      /\ \/ cookie'[r] = moved /\ out'[r] = moved
         \/ cookie'[r] = cookie[r] /\ out'[r] = out[r]
  BY DEF ResolveDashboardsinfo, Authenticate, Typed, TypeOK
<1> HIDE DEF moved
<1> QED BY <1>2, <1>3, <1>4, CarriesStep

LEMMA CarriesSwitch ==
    ASSUME Typed, Carried, NEW r \in Reqs, SwitchTenant(r)
    PROVE  Carries(r)'
<1> DEFINE sent == IF ByCredential(r) THEN stored[r] ELSE cookie[r]
           switched == [sent EXCEPT !.tenant = request[r].tenant]
<1>1. pc[r] = "handler" /\ request[r].tenant \in Names
  BY DEF SwitchTenant, Typed, TypeOK, Request
<1>2. Readable(sent, now) => sent \in Session /\ Kept(r, sent)
  <2>1. CASE ByCredential(r)
    BY <2>1, ReadableSession, KeptStored DEF Typed, TypeOK
  <2>2. CASE ~ByCredential(r)
    BY <1>1, <2>2 DEF Carried, Carries
  <2> QED BY <2>1, <2>2
<1>3. Readable(sent, now) => switched \in Session /\ Kept(r, switched)
  <2> HIDE DEF sent
  <2> QED BY <1>1, <1>2, RetenantedSession, KeptRetenanted
<1>4. /\ UNCHANGED unchangedBySteps /\ pc'[r] = "answered"
      /\ \/ Readable(sent, now) /\ out'[r] = switched
         \/ out'[r] \in {out[r], NoCookie}
  BY DEF SwitchTenant, Finish, Typed, TypeOK
<1> HIDE DEF sent, switched
<1>5. CASE out'[r] \in {out[r], NoCookie}
  BY <1>4, <1>5, CarriesAnswer
<1>6. CASE Readable(sent, now) /\ out'[r] = switched
  BY <1>3, <1>4, <1>6, CarriesStep DEF Working
<1> QED BY <1>4, <1>5, <1>6

LEMMA CarriesLogin ==
    ASSUME Typed, Carried, NEW r \in Reqs, LoginAccepted(r) \/ LoginAnonymous(r)
    PROVE  Carries(r)'
<1> DEFINE p == BasicSession(CredUser[request[r].cred], request[r].cred)
           a == BasicSession(AnonymousUser, Anonymous)
<1>1. p \in Session /\ a \in Session
  BY BasicSessionType, CookieAssumption, HandlerAssumption DEF Typed, TypeOK, Request
<1>2. /\ UNCHANGED unchangedBySteps /\ pc'[r] = "answered"
      /\ \/ request[r].kind = "login" /\ out'[r] = p
         \/ request[r].kind = "anonymous" /\ out'[r] = a
  BY DEF LoginAccepted, LoginAnonymous, Opens, Finish, Typed, TypeOK
<1>3. \/ Kept(r, p) /\ out'[r] = p
      \/ Kept(r, a) /\ out'[r] = a
  BY <1>2, KeptLogin
<1> HIDE DEF p, a
<1> QED BY <1>1, <1>2, <1>3, CarriesStep DEF Working

LEMMA CarriedServer ==
    ASSUME Typed, Carried, NEW r \in Reqs, Server(r)
    PROVE  Carried'
<1>1. Carries(r)'
  BY CarriesRefusals, CarriesGoingOn, CarriesAcceptCookie, CarriesCredentialAccepted,
     CarriesDashboardsinfo, CarriesSwitch, CarriesLogin DEF Server, AuthStep, RouteStep
<1>2. ASSUME NEW o \in Reqs \ {r} PROVE Carries(o)'
  <2>1. Untouched(o) /\ UNCHANGED unchangedBySteps /\ now \in Nat
    BY OthersUntouched DEF Typed, TypeOK
  <2> QED BY <2>1, CarriesStays DEF Untouched, unchangedBySteps, Carried
<1> QED BY <1>1, <1>2 DEF Carried

LEMMA CarriedForget ==
    ASSUME Typed, Carried, NEW r \in Reqs, Forget(r)
    PROVE  Carried'
<1> SUFFICES ASSUME NEW o \in Reqs PROVE Carries(o)'
  BY DEF Carried
<1>1. now' = now /\ now \in Nat
  BY DEF Forget, Typed, TypeOK
<1>2. CASE o = r
  BY <1>2 DEF Forget, Carries, Working, Typed, TypeOK
<1>3. CASE o # r
  BY <1>1, <1>3, CarriesStays DEF Forget, Carried, Typed, TypeOK
<1> QED BY <1>2, <1>3

LEMMA CarriedSend ==
    ASSUME Typed, Carried, NEW r \in Reqs, NEW q \in Requests, Send(r, q)
    PROVE  Carried'
<1> SUFFICES ASSUME NEW o \in Reqs PROVE Carries(o)'
  BY DEF Carried
<1>1. now' = now /\ now \in Nat
  BY DEF Send, Typed, TypeOK
<1>2. CASE o = r
  BY <1>2 DEF Send, Carried, Carries, Working, Typed, TypeOK
<1>3. CASE o # r
  BY <1>1, <1>3, CarriesStays DEF Send, Carried, Typed, TypeOK
<1> QED BY <1>2, <1>3

LEMMA CarriedNext ==
    ASSUME Typed, Carried, [Next]_vars
    PROVE  Carried'
<1>1. ASSUME now' \in Nat, now <= now', UNCHANGED <<stored, request, pc, cookie, out>>
      PROVE  Carried'
  BY <1>1, CarriesStays DEF Carried
<1>2. now \in Nat /\ now <= now /\ now + 1 \in Nat /\ now <= now + 1
  BY DEF Typed, TypeOK
<1>3. CASE Tick
  BY <1>1, <1>2, <1>3 DEF Tick, serverVars
<1>4. CASE Administer \/ UNCHANGED vars
  BY <1>1, <1>2, <1>4 DEF Administer, vars, serverVars
<1>5. CASE \E r \in Reqs : Deliver(r) \/ Lose(r)
  BY <1>5, CarriedForget DEF Deliver, Lose
<1>6. CASE \E r \in Reqs : AuthStep(r) \/ RouteStep(r)
  BY <1>6, CarriedServer DEF Server
<1>7. CASE \E r \in Reqs, q \in Requests : Send(r, q)
  BY <1>7, CarriedSend
<1> QED BY <1>3, <1>4, <1>5, <1>6, <1>7 DEF Next

LEMMA CarriedInit == Init => Carried
BY DEF Init, Carried, Carries, Working

-----------------------------------------------------------------------------
(* Every step is one of the abstract specification, or is not seen by it.  *)

LEMMA PresentsCreds ==
    ASSUME NEW q \in Request
    PROVE  Presents(q) \in SUBSET Creds
BY CookieAssumption DEF Presents, Request

LEMMA BlankPresents == Presents(Blank) = {}
<1>1. \A type : ~Recognises(type, "none")
  BY CookieAssumption DEF Recognises
<1>2. Blank.kind = "public" /\ Blank.via = "none"
  BY DEF Blank
<1>3. ~requestIncludesAuthInfo(Blank.via)
  BY <1>1, <1>2 DEF requestIncludesAuthInfo
<1> QED BY <1>2, <1>3 DEF Presents

(* What the abstract specification sees of a request that is not under way.   *)
LEMMA NothingCarried ==
    Promise!Idle = [cookie |-> NoCookie, presents |-> {}, under |-> FALSE]
BY SameCookies DEF Promise!Idle

LEMMA InitPromised == Init => Promise!Init
<1> SUFFICES ASSUME Init PROVE Promise!Init
  OBVIOUS
<1>1. now = 0 /\ jar = Promise!NoCookie
  BY SameCookies DEF Init
<1>2. ASSUME NEW r \in Reqs
      PROVE  [cookie |-> stored[r], presents |-> Presents(request[r]), under |-> pc[r] # "idle"]
                 = Promise!Idle
  <2>1. stored[r] = NoCookie /\ request[r] = Blank /\ (pc[r] # "idle") = FALSE
    BY DEF Init
  <2> QED BY <2>1, BlankPresents, NothingCarried
<1> QED BY <1>1, <1>2 DEF Promise!Init

(* One request in the abstract specification's eyes. *)
Bar(o) ==
    [cookie |-> stored[o], presents |-> Presents(request[o]), under |-> pc[o] # "idle"]

LEMMA BarStays ==
    ASSUME NEW o \in Reqs, stored'[o] = stored[o], request'[o] = request[o],
           pc'[o] = pc[o] \/ (pc'[o] # "idle" /\ pc[o] # "idle")
    PROVE  Bar(o)' = Bar(o)
<1>1. (pc'[o] # "idle") = (pc[o] # "idle")
  OBVIOUS
<1> QED BY <1>1 DEF Bar

LEMMA SendBegins ==
    ASSUME Typed, NEW r \in Reqs, NEW q \in Requests, Send(r, q)
    PROVE  Promise!Next
<1>1. Presents(q) \in SUBSET Creds
  BY PresentsCreds, HandlerAssumption
<1>2. pc[r] = "idle" /\ now' = now /\ jar' = jar
  BY DEF Send
<1>3. /\ stored'[r] = jar /\ request'[r] = q /\ (pc'[r] # "idle") = TRUE
  BY DEF Send, Typed, TypeOK
<1>4. Bar(r)' = [cookie |-> jar, presents |-> Presents(q), under |-> TRUE]
  BY <1>3 DEF Bar
<1>5. ASSUME NEW o \in Reqs \ {r} PROVE Bar(o)' = Bar(o)
  BY BarStays DEF Send, Typed, TypeOK
<1>6. Promise!Begin(r, Presents(q))
  BY <1>2, <1>4, <1>5 DEF Promise!Begin, Bar
<1> QED BY <1>1, <1>6 DEF Promise!Next

LEMMA ForgetEnds ==
    ASSUME Typed, NEW r \in Reqs, Forget(r), pc[r] = "answered",
           \/ jar' = jar \/ jar' = NoCookie
           \/ jar' \in Session /\ Kept(r, jar')
    PROVE  Promise!Next
<1>1. stored'[r] = NoCookie /\ request'[r] = Blank /\ (pc'[r] # "idle") = FALSE /\ now' = now
  BY DEF Forget, Typed, TypeOK
<1>2. Bar(r)' = Promise!Idle
  BY <1>1, BlankPresents, NothingCarried DEF Bar
<1>3. ASSUME NEW o \in Reqs \ {r} PROVE Bar(o)' = Bar(o)
  BY BarStays DEF Forget, Typed, TypeOK
<1>4. \/ jar' = jar
      \/ jar' = Promise!NoCookie
      \/ jar' \in Promise!Session /\ Promise!Renews(stored[r], jar')
      \/ jar' \in Promise!Session /\ Promise!Opened(Presents(request[r]), jar')
  BY SameCookies DEF Kept
<1>5. Promise!End(r)
  BY <1>1, <1>2, <1>3, <1>4 DEF Promise!End, Bar
<1> QED BY <1>5 DEF Promise!Next

(* A step of the server is one of a request under way, which stays under way. *)
LEMMA ServerSteps ==
    ASSUME Typed, NEW r \in Reqs, Server(r)
    PROVE  /\ UNCHANGED unchangedBySteps
           /\ pc[r] \notin {"answered", "idle"} /\ pc'[r] # "idle"
<1>1. CASE PassPublic(r) \/ TakeCredential(r) \/ CredentialAccepted(r) \/ CredentialRefused(r)
           \/ RejectCookie(r) \/ AcceptCookie(r)
  BY <1>1 DEF PassPublic, TakeCredential, CredentialAccepted, CredentialRefused, Asking,
     RejectCookie, AcceptCookie, ByCookie, Finish, Authenticate, Typed, TypeOK
<1>2. CASE ResolveAuthinfo(r) \/ ResolveUnauthenticated(r) \/ ResolveDashboardsinfo(r)
           \/ NoTenant(r) \/ DashboardsinfoFails(r) \/ FinalAuthinfo(r) \/ FinalAuthinfoFails(r)
  BY <1>2 DEF ResolveAuthinfo, ResolveUnauthenticated, ResolveDashboardsinfo, NoTenant,
              DashboardsinfoFails, FinalAuthinfo, FinalAuthinfoFails, Finish, Authenticate,
              Typed, TypeOK
<1>3. CASE RouteStep(r)
  BY <1>3 DEF RouteStep, SwitchTenant, LoginForbidden, LoginAccepted, LoginRefused,
              LoginAnonymous, AnonymousRefused, Logout, LoginPage, Opens, Finish,
              Typed, TypeOK
<1> QED BY <1>1, <1>2, <1>3 DEF Server, AuthStep

LEMMA ServerUnseen ==
    ASSUME Typed, NEW r \in Reqs, Server(r)
    PROVE  UNCHANGED Promise!abstractVars
<1>1. UNCHANGED unchangedBySteps /\ pc[r] # "idle" /\ pc'[r] # "idle"
  BY ServerSteps
<1>2. ASSUME NEW o \in Reqs PROVE Bar(o)' = Bar(o)
  <2>1. CASE o = r
    BY <1>1, <2>1, BarStays DEF unchangedBySteps
  <2>2. CASE o # r
    BY <1>1, <2>2, OthersUntouched, BarStays DEF Untouched, unchangedBySteps, Typed
  <2> QED BY <2>1, <2>2
<1> QED BY <1>1, <1>2 DEF Promise!abstractVars, Bar, unchangedBySteps

LEMMA StepPromised ==
    ASSUME Typed, Carried, [Next]_vars
    PROVE  [Promise!Next]_(Promise!abstractVars)
<1>1. ASSUME NEW r \in Reqs, Deliver(r)
      PROVE  Promise!Next
  <2>1. /\ Forget(r) /\ pc[r] = "answered"
        /\ jar' = IF out[r] = NoSet THEN jar ELSE out[r]
    BY <1>1 DEF Deliver
  <2>2. out[r] \in {NoSet, NoCookie} \/ (out[r] \in Session /\ Kept(r, out[r]))
    BY DEF Carried, Carries
  <2>3. jar' = jar \/ jar' = NoCookie \/ (jar' \in Session /\ Kept(r, jar'))
    BY <2>1, <2>2
  <2> QED BY <2>1, <2>3, ForgetEnds
<1>2. ASSUME NEW r \in Reqs, Lose(r)
      PROVE  Promise!Next
  BY <1>2, ForgetEnds DEF Lose
<1>3. CASE \E r \in Reqs : AuthStep(r) \/ RouteStep(r)
  BY <1>3, ServerUnseen DEF Server
<1>4. CASE Administer \/ UNCHANGED vars
  <2>1. UNCHANGED <<now, jar, stored, request, pc>>
    BY <1>4 DEF Administer, vars, serverVars
  <2> QED BY <2>1 DEF Promise!abstractVars
<1>5. CASE Tick
  <2>1. now < MaxTime /\ now' = now + 1 /\ UNCHANGED <<jar, stored, request, pc>>
    BY <1>5 DEF Tick, serverVars
  <2> QED BY <2>1 DEF Promise!Next, Promise!Tick
<1> QED BY <1>1, <1>2, <1>3, <1>4, <1>5, SendBegins DEF Next

(* For any number of requests under way, the cookie in the browser is only    *)
(* ever a renewal of the one a request left with, a session opened by the     *)
(* credential that very request presented, or nothing.                       *)
THEOREM Refinement == Spec => ImplementsBrowserSession
<1>1. Init => Typed /\ Carried /\ Promise!Init
  BY TypedInit, CarriedInit, InitPromised
<1>2. Typed /\ Carried /\ [Next]_vars => (Typed /\ Carried)'
  BY TypedNext, CarriedNext
<1>3. Typed /\ Carried /\ [Next]_vars => [Promise!Next]_(Promise!abstractVars)
  BY StepPromised
<1> QED BY <1>1, <1>2, <1>3, PTL DEF Spec, ImplementsBrowserSession, Promise!Spec

-----------------------------------------------------------------------------
(* After a logout.                                                         *)

(* A request sent by a user who had been told they are logged out carries    *)
(* nothing to be let in by; one that ends a session carries that out.        *)
SignedOut(r) ==
    expect[r].said = "loggedOut" =>
        /\ stored[r] = NoCookie /\ ~Intends(request[r])
        /\ pc[r] \in {"idle", "sent", "answered"}
        /\ out[r] \in {NoSet, NoCookie}
        /\ reply[r].outcome # "authenticated"

Clears(r) ==
    pc[r] # "idle" /\ request[r].kind \in Clearing =>
        pc[r] = "sent" \/ (pc[r] = "answered" /\ out[r] = NoCookie)

Quiet(r) == pc[r] = "idle" => out[r] = NoSet /\ reply[r].outcome # "authenticated"

LoggedOut ==
    /\ \A r \in Reqs : SignedOut(r) /\ Clears(r) /\ Quiet(r)
    /\ told.said = "loggedOut" =>
        jar = NoCookie /\ \A r \in Reqs : pc[r] = "idle" \/ expect[r].said = "loggedOut"

LEMMA LoggedOutInit == Init => LoggedOut
BY DEF Init, LoggedOut, SignedOut, Clears, Quiet, Nothing, Answer

LEMMA LoggedOutSend ==
    ASSUME Typed, LoggedOut, NEW r \in Reqs, NEW q \in Requests, Send(r, q)
    PROVE  LoggedOut'
<1>1. /\ pc[r] = "idle" /\ pc'[r] = "sent" /\ request'[r] = q /\ stored'[r] = jar
      /\ jar' = jar /\ out' = out /\ reply' = reply
      /\ told' = IF Intends(q) THEN Nothing ELSE told
      /\ expect'[r] = IF Intends(q) THEN Nothing ELSE told
  BY DEF Send, Typed, TypeOK
<1>2. Nothing.said = "nothing"
  BY DEF Nothing
<1>3. SignedOut(r)' /\ Clears(r)' /\ Quiet(r)'
  BY <1>1, <1>2 DEF LoggedOut, SignedOut, Clears, Quiet, Intends
<1>4. ASSUME NEW o \in Reqs \ {r}
      PROVE  /\ SignedOut(o)' /\ Clears(o)' /\ Quiet(o)'
             /\ pc'[o] = pc[o] /\ expect'[o] = expect[o]
  <2>1. /\ pc'[o] = pc[o] /\ expect'[o] = expect[o] /\ request'[o] = request[o]
        /\ stored'[o] = stored[o]
    BY DEF Send, Typed, TypeOK
  <2> QED BY <1>1, <2>1 DEF LoggedOut, SignedOut, Clears, Quiet, Intends
<1>5. told'.said = "loggedOut" =>
          told.said = "loggedOut" /\ expect'[r].said = "loggedOut"
  BY <1>1, <1>2
<1> QED BY <1>1, <1>3, <1>4, <1>5 DEF LoggedOut

LEMMA LoggedOutForget ==
    ASSUME Typed, LoggedOut, NEW r \in Reqs, Deliver(r) \/ Lose(r)
    PROVE  LoggedOut'
<1>1. pc[r] = "answered" /\ Forget(r)
  BY DEF Deliver, Lose
<1>2. /\ pc'[r] = "idle" /\ out'[r] = NoSet /\ reply'[r] = Answer("none")
      /\ expect'[r] = Nothing
  BY <1>1 DEF Forget, Typed, TypeOK
<1>3. SignedOut(r)' /\ Clears(r)' /\ Quiet(r)'
  BY <1>2 DEF SignedOut, Clears, Quiet, Nothing, Answer
<1>4. ASSUME NEW o \in Reqs \ {r}
      PROVE  /\ SignedOut(o)' /\ Clears(o)' /\ Quiet(o)'
             /\ pc'[o] = pc[o] /\ expect'[o] = expect[o]
  <2>1. /\ pc'[o] = pc[o] /\ expect'[o] = expect[o] /\ request'[o] = request[o]
        /\ stored'[o] = stored[o] /\ out'[o] = out[o] /\ reply'[o] = reply[o]
    BY <1>1 DEF Forget, Typed, TypeOK
  <2> QED BY <2>1 DEF LoggedOut, SignedOut, Clears, Quiet, Intends
<1>5. ASSUME told'.said = "loggedOut"
      PROVE  jar' = NoCookie /\ \A o \in Reqs \ {r} : pc[o] = "idle" \/ expect[o].said = "loggedOut"
  <2>1. CASE Lose(r)
    BY <1>5, <2>1 DEF Lose, LoggedOut
  <2>2. CASE Deliver(r) /\ Alone(r) /\ request[r].kind \in Clearing
    <3>1. out[r] = NoCookie /\ jar' = IF out[r] = NoSet THEN jar ELSE out[r]
      BY <1>1, <2>2 DEF LoggedOut, Clears, Deliver
    <3> QED BY <2>2, <3>1 DEF Alone, NoSet, NoCookie
  <2>3. CASE Deliver(r) /\ ~(Alone(r) /\ request[r].kind \in Clearing)
    <3>1. told.said = "loggedOut"
      BY <1>5, <2>3 DEF Deliver, ToldBy
    <3>2. jar = NoCookie /\ out[r] \in {NoSet, NoCookie}
      BY <1>1, <3>1 DEF LoggedOut, SignedOut
    <3>3. jar' = IF out[r] = NoSet THEN jar ELSE out[r]
      BY <2>3 DEF Deliver
    <3> QED BY <3>1, <3>2, <3>3 DEF LoggedOut
  <2> QED BY <2>1, <2>2, <2>3
<1> QED BY <1>2, <1>3, <1>4, <1>5 DEF LoggedOut

LEMMA LoggedOutServer ==
    ASSUME Typed, LoggedOut, NEW r \in Reqs, Server(r)
    PROVE  LoggedOut'
<1>1. ASSUME NEW o \in Reqs \ {r} PROVE Untouched(o)
  BY <1>1, OthersUntouched DEF Typed
<1>2. UNCHANGED unchangedBySteps /\ pc[r] # "idle" /\ pc'[r] # "idle"
  BY ServerSteps
<1>3. ASSUME NEW o \in Reqs \ {r} PROVE SignedOut(o)' /\ Clears(o)' /\ Quiet(o)'
  BY <1>1, <1>2 DEF Untouched, unchangedBySteps, history, LoggedOut, SignedOut, Clears,
                    Quiet, Intends
<1>4. Clears(r)'
  <2>1. SUFFICES ASSUME request[r].kind \in Clearing
                 PROVE  pc'[r] = "answered" /\ out'[r] = NoCookie
    BY <1>2 DEF Clears, unchangedBySteps
  <2>2. pc[r] = "sent"
    <3>1. pc[r] \notin {"answered", "idle"}
      BY ServerSteps
    <3> QED BY <2>1, <3>1 DEF LoggedOut, Clears
  <2>3. Logout(r) \/ LoginPage(r)
    BY <2>1, <2>2 DEF Server, AuthStep, RouteStep, PassPublic, TakeCredential,
       CredentialAccepted, CredentialRefused, Asking, RejectCookie, AcceptCookie, ByCookie,
       Guarded, ResolveAuthinfo, ResolveUnauthenticated, ResolveDashboardsinfo,
       NoTenant, DashboardsinfoFails, FinalAuthinfo, FinalAuthinfoFails, SwitchTenant,
       LoginForbidden, LoginAccepted, LoginRefused, LoginAnonymous, AnonymousRefused,
       Opens, Clearing
  <2> QED BY <2>3 DEF Logout, LoginPage, Finish, Typed, TypeOK
<1>5. SignedOut(r)'
  <2>1. SUFFICES ASSUME expect[r].said = "loggedOut"
                 PROVE  /\ pc'[r] = "answered" /\ out'[r] \in {NoSet, NoCookie}
                        /\ reply'[r].outcome # "authenticated"
    BY <1>2 DEF SignedOut, LoggedOut, unchangedBySteps, history, Intends
  <2>2. /\ pc[r] = "sent" /\ stored[r] = NoCookie /\ out[r] \in {NoSet, NoCookie}
        /\ ~ByCredential(r)
        /\ request[r].kind \notin {"login", "anonymous", "logout", "loginPage", "tenant"}
    <3>1. pc[r] \notin {"answered", "idle"}
      BY ServerSteps
    <3> QED BY <2>1, <3>1 DEF LoggedOut, SignedOut, Intends, ByCredential
  <2>3. PassPublic(r) \/ RejectCookie(r)
    BY <2>2
       DEF Server, AuthStep, RouteStep, TakeCredential, CredentialAccepted, Asking,
           CredentialRefused, AcceptCookie, GoodCookie, Readable, ResolveAuthinfo,
           ResolveUnauthenticated, ResolveDashboardsinfo, NoTenant, DashboardsinfoFails,
           FinalAuthinfo, FinalAuthinfoFails, SwitchTenant, LoginForbidden, LoginAccepted,
           LoginRefused, LoginAnonymous, AnonymousRefused, Logout, LoginPage, Opens
  <2>4. pc'[r] = "answered" /\ out'[r] \in {NoSet, NoCookie}
    BY <2>2, <2>3 DEF PassPublic, RejectCookie, Finish, Typed, TypeOK
  <2>5. Unauthed(r) # "authenticated"
    BY DEF Unauthed, handleUnauthedRequest
  <2>6. reply'[r].outcome # "authenticated"
    BY <2>3, <2>5 DEF PassPublic, RejectCookie, Finish, Answer, Typed, TypeOK
  <2> QED BY <2>4, <2>6
<1>6. Quiet(r)'
  BY <1>2 DEF Quiet
<1>7. told.said = "loggedOut" =>
          jar = NoCookie /\ \A o \in Reqs : pc'[o] = "idle" \/ expect[o].said = "loggedOut"
  BY <1>1, <1>2 DEF Untouched, LoggedOut
<1> QED BY <1>2, <1>3, <1>4, <1>5, <1>6, <1>7 DEF LoggedOut, unchangedBySteps, history

LEMMA LoggedOutNext ==
    ASSUME Typed, LoggedOut, [Next]_vars
    PROVE  LoggedOut'
<1>1. CASE Tick \/ UNCHANGED vars
  <2>1. UNCHANGED <<jar, pc, request, stored, out, reply, told, expect>>
    BY <1>1 DEF Tick, vars, serverVars, history
  <2> QED BY <2>1 DEF LoggedOut, SignedOut, Clears, Quiet, Intends
<1>2. CASE Administer
  <2>1. /\ UNCHANGED <<jar, pc, request, stored, out, reply>>
        /\ told'.said = "loggedOut" => told.said = "loggedOut"
        /\ \A r \in Reqs : (expect'[r].said = "loggedOut") = (expect[r].said = "loggedOut")
    BY <1>2 DEF Administer, serverVars, Nothing
  <2> QED BY <2>1 DEF LoggedOut, SignedOut, Clears, Quiet, Intends
<1>3. CASE \E r \in Reqs : AuthStep(r) \/ RouteStep(r)
  BY <1>3, LoggedOutServer DEF Server
<1> QED BY <1>1, <1>2, <1>3, LoggedOutSend, LoggedOutForget DEF Next

(* A logout acknowledged with nothing else under way is final: whatever is    *)
(* sent afterwards, no session comes back until the user presents a           *)
(* credential.                                                               *)
THEOREM LogoutFinal == Spec => []LogoutHolds
<1>1. Init => Typed /\ LoggedOut
  BY TypedInit, LoggedOutInit
<1>2. Typed /\ LoggedOut /\ [Next]_vars => (Typed /\ LoggedOut)'
  BY TypedNext, LoggedOutNext
<1>3. LoggedOut => LogoutHolds
  BY DEF LoggedOut, SignedOut, LogoutHolds
<1> QED BY <1>1, <1>2, <1>3, PTL DEF Spec

-----------------------------------------------------------------------------
(* How long a JWT session lasts.                                           *)

Within(c) == c \in Session /\ c.authType = JWT => c.expiryTime <= TokenExp[c.cred]

AllWithin ==
    /\ Within(jar)
    /\ \A r \in Reqs : Within(stored[r]) /\ Within(cookie[r]) /\ Within(out[r])

LEMMA NoneWithin == Within(NoCookie) /\ Within(NoSet)
BY SessionsDiffer DEF Within

LEMMA RetenantedWithin ==
    ASSUME NEW c \in Session, Within(c), NEW t
    PROVE  Within([c EXCEPT !.tenant = t])
BY DEF Within, Session

LEMMA ExpirationWithin ==
    ASSUME NEW c \in Creds, NEW d \in Nat
    PROVE  getExpirationDate(c, d) <= TokenExp[c]
BY CookieAssumption DEF getExpirationDate

(* Here the header matters: the token is found, so the new end respects its.  *)
LEMMA RenewedWithin ==
    ASSUME JwtHeader = "authorization", NEW c \in Session, NEW t \in Nat, Within(c)
    PROVE  Within([c EXCEPT !.expiryTime = getKeepAliveExpiry(c, t)])
<1> DEFINE e == getKeepAliveExpiry(c, t)
           d == [c EXCEPT !.expiryTime = e]
<1>1. c.cred \in Creds /\ t + Ttl \in Nat
  BY CookieAssumption DEF Session
<1>2. c.authType = JWT => e <= TokenExp[c.cred]
  BY <1>1, ExpirationWithin DEF getKeepAliveExpiry, HeaderFromCookie, JWT, SAML
<1>3. d.authType = c.authType /\ d.cred = c.cred /\ d.expiryTime = e
  BY DEF Session
<1> HIDE DEF e, d
<1>4. Within(d)
  BY <1>2, <1>3 DEF Within
<1> QED BY <1>4 DEF d, e

LEMMA NewWithin ==
    ASSUME NEW via, NEW c \in Creds, NEW u, NEW t \in Nat
    PROVE  Within(getCookie(via, c, u, t))
<1>1. t + Ttl \in Nat
  BY CookieAssumption
<1>2. getExpirationDate(c, t + Ttl) <= TokenExp[c]
  BY <1>1, ExpirationWithin
<1>3. Within(JwtCookie(c, u, t))
  BY <1>2 DEF JwtCookie, Within
<1>4. Within(SamlCookie(c, u, t)) /\ Within(ProxyCookie(c, t)) /\ Within(BasicCookie(c, u, t))
  BY DEF SamlCookie, ProxyCookie, BasicCookie, Within, SAML, JWT, BASIC
<1> QED BY <1>3, <1>4 DEF getCookie

LEMMA WithinOthers ==
    ASSUME Typed, AllWithin, NEW r \in Reqs, Server(r), Within(cookie'[r]), Within(out'[r])
    PROVE  AllWithin'
<1>1. UNCHANGED unchangedBySteps
  BY ServerSteps
<1>2. ASSUME NEW o \in Reqs \ {r} PROVE Untouched(o)
  BY <1>2, OthersUntouched DEF Typed
<1> QED BY <1>1, <1>2 DEF AllWithin, Within, Untouched, unchangedBySteps

LEMMA WithinServer ==
    ASSUME JwtHeader = "authorization", Typed, AllWithin, NEW r \in Reqs, Server(r)
    PROVE  AllWithin'
<1>1. /\ Within(stored[r]) /\ Within(cookie[r]) /\ Within(out[r])
      /\ now \in Nat /\ request[r].cred \in Creds
  BY DEF AllWithin, Typed, TypeOK, Request
<1>2. CASE AcceptCookie(r)
  <2> DEFINE renewed == [stored[r] EXCEPT !.expiryTime = getKeepAliveExpiry(stored[r], now)]
  <2>1. stored[r] \in Session
    BY <1>2, ReadableSession DEF AcceptCookie, GoodCookie, Typed, TypeOK
  <2>2. Within(renewed)
    BY <1>1, <2>1, RenewedWithin
  <2>3. cookie'[r] \in {renewed, stored[r]} /\ out'[r] \in {renewed, out[r]}
    BY <1>2 DEF AcceptCookie, Typed, TypeOK
  <2> HIDE DEF renewed
  <2> QED BY <1>1, <2>2, <2>3, WithinOthers
<1>3. CASE CredentialAccepted(r)
  <2> DEFINE fresh == getCookie(request[r].via, request[r].cred, AuthInfo(AskedOf(r)).user, now)
             carrying == ReadCookie(stored[r], now)
             kept == IF carrying # NoCookie /\ isValidTenant(carrying.tenant)
                     THEN [fresh EXCEPT !.tenant = carrying.tenant] ELSE fresh
  <2>1. requestIncludesAuthInfo(request[r].via) /\ AuthInfo(AskedOf(r)).user \in Users
    BY <1>3, AskedCred DEF Typed
  <2>2. fresh \in Session /\ Within(fresh)
    BY <1>1, <2>1, NewSession, NewWithin
  <2>3. Within(kept)
    <3> HIDE DEF fresh, carrying
    <3> QED BY <2>2, RetenantedWithin
  <2>4. cookie'[r] = kept /\ out'[r] = kept
    BY <1>3 DEF CredentialAccepted, Typed, TypeOK
  <2> HIDE DEF kept
  <2> QED BY <2>3, <2>4, WithinOthers
<1>4. CASE ResolveDashboardsinfo(r)
  <2>1. cookie[r] \in Session
    BY <1>4 DEF ResolveDashboardsinfo, Typed, Working
  <2>2. Within([cookie[r] EXCEPT !.tenant = Resolved(r)])
    BY <1>1, <2>1, RetenantedWithin
  <2>3. /\ cookie'[r] \in {[cookie[r] EXCEPT !.tenant = Resolved(r)], cookie[r]}
        /\ out'[r] \in {[cookie[r] EXCEPT !.tenant = Resolved(r)], out[r]}
    BY <1>4 DEF ResolveDashboardsinfo, Typed, TypeOK
  <2> QED BY <1>1, <2>2, <2>3, WithinOthers
<1>5. CASE SwitchTenant(r)
  <2> DEFINE sent == IF ByCredential(r) THEN stored[r] ELSE cookie[r]
             switched == [sent EXCEPT !.tenant = request[r].tenant]
  <2>1. Within(sent) /\ (Readable(sent, now) => sent \in Session)
    BY <1>1, ReadableSession DEF Typed, TypeOK
  <2>2. Readable(sent, now) => Within(switched)
    <3> HIDE DEF sent
    <3> QED BY <2>1, RetenantedWithin
  <2>3. /\ cookie'[r] = cookie[r]
        /\ (Readable(sent, now) /\ out'[r] = switched) \/ out'[r] \in {out[r], NoCookie}
    BY <1>5 DEF SwitchTenant, Typed, TypeOK
  <2> HIDE DEF sent, switched
  <2> QED BY <1>1, <2>2, <2>3, NoneWithin, WithinOthers
<1>6. CASE LoginAccepted(r) \/ LoginAnonymous(r)
  <2>1. \A u, c : Within(BasicSession(u, c))
    BY DEF BasicSession, Within, BASIC, JWT
  <2>2. cookie'[r] = cookie[r] /\ \E u, c : out'[r] = BasicSession(u, c)
    BY <1>6 DEF LoginAccepted, LoginAnonymous, Typed, TypeOK
  <2> QED BY <1>1, <2>1, <2>2, WithinOthers
<1>7. CASE \/ PassPublic(r) \/ TakeCredential(r) \/ CredentialRefused(r) \/ RejectCookie(r)
           \/ ResolveAuthinfo(r) \/ ResolveUnauthenticated(r) \/ NoTenant(r)
           \/ DashboardsinfoFails(r) \/ FinalAuthinfo(r) \/ FinalAuthinfoFails(r)
           \/ LoginForbidden(r) \/ LoginRefused(r) \/ AnonymousRefused(r)
           \/ Logout(r) \/ LoginPage(r)
  <2>1. cookie' = cookie /\ out'[r] \in {out[r], NoCookie}
    BY <1>7 DEF PassPublic, TakeCredential, CredentialRefused, RejectCookie,
       ResolveAuthinfo, ResolveUnauthenticated, NoTenant, DashboardsinfoFails,
       FinalAuthinfo, FinalAuthinfoFails, LoginForbidden, LoginRefused,
       AnonymousRefused, Logout, LoginPage, Typed, TypeOK
  <2> QED BY <1>1, <2>1, NoneWithin, WithinOthers
<1> QED BY <1>2, <1>3, <1>4, <1>5, <1>6, <1>7 DEF Server, AuthStep, RouteStep

LEMMA WithinNext ==
    ASSUME JwtHeader = "authorization", Typed, AllWithin, [Next]_vars
    PROVE  AllWithin'
<1>1. CASE \E r \in Reqs : AuthStep(r) \/ RouteStep(r)
  BY <1>1, WithinServer DEF Server
<1>2. ASSUME NEW r \in Reqs, NEW q \in Requests, Send(r, q) PROVE AllWithin'
  BY <1>2 DEF Send, AllWithin, Within, Typed, TypeOK
<1>3. ASSUME NEW r \in Reqs, Deliver(r) \/ Lose(r) PROVE AllWithin'
  <2>1. Within(jar)' /\ Forget(r)
    BY <1>3 DEF Deliver, Lose, AllWithin, Within
  <2> QED BY <2>1, NoneWithin DEF Forget, AllWithin, Within, Typed, TypeOK
<1>4. CASE Tick \/ Administer \/ UNCHANGED vars
  BY <1>4 DEF Tick, Administer, vars, serverVars, AllWithin, Within
<1> QED BY <1>1, <1>2, <1>3, <1>4 DEF Next

(* Where the token is looked for under the header it is kept in, a JWT session *)
(* never outlasts its token, however often it is kept alive.                  *)
THEOREM JwtSessionEnds ==
    ASSUME JwtHeader = "authorization"
    PROVE  Spec => []ExpiryWithinToken
<1>1. Init => Typed /\ AllWithin
  BY TypedInit, NoneWithin DEF Init, AllWithin
<1>2. Typed /\ AllWithin /\ [Next]_vars => (Typed /\ AllWithin)'
  BY TypedNext, WithinNext
<1>3. Typed /\ AllWithin => ExpiryWithinToken
  BY DEF AllWithin, Within, ExpiryWithinToken, Typed, TypeOK, Cookie
<1> QED BY <1>1, <1>2, <1>3, PTL DEF Spec

-----------------------------------------------------------------------------
(* After a tenant switch.                                                  *)

(* The tenant a session of this user resolves to when its cookie names t. *)
Target(c, t) ==
    resolveTenant(CredUser[c.cred], <<>>, t, backend.grant[CredUser[c.cred]],
                  Config, backend.tenancy)

(* A cookie that leads where one naming t would: the tenant switch stores the  *)
(* name it was given, a later request may store what that name resolved to.    *)
Leads(c, t) ==
    c \in Session =>
        /\ c.tenant \in Names
        /\ backend.grant[CredUser[c.cred]] # Denied => Target(c, c.tenant) = Target(c, t)

(* The tenant a request should be given, going by what its user was told. *)
Promised(r) ==
    resolveTenant(info[r].user, <<>>, expect[r].tenant, info[r].available,
                  Config, backend.tenancy)

Ours(r) ==
    /\ info[r] = [user |-> CredUser[cookie[r].cred],
                  available |-> backend.grant[CredUser[cookie[r].cred]]]
    /\ info[r].available # Denied

(* A request sent by a user who had been told of a switch, at each stage. *)
Follows(r) ==
    expect[r].said = "switched" =>
        /\ expect[r].tenant \in Names
        /\ ~Intends(request[r]) /\ pc[r] \notin {"credential", "bare", "handler"}
        /\ Leads(stored[r], expect[r].tenant) /\ Leads(out[r], expect[r].tenant)
        /\ pc[r] \in Working => Leads(cookie[r], expect[r].tenant)
        /\ pc[r] = "dashboardsinfo" => Ours(r)
        /\ pc[r] = "authinfo" /\ Multitenancy => tenant[r] = Promised(r)
        /\ pc[r] # "answered" => reply[r].outcome # "authenticated"
        /\ reply[r].outcome = "authenticated" /\ Multitenancy => reply[r].tenant = Promised(r)

(* A switch that is acknowledged carries the cookie it promises. *)
Stores(r) ==
    pc[r] # "idle" /\ request[r].kind = "tenant" /\ reply[r].outcome = "ok" =>
        pc[r] = "answered" /\ out[r] \in Session /\ out[r].tenant = request[r].tenant

Idles(r) == pc[r] = "idle" => out[r] = NoSet /\ reply[r] = Answer("none")

Switched ==
    /\ \A r \in Reqs : Follows(r) /\ Stores(r) /\ Idles(r)
    /\ told.said = "switched" =>
        /\ told.tenant \in Names /\ Leads(jar, told.tenant)
        /\ \A r \in Reqs : pc[r] = "idle" \/ expect[r] = told

LEMMA SwitchedInit == Init => Switched
BY DEF Init, Switched, Follows, Stores, Idles, Nothing, Answer

(* Resolving what has been resolved. *)
LEMMA TargetStable ==
    ASSUME TypeOK, NEW u \in Users, NEW held \in Seq(Names), NEW s \in Names, NEW t \in Names,
           t = resolveTenant(u, <<>>, s, held, Config, backend.tenancy)
    PROVE  resolveTenant(u, <<>>, t, held, Config, backend.tenancy) = t
<1> DEFINE mt == backend.tenancy.mt
           private == backend.tenancy.private
           default == backend.tenancy.default
<1>1. /\ Config.preferred \in Seq(Names) /\ Config.global \in BOOLEAN
      /\ mt \in BOOLEAN /\ private \in BOOLEAN
  BY HandlerAssumption DEF TypeOK, Backend, Conf, Tenancy
<1>2. SelectedTenant(<<>>, s, default, mt) = s /\ SelectedTenant(<<>>, t, default, mt) = t
  BY CookieSelected
<1>3. t = resolve(u, s, Config.preferred, held, Config.global, mt, private)
  BY <1>2 DEF resolveTenant
<1>4. resolve(u, t, Config.preferred, held, Config.global, mt, private) = t
  <2> HIDE DEF mt, private, default
  <2> QED BY <1>1, <1>3, ResolveStable
<1> QED BY <1>2, <1>4 DEF resolveTenant

LEMMA LeadsSame ==
    ASSUME NEW c, NEW t, backend' = backend
    PROVE  Leads(c, t)' <=> Leads(c', t')
BY DEF Leads, Target

LEMMA NoCookieLeads == \A t : Leads(NoCookie, t) /\ Leads(NoSet, t)
BY SessionsDiffer DEF Leads

LEMMA RenewedLeads ==
    ASSUME NEW c \in Session, NEW e \in Nat, NEW t, Leads(c, t)
    PROVE  Leads([c EXCEPT !.expiryTime = e], t)
<1> DEFINE d == [c EXCEPT !.expiryTime = e]
<1>1. d.tenant = c.tenant /\ d.cred = c.cred
  BY DEF Session
<1> HIDE DEF d
<1>2. Leads(d, t)
  BY <1>1 DEF Leads, Target
<1> QED BY <1>2 DEF d

(* The tenant resolved for a request that follows a switch. *)
LEMMA FollowsResolved ==
    ASSUME Typed, NEW r \in Reqs, Follows(r), expect[r].said = "switched",
           pc[r] = "dashboardsinfo", isValidTenant(Resolved(r))
    PROVE  /\ Resolved(r) = Promised(r)
           /\ Leads([cookie[r] EXCEPT !.tenant = Resolved(r)], expect[r].tenant)
<1> DEFINE c == cookie[r]
           t == expect[r].tenant
           u == CredUser[c.cred]
           held == backend.grant[u]
           d == [c EXCEPT !.tenant = Resolved(r)]
<1>1. /\ c \in Session /\ c.cred \in Creds /\ u \in Users
      /\ info[r] \in Info /\ request[r].asked \in Seq(Names)
  BY HandlerAssumption DEF Typed, TypeOK, Working, Session, Request, Asks
<1>2. Leads(c, t) /\ Ours(r) /\ ~Intends(request[r])
  BY DEF Follows, Working
<1>3. info[r].user = u /\ info[r].available = held /\ held # Denied /\ held \in Seq(Names)
  BY <1>1, <1>2 DEF Ours, Info
<1>4. request[r].asked = <<>>
  BY <1>2 DEF Intends
<1>5. Resolved(r) = Target(c, c.tenant) /\ Promised(r) = Target(c, t)
  BY <1>3, <1>4 DEF Resolved, Promised, Target
<1>6. c.tenant \in Names /\ Target(c, c.tenant) = Target(c, t)
  BY <1>1, <1>2, <1>3 DEF Leads
<1>7. Resolved(r) \in Names
  BY <1>1, ResolvedName DEF Typed, isValidTenant
<1>8. resolveTenant(u, <<>>, Resolved(r), held, Config, backend.tenancy) = Resolved(r)
  BY <1>1, <1>3, <1>5, <1>6, <1>7, TargetStable DEF Target, Typed
<1>9. d.tenant = Resolved(r) /\ d.cred = c.cred
  BY <1>1 DEF Session
<1>10. Leads(d, t)
  <2> HIDE DEF d
  <2> QED BY <1>5, <1>6, <1>7, <1>8, <1>9 DEF Leads, Target
<1> QED BY <1>5, <1>6, <1>10

LEMMA SwitchedSend ==
    ASSUME Typed, Switched, NEW r \in Reqs, NEW q \in Requests, Send(r, q)
    PROVE  Switched'
<1>1. /\ pc[r] = "idle" /\ pc'[r] = "sent" /\ request'[r] = q /\ stored'[r] = jar
      /\ UNCHANGED <<backend, jar, cookie, info, tenant, out, reply>>
      /\ told' = IF Intends(q) THEN Nothing ELSE told
      /\ expect'[r] = told'
  BY DEF Send, Typed, TypeOK
<1>2. Nothing.said = "nothing"
  BY DEF Nothing
<1>3. out[r] = NoSet /\ reply[r] = Answer("none")
  BY <1>1 DEF Switched, Idles
<1>4. told'.said = "switched" => told' = told /\ ~Intends(q)
  BY <1>1, <1>2
<1>5. told'.said = "switched" => told.tenant \in Names /\ Leads(jar, told.tenant)'
  BY <1>1, <1>4, LeadsSame DEF Switched
<1>6. Leads(out[r], told.tenant)'
  BY <1>1, <1>3, NoCookieLeads, LeadsSame
<1>7. Follows(r)' /\ Stores(r)' /\ Idles(r)'
  BY <1>1, <1>3, <1>4, <1>5, <1>6 DEF Follows, Stores, Idles, Answer, Working, Intends,
        Leads, Target
<1>8. ASSUME NEW o \in Reqs \ {r}
      PROVE  /\ Follows(o)' /\ Stores(o)' /\ Idles(o)'
             /\ pc'[o] = pc[o] /\ expect'[o] = expect[o]
  <2>1. /\ pc'[o] = pc[o] /\ expect'[o] = expect[o] /\ request'[o] = request[o]
        /\ stored'[o] = stored[o]
    BY DEF Send, Typed, TypeOK
  <2>2. Follows(o) /\ Stores(o) /\ Idles(o)
    BY DEF Switched
  <2> QED BY <1>1, <2>1, <2>2
          DEF Follows, Stores, Idles, Intends, Leads, Target, Ours, Promised
<1> QED BY <1>1, <1>4, <1>5, <1>7, <1>8 DEF Switched, Leads, Target

LEMMA SwitchedForget ==
    ASSUME Typed, Switched, NEW r \in Reqs, Deliver(r) \/ Lose(r)
    PROVE  Switched'
<1>1. pc[r] = "answered" /\ Forget(r)
  BY DEF Deliver, Lose
<1>2. /\ pc'[r] = "idle" /\ out'[r] = NoSet /\ reply'[r] = Answer("none")
      /\ expect'[r] = Nothing /\ backend' = backend
  BY <1>1 DEF Forget, Typed, TypeOK
<1>3. Follows(r)' /\ Stores(r)' /\ Idles(r)'
  BY <1>2 DEF Follows, Stores, Idles, Nothing
<1>4. ASSUME NEW o \in Reqs \ {r}
      PROVE  /\ Follows(o)' /\ Stores(o)' /\ Idles(o)'
             /\ pc'[o] = pc[o] /\ expect'[o] = expect[o]
  <2>1. /\ pc'[o] = pc[o] /\ expect'[o] = expect[o] /\ request'[o] = request[o]
        /\ stored'[o] = stored[o] /\ out'[o] = out[o] /\ reply'[o] = reply[o]
        /\ cookie'[o] = cookie[o] /\ info'[o] = info[o] /\ tenant'[o] = tenant[o]
        /\ backend' = backend
    BY <1>1 DEF Forget, Typed, TypeOK
  <2>2. Follows(o) /\ Stores(o) /\ Idles(o)
    BY DEF Switched
  <2> QED BY <2>1, <2>2 DEF Follows, Stores, Idles, Intends, Leads, Target, Ours, Promised
<1>5. ASSUME told'.said = "switched"
      PROVE  /\ told'.tenant \in Names /\ Leads(jar, told.tenant)'
             /\ \A o \in Reqs \ {r} : pc[o] = "idle" \/ expect[o] = told'
  <2>1. CASE told' = told
    <3>1. expect[r] = told /\ Follows(r) /\ Leads(jar, told.tenant) /\ told.tenant \in Names
      BY <1>1, <1>5, <2>1 DEF Switched
    <3>2. Leads(out[r], told.tenant)
      BY <1>5, <2>1, <3>1 DEF Follows
    <3>3. jar' = jar \/ jar' = out[r]
      BY DEF Deliver, Lose
    <3>4. Leads(jar, told.tenant)'
      BY <1>2, <2>1, <3>1, <3>2, <3>3 DEF Leads, Target
    <3> QED BY <1>5, <2>1, <3>1, <3>4 DEF Switched
  <2>2. CASE told' # told
    <3>1. /\ Deliver(r) /\ Alone(r) /\ request[r].kind = "tenant" /\ reply[r].outcome = "ok"
          /\ told' = [said |-> "switched", tenant |-> request[r].tenant]
      BY <1>5, <2>2 DEF Deliver, Lose, ToldBy
    <3>2. out[r] \in Session /\ out[r].tenant = request[r].tenant
      BY <1>1, <3>1 DEF Switched, Stores
    <3>3. jar' = out[r]
      BY <3>1, <3>2, SessionsDiffer DEF Deliver
    <3>4. told'.tenant = request[r].tenant /\ request[r].tenant \in Names
      BY <3>1 DEF Typed, TypeOK, Request
    <3>5. Leads(jar, told.tenant)'
      BY <3>2, <3>3, <3>4 DEF Leads
    <3> QED BY <3>1, <3>4, <3>5 DEF Alone
  <2> QED BY <2>1, <2>2
<1> QED BY <1>2, <1>3, <1>4, <1>5 DEF Switched

(* A server's step leaves the other requests as they are, so the request that   *)
(* takes it is all there is to look at.                                     *)
LEMMA SwitchedIfOwn ==
    ASSUME Typed, Switched, NEW r \in Reqs, Server(r), Follows(r)', Stores(r)'
    PROVE  Switched'
<1>1. ASSUME NEW o \in Reqs \ {r} PROVE Untouched(o)
  BY <1>1, OthersUntouched DEF Typed
<1>2. UNCHANGED unchangedBySteps /\ pc[r] # "idle" /\ pc'[r] # "idle"
  BY ServerSteps
<1>3. UNCHANGED <<backend, jar, request, stored, told, expect>>
  BY <1>2 DEF unchangedBySteps, history
<1>4. ASSUME NEW o \in Reqs \ {r} PROVE Follows(o)' /\ Stores(o)' /\ Idles(o)'
  <2>1. Follows(o) /\ Stores(o) /\ Idles(o)
    BY DEF Switched
  <2> QED BY <1>1, <1>3, <2>1
          DEF Untouched, Follows, Stores, Idles, Intends, Leads, Target, Ours, Promised
<1>5. Idles(r)'
  BY <1>2 DEF Idles
<1>6. told.said = "switched" =>
        /\ told.tenant \in Names /\ Leads(jar, told.tenant)
        /\ \A o \in Reqs : pc'[o] = "idle" \/ expect[o] = told
  BY <1>1, <1>2 DEF Switched, Untouched
<1>7. \A o \in Reqs : Follows(o)' /\ Stores(o)' /\ Idles(o)'
  BY <1>4, <1>5
<1> QED BY <1>3, <1>6, <1>7 DEF Switched, Leads, Target

(* Only the tenant switch answers one with success. *)
LEMMA StoresServer ==
    ASSUME Typed, Switched, NEW r \in Reqs, Server(r)
    PROVE  Stores(r)'
<1>1. UNCHANGED unchangedBySteps /\ pc[r] \notin {"answered", "idle"} /\ pc'[r] # "idle"
  BY ServerSteps
<1> SUFFICES ASSUME request[r].kind = "tenant", reply'[r].outcome = "ok"
             PROVE  /\ pc'[r] = "answered"
                    /\ out'[r] \in Session
                    /\ out'[r].tenant = request[r].tenant
  BY <1>1 DEF Stores, unchangedBySteps
<1>2. reply[r].outcome # "ok"
  BY <1>1 DEF Switched, Stores
<1>3. CASE SwitchTenant(r)
  <2> DEFINE sent == IF ByCredential(r) THEN stored[r] ELSE cookie[r]
             switched == [sent EXCEPT !.tenant = request[r].tenant]
  <2>1. sent \in Cookie /\ request[r].tenant \in Names
    BY DEF Typed, TypeOK, Request
  <2>2. Readable(sent, now) /\ out'[r] = switched /\ pc'[r] = "answered"
    BY <1>3 DEF SwitchTenant, Finish, Answer, Typed, TypeOK
  <2>3. sent \in Session
    BY <2>1, <2>2, ReadableSession
  <2>4. switched \in Session /\ switched.tenant = request[r].tenant
    BY <2>1, <2>3, RetenantedSession DEF Session
  <2> QED BY <2>2, <2>4
<1>4. CASE AuthStep(r)
  <2>1. Unauthed(r) # "ok" /\ handleUnauthedRequest(request[r].kind) # "ok"
    BY DEF Unauthed, handleUnauthedRequest
  <2>2. CASE PassPublic(r) \/ CredentialRefused(r) \/ RejectCookie(r) \/ NoTenant(r)
             \/ DashboardsinfoFails(r) \/ FinalAuthinfoFails(r) \/ ResolveUnauthenticated(r)
    BY <2>1, <2>2
       DEF PassPublic, CredentialRefused, RejectCookie, NoTenant, DashboardsinfoFails,
           FinalAuthinfoFails, ResolveUnauthenticated, Finish, Answer, Typed, TypeOK
  <2>3. CASE TakeCredential(r) \/ CredentialAccepted(r) \/ AcceptCookie(r)
             \/ ResolveAuthinfo(r) \/ ResolveDashboardsinfo(r) \/ FinalAuthinfo(r)
    BY <1>2, <2>3
       DEF TakeCredential, CredentialAccepted, AcceptCookie, ResolveAuthinfo,
           ResolveDashboardsinfo, FinalAuthinfo, Authenticate, Typed, TypeOK
  <2> QED BY <1>4, <2>2, <2>3 DEF AuthStep
<1>5. CASE RouteStep(r) /\ ~SwitchTenant(r)
  BY <1>5 DEF RouteStep, LoginForbidden, LoginAccepted, LoginRefused, LoginAnonymous,
              AnonymousRefused, Logout, LoginPage, Opens
<1> QED BY <1>3, <1>4, <1>5 DEF Server

LEMMA FollowsServer ==
    ASSUME Typed, Switched, NEW r \in Reqs, Server(r)
    PROVE  Follows(r)'
<1>1. /\ UNCHANGED <<now, backend, changes, jar, request, stored, told, expect>>
      /\ pc[r] \notin {"answered", "idle"} /\ pc'[r] # "idle"
  BY ServerSteps DEF unchangedBySteps, history
<1> SUFFICES ASSUME expect[r].said = "switched" PROVE Follows(r)'
  BY <1>1 DEF Follows
<1> DEFINE t == expect[r].tenant
<1>2. /\ t \in Names /\ ~Intends(request[r]) /\ pc[r] \notin {"credential", "bare", "handler"}
      /\ Leads(stored[r], t) /\ Leads(out[r], t)
      /\ pc[r] \in Working => Leads(cookie[r], t)
      /\ pc[r] = "dashboardsinfo" => Ours(r)
      /\ pc[r] = "authinfo" /\ Multitenancy => tenant[r] = Promised(r)
      /\ reply[r].outcome # "authenticated"
  BY <1>1 DEF Switched, Follows
<1>3. /\ ~ByCredential(r)
      /\ request[r].kind \notin {"login", "anonymous", "logout", "loginPage", "tenant"}
  BY <1>2 DEF Intends, ByCredential
<1>4. Leads(stored[r], t)' /\ (UNCHANGED out => Leads(out[r], t)')
  BY <1>1, <1>2 DEF Leads, Target
<1>5. CASE PassPublic(r) \/ RejectCookie(r) \/ NoTenant(r) \/ DashboardsinfoFails(r)
           \/ FinalAuthinfoFails(r) \/ ResolveUnauthenticated(r)
  <2>1. Unauthed(r) # "authenticated" /\ handleUnauthedRequest(request[r].kind) # "authenticated"
    BY DEF Unauthed, handleUnauthedRequest
  <2>2. pc'[r] = "answered" /\ reply'[r].outcome # "authenticated"
    BY <1>5, <2>1
       DEF PassPublic, RejectCookie, NoTenant, DashboardsinfoFails, FinalAuthinfoFails,
           ResolveUnauthenticated, Finish, Answer, Typed, TypeOK
  <2>3. out' = out \/ out'[r] = NoCookie
    BY <1>5 DEF PassPublic, RejectCookie, NoTenant, DashboardsinfoFails, FinalAuthinfoFails,
                ResolveUnauthenticated, Typed, TypeOK
  <2>4. Leads(out[r], t)'
    BY <1>1, <1>4, <2>3, NoCookieLeads, LeadsSame
  <2> QED BY <1>1, <1>2, <1>4, <2>2, <2>4 DEF Follows, Working
<1>6. CASE AcceptCookie(r)
  <2> DEFINE renewed == [stored[r] EXCEPT !.expiryTime = getKeepAliveExpiry(stored[r], now)]
  <2>1. stored[r] \in Session /\ now \in Nat
    BY <1>6, ReadableSession DEF AcceptCookie, GoodCookie, Typed, TypeOK
  <2>2. Leads(renewed, t)
    BY <1>2, <2>1, KeepAliveNat, RenewedLeads
  <2>3. /\ pc'[r] = IF Multitenancy THEN "resolve" ELSE "authinfo"
        /\ cookie'[r] \in {renewed, stored[r]} /\ out'[r] \in {renewed, out[r]}
        /\ reply' = reply
    BY <1>6 DEF AcceptCookie, Typed, TypeOK
  <2> HIDE DEF renewed
  <2>4. Leads(cookie[r], t)' /\ Leads(out[r], t)'
    BY <1>1, <1>2, <2>2, <2>3 DEF Leads, Target
  <2> QED BY <1>1, <1>2, <1>4, <2>3, <2>4 DEF Follows
<1>7. CASE ResolveAuthinfo(r)
  <2>1. /\ pc[r] = "resolve" /\ pc'[r] = "dashboardsinfo"
        /\ info'[r] = AuthInfo(cookie[r].cred) /\ Accepts(cookie[r].cred)
        /\ UNCHANGED <<cookie, out, reply>>
    BY <1>7 DEF ResolveAuthinfo, Typed, TypeOK
  <2>2. Ours(r)'
    BY <1>1, <2>1 DEF Ours, AuthInfo, Accepts, Available
  <2>3. Leads(cookie[r], t)'
    BY <1>1, <1>2, <2>1 DEF Leads, Target, Working
  <2> QED BY <1>1, <1>2, <1>4, <2>1, <2>2, <2>3 DEF Follows
<1>8. CASE ResolveDashboardsinfo(r)
  <2> DEFINE moved == [cookie[r] EXCEPT !.tenant = Resolved(r)]
  <2>1. pc[r] = "dashboardsinfo" /\ isValidTenant(Resolved(r))
    BY <1>8 DEF ResolveDashboardsinfo
  <2>2. Resolved(r) = Promised(r) /\ Leads(moved, t)
    <3>1. Follows(r)
      BY DEF Switched
    <3> QED BY <2>1, <3>1, FollowsResolved
  <2>3. /\ pc'[r] = "authinfo" /\ reply' = reply /\ info' = info
        /\ tenant'[r] = Resolved(r)
        /\ cookie'[r] \in {moved, cookie[r]} /\ out'[r] \in {moved, out[r]}
    BY <1>3, <1>8 DEF ResolveDashboardsinfo, Typed, TypeOK
  <2> HIDE DEF moved
  <2>4. Leads(cookie[r], t)' /\ Leads(out[r], t)'
    BY <1>1, <1>2, <2>1, <2>2, <2>3 DEF Leads, Target, Working
  <2>5. tenant'[r] = Promised(r)'
    BY <1>1, <2>2, <2>3 DEF Promised
  <2> QED BY <1>1, <1>2, <1>4, <2>3, <2>4, <2>5 DEF Follows
<1>9. CASE FinalAuthinfo(r)
  <2>1. /\ pc[r] = "authinfo" /\ pc'[r] = "answered" /\ UNCHANGED <<cookie, info, out>>
        /\ reply'[r].tenant = tenant[r]
    BY <1>3, <1>9 DEF FinalAuthinfo, Authenticate, Typed, TypeOK
  <2>2. Multitenancy => reply'[r].tenant = Promised(r)'
    BY <1>1, <1>2, <2>1 DEF Promised
  <2> QED BY <1>1, <1>2, <1>4, <2>1, <2>2 DEF Follows, Working
<1>10. CASE TakeCredential(r) \/ CredentialAccepted(r) \/ CredentialRefused(r) \/ RouteStep(r)
  BY <1>2, <1>3, <1>10
     DEF TakeCredential, CredentialAccepted, CredentialRefused, Asking, RouteStep, SwitchTenant,
         LoginForbidden, LoginAccepted, LoginRefused, LoginAnonymous, AnonymousRefused,
         Logout, LoginPage, Opens
<1> QED BY <1>5, <1>6, <1>7, <1>8, <1>9, <1>10 DEF Server, AuthStep

LEMMA SwitchedNext ==
    ASSUME Typed, Switched, [Next]_vars
    PROVE  Switched'
<1>1. CASE Tick \/ UNCHANGED vars
  <2>1. UNCHANGED <<backend, jar, pc, request, stored, cookie, info, tenant, out, reply,
                    told, expect>>
    BY <1>1 DEF Tick, vars, serverVars, history
  <2> QED BY <2>1 DEF Switched, Follows, Stores, Idles, Intends, Leads, Target, Ours,
             Promised
<1>2. CASE Administer
  <2>1. /\ UNCHANGED <<pc, request, out, reply>>
        /\ told'.said # "switched"
        /\ \A r \in Reqs : expect'[r].said # "switched"
    BY <1>2 DEF Administer, serverVars, Nothing
  <2> QED BY <2>1 DEF Switched, Follows, Stores, Idles
<1>3. ASSUME NEW r \in Reqs, Server(r) PROVE Switched'
  BY <1>3, SwitchedIfOwn, FollowsServer, StoresServer
<1> QED BY <1>1, <1>2, <1>3, SwitchedSend, SwitchedForget DEF Next, Server

(* A tenant switch acknowledged with nothing else under way is honoured by every *)
(* request sent after it, until the user or an administrator changes something: *)
(* also when a request in between has replaced the name in the cookie by the    *)
(* tenant it stands for.                                                    *)
THEOREM SwitchFinal == Spec => []SwitchHonoured
<1>1. Init => Typed /\ Switched
  BY TypedInit, SwitchedInit
<1>2. Typed /\ Switched /\ [Next]_vars => (Typed /\ Switched)'
  BY TypedNext, SwitchedNext
<1>3. Switched => SwitchHonoured
  BY DEF Switched, Follows, SwitchHonoured, Promised
<1> QED BY <1>1, <1>2, <1>3, PTL DEF Spec
=============================================================================
