---------------------------- MODULE SessionCookie ----------------------------
(***************************************************************************)
(* The session cookie and the five authentication types that fill, check   *)
(* and renew it: server/session/security_cookie.ts and the parts of         *)
(* server/auth/types/<type>/<type>_auth.ts that run inside the common       *)
(* authentication handler.  MultipleAuthentication, which dispatches on the *)
(* cookie's authType, is the case of several configured types.              *)
(*                                                                         *)
(* A credential stands for what ends up in the Authorization header (a      *)
(* password, a bearer token) or in the proxy's user header.  The cookie     *)
(* record carries it whether the code keeps it in the cookie itself or in   *)
(* the split storage cookies next to it.                                    *)
(***************************************************************************)
EXTENDS Integers, TenantResolver

CONSTANTS
    Creds,        \* the credentials a client can present
    Anonymous,    \* the credential of a request that presents none
    TokenExp,     \* when the token behind a credential expires
    Users, NoUser,
    AnonymousUser,     \* the user_name authinfo gives an anonymous request
    AuthTypes,    \* opensearch_security.auth.type, in the order configured
    AnonymousEnabled,  \* opensearch_security.auth.anonymous_auth_enabled
    JwtHeader,    \* opensearch_security.jwt.header
    Ttl           \* opensearch_security.session.ttl

BASIC == "basicauth"
JWT == "jwt"
SAML == "saml"
PROXY == "proxy"

(* How a credential reaches the server. *)
Via == {"authorization", "jwtheader", "urlparam", "proxyheader"}

ASSUME CookieAssumption ==
    /\ Anonymous \in Creds
    /\ TokenExp \in [Creds -> Nat \ {0}]
    /\ AnonymousUser \in Users /\ NoUser \notin Users
    /\ AuthTypes \in Seq({BASIC, JWT, SAML, PROXY})
    /\ AnonymousEnabled \in BOOLEAN
    /\ JwtHeader \in {"authorization", "jwtheader"}
    /\ Ttl \in Nat

Session ==
    [authType : {BASIC, JWT, SAML, "proxycache"}, username : Users \cup {NoUser},
     cred : Creds, expiryTime : Nat, tenant : Names \cup {Undefined}]

NoCookie == [authType |-> "none"]
Cookie == Session \cup {NoCookie}

Enabled(type) == \E i \in DOMAIN AuthTypes : AuthTypes[i] = type

-----------------------------------------------------------------------------
(* getSecurityCookieOptions().validate: run whenever the cookie is read. *)
Readable(cookie, now) == cookie # NoCookie /\ cookie.expiryTime >= now

(* The cookie that sessionStorageFactory.asScoped(request).get() returns. *)
ReadCookie(cookie, now) == IF Readable(cookie, now) THEN cookie ELSE NoCookie

(* Which ways of presenting a credential a type recognises. *)
Recognises(type, via) ==
    CASE type = JWT   -> via \in {JwtHeader, "urlparam"}
      [] type = PROXY -> via = "proxyheader"
      [] OTHER        -> via = "authorization"

requestIncludesAuthInfo(via) ==
    \E i \in DOMAIN AuthTypes : Recognises(AuthTypes[i], via)

(* MultipleAuthentication.getCookie: the first type that recognises it. *)
FirstType(via) ==
    AuthTypes[CHOOSE i \in DOMAIN AuthTypes :
                /\ Recognises(AuthTypes[i], via)
                /\ \A j \in DOMAIN AuthTypes : j < i => ~Recognises(AuthTypes[j], via)]

(* MultipleAuthentication.getAdditionalAuthHeader, and that of a single type:  *)
(* the token in the URL is put into a header for the backend by JWT alone.      *)
(* With several types, a readable cookie of a configured type leaves the        *)
(* choice of headers to that type.  The other ways of presenting a credential   *)
(* are headers of the request itself, which reach the backend as they are.      *)
AddsUrlToken(browserCookie) ==
    \/ Len(AuthTypes) = 1
    \/ browserCookie = NoCookie
    \/ browserCookie.authType = JWT
    \/ ~Enabled(browserCookie.authType)

(* Fault: the session is given its time to live, whenever the token expires. *)
getExpirationDate_TtlOnly(cred, default) == default

(* jwt_helper.ts getExpirationDate, for a token that has an exp claim. *)
getExpirationDate(cred, default) ==
    IF TokenExp[cred] < default THEN TokenExp[cred] ELSE default

(* The cookie each type makes of a credential the backend has accepted.  An   *)
(* anonymous session keeps no credential.                                    *)
BasicCookie(cred, user, now) ==
    [authType |-> BASIC, username |-> user,
     cred |-> IF AnonymousEnabled /\ user = AnonymousUser THEN Anonymous ELSE cred,
     expiryTime |-> now + Ttl, tenant |-> Undefined]

JwtCookie(cred, user, now) ==
    [authType |-> JWT, username |-> user, cred |-> cred,
     expiryTime |-> getExpirationDate(cred, now + Ttl), tenant |-> Undefined]

SamlCookie(cred, user, now) ==
    [authType |-> SAML, username |-> user, cred |-> cred,
     expiryTime |-> now + Ttl, tenant |-> Undefined]

(* It reads a field authinfo does not have (username, not user_name) and is   *)
(* labelled otherwise than the type is named.                                *)
ProxyCookie(cred, now) ==
    [authType |-> "proxycache", username |-> NoUser, cred |-> cred,
     expiryTime |-> now + Ttl, tenant |-> Undefined]

getCookie(via, cred, user, now) ==
    LET type == FirstType(via)
    IN  CASE type = JWT   -> JwtCookie(cred, user, now)
          [] type = SAML  -> SamlCookie(cred, user, now)
          [] type = PROXY -> ProxyCookie(cred, now)
          [] OTHER        -> BasicCookie(cred, user, now)

(* What a type asks of a cookie of its own.  expiryTime is tested for truth   *)
(* only: validate is what compares it with the clock.                        *)
BasicValid(cookie) ==
    /\ cookie.expiryTime # 0
    /\ \/ cookie.username # NoUser /\ cookie.cred # Anonymous
       \/ AnonymousEnabled /\ cookie.cred = Anonymous

TokenValid(cookie) ==
    cookie.expiryTime # 0 /\ cookie.username # NoUser /\ cookie.cred # Anonymous

(* The type that wrote the cookie must be configured, under the very name the *)
(* cookie has: a cookie of the proxy type is nobody's.                       *)
isValidCookie(cookie) ==
    /\ Enabled(cookie.authType)
    /\ IF cookie.authType = BASIC THEN BasicValid(cookie) ELSE TokenValid(cookie)

(* buildAuthHeaderFromCookie: the header the credential is put back into. A   *)
(* JWT kept in the split storage always goes into `authorization'.           *)
HeaderFromCookie(cookie) ==
    IF cookie.authType = "proxycache" THEN "proxyheader" ELSE "authorization"

(* Fault: a session whose token is not found is left without an expiry. *)
getKeepAliveExpiry_Lost(cookie, now) ==
    IF cookie.authType = JWT THEN Undefined ELSE now + Ttl

(* What JWT finds of the token when it looks for it to bound the expiry: it   *)
(* looks under the configured header name.                                   *)
getKeepAliveExpiry(cookie, now) ==
    CASE cookie.authType = JWT ->
            IF HeaderFromCookie(cookie) = JwtHeader
            THEN getExpirationDate(cookie.cred, now + Ttl)
            ELSE now + Ttl
      [] cookie.authType = SAML -> cookie.expiryTime
      [] OTHER -> now + Ttl
=============================================================================
