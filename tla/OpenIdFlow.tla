----------------------------- MODULE OpenIdFlow -----------------------------
(***************************************************************************)
(* server/auth/types/openid: logging in at an identity provider, renewing    *)
(* the id token, and logging out, in several tabs of one browser.            *)
(*                                                                         *)
(* The tabs share the session cookie (jar) and the split cookies with the    *)
(* token (pieces, taken as one: see CookieSplitter).  A tab is where its page *)
(* is, or where its next request goes; at most one is under way, at pc.  The  *)
(* nonce of a login is named by its tab: a tab only ever presents its last.   *)
(***************************************************************************)
EXTENDS Naturals, FiniteSets

CONSTANTS
    Tabs, Users,
    None,             \* no token, no refresh token
    Base,             \* the page of a login that was not told where to go
    Keepalive,        \* session.keepalive
    Ttl,              \* session.ttl
    TokenLife,        \* life of an id token
    MaxTime,          \* bound: the clock
    MaxRefresh,       \* bound: refresh tokens the provider gives out
    MaxAsks,          \* bound: requests of the user's own making
    MaxFaults         \* bound: calls that fail and answers that are lost

ASSUME OpenIdAssumption ==
    /\ Keepalive \in BOOLEAN
    /\ Ttl \in Nat /\ TokenLife \in Nat /\ MaxTime \in Nat
    /\ MaxRefresh \in Nat /\ MaxAsks \in Nat /\ MaxFaults \in Nat
    /\ Base \notin Tabs
    /\ None \notin 1..MaxRefresh

VARIABLES
    jar, pieces,          \* the browser's cookies
    at, where,            \* per tab: its place, the URL a login is to return to
    pc, stored, token,    \* per tab: its request, the cookies it carries
    code,                 \* per tab: whom the code in its callback stands for
    out, extra, goes,     \* per tab: its answer: cookies and destination
    now, issued, spent,   \* clock, refresh tokens given out and used
    asks, faults,
    alone, told, excused  \* history: see below
browser == <<jar, pieces, at, where>>
answer == <<out, extra, goes>>
request == <<pc, stored, token, code>>
idp == <<issued, spent>>
bounds == <<asks, faults>>
history == <<alone, told, excused>>
vars == <<browser, request, answer, now, idp, bounds, history>>

InFlow == {"capture", "login", "idp", "callback"}
Asked == {"page", "background", "bearer", "signout"}
Presented == {"callback", "bearer", "initiated"}

NoCookie == [kind |-> "none"]
Flow(tab, nextUrl) == [kind |-> "flow", state |-> tab, nextUrl |-> nextUrl]
Session(user, idExpiry, refresh, end) ==
    [kind |-> "session", user |-> user, idExpiry |-> idExpiry, refresh |-> refresh, end |-> end]
IdToken(user) == [user |-> user, exp |-> now + TokenLife]

Keep == [act |-> "keep"]
Clear == [act |-> "set", value |-> NoCookie]
Set(cookie) == [act |-> "set", value |-> cookie]
NoToken == [user |-> None, exp |-> 0]
Remnant == [user |-> None, exp |-> 1]   \* the last pieces of one: read as none

InFlight == {t \in Tabs : pc[t] # "none"}

Unknown == [kind |-> "unknown"]
LoggedIn(user) == [kind |-> "in", user |-> user]
LoggedOut == [kind |-> "out"]

Idle ==
    /\ now = 1 /\ spent = {}
    /\ at = [t \in Tabs |-> "app"] /\ where = [t \in Tabs |-> t]
    /\ pc = [t \in Tabs |-> "none"]
    /\ stored = [t \in Tabs |-> NoCookie] /\ token = [t \in Tabs |-> NoToken]
    /\ code = [t \in Tabs |-> None]
    /\ out = [t \in Tabs |-> Keep] /\ extra = [t \in Tabs |-> Keep]
    /\ goes = [t \in Tabs |-> "app"]
    /\ asks = 0 /\ faults = 0
    /\ alone = {} /\ excused = {}

NewBrowser == jar = NoCookie /\ pieces = NoToken /\ told = LoggedOut

EarlierVisit(session) ==
    /\ jar = session
    /\ pieces = IdToken(session.user)
    /\ told = LoggedIn(session.user)

(* A browser without a session, or with one of an earlier visit. *)
Init ==
    /\ Idle
    /\ \/ NewBrowser /\ issued = 0
       \/ /\ MaxRefresh > 0 /\ issued = 1
          /\ \E user \in Users : EarlierVisit(Session(user, now + TokenLife, 1, now + Ttl))

-----------------------------------------------------------------------------
(* The browser.  A request met by another may have its refresh token spent    *)
(* by both, so those under way are excused.                                  *)
Send(t) ==
    /\ pc[t] = "none"
    /\ pc' = [pc EXCEPT ![t] = "sent"]
    /\ stored' = [stored EXCEPT ![t] = jar]
    /\ token' = [token EXCEPT ![t] = pieces]
    /\ alone' = IF InFlight = {} THEN {t} ELSE {}
    /\ excused' = excused \cup {stored[u].refresh : u \in {v \in InFlight : stored[v].kind = "session"}}
    /\ UNCHANGED <<jar, pieces, code, answer, now, idp, faults, told>>

Ask(t, place) ==
    /\ at[t] = "app" /\ asks < MaxAsks
    /\ Send(t)
    /\ asks' = asks + 1
    /\ at' = [at EXCEPT ![t] = place]
    /\ where' = [where EXCEPT ![t] = t]

Follow(t) ==
    /\ at[t] \in InFlow \ {"idp"}
    /\ Send(t)
    /\ UNCHANGED <<at, where, asks>>

Authenticate(t, user) ==
    /\ at[t] = "idp"
    /\ at' = [at EXCEPT ![t] = "callback"]
    /\ code' = [code EXCEPT ![t] = user]
    /\ UNCHANGED <<jar, pieces, where, pc, stored, token, answer, now, idp, bounds, history>>

Settled(t) ==
    /\ pc' = [pc EXCEPT ![t] = "none"]
    /\ stored' = [stored EXCEPT ![t] = NoCookie]
    /\ token' = [token EXCEPT ![t] = NoToken]
    /\ code' = [code EXCEPT ![t] = None]
    /\ out' = [out EXCEPT ![t] = Keep]
    /\ extra' = [extra EXCEPT ![t] = Keep]
    /\ goes' = [goes EXCEPT ![t] = "app"]
    /\ alone' = {}

Deliver(t) ==
    /\ pc[t] = "answered"
    /\ Settled(t)
    /\ at' = [at EXCEPT ![t] = goes[t]]
    /\ jar' = IF out[t] = Keep THEN jar ELSE out[t].value
    /\ pieces' = IF extra[t] = Keep THEN pieces ELSE extra[t].value
    /\ LET Acknowledged(what) == IF t \in alone THEN what ELSE Unknown
       IN  told' = IF at[t] \in Presented /\ out[t] # Keep /\ out[t].value.kind = "session"
                   THEN Acknowledged(LoggedIn(out[t].value.user))
                   ELSE IF at[t] = "logout" /\ out[t] = Clear
                        THEN Acknowledged(LoggedOut)
                        ELSE told
    /\ UNCHANGED <<where, now, idp, bounds, excused>>

Lose(t) ==
    /\ pc[t] = "answered" /\ faults < MaxFaults
    /\ Settled(t)
    /\ faults' = faults + 1
    /\ at' = [at EXCEPT ![t] = "app"]
    /\ excused' = IF stored[t].kind = "session" THEN excused \cup {stored[t].refresh} ELSE excused
    /\ UNCHANGED <<jar, pieces, where, now, idp, asks, told>>

-----------------------------------------------------------------------------
Arrived(t, place) == pc[t] = "sent" /\ at[t] = place

Answer(t, cookie, tokens, place) ==
    /\ pc' = [pc EXCEPT ![t] = "answered"]
    /\ out' = [out EXCEPT ![t] = cookie]
    /\ extra' = [extra EXCEPT ![t] = tokens]
    /\ goes' = [goes EXCEPT ![t] = place]

Await(t, place) == pc' = [pc EXCEPT ![t] = place]

Unchanged == UNCHANGED <<jar, pieces, at, code, now, history>>

(* What the session storage returns: validate drops a session past its end,   *)
(* and never a login in progress.                                            *)
get(t) == IF stored[t].kind = "session" /\ stored[t].end < now THEN NoCookie ELSE stored[t]

captureUrlFragment(t) ==
    /\ Arrived(t, "capture")
    /\ Answer(t, Clear, Keep, "login")
    /\ UNCHANGED <<where, stored, token, idp, bounds>> /\ Unchanged

(* Fault: the nonce is not remembered. *)
login_Forgets(t) ==
    /\ Arrived(t, "login")
    /\ Answer(t, Keep, Keep, "idp")
    /\ UNCHANGED <<where, stored, token, idp, bounds>> /\ Unchanged

login(t) ==
    /\ Arrived(t, "login")
    /\ Answer(t, Set(Flow(t, where[t])), Keep, "idp")
    /\ UNCHANGED <<where, stored, token, idp, bounds>> /\ Unchanged

(* The cookie is cleared, the split cookies are not, nextUrl is forgotten. *)
redirectToLogin(t) ==
    /\ Answer(t, Clear, Keep, "login")
    /\ where' = [where EXCEPT ![t] = Base]

(* Fault: any login in progress will do. *)
stateMatches_Any(t) == get(t).kind = "flow"

stateMatches(t) == get(t).kind = "flow" /\ get(t).state = t

callbackRefused(t) ==
    /\ Arrived(t, "callback") /\ ~stateMatches(t)
    /\ redirectToLogin(t)
    /\ UNCHANGED <<stored, token, idp, bounds>> /\ Unchanged

callback(t) ==
    /\ Arrived(t, "callback") /\ stateMatches(t)
    /\ Await(t, "token")
    /\ UNCHANGED <<where, stored, token, answer, idp, bounds>> /\ Unchanged

NewRefreshToken == IF issued < MaxRefresh THEN issued + 1 ELSE None
GiveOut == issued' = IF issued < MaxRefresh THEN issued + 1 ELSE issued

(* callTokenEndpoint with the code; the handler's locals are kept in token and *)
(* the refresh token in the session it will set.                             *)
callTokenEndpoint(t) ==
    /\ pc[t] = "token"
    /\ Await(t, "user")
    /\ token' = [token EXCEPT ![t] = IdToken(code[t])]
    /\ GiveOut
    /\ out' = [out EXCEPT ![t] = Set(Session(code[t], now + TokenLife, NewRefreshToken, 0))]
    /\ UNCHANGED <<where, stored, extra, goes, spent, bounds>> /\ Unchanged

(* Fault: the new token is left out of the split cookies. *)
authenticateWithHeader_NoExtra(t) ==
    /\ pc[t] = "user"
    /\ Answer(t, Set([out[t].value EXCEPT !.end = now + Ttl]), Keep, "app")
    /\ where' = [where EXCEPT ![t] = get(t).nextUrl]
    /\ UNCHANGED <<stored, token, idp, bounds>> /\ Unchanged

(* The backend knows the user: both kinds of cookie are set, and the browser  *)
(* goes where the login was asked to return.                                *)
authenticateWithHeader(t) ==
    /\ pc[t] = "user"
    /\ Answer(t, Set([out[t].value EXCEPT !.end = now + Ttl]), Set(token[t]), "app")
    /\ where' = [where EXCEPT ![t] = get(t).nextUrl]
    /\ UNCHANGED <<stored, token, idp, bounds>> /\ Unchanged

(* An authentication exception ends the attempt; any other failure starts the  *)
(* login anew.                                                              *)
callbackFails(t) ==
    /\ pc[t] \in {"token", "user"} /\ faults < MaxFaults
    /\ faults' = faults + 1
    /\ \/ pc[t] = "user" /\ Answer(t, Keep, Keep, "app") /\ UNCHANGED where
       \/ redirectToLogin(t)
    /\ UNCHANGED <<stored, token, idp, asks>> /\ Unchanged

-----------------------------------------------------------------------------
(* authHandler with isValidCookie, for requests that need a session. *)
Guarded == {"page", "background", "signout"}

Rejected(t) == Answer(t, Clear, Keep, IF at[t] = "page" THEN "capture" ELSE "app")

HasToken(t) == get(t).kind = "session" /\ token[t].user # None

invalidCookie(t) ==
    /\ pc[t] = "sent" /\ at[t] \in Guarded
    /\ HasToken(t) => get(t).idExpiry <= now /\ get(t).refresh = None
    /\ Rejected(t)
    /\ UNCHANGED <<where, stored, token, idp, bounds>> /\ Unchanged

(* The handler goes on with a valid cookie: it is sent back when kept alive. *)
Valid(t, cookie) ==
    /\ Await(t, "authinfo")
    /\ out' = [out EXCEPT ![t] = IF Keepalive THEN Set([cookie EXCEPT !.end = now + Ttl]) ELSE Keep]

isValidCookie(t) ==
    /\ pc[t] = "sent" /\ at[t] \in Guarded
    /\ HasToken(t) /\ get(t).idExpiry > now
    /\ Valid(t, get(t))
    /\ UNCHANGED <<where, stored, token, extra, goes, idp, bounds>> /\ Unchanged

renewToken(t) ==
    /\ pc[t] = "sent" /\ at[t] \in Guarded
    /\ HasToken(t) /\ get(t).idExpiry <= now /\ get(t).refresh # None
    /\ Await(t, "refresh")
    /\ UNCHANGED <<where, stored, token, answer, idp, bounds>> /\ Unchanged

(* Fault: the refresh token of the cookie is not replaced. *)
renewedCredentials_KeepsRefresh(t) ==
    Session(stored[t].user, now + TokenLife, stored[t].refresh, stored[t].end)

renewedCredentials(t) ==
    Session(stored[t].user, now + TokenLife, NewRefreshToken, stored[t].end)

(* The provider exchanges a refresh token once.  Credentials and split cookies *)
(* are replaced; the cookie is sent back only when it is kept alive.         *)
Refreshed(t) ==
    /\ pc[t] = "refresh" /\ stored[t].refresh \notin spent
    /\ GiveOut
    /\ spent' = spent \cup {stored[t].refresh}
    /\ excused' = IF t \in alone THEN excused ELSE excused \cup {stored[t].refresh}
    /\ Valid(t, renewedCredentials(t))
    /\ token' = [token EXCEPT ![t] = IdToken(stored[t].user)]
    /\ extra' = [extra EXCEPT ![t] = Set(IdToken(stored[t].user))]
    /\ UNCHANGED <<jar, pieces, at, where, stored, code, goes, now, bounds, alone, told>>

RefreshRefused(t) ==
    /\ pc[t] = "refresh"
    /\ \/ stored[t].refresh \in spent /\ UNCHANGED faults
       \/ faults < MaxFaults /\ faults' = faults + 1
    /\ Rejected(t)
    /\ UNCHANGED <<where, stored, token, idp, asks>> /\ Unchanged

Authinfo(t) ==
    /\ pc[t] = "authinfo" /\ token[t].exp > now /\ at[t] # "signout"
    /\ Answer(t, out[t], extra[t], "app")
    /\ UNCHANGED <<where, stored, token, idp, bounds>> /\ Unchanged

(* An UnauthenticatedError in resolveTenant: the cookie is cleared, the split   *)
(* cookies set by a renewal stay.                                           *)
Unauthenticated(t) ==
    /\ pc[t] = "authinfo"
    /\ \/ token[t].exp <= now /\ UNCHANGED faults
       \/ faults < MaxFaults /\ faults' = faults + 1
    /\ Answer(t, Clear, extra[t], IF at[t] = "page" THEN "capture" ELSE "app")
    /\ UNCHANGED <<where, stored, token, idp, asks>> /\ Unchanged

(* getCookie for a request with a bearer header: a session whose id token is   *)
(* taken for expired by the next request, since its expiry is not recorded.  *)
getCookie(t, user) ==
    /\ Arrived(t, "bearer")
    /\ Answer(t, Set(Session(user, 0, None, now + Ttl)), Set(IdToken(user)), "app")
    /\ UNCHANGED <<where, stored, token, idp, bounds>> /\ Unchanged

-----------------------------------------------------------------------------
(* GET openid/logout is reached through authHandler as any page is, and may     *)
(* have renewed the token on its way.  Only pieces the request came with are   *)
(* cleared: of a longer token stored meanwhile the last ones stay.            *)
LeftBy(t) == IF extra[t] = Keep THEN {NoToken} ELSE {NoToken, Remnant}

(* Fault: the split cookies survive. *)
logout_KeepsPieces(t) ==
    /\ pc[t] = "authinfo" /\ token[t].exp > now /\ at[t] = "signout"
    /\ at' = [at EXCEPT ![t] = "logout"]
    /\ Answer(t, Clear, Keep, "app")
    /\ UNCHANGED <<jar, pieces, where, stored, token, code, now, idp, bounds, history>>

logout(t) ==
    /\ pc[t] = "authinfo" /\ token[t].exp > now /\ at[t] = "signout"
    /\ at' = [at EXCEPT ![t] = "logout"]
    /\ \E left \in LeftBy(t) : Answer(t, Clear, Set(left), "app")
    /\ UNCHANGED <<jar, pieces, where, stored, token, code, now, idp, bounds, history>>

Tick ==
    /\ now < MaxTime
    /\ now' = now + 1
    /\ UNCHANGED <<browser, request, answer, idp, bounds, history>>

Server(t) ==
    \/ captureUrlFragment(t) \/ login(t)
    \/ callbackRefused(t) \/ callback(t) \/ callTokenEndpoint(t)
    \/ authenticateWithHeader(t) \/ callbackFails(t)
    \/ invalidCookie(t) \/ isValidCookie(t) \/ renewToken(t)
    \/ Refreshed(t) \/ RefreshRefused(t) \/ Authinfo(t) \/ Unauthenticated(t)
    \/ \E user \in Users : getCookie(t, user)
    \/ logout(t)

Next ==
    \/ \E t \in Tabs :
          \/ \E place \in Asked : Ask(t, place)
          \/ Follow(t)
          \/ \E user \in Users : Authenticate(t, user)
          \/ Server(t) \/ Deliver(t) \/ Lose(t)
    \/ Tick

(* The server resumes a handler whose call has ended, a browser follows a      *)
(* redirect, and a user sent to the provider comes back.                    *)
Fairness ==
    \A t \in Tabs :
        /\ WF_vars(Server(t))
        /\ WF_vars(Deliver(t) \/ Lose(t))
        /\ WF_vars(Follow(t) \/ \E user \in Users : Authenticate(t, user))

Spec == Init /\ [][Next]_vars
FairSpec == Spec /\ Fairness
-----------------------------------------------------------------------------
(* A tab that has logged in returns to the page it was at, or to the start     *)
(* page: never to that of a login another tab has begun since.               *)
ReturnsToOwnPage == \A t \in Tabs : where[t] \in {t, Base}

(* With keepalive on, a refresh token that was exchanged is not presented      *)
(* again, over all the requests of a session, except by requests that were     *)
(* under way at the same time or after an answer was lost.                   *)
RefreshNotWasted ==
    \A t \in Tabs : pc[t] = "refresh" => stored[t].refresh \notin spent \ excused

(* Once a login has been acknowledged with nothing else under way, a session    *)
(* in the browser is that user's, and so is the token beside it: what an        *)
(* earlier user, an earlier tab or a failed login left is gone.               *)
LoginHolds ==
    told.kind = "in" /\ jar.kind = "session" =>
        jar.user = told.user /\ pieces.user = told.user

(* Once a logout has been acknowledged with nothing else under way, no session  *)
(* and no token that can be read is left in the browser, until somebody logs    *)
(* in.  A logout that is refused on its way through authHandler is not          *)
(* acknowledged; one that has renewed the token may leave the end of it.        *)
LoggedOutClean ==
    told.kind = "out" => jar.kind # "session" /\ pieces \in {NoToken, Remnant}

(* Once nothing fails any more, a login under way ends with a session in the     *)
(* browser, wherever an earlier failure has sent it and whatever the bounded      *)
(* number of other requests do to its cookie, unless another tab is logging in    *)
(* as well.  While calls keep failing it may start over without end.             *)
LoginCompletes ==
    \A t \in Tabs :
        at[t] \in InFlow /\ pc[t] = "none" /\ faults = MaxFaults
            ~> \/ at[t] = "app" /\ jar.kind = "session"
               \/ \E u \in Tabs \ {t} : at[u] \in InFlow
=============================================================================
