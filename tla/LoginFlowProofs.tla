--------------------------- MODULE LoginFlowProofs ---------------------------
(***************************************************************************)
(* The two logins by way of a provider, for any number of tabs, users, tokens and   *)
(* faults: where they lead, and what the browser's cookies hold after a login and   *)
(* after a logout.                                                         *)
(***************************************************************************)
EXTENDS SamlFlow, TLAPS

Place(tab, url) == url \in {tab, Base}

IsSession(cookie) == \E u, i, r, e : cookie = Session(u, i, r, e)
IsFlow(cookie) == \E tab \in Tabs : \E url : Place(tab, url) /\ cookie = Flow(tab, url)

(* A login in progress is to return to the page its own tab was at. *)
Returning(cookie) == cookie = NoCookie \/ IsSession(cookie) \/ IsFlow(cookie)

PerTab(f) == f = [t \in Tabs |-> f[t]]
Functions == PerTab(where) /\ PerTab(stored) /\ PerTab(pc) /\ PerTab(out)

(* What tab t is to return to, the cookie its request came with, and the one it      *)
(* will set; a callback that goes on has the nonce of its own tab.              *)
ReturnOf(t) ==
    /\ Place(t, where[t])
    /\ Returning(stored[t])
    /\ out[t] = Keep \/ \E c : Returning(c) /\ out[t] = Set(c)
    /\ pc[t] \in {"token", "user"} => IsFlow(stored[t]) /\ stored[t].state = t
    /\ pc[t] \in {"user", "authinfo"} => out[t] = Keep \/ \E c : IsSession(c) /\ out[t] = Set(c)
    /\ pc[t] = "user" => out[t] # Keep
    /\ pc[t] = "refresh" => IsSession(stored[t])

ReturnInv == Functions /\ Returning(jar) /\ \A t \in Tabs : ReturnOf(t)

-----------------------------------------------------------------------------
(* A cookie is of one kind. *)
LEMMA Kinds ==
    ASSUME NEW c, Returning(c)
    PROVE  /\ c.kind = "session" => IsSession(c)
           /\ c.kind = "flow" => IsFlow(c)
           /\ IsSession(c) => c.kind = "session"
           /\ IsFlow(c) => c.kind = "flow" /\ Place(c.state, c.nextUrl)
BY DEF Returning, IsSession, IsFlow, Session, Flow, NoCookie

(* A session moved to another end is a session. *)
LEMMA Moved ==
    ASSUME NEW c, IsSession(c), NEW end
    PROVE  IsSession([c EXCEPT !.end = end])
<1>1. PICK u, i, r, e : c = Session(u, i, r, e)
  BY DEF IsSession
<1>2. [c EXCEPT !.end = end] = Session(u, i, r, end)
  BY <1>1 DEF Session
<1> QED BY <1>2 DEF IsSession

(* Setting a cookie is not keeping it, and clearing sets none. *)
LEMMA SetIsSet ==
    /\ \A c : Set(c) # Keep /\ Set(c).value = c
    /\ Clear = Set(NoCookie)
BY DEF Set, Keep, Clear

-----------------------------------------------------------------------------
(* The invariant holds of a browser that starts, with a session or without. *)
LEMMA ReturnInvInit == Init => ReturnInv
<1> SUFFICES ASSUME Init
             PROVE  ReturnInv
  OBVIOUS
<1>1. Functions
  BY DEF Init, Idle, Functions, PerTab
<1>2. Returning(jar)
  BY DEF Init, Idle, NewBrowser, EarlierVisit, Returning, IsSession
<1>3. ASSUME NEW t \in Tabs
      PROVE  ReturnOf(t)
  BY DEF Init, Idle, NewBrowser, EarlierVisit, ReturnOf, Returning, Place
<1> QED BY <1>1, <1>2, <1>3 DEF ReturnInv

(* What a step of tab t leaves to be shown: the other tabs are as they were. *)
LEMMA OneTab ==
    ASSUME ReturnInv, NEW t \in Tabs, NEW w, NEW s, NEW p, NEW o,
           where' = [where EXCEPT ![t] = w], stored' = [stored EXCEPT ![t] = s],
           pc' = [pc EXCEPT ![t] = p], out' = [out EXCEPT ![t] = o],
           Returning(jar'), ReturnOf(t)'
    PROVE  ReturnInv'
<1>1. Functions'
  BY DEF ReturnInv, Functions, PerTab
<1>2. ASSUME NEW u \in Tabs \ {t}
      PROVE  ReturnOf(u)'
  <2>1. where'[u] = where[u] /\ stored'[u] = stored[u] /\ pc'[u] = pc[u] /\ out'[u] = out[u]
    BY DEF ReturnInv, Functions, PerTab
  <2> QED BY <2>1 DEF ReturnInv, ReturnOf
<1> QED BY <1>1, <1>2 DEF ReturnInv

(* The four functions at t after such a step. *)
LEMMA AtTab ==
    ASSUME Functions, NEW t \in Tabs, NEW w, NEW s, NEW p, NEW o,
           where' = [where EXCEPT ![t] = w], stored' = [stored EXCEPT ![t] = s],
           pc' = [pc EXCEPT ![t] = p], out' = [out EXCEPT ![t] = o]
    PROVE  where'[t] = w /\ stored'[t] = s /\ pc'[t] = p /\ out'[t] = o
BY DEF Functions, PerTab

(* A function of the tabs that stays is one that is given the value it has. *)
LEMMA Same ==
    ASSUME Functions, NEW t \in Tabs
    PROVE  /\ where = [where EXCEPT ![t] = where[t]] /\ stored = [stored EXCEPT ![t] = stored[t]]
           /\ pc = [pc EXCEPT ![t] = pc[t]] /\ out = [out EXCEPT ![t] = out[t]]
BY DEF Functions, PerTab

(* An answer that keeps the cookie, or sets one that returns to its own page. *)
LEMMA AnswerKeeps ==
    ASSUME ReturnInv, NEW t \in Tabs, NEW w, Place(t, w), where' = [where EXCEPT ![t] = w],
           NEW c, c = Keep \/ \E d : Returning(d) /\ c = Set(d),
           NEW tokens, NEW place, Answer(t, c, tokens, place), UNCHANGED <<jar, stored>>
    PROVE  ReturnInv'
<1>1. Functions /\ Returning(jar') /\ ReturnOf(t)
  BY DEF ReturnInv
<1>2. /\ pc' = [pc EXCEPT ![t] = "answered"] /\ out' = [out EXCEPT ![t] = c]
      /\ stored' = [stored EXCEPT ![t] = stored[t]]
  BY <1>1, Same DEF Answer
<1>3. where'[t] = w /\ stored'[t] = stored[t] /\ pc'[t] = "answered" /\ out'[t] = c
  BY <1>1, <1>2, AtTab
<1>4. ReturnOf(t)'
  BY <1>1, <1>3 DEF ReturnOf
<1> QED BY <1>1, <1>2, <1>4, OneTab

(* The same where the tab goes on to the page it was to return to. *)
LEMMA AnswerStays ==
    ASSUME ReturnInv, NEW t \in Tabs, UNCHANGED where,
           NEW c, c = Keep \/ \E d : Returning(d) /\ c = Set(d),
           NEW tokens, NEW place, Answer(t, c, tokens, place), UNCHANGED <<jar, stored>>
    PROVE  ReturnInv'
<1>1. where' = [where EXCEPT ![t] = where[t]] /\ Place(t, where[t])
  BY Same DEF ReturnInv, ReturnOf
<1> QED BY <1>1, AnswerKeeps

(* Clearing the cookie. *)
LEMMA ClearReturns == \E d : Returning(d) /\ Clear = Set(d)
BY SetIsSet DEF Returning

(* The browser sends a request, with the cookie it has. *)
LEMMA SendKeeps ==
    ASSUME ReturnInv, NEW t \in Tabs, Send(t), NEW w, Place(t, w),
           where' = [where EXCEPT ![t] = w]
    PROVE  ReturnInv'
<1>1. Functions /\ Returning(jar') /\ ReturnOf(t) /\ pc[t] = "none"
  BY DEF ReturnInv, Send
<1>2. /\ pc' = [pc EXCEPT ![t] = "sent"] /\ stored' = [stored EXCEPT ![t] = jar]
      /\ out' = [out EXCEPT ![t] = out[t]] /\ jar' = jar
  BY <1>1, Same DEF Send, answer
<1>3. where'[t] = w /\ stored'[t] = jar /\ pc'[t] = "sent" /\ out'[t] = out[t]
  BY <1>1, <1>2, AtTab
<1>4. ReturnOf(t)'
  BY <1>1, <1>2, <1>3 DEF ReturnOf
<1> QED BY <1>1, <1>2, <1>4, OneTab

(* The answer arrives, or is lost. *)
LEMMA SettledKeeps ==
    ASSUME ReturnInv, NEW t \in Tabs, Settled(t), UNCHANGED where, Returning(jar')
    PROVE  ReturnInv'
<1>1. Functions /\ ReturnOf(t)
  BY DEF ReturnInv
<1>2. /\ pc' = [pc EXCEPT ![t] = "none"] /\ stored' = [stored EXCEPT ![t] = NoCookie]
      /\ out' = [out EXCEPT ![t] = Keep] /\ where' = [where EXCEPT ![t] = where[t]]
  BY <1>1, Same DEF Settled
<1>3. where'[t] = where[t] /\ stored'[t] = NoCookie /\ pc'[t] = "none" /\ out'[t] = Keep
  BY <1>1, <1>2, AtTab
<1>4. ReturnOf(t)'
  BY <1>1, <1>3 DEF ReturnOf, Returning
<1> QED BY <1>1, <1>2, <1>4, OneTab

(* What the session storage returns is the cookie of the request, or nothing. *)
LEMMA GetReturns ==
    ASSUME ReturnInv, NEW t \in Tabs
    PROVE  /\ get(t) = stored[t] \/ get(t) = NoCookie
           /\ stored[t].kind = "flow" => get(t) = stored[t]
           /\ get(t).kind \in {"session", "flow"} => get(t) = stored[t]
           /\ Returning(get(t))
<1>1. Returning(stored[t])
  BY DEF ReturnInv, ReturnOf
<1> QED BY <1>1 DEF get, NoCookie, Returning

(* What a handler of tab t may have done, and found, when it awaits call p. *)
Ready(t, p, o) ==
    /\ o = Keep \/ \E c : Returning(c) /\ o = Set(c)
    /\ p \in {"token", "user"} => IsFlow(stored[t]) /\ stored[t].state = t
    /\ p \in {"user", "authinfo"} => o = Keep \/ \E c : IsSession(c) /\ o = Set(c)
    /\ p = "user" => o # Keep
    /\ p = "refresh" => IsSession(stored[t])

(* A handler that awaits a call, with the answer so far. *)
LEMMA AwaitKeeps ==
    ASSUME ReturnInv, NEW t \in Tabs, UNCHANGED <<jar, where, stored>>, NEW p, NEW o,
           pc' = [pc EXCEPT ![t] = p], out' = [out EXCEPT ![t] = o], Ready(t, p, o)
    PROVE  ReturnInv'
<1>1. Functions /\ ReturnOf(t) /\ Returning(jar')
  BY DEF ReturnInv
<1>2. stored' = [stored EXCEPT ![t] = stored[t]] /\ where' = [where EXCEPT ![t] = where[t]]
  BY <1>1, Same
<1>3. where'[t] = where[t] /\ stored'[t] = stored[t] /\ pc'[t] = p /\ out'[t] = o
  BY <1>1, <1>2 DEF Functions, PerTab
<1>4. ReturnOf(t)'
  BY <1>1, <1>3 DEF ReturnOf, Ready
<1> QED BY <1>1, <1>2, <1>4, OneTab

(* A step that is not about logins. *)
LEMMA NothingKeeps ==
    ASSUME ReturnInv, UNCHANGED <<jar, where, stored, pc, out>>
    PROVE  ReturnInv'
BY DEF ReturnInv, Functions, PerTab, ReturnOf

-----------------------------------------------------------------------------
(* The browser: requests are sent, answers arrive or are lost. *)
LEMMA BrowserKeeps ==
    ASSUME ReturnInv, NEW t \in Tabs,
           (\E place \in Asked : Ask(t, place)) \/ Follow(t) \/ Deliver(t) \/ Lose(t)
    PROVE  ReturnInv'
<1>1. CASE \E place \in Asked : Ask(t, place)
  <2>1. Send(t) /\ where' = [where EXCEPT ![t] = t] /\ Place(t, t)
    BY <1>1 DEF Ask, Place
  <2> QED BY <2>1, SendKeeps
<1>2. CASE Follow(t)
  <2>1. Send(t) /\ where' = [where EXCEPT ![t] = where[t]] /\ Place(t, where[t])
    BY <1>2, Same DEF Follow, ReturnInv, ReturnOf
  <2> QED BY <2>1, SendKeeps
<1>3. CASE Deliver(t)
  <2>1. Returning(jar')
    BY <1>3, SetIsSet DEF Deliver, ReturnInv, ReturnOf
  <2> QED BY <1>3, <2>1, SettledKeeps DEF Deliver
<1>4. CASE Lose(t)
  <2>1. Returning(jar')
    BY <1>4 DEF Lose, ReturnInv
  <2> QED BY <1>4, <2>1, SettledKeeps DEF Lose
<1> QED BY <1>1, <1>2, <1>3, <1>4

(* A login that begins again is to return to the start page. *)
LEMMA RedirectKeeps ==
    ASSUME ReturnInv, NEW t \in Tabs, redirectToLogin(t), UNCHANGED <<jar, stored>>
    PROVE  ReturnInv'
<1>1. Place(t, Base)
  BY DEF Place
<1> QED BY <1>1, ClearReturns, AnswerKeeps DEF redirectToLogin

(* The login: its nonce, the callback, the token and the user. *)
LEMMA LoginKeeps ==
    ASSUME ReturnInv, NEW t \in Tabs,
           \/ captureUrlFragment(t) \/ login(t) \/ callbackRefused(t) \/ callback(t)
           \/ callTokenEndpoint(t) \/ authenticateWithHeader(t) \/ callbackFails(t)
    PROVE  ReturnInv'
<1> USE DEF Unchanged
<1>1. CASE captureUrlFragment(t)
  BY <1>1, ClearReturns, AnswerStays DEF captureUrlFragment
<1>2. CASE login(t)
  <2>1. Returning(Flow(t, where[t]))
    BY DEF Returning, IsFlow, ReturnInv, ReturnOf
  <2> QED BY <1>2, <2>1, AnswerStays DEF login
<1>3. CASE callbackRefused(t)
  BY <1>3, RedirectKeeps DEF callbackRefused
<1>4. CASE callback(t)
  <2>1. get(t) = stored[t] /\ IsFlow(stored[t]) /\ stored[t].state = t
    BY <1>4, GetReturns, Kinds DEF callback, stateMatches
  <2>2. Ready(t, "token", out[t])
    BY <2>1 DEF Ready, ReturnInv, ReturnOf
  <2>3. pc' = [pc EXCEPT ![t] = "token"] /\ out' = [out EXCEPT ![t] = out[t]]
    BY <1>4, Same DEF callback, Await, answer, ReturnInv
  <2> QED BY <1>4, <2>2, <2>3, AwaitKeeps DEF callback
<1>5. CASE callTokenEndpoint(t)
  <2> DEFINE o == Set(Session(code[t], now + TokenLife, NewRefreshToken, 0))
  <2>1. IsSession(Session(code[t], now + TokenLife, NewRefreshToken, 0))
    BY DEF IsSession
  <2>2. IsFlow(stored[t]) /\ stored[t].state = t
    BY <1>5 DEF callTokenEndpoint, ReturnInv, ReturnOf
  <2>3. Ready(t, "user", o)
    BY <2>1, <2>2, SetIsSet DEF Ready, Returning
  <2>4. pc' = [pc EXCEPT ![t] = "user"] /\ out' = [out EXCEPT ![t] = o]
    BY <1>5 DEF callTokenEndpoint, Await
  <2> HIDE DEF o
  <2> QED BY <1>5, <2>3, <2>4, AwaitKeeps DEF callTokenEndpoint
<1>6. CASE authenticateWithHeader(t)
  <2>1. PICK c : IsSession(c) /\ out[t] = Set(c)
    BY <1>6 DEF authenticateWithHeader, ReturnInv, ReturnOf
  <2>2. Returning([out[t].value EXCEPT !.end = now + Ttl])
    BY <2>1, SetIsSet, Moved DEF Returning
  <2>3. Returning(stored[t]) /\ IsFlow(stored[t]) /\ stored[t].state = t
    BY <1>6 DEF authenticateWithHeader, ReturnInv, ReturnOf
  <2>4. Place(t, get(t).nextUrl)
    BY <2>3, GetReturns, Kinds
  <2> QED BY <1>6, <2>2, <2>4, AnswerKeeps DEF authenticateWithHeader
<1>7. CASE callbackFails(t)
  <2>1. UNCHANGED <<jar, stored>>
    BY <1>7 DEF callbackFails
  <2>2. CASE Answer(t, Keep, Keep, "app") /\ UNCHANGED where
    BY <2>1, <2>2, AnswerStays
  <2>3. CASE redirectToLogin(t)
    BY <2>1, <2>3, RedirectKeeps
  <2> QED BY <1>7, <2>2, <2>3 DEF callbackFails
<1> QED BY <1>1, <1>2, <1>3, <1>4, <1>5, <1>6, <1>7

(* A request whose session is not taken. *)
LEMMA RejectedKeeps ==
    ASSUME ReturnInv, NEW t \in Tabs, Rejected(t), UNCHANGED <<jar, stored, where>>
    PROVE  ReturnInv'
BY ClearReturns, AnswerStays DEF Rejected

(* The handler goes on with a session. *)
LEMMA ValidKeeps ==
    ASSUME ReturnInv, NEW t \in Tabs, UNCHANGED <<jar, where, stored>>, NEW c, IsSession(c),
           Valid(t, c)
    PROVE  ReturnInv'
<1> DEFINE o == IF Keepalive THEN Set([c EXCEPT !.end = now + Ttl]) ELSE Keep
<1>1. IsSession([c EXCEPT !.end = now + Ttl])
  BY Moved
<1>2. Ready(t, "authinfo", o)
  BY <1>1 DEF Ready, Returning
<1>3. pc' = [pc EXCEPT ![t] = "authinfo"] /\ out' = [out EXCEPT ![t] = o]
  BY DEF Valid, Await
<1> HIDE DEF o
<1> QED BY <1>2, <1>3, AwaitKeeps

(* The session: its token, its renewal, and the end of it. *)
LEMMA SessionKeeps ==
    ASSUME ReturnInv, NEW t \in Tabs,
           \/ invalidCookie(t) \/ isValidCookie(t) \/ renewToken(t) \/ Refreshed(t)
           \/ RefreshRefused(t) \/ Authinfo(t) \/ Unauthenticated(t)
           \/ \E user \in Users : getCookie(t, user)
           \/ logout(t)
    PROVE  ReturnInv'
<1> USE DEF Unchanged
<1>1. CASE invalidCookie(t)
  BY <1>1, RejectedKeeps DEF invalidCookie
<1>2. CASE isValidCookie(t)
  <2>1. IsSession(get(t))
    BY <1>2, GetReturns, Kinds DEF isValidCookie, HasToken
  <2> QED BY <1>2, <2>1, ValidKeeps DEF isValidCookie
<1>3. CASE renewToken(t)
  <2>1. IsSession(stored[t])
    BY <1>3, GetReturns, Kinds DEF renewToken, HasToken
  <2>2. Ready(t, "refresh", out[t])
    BY <2>1 DEF Ready, ReturnInv, ReturnOf
  <2>3. pc' = [pc EXCEPT ![t] = "refresh"] /\ out' = [out EXCEPT ![t] = out[t]]
    BY <1>3, Same DEF renewToken, Await, answer, ReturnInv
  <2> QED BY <1>3, <2>2, <2>3, AwaitKeeps DEF renewToken
<1>4. CASE Refreshed(t)
  <2>1. IsSession(renewedCredentials(t))
    BY DEF renewedCredentials, IsSession
  <2> QED BY <1>4, <2>1, ValidKeeps DEF Refreshed
<1>5. CASE RefreshRefused(t)
  BY <1>5, RejectedKeeps DEF RefreshRefused
<1>6. CASE Authinfo(t)
  <2>1. out[t] = Keep \/ \E c : Returning(c) /\ out[t] = Set(c)
    BY DEF ReturnInv, ReturnOf
  <2> QED BY <1>6, <2>1, AnswerStays DEF Authinfo
<1>7. CASE Unauthenticated(t)
  BY <1>7, ClearReturns, AnswerStays DEF Unauthenticated
<1>8. CASE \E user \in Users : getCookie(t, user)
  <2>1. PICK user \in Users : getCookie(t, user)
    BY <1>8
  <2>2. Returning(Session(user, 0, None, now + Ttl))
    BY DEF Returning, IsSession
  <2> QED BY <2>1, <2>2, AnswerStays DEF getCookie
<1>9. CASE logout(t)
  BY <1>9, ClearReturns, AnswerStays DEF logout
<1> QED BY <1>1, <1>2, <1>3, <1>4, <1>5, <1>6, <1>7, <1>8, <1>9

(* Every step of the browser, the server, the provider and the clock. *)
LEMMA ReturnInvNext ==
    ASSUME ReturnInv, [Next]_vars
    PROVE  ReturnInv'
<1>1. ASSUME NEW t \in Tabs, NEW user \in Users, Authenticate(t, user)
      PROVE  ReturnInv'
  BY <1>1, NothingKeeps DEF Authenticate, answer
<1>2. ASSUME NEW t \in Tabs, Server(t)
      PROVE  ReturnInv'
  BY <1>2, LoginKeeps, SessionKeeps DEF Server
<1>3. CASE Tick
  BY <1>3, NothingKeeps DEF Tick, browser, request, answer
<1>4. CASE UNCHANGED vars
  BY <1>4, NothingKeeps DEF vars, browser, request, answer
<1> QED BY <1>1, <1>2, <1>3, <1>4, BrowserKeeps DEF Next

(* The invariant of every behaviour. *)
THEOREM ReturnInvariant == Spec => []ReturnInv
<1>1. ReturnInv /\ [Next]_vars => ReturnInv'
  BY ReturnInvNext
<1> QED BY <1>1, ReturnInvInit, PTL DEF Spec

(* routes.ts answers a callback only with the nonce of its own login, and so sends  *)
(* no tab to the page of another, however the logins of several tabs, expired        *)
(* sessions and failures meet in the one cookie of the browser.               *)
THEOREM LoginReturnsToOwnPage == Spec => []ReturnsToOwnPage
<1>1. ReturnInv => ReturnsToOwnPage
  BY DEF ReturnInv, ReturnOf, Place, ReturnsToOwnPage
<1> QED BY <1>1, ReturnInvariant, PTL

-----------------------------------------------------------------------------
(* What the user has been told, and what the cookies are.                    *)

(* A request with the answer prepared for it. *)
View(t) == [at |-> at[t], pc |-> pc[t], stored |-> stored[t], token |-> token[t],
            out |-> out[t], extra |-> extra[t]]

Opens(o) == o # Keep /\ o.value.kind = "session"

(* What the answer can be at each stage. *)
Stage(v) ==
    /\ v.pc \in {"none", "sent", "token", "header", "refresh"} => v.out = Keep /\ v.extra = Keep
    /\ v.pc \in {"token", "user"} => v.at \in Presented /\ v.extra = Keep
    /\ v.pc = "user" =>
          v.out = Keep \/ (Opens(v.out) /\ v.out.value.user = v.token.user)
    /\ v.pc \in {"refresh", "authinfo", "leaving"} => v.stored.kind = "session"
    /\ v.pc = "refresh" => v.at \in Guarded
    /\ v.pc = "authinfo" =>
          /\ v.at \notin Presented \cup {"logout"} /\ v.out # Clear
          /\ v.extra = Keep \/ v.at \in Guarded
    /\ v.pc = "leaving" => v.at = "logout" /\ v.out # Clear
    /\ v.at = "idp" => v.pc = "none"

(* An answer to somebody who has presented something opens a session with its    *)
(* token beside it, or neither; that of a logout clears both or nothing.        *)
Consistent(v) ==
    v.pc = "answered" =>
        /\ v.at \in Presented =>
              IF v.extra = Keep THEN ~Opens(v.out)
              ELSE Opens(v.out) /\ v.extra.value.user = v.out.value.user
        /\ v.at = "logout" =>
              \/ v.out # Clear /\ v.extra = Keep
              \/ v.out = Clear /\ v.extra \in {Set(NoToken), Set(Remnant)}

(* What a request that presents nothing new may answer, given what the user knows. *)
Faithful(place, o, x) ==
    place \notin Presented =>
        /\ told.kind = "out" => ~Opens(o) /\ (x = Keep \/ x.value \in {NoToken, Remnant})
        /\ told.kind = "in" =>
              /\ Opens(o) => o.value.user = told.user
              /\ x # Keep /\ place # "logout" => x.value.user = told.user

(* A request under way was sent since the user was told what they were: with the    *)
(* cookies of that time, and with an answer that changes nothing about it, unless   *)
(* it presents something new.                                                *)
Own(v) ==
    v.pc # "none" =>
        /\ told.kind = "out" => v.stored.kind # "session"
        /\ told.kind = "in" /\ v.stored.kind = "session" => v.stored.user = told.user
        /\ Faithful(v.at, v.out, v.extra)

CookieTab(v) == Stage(v) /\ Consistent(v) /\ Own(v)

Holder ==
    /\ told.kind = "out" => jar.kind # "session" /\ pieces \in {NoToken, Remnant}
    /\ told.kind = "in" =>
          pieces.user = told.user /\ (jar.kind = "session" => jar.user = told.user)

Single == \A t \in alone : pc[t] # "none" /\ \A u \in Tabs \ {t} : pc[u] = "none"

Views ==
    PerTab(at) /\ PerTab(pc) /\ PerTab(stored) /\ PerTab(token) /\ PerTab(out) /\ PerTab(extra)

CookieInv == Views /\ Holder /\ Single /\ \A t \in Tabs : CookieTab(View(t))

-----------------------------------------------------------------------------
(* Kinds of cookies and of what was told. *)
LEMMA CookieKinds ==
    /\ NoCookie.kind = "none"
    /\ \A u, i, r, e : /\ Session(u, i, r, e).kind = "session" /\ Session(u, i, r, e).user = u
                       /\ Session(u, i, r, e).refresh = r
    /\ \A t, n : Flow(t, n).kind = "flow"
    /\ \A u : IdToken(u).user = u
BY DEF NoCookie, Session, Flow, IdToken

LEMMA Tellings ==
    /\ Unknown.kind = "unknown" /\ LoggedOut.kind = "out"
    /\ \A u : LoggedIn(u).kind = "in" /\ LoggedIn(u).user = u
BY DEF Unknown, LoggedOut, LoggedIn

(* The state of tab t becomes v, and the others keep theirs. *)
Becomes(t, v) ==
    /\ at' = [at EXCEPT ![t] = v.at] /\ pc' = [pc EXCEPT ![t] = v.pc]
    /\ stored' = [stored EXCEPT ![t] = v.stored] /\ token' = [token EXCEPT ![t] = v.token]
    /\ out' = [out EXCEPT ![t] = v.out] /\ extra' = [extra EXCEPT ![t] = v.extra]

LEMMA BecomesView ==
    ASSUME Views, NEW t \in Tabs, NEW v, Becomes(t, v)
    PROVE  /\ Views'
           /\ at'[t] = v.at /\ pc'[t] = v.pc /\ stored'[t] = v.stored
           /\ token'[t] = v.token /\ out'[t] = v.out /\ extra'[t] = v.extra
           /\ \A u \in Tabs \ {t} : View(u)' = View(u) /\ pc'[u] = pc[u]
BY DEF Views, PerTab, Becomes, View

LEMMA StaysSo ==
    ASSUME Views, NEW t \in Tabs
    PROVE  /\ at = [at EXCEPT ![t] = at[t]] /\ pc = [pc EXCEPT ![t] = pc[t]]
           /\ stored = [stored EXCEPT ![t] = stored[t]] /\ token = [token EXCEPT ![t] = token[t]]
           /\ out = [out EXCEPT ![t] = out[t]] /\ extra = [extra EXCEPT ![t] = extra[t]]
BY DEF Views, PerTab

(* A handler of tab t comes from its request to v: nothing else changes. *)
LEMMA ServerStep ==
    ASSUME CookieInv, NEW t \in Tabs, pc[t] # "none", NEW v, Becomes(t, v), v.pc # "none",
           UNCHANGED <<jar, pieces, told, alone>>, CookieTab(v)
    PROVE  CookieInv'
<1>1. Views' /\ pc'[t] = v.pc /\ \A u \in Tabs \ {t} : View(u)' = View(u) /\ pc'[u] = pc[u]
  BY BecomesView DEF CookieInv
<1>2. Holder'
  BY DEF CookieInv, Holder
<1>3. Single'
  BY <1>1 DEF CookieInv, Single
<1>4. ASSUME NEW u \in Tabs \ {t}
      PROVE  CookieTab(View(u))'
  <2>1. CookieTab(View(u)) /\ View(u)' = View(u)
    BY <1>1 DEF CookieInv
  <2> QED BY <2>1 DEF CookieTab, Stage, Consistent, Own, Faithful
<1>5. CookieTab(View(t))'
  <2>1. /\ at'[t] = v.at /\ pc'[t] = v.pc /\ stored'[t] = v.stored
        /\ token'[t] = v.token /\ out'[t] = v.out /\ extra'[t] = v.extra
    BY BecomesView DEF CookieInv
  <2> QED BY <2>1 DEF CookieTab, View, Stage, Consistent, Own, Faithful
<1> QED BY <1>1, <1>2, <1>3, <1>4, <1>5 DEF CookieInv

(* What an answer of tab t has to be. *)
Proper(t, o, x) ==
    /\ at[t] \in Presented =>
          IF x = Keep THEN ~Opens(o) ELSE Opens(o) /\ x.value.user = o.value.user
    /\ at[t] = "logout" =>
          \/ o # Clear /\ x = Keep
          \/ o = Clear /\ x \in {Set(NoToken), Set(Remnant)}
    /\ Faithful(at[t], o, x)

LEMMA AnswerStep ==
    ASSUME CookieInv, NEW t \in Tabs, pc[t] # "none", NEW o, NEW x, NEW place,
           Answer(t, o, x, place), UNCHANGED <<jar, pieces, at, stored, token, told, alone>>,
           Proper(t, o, x)
    PROVE  CookieInv'
<1> DEFINE v == [at |-> at[t], pc |-> "answered", stored |-> stored[t], token |-> token[t],
                 out |-> o, extra |-> x]
<1>1. Becomes(t, v)
  BY StaysSo DEF CookieInv, Becomes, Answer
<1>2. CookieTab(v)
  BY DEF CookieInv, CookieTab, View, Stage, Consistent, Own, Proper
<1>3. v.pc # "none"
  OBVIOUS
<1> HIDE DEF v
<1> QED BY <1>1, <1>2, <1>3, ServerStep

(* An answer that opens no session and leaves the token alone. *)
LEMMA PlainAnswer ==
    ASSUME CookieInv, NEW t \in Tabs, pc[t] # "none", NEW o, ~Opens(o), NEW place,
           Answer(t, o, Keep, place), UNCHANGED <<jar, pieces, at, stored, token, told, alone>>,
           at[t] = "logout" => o # Clear
    PROVE  CookieInv'
<1>1. Proper(t, o, Keep)
  BY DEF Proper, Faithful
<1> QED BY <1>1, AnswerStep

(* Answers that open no session, and cookies that do. *)
LEMMA PlainAnswers ==
    /\ ~Opens(Keep) /\ ~Opens(Clear) /\ Keep # Clear
    /\ \A tab, url : ~Opens(Set(Flow(tab, url)))
    /\ \A c : Opens(Set(c)) <=> c.kind = "session"
BY SetIsSet, CookieKinds DEF Opens

(* A request is sent with the cookies of the browser. *)
LEMMA SendStep ==
    ASSUME CookieInv, NEW t \in Tabs, Send(t), NEW place, at' = [at EXCEPT ![t] = place],
           place # "idp"
    PROVE  CookieInv'
<1> DEFINE v == [at |-> place, pc |-> "sent", stored |-> jar, token |-> pieces,
                 out |-> out[t], extra |-> extra[t]]
<1>1. Becomes(t, v) /\ pc[t] = "none" /\ UNCHANGED <<jar, pieces, told>>
  BY StaysSo DEF CookieInv, Becomes, Send, answer
<1>2. out[t] = Keep /\ extra[t] = Keep
  BY <1>1 DEF CookieInv, CookieTab, Stage, View
<1>3. /\ v.pc = "sent"
      /\ v.at = place
      /\ v.stored = jar
      /\ v.token = pieces
      /\ v.out = Keep
      /\ v.extra = Keep
  BY <1>2
<1> HIDE DEF v
<1>4. /\ Views' /\ \A u \in Tabs \ {t} : View(u)' = View(u) /\ pc'[u] = pc[u]
      /\ at'[t] = v.at /\ pc'[t] = v.pc /\ stored'[t] = v.stored
      /\ token'[t] = v.token /\ out'[t] = v.out /\ extra'[t] = v.extra
  BY <1>1, BecomesView DEF CookieInv
<1>5. Holder'
  BY <1>1 DEF CookieInv, Holder
<1>6. alone' \subseteq {t} /\ (t \in alone' => \A u \in Tabs : pc[u] = "none")
  BY DEF Send, InFlight
<1>7. Single'
  BY <1>3, <1>4, <1>6 DEF Single
<1>8. ASSUME NEW u \in Tabs \ {t}
      PROVE  CookieTab(View(u))'
  <2>1. CookieTab(View(u)) /\ View(u)' = View(u) /\ u \notin alone'
    BY <1>4, <1>6 DEF CookieInv
  <2> QED BY <2>1, <1>1 DEF CookieTab, Stage, Consistent, Own, Faithful
<1>9. CookieTab(View(t))'
  BY <1>1, <1>3, <1>4, PlainAnswers
     DEF CookieInv, Holder, CookieTab, View, Stage, Consistent, Own, Faithful
<1> QED BY <1>4, <1>5, <1>7, <1>8, <1>9 DEF CookieInv

(* A tab without a request moves to another place. *)
LEMMA MoveStep ==
    ASSUME CookieInv, NEW t \in Tabs, at[t] = "idp", NEW place, at' = [at EXCEPT ![t] = place],
           UNCHANGED <<jar, pieces, pc, stored, token, out, extra, told, alone>>
    PROVE  CookieInv'
<1> DEFINE v == [at |-> place, pc |-> pc[t], stored |-> stored[t], token |-> token[t],
                 out |-> out[t], extra |-> extra[t]]
<1>1. Becomes(t, v)
  BY StaysSo DEF CookieInv, Becomes
<1>2. pc[t] = "none"
  BY DEF CookieInv, CookieTab, Stage, View
<1>3. v.pc = "none" /\ v.out = out[t] /\ v.extra = extra[t]
  BY <1>2
<1> HIDE DEF v
<1>4. /\ Views' /\ \A u \in Tabs \ {t} : View(u)' = View(u) /\ pc'[u] = pc[u]
      /\ at'[t] = v.at /\ pc'[t] = v.pc /\ stored'[t] = v.stored
      /\ token'[t] = v.token /\ out'[t] = v.out /\ extra'[t] = v.extra
  BY <1>1, BecomesView DEF CookieInv
<1>5. Holder' /\ Single'
  BY <1>2, <1>4 DEF CookieInv, Holder, Single
<1>6. ASSUME NEW u \in Tabs \ {t}
      PROVE  CookieTab(View(u))'
  <2>1. CookieTab(View(u)) /\ View(u)' = View(u)
    BY <1>4 DEF CookieInv
  <2> QED BY <2>1 DEF CookieTab, Stage, Consistent, Own, Faithful
<1>7. t \notin alone
  BY <1>2 DEF CookieInv, Single
<1>8. CookieTab(View(t))'
  BY <1>2, <1>3, <1>4, <1>7 DEF CookieInv, CookieTab, View, Stage, Consistent, Own
<1> QED BY <1>4, <1>5, <1>6, <1>8 DEF CookieInv

(* The request of tab t ends, and the browser's cookies are those the user knows of. *)
LEMMA SettledStep ==
    ASSUME CookieInv, NEW t \in Tabs, pc[t] # "none", Settled(t),
           NEW place, at' = [at EXCEPT ![t] = place], Holder',
           told' = told \/ told' = Unknown \/ t \in alone
    PROVE  CookieInv'
<1> DEFINE v == [at |-> place, pc |-> "none", stored |-> NoCookie, token |-> NoToken,
                 out |-> Keep, extra |-> Keep]
<1>1. Becomes(t, v) /\ alone' = {}
  BY StaysSo DEF CookieInv, Becomes, Settled
<1>2. v.pc = "none" /\ v.out = Keep /\ v.extra = Keep
  OBVIOUS
<1> HIDE DEF v
<1>3. /\ Views' /\ \A u \in Tabs \ {t} : View(u)' = View(u) /\ pc'[u] = pc[u]
      /\ at'[t] = v.at /\ pc'[t] = v.pc /\ stored'[t] = v.stored
      /\ token'[t] = v.token /\ out'[t] = v.out /\ extra'[t] = v.extra
  BY <1>1, BecomesView DEF CookieInv
<1>4. Single'
  BY <1>1 DEF Single
<1>5. ASSUME NEW u \in Tabs \ {t}
      PROVE  CookieTab(View(u))'
  <2>1. CookieTab(View(u)) /\ View(u)' = View(u)
    BY <1>3 DEF CookieInv
  <2>2. Stage(View(u))' /\ Consistent(View(u))'
    BY <1>1, <2>1 DEF CookieTab, Stage, Consistent
  <2>3. Own(View(u))'
    <3>1. CASE told' = told
      BY <2>1, <3>1 DEF CookieTab, Own, Faithful
    <3>2. CASE told' = Unknown
      BY <2>1, <3>2, Tellings DEF CookieTab, Own, Faithful
    <3>3. CASE t \in alone
      <4>1. View(u).pc = "none"
        BY <3>3 DEF CookieInv, Single, View
      <4> QED BY <2>1, <4>1 DEF Own
    <3> QED BY <3>1, <3>2, <3>3
  <2> QED BY <2>2, <2>3 DEF CookieTab
<1>6. CookieTab(View(t))'
  BY <1>1, <1>2, <1>3 DEF CookieTab, View, Stage, Consistent, Own
<1> QED BY <1>3, <1>4, <1>5, <1>6, <1>1 DEF CookieInv

(* The user is told of a login or a logout that ends with nothing else under way. *)
LEMMA DeliverStep ==
    ASSUME CookieInv, NEW t \in Tabs, Deliver(t)
    PROVE  CookieInv'
<1>1. pc[t] = "answered" /\ Settled(t) /\ at' = [at EXCEPT ![t] = goes[t]]
  BY DEF Deliver
<1>2. /\ Consistent(View(t)) /\ Own(View(t)) /\ Holder
      /\ Faithful(at[t], out[t], extra[t])
  BY <1>1 DEF CookieInv, CookieTab, View, Own
<1>3. CASE at[t] \in Presented /\ out[t] # Keep /\ out[t].value.kind = "session"
  <2>1. told' = IF t \in alone THEN LoggedIn(out[t].value.user) ELSE Unknown
    BY <1>3 DEF Deliver
  <2>2. extra[t] # Keep /\ extra[t].value.user = out[t].value.user
    BY <1>1, <1>2, <1>3 DEF Consistent, View, Opens
  <2>3. jar' = out[t].value /\ pieces' = extra[t].value
    BY <1>3, <2>2 DEF Deliver
  <2>4. Holder'
    BY <2>1, <2>2, <2>3, Tellings DEF Holder
  <2> QED BY <1>1, <2>1, <2>4, SettledStep
<1>4. CASE at[t] = "logout" /\ out[t] = Clear
  <2>1. told' = IF t \in alone THEN LoggedOut ELSE Unknown
    BY <1>4 DEF Deliver, Presented
  <2>2. jar' = NoCookie
    BY <1>4, SetIsSet DEF Deliver
  <2>3. pieces' \in {NoToken, Remnant}
    <3>1. extra[t] \in {Set(NoToken), Set(Remnant)}
      BY <1>1, <1>2, <1>4 DEF Consistent, View
    <3> QED BY <3>1, SetIsSet DEF Deliver
  <2>4. Holder'
    BY <2>1, <2>2, <2>3, Tellings, CookieKinds DEF Holder
  <2> QED BY <1>1, <2>1, <2>4, SettledStep
<1>5. CASE /\ ~(at[t] \in Presented /\ out[t] # Keep /\ out[t].value.kind = "session")
           /\ ~(at[t] = "logout" /\ out[t] = Clear)
  <2>1. told' = told
    BY <1>5 DEF Deliver
  <2>2. jar' = (IF out[t] = Keep THEN jar ELSE out[t].value)
        /\ pieces' = (IF extra[t] = Keep THEN pieces ELSE extra[t].value)
    BY DEF Deliver
  <2>3. CASE at[t] \in Presented
    <3>1. extra[t] = Keep /\ ~Opens(out[t])
      BY <1>1, <1>2, <1>5, <2>3 DEF Consistent, View, Opens
    <3>2. Holder'
      BY <1>2, <2>1, <2>2, <3>1 DEF Holder, Opens
    <3> QED BY <1>1, <2>1, <3>2, SettledStep
  <2>4. CASE at[t] \notin Presented
    <3>1. at[t] = "logout" => extra[t] = Keep
      BY <1>1, <1>2, <1>5 DEF Consistent, View
    <3>2. Holder'
      BY <1>2, <2>1, <2>2, <2>4, <3>1 DEF Holder, Faithful, Opens
    <3> QED BY <1>1, <2>1, <3>2, SettledStep
  <2> QED BY <2>3, <2>4
<1> QED BY <1>3, <1>4, <1>5

(* The steps of the browser that both flows have. *)
LEMMA BrowserStep ==
    ASSUME CookieInv, NEW t \in Tabs,
           \/ \E place \in Asked \cup SamlAsked : Ask(t, place)
           \/ at[t] # "idp" /\ Send(t) /\ UNCHANGED at
           \/ \E user \in Users : Authenticate(t, user)
           \/ Deliver(t) \/ Lose(t)
    PROVE  CookieInv'
<1>1. CASE \E place \in Asked \cup SamlAsked : Ask(t, place)
  BY <1>1, SendStep DEF Ask, Asked, SamlAsked
<1>2. CASE at[t] # "idp" /\ Send(t) /\ UNCHANGED at
  BY <1>2, SendStep, StaysSo DEF CookieInv
<1>3. CASE \E user \in Users : Authenticate(t, user)
  BY <1>3, MoveStep DEF Authenticate, answer, history
<1>4. CASE Deliver(t)
  BY <1>4, DeliverStep
<1>5. CASE Lose(t)
  BY <1>5, SettledStep DEF Lose, CookieInv, Holder
<1> QED BY <1>1, <1>2, <1>3, <1>4, <1>5

-----------------------------------------------------------------------------
(* What the handlers of both flows do with the cookies.                       *)

(* The request of tab t, when it has come so far. *)
Request(t, a, p, k, o, x) ==
    [at |-> a, pc |-> p, stored |-> stored[t], token |-> k, out |-> o, extra |-> x]

Handles(t, a, p, k, o, x) ==
    /\ at' = [at EXCEPT ![t] = a] /\ pc' = [pc EXCEPT ![t] = p]
    /\ token' = [token EXCEPT ![t] = k] /\ out' = [out EXCEPT ![t] = o]
    /\ extra' = [extra EXCEPT ![t] = x] /\ UNCHANGED <<jar, pieces, stored, told, alone>>

(* A handler goes on, with token k and the answer o and x prepared. *)
LEMMA AwaitStep ==
    ASSUME CookieInv, NEW t \in Tabs, pc[t] # "none", NEW a, NEW p, NEW k, NEW o, NEW x,
           Handles(t, a, p, k, o, x),
           p \notin {"none", "answered"}, Faithful(a, o, x),
           Stage(Request(t, a, p, k, o, x))
    PROVE  CookieInv'
<1> DEFINE v == Request(t, a, p, k, o, x)
<1>1. Becomes(t, v)
  BY StaysSo DEF CookieInv, Becomes, Request, Handles
<1>2. CookieTab(v)
  BY DEF CookieInv, CookieTab, View, Consistent, Own, Request
<1>3. v.pc # "none"
  BY DEF Request
<1>4. UNCHANGED <<jar, pieces, told, alone>>
  BY DEF Handles
<1> HIDE DEF v
<1> QED BY <1>1, <1>2, <1>3, <1>4, ServerStep

(* The same where only the call that is awaited changes. *)
LEMMA CallStep ==
    ASSUME CookieInv, NEW t \in Tabs, pc[t] # "none", NEW p, pc' = [pc EXCEPT ![t] = p],
           UNCHANGED <<at, jar, pieces, stored, token, out, extra, told, alone>>,
           p \notin {"none", "answered"}, Stage(Request(t, at[t], p, token[t], out[t], extra[t]))
    PROVE  CookieInv'
<1>1. Handles(t, at[t], p, token[t], out[t], extra[t])
  BY StaysSo DEF CookieInv, Handles
<1>2. Faithful(at[t], out[t], extra[t])
  BY DEF CookieInv, CookieTab, Own, View
<1> QED BY <1>1, <1>2, AwaitStep

(* What is known of a request under way. *)
LEMMA UnderWay ==
    ASSUME CookieInv, NEW t \in Tabs, pc[t] # "none"
    PROVE  /\ pc[t] \in {"sent", "token", "header", "refresh"} => out[t] = Keep /\ extra[t] = Keep
           /\ pc[t] \in {"token", "user"} => at[t] \in Presented /\ extra[t] = Keep
           /\ pc[t] \in {"refresh", "authinfo", "leaving"} => stored[t].kind = "session"
           /\ pc[t] = "refresh" => at[t] \in Guarded
           /\ pc[t] = "authinfo" =>
                 /\ at[t] \notin Presented \cup {"logout"} /\ out[t] # Clear
                 /\ extra[t] = Keep \/ at[t] \in Guarded
           /\ pc[t] = "leaving" => at[t] = "logout" /\ out[t] # Clear
           /\ pc[t] = "user" => out[t] = Keep \/ (Opens(out[t]) /\ out[t].value.user = token[t].user)
           /\ told.kind = "out" => stored[t].kind # "session"
           /\ told.kind = "in" /\ stored[t].kind = "session" => stored[t].user = told.user
           /\ Faithful(at[t], out[t], extra[t])
           /\ at[t] # "idp"
BY DEF CookieInv, CookieTab, Stage, Own, View

(* A session moved to another end is of the same user. *)
Ending(c, end) == [c EXCEPT !.end = end]

LEMMA MovedSame ==
    ASSUME NEW c, IsSession(c), NEW end
    PROVE  /\ IsSession(Ending(c, end))
           /\ Ending(c, end).kind = "session" /\ Ending(c, end).user = c.user
           /\ Ending(c, end).refresh = c.refresh
<1>1. PICK u, i, r, e : c = Session(u, i, r, e)
  BY DEF IsSession
<1>2. Ending(c, end) = Session(u, i, r, end)
  BY <1>1 DEF Session, Ending
<1> QED BY <1>1, <1>2, CookieKinds DEF IsSession

(* A request whose session is refused. *)
LEMMA RejectedStep ==
    ASSUME CookieInv, NEW t \in Tabs, pc[t] # "none", Rejected(t), at[t] # "logout",
           UNCHANGED <<jar, pieces, at, stored, token, told, alone>>
    PROVE  CookieInv'
BY PlainAnswer, PlainAnswers DEF Rejected

LEMMA UnauthenticatedStep ==
    ASSUME CookieInv, NEW t \in Tabs, Unauthenticated(t)
    PROVE  CookieInv'
<1>1. pc[t] = "authinfo"
  BY DEF Unauthenticated
<1>2. Proper(t, Clear, extra[t])
  BY <1>1, UnderWay, PlainAnswers DEF Proper, Faithful
<1>3. UNCHANGED <<jar, pieces, at, stored, token, told, alone>>
  BY DEF Unauthenticated, Unchanged, history
<1>4. PICK place : Answer(t, Clear, extra[t], place)
  BY DEF Unauthenticated
<1> QED BY <1>1, <1>2, <1>3, <1>4, AnswerStep

LEMMA GetCookieStep ==
    ASSUME CookieInv, NEW t \in Tabs, NEW user \in Users, getCookie(t, user)
    PROVE  CookieInv'
<1> DEFINE o == Set(Session(user, 0, None, now + Ttl))
<1> DEFINE x == Set(IdToken(user))
<1>1. Opens(o) /\ o.value.user = user /\ x # Keep /\ x.value.user = user
  BY SetIsSet, CookieKinds DEF Opens
<1>2. pc[t] # "none" /\ at[t] = "bearer" /\ Answer(t, o, x, "app")
      /\ UNCHANGED <<jar, pieces, at, stored, token, told, alone>>
  BY DEF getCookie, Arrived, Unchanged, history
<1> HIDE DEF o, x
<1>3. Proper(t, o, x)
  BY <1>1, <1>2 DEF Proper, Faithful, Presented
<1> QED BY <1>2, <1>3, AnswerStep

(* The handler goes on with the session it came with, or its renewal. *)
LEMMA ValidStep ==
    ASSUME CookieInv, NEW t \in Tabs, pc[t] # "none", at[t] \in Guarded, stored[t].kind = "session",
           NEW o, o = Keep \/ (Opens(o) /\ o.value.user = stored[t].user),
           NEW x, x = Keep \/ (x # Keep /\ x.value.user = stored[t].user), NEW k,
           pc' = [pc EXCEPT ![t] = "authinfo"], token' = [token EXCEPT ![t] = k],
           out' = [out EXCEPT ![t] = o], extra' = [extra EXCEPT ![t] = x],
           UNCHANGED <<at, jar, pieces, stored, told, alone>>
    PROVE  CookieInv'
<1>1. Handles(t, at[t], "authinfo", k, o, x)
  BY StaysSo DEF CookieInv, Handles
<1>2. Faithful(at[t], o, x)
  BY UnderWay, PlainAnswers DEF Faithful
<1>3. Stage(Request(t, at[t], "authinfo", k, o, x))
  BY PlainAnswers DEF Stage, Guarded, Presented, Request
<1> QED BY <1>1, <1>2, <1>3, AwaitStep

-----------------------------------------------------------------------------
(* OpenID Connect. *)
LEMMA CookieInvInit ==
    ASSUME Idle, NewBrowser \/ \E user, i, r, e : EarlierVisit(Session(user, i, r, e))
    PROVE  CookieInv
<1>1. Views
  BY DEF Idle, Views, PerTab
<1>2. Holder
  BY Tellings, CookieKinds DEF NewBrowser, EarlierVisit, Holder
<1>3. Single
  BY DEF Idle, Single
<1>4. ASSUME NEW t \in Tabs
      PROVE  CookieTab(View(t))
  BY DEF Idle, CookieTab, View, Stage, Consistent, Own
<1> QED BY <1>1, <1>2, <1>3, <1>4 DEF CookieInv

LEMMA OpenIdLoginStep ==
    ASSUME CookieInv, ReturnInv, NEW t \in Tabs,
           \/ captureUrlFragment(t) \/ login(t) \/ callbackRefused(t) \/ callback(t)
           \/ callTokenEndpoint(t) \/ authenticateWithHeader(t) \/ callbackFails(t)
    PROVE  CookieInv'
<1> USE DEF Unchanged, history
<1>1. CASE captureUrlFragment(t)
  BY <1>1, PlainAnswer, PlainAnswers DEF captureUrlFragment, Arrived
<1>2. CASE login(t)
  BY <1>2, PlainAnswer, PlainAnswers DEF login, Arrived
<1>3. CASE callbackRefused(t)
  BY <1>3, PlainAnswer, PlainAnswers DEF callbackRefused, redirectToLogin, Arrived
<1>4. CASE callback(t)
  <2>1. pc[t] = "sent" /\ at[t] = "callback" /\ pc' = [pc EXCEPT ![t] = "token"]
        /\ UNCHANGED <<at, jar, pieces, stored, token, out, extra, told, alone>>
    BY <1>4 DEF callback, Arrived, Await, answer
  <2>2. Stage(Request(t, at[t], "token", token[t], out[t], extra[t]))
    BY <2>1, UnderWay DEF Stage, Request, Presented
  <2> QED BY <2>1, <2>2, CallStep
<1>5. CASE callTokenEndpoint(t)
  <2> DEFINE o == Set(Session(code[t], now + TokenLife, NewRefreshToken, 0))
  <2>1. Opens(o) /\ o.value.user = code[t] /\ IdToken(code[t]).user = code[t]
    BY SetIsSet, CookieKinds DEF Opens
  <2>2. pc[t] = "token"
    BY <1>5 DEF callTokenEndpoint
  <2>3. Handles(t, at[t], "user", IdToken(code[t]), o, extra[t])
    BY <1>5, StaysSo DEF callTokenEndpoint, Await, Handles, CookieInv
  <2> HIDE DEF o
  <2>4. at[t] \in Presented /\ extra[t] = Keep
    BY <2>2, UnderWay
  <2>5. Faithful(at[t], o, extra[t])
    BY <2>4 DEF Faithful, Presented
  <2>6. Stage(Request(t, at[t], "user", IdToken(code[t]), o, extra[t]))
    BY <2>1, <2>4 DEF Stage, Request, Presented
  <2> QED BY <2>2, <2>3, <2>5, <2>6, AwaitStep
<1>6. CASE authenticateWithHeader(t)
  <2> DEFINE o == Set(Ending(out[t].value, now + Ttl))
  <2> DEFINE x == Set(token[t])
  <2>1. PICK c : IsSession(c) /\ out[t] = Set(c)
    BY <1>6 DEF authenticateWithHeader, ReturnInv, ReturnOf
  <2>2. Opens(o) /\ o.value.user = out[t].value.user
    BY <2>1, SetIsSet, MovedSame DEF Opens
  <2>3. x # Keep /\ x.value = token[t]
    BY SetIsSet
  <2>4. pc[t] = "user" /\ Answer(t, o, x, "app")
        /\ UNCHANGED <<jar, pieces, at, stored, token, told, alone>>
    BY <1>6 DEF authenticateWithHeader, Ending
  <2> HIDE DEF o, x
  <2>5. Proper(t, o, x)
    BY <2>1, <2>2, <2>3, <2>4, UnderWay, SetIsSet DEF Proper, Faithful, Presented
  <2> QED BY <2>4, <2>5, AnswerStep
<1>7. CASE callbackFails(t)
  BY <1>7, PlainAnswer, PlainAnswers, UnderWay DEF callbackFails, redirectToLogin, Presented
<1> QED BY <1>1, <1>2, <1>3, <1>4, <1>5, <1>6, <1>7

LEMMA OpenIdSessionStep ==
    ASSUME CookieInv, ReturnInv, NEW t \in Tabs,
           \/ invalidCookie(t) \/ isValidCookie(t) \/ renewToken(t) \/ Refreshed(t)
           \/ RefreshRefused(t) \/ Authinfo(t) \/ logout(t)
    PROVE  CookieInv'
<1> USE DEF Unchanged, history
<1>1. CASE invalidCookie(t)
  BY <1>1, RejectedStep DEF invalidCookie, Guarded
<1>2. CASE isValidCookie(t)
  <2> DEFINE o == IF Keepalive THEN Set(Ending(get(t), now + Ttl)) ELSE Keep
  <2>1. get(t) = stored[t] /\ IsSession(stored[t]) /\ stored[t].kind = "session"
    BY <1>2, GetReturns, Kinds DEF isValidCookie, HasToken
  <2>2. o = Keep \/ (Opens(o) /\ o.value.user = stored[t].user)
    BY <2>1, MovedSame, SetIsSet DEF Opens
  <2>3. /\ pc[t] = "sent" /\ at[t] \in Guarded /\ pc' = [pc EXCEPT ![t] = "authinfo"]
        /\ out' = [out EXCEPT ![t] = o]
        /\ UNCHANGED <<at, jar, pieces, stored, token, extra, told, alone>>
    BY <1>2 DEF isValidCookie, Valid, Await, Ending
  <2>4. token' = [token EXCEPT ![t] = token[t]] /\ extra' = [extra EXCEPT ![t] = extra[t]]
        /\ extra[t] = Keep
    BY <2>3, StaysSo, UnderWay DEF CookieInv
  <2> HIDE DEF o
  <2> QED BY <2>1, <2>2, <2>3, <2>4, ValidStep
<1>3. CASE renewToken(t)
  <2>1. stored[t].kind = "session"
    BY <1>3, GetReturns, Kinds DEF renewToken, HasToken
  <2>2. pc[t] = "sent" /\ at[t] \in Guarded /\ pc' = [pc EXCEPT ![t] = "refresh"]
        /\ UNCHANGED <<at, jar, pieces, stored, token, out, extra, told, alone>>
    BY <1>3 DEF renewToken, Await, answer
  <2>3. Stage(Request(t, at[t], "refresh", token[t], out[t], extra[t]))
    BY <2>1, <2>2, UnderWay DEF Stage, Request, Guarded
  <2> QED BY <2>2, <2>3, CallStep
<1>4. CASE Refreshed(t)
  <2> DEFINE c == renewedCredentials(t)
  <2> DEFINE o == IF Keepalive THEN Set(Ending(c, now + Ttl)) ELSE Keep
  <2> DEFINE x == Set(IdToken(stored[t].user))
  <2>1. pc[t] = "refresh" /\ stored[t].kind = "session" /\ at[t] \in Guarded
    BY <1>4, UnderWay DEF Refreshed
  <2>2. IsSession(c) /\ c.user = stored[t].user
    BY CookieKinds DEF renewedCredentials, IsSession
  <2>3. o = Keep \/ (Opens(o) /\ o.value.user = stored[t].user)
    BY <2>2, MovedSame, SetIsSet DEF Opens
  <2>4. x = Keep \/ (x # Keep /\ x.value.user = stored[t].user)
    BY SetIsSet, CookieKinds
  <2>5. /\ pc' = [pc EXCEPT ![t] = "authinfo"] /\ out' = [out EXCEPT ![t] = o]
        /\ extra' = [extra EXCEPT ![t] = x]
        /\ token' = [token EXCEPT ![t] = IdToken(stored[t].user)]
        /\ UNCHANGED <<at, jar, pieces, stored, told, alone>>
    BY <1>4 DEF Refreshed, Valid, Await, Ending
  <2> HIDE DEF c, o, x
  <2> QED BY <2>1, <2>3, <2>4, <2>5, ValidStep
<1>5. CASE RefreshRefused(t)
  BY <1>5, RejectedStep, UnderWay DEF RefreshRefused, Guarded
<1>6. CASE Authinfo(t)
  <2>1. pc[t] = "authinfo" /\ Answer(t, out[t], extra[t], "app")
        /\ UNCHANGED <<jar, pieces, at, stored, token, told, alone>>
    BY <1>6 DEF Authinfo
  <2>2. Proper(t, out[t], extra[t])
    BY <2>1, UnderWay DEF Proper
  <2> QED BY <2>1, <2>2, AnswerStep
<1>7. CASE logout(t)
  <2>1. PICK left \in {NoToken, Remnant} : Answer(t, Clear, Set(left), "app")
    BY <1>7 DEF logout, LeftBy
  <2>2. pc[t] = "authinfo" /\ at[t] = "signout" /\ stored[t].kind = "session"
    BY <1>7, UnderWay DEF logout
  <2>3. told.kind # "out"
    BY <2>2, UnderWay
  <2> DEFINE v == Request(t, "logout", "answered", token[t], Clear, Set(left))
  <2>4. Becomes(t, v) /\ v.pc # "none" /\ UNCHANGED <<jar, pieces, told, alone>>
    BY <1>7, <2>1, StaysSo DEF CookieInv, Becomes, Request, logout, Answer
  <2>5. Faithful("logout", Clear, Set(left))
    BY <2>3, PlainAnswers DEF Faithful
  <2>6. Stage(v) /\ Consistent(v)
    BY <2>1 DEF Stage, Consistent, Request, Presented
  <2>7. Own(v)
    BY <2>2, <2>5, UnderWay DEF Own, Request
  <2> HIDE DEF v
  <2> QED BY <2>2, <2>4, <2>6, <2>7, ServerStep DEF CookieTab
<1> QED BY <1>1, <1>2, <1>3, <1>4, <1>5, <1>6, <1>7

(* A step that is not about cookies. *)
LEMMA NothingStep ==
    ASSUME CookieInv, UNCHANGED <<at, pc, stored, token, out, extra, jar, pieces, told, alone>>
    PROVE  CookieInv'
<1>1. Views' /\ Holder' /\ Single'
  BY DEF CookieInv, Views, PerTab, Holder, Single
<1>2. ASSUME NEW t \in Tabs
      PROVE  CookieTab(View(t))'
  <2>1. CookieTab(View(t)) /\ View(t)' = View(t)
    BY DEF CookieInv, View
  <2> QED BY <2>1 DEF CookieTab, Stage, Consistent, Own, Faithful
<1> QED BY <1>1, <1>2 DEF CookieInv

LEMMA OpenIdCookieNext ==
    ASSUME CookieInv, ReturnInv, [Next]_vars
    PROVE  CookieInv'
<1>1. ASSUME NEW t \in Tabs,
             \/ \E place \in Asked : Ask(t, place)
             \/ Follow(t)
             \/ \E user \in Users : Authenticate(t, user)
             \/ Deliver(t) \/ Lose(t)
      PROVE  CookieInv'
  BY <1>1, BrowserStep DEF Follow
<1>2. ASSUME NEW t \in Tabs, Server(t)
      PROVE  CookieInv'
  BY <1>2, OpenIdLoginStep, OpenIdSessionStep, UnauthenticatedStep, GetCookieStep DEF Server
<1>3. CASE Tick \/ UNCHANGED vars
  BY <1>3, NothingStep DEF Tick, vars, browser, request, answer, history
<1> QED BY <1>1, <1>2, <1>3 DEF Next

(* The inductive invariant of OpenID Connect's two theorems about cookies. *)
THEOREM OpenIdCookies == Spec => []CookieInv
<1>1. Init => CookieInv
  BY CookieInvInit DEF Init
<1>2. CookieInv /\ ReturnInv /\ [Next]_vars => CookieInv'
  BY OpenIdCookieNext
<1> QED BY <1>1, <1>2, ReturnInvariant, PTL DEF Spec

(* What the user has been told holds of the cookies. *)
LEMMA HolderShows == CookieInv => LoginHolds /\ LoggedOutClean
BY DEF CookieInv, Holder, LoginHolds, LoggedOutClean

(* Once openid/routes.ts has acknowledged a login with nothing else under way, the   *)
(* session and the split token are that user's, for any number of tabs and users.  *)
THEOREM OpenIdLoginHolds == Spec => []LoginHolds
BY OpenIdCookies, HolderShows, PTL

(* Once it has acknowledged a logout so, no session and no readable token is left. *)
THEOREM OpenIdLoggedOutClean == Spec => []LoggedOutClean
BY OpenIdCookies, HolderShows, PTL

-----------------------------------------------------------------------------
(* SAML, by the same invariant. *)
LEMMA SamlLoginStep ==
    ASSUME CookieInv, NEW t \in Tabs,
           \/ samlCapture(t) \/ samlLogin(t) \/ getSamlHeader(t) \/ acsRefused(t)
           \/ acs(t) \/ authToken(t) \/ openSamlSession(t) \/ samlFails(t)
    PROVE  CookieInv'
<1> USE DEF Unchanged, history
<1>1. CASE samlCapture(t)
  <2>1. PICK place : Answer(t, Clear, Keep, place)
    BY <1>1 DEF samlCapture
  <2> QED BY <1>1, <2>1, PlainAnswer, PlainAnswers DEF samlCapture, Arrived
<1>2. CASE samlLogin(t)
  <2>1. pc[t] = "sent" /\ at[t] = "login" /\ pc' = [pc EXCEPT ![t] = "header"]
        /\ UNCHANGED <<at, jar, pieces, stored, token, out, extra, told, alone>>
    BY <1>2 DEF samlLogin, Arrived, Await, answer
  <2>2. Stage(Request(t, at[t], "header", token[t], out[t], extra[t]))
    BY <2>1, UnderWay DEF Stage, Request
  <2> QED BY <2>1, <2>2, CallStep
<1>3. CASE getSamlHeader(t)
  <2>1. ~Opens(Set(SamlCookie(t))) /\ Set(SamlCookie(t)) # Clear
    BY PlainAnswers, SetIsSet DEF SamlCookie, Clear, Set, NoCookie
  <2> QED BY <1>3, <2>1, PlainAnswer DEF getSamlHeader
<1>4. CASE acsRefused(t)
  BY <1>4, PlainAnswer, PlainAnswers DEF acsRefused, Arrived
<1>5. CASE acs(t)
  <2>1. pc[t] = "sent" /\ at[t] \in Presented /\ pc' = [pc EXCEPT ![t] = "token"]
        /\ UNCHANGED <<at, jar, pieces, stored, token, out, extra, told, alone>>
    BY <1>5 DEF acs, Arrived, Await, answer, Presented
  <2>2. Stage(Request(t, at[t], "token", token[t], out[t], extra[t]))
    BY <2>1, UnderWay DEF Stage, Request, Presented
  <2> QED BY <2>1, <2>2, CallStep
<1>6. CASE authToken(t)
  <2>1. PICK user : token' = [token EXCEPT ![t] = IdToken(user)]
    BY <1>6 DEF authToken
  <2>2. pc[t] = "token" /\ at[t] \in Presented /\ out[t] = Keep /\ extra[t] = Keep
    BY <1>6, UnderWay DEF authToken
  <2>3. Handles(t, at[t], "user", IdToken(user), out[t], extra[t])
    BY <1>6, <2>1, StaysSo DEF authToken, Await, answer, Handles, CookieInv
  <2>4. Faithful(at[t], out[t], extra[t])
    BY <2>2 DEF Faithful, Presented
  <2>5. Stage(Request(t, at[t], "user", IdToken(user), out[t], extra[t]))
    BY <2>2 DEF Stage, Request, Presented
  <2> QED BY <2>2, <2>3, <2>4, <2>5, AwaitStep
<1>7. CASE openSamlSession(t)
  <2>1. PICK over, place : Answer(t, Set(Session(token[t].user, 0, None, over)), Set(token[t]), place)
    BY <1>7 DEF openSamlSession
  <2> DEFINE o == Set(Session(token[t].user, 0, None, over))
  <2> DEFINE x == Set(token[t])
  <2>2. Opens(o) /\ o.value.user = token[t].user /\ x # Keep /\ x.value = token[t]
    BY SetIsSet, CookieKinds DEF Opens
  <2>3. pc[t] = "user" /\ Answer(t, o, x, place)
        /\ UNCHANGED <<jar, pieces, at, stored, token, told, alone>>
    BY <1>7, <2>1 DEF openSamlSession
  <2> HIDE DEF o, x
  <2>4. Proper(t, o, x)
    BY <2>2, <2>3, UnderWay DEF Proper, Faithful, Presented
  <2> QED BY <2>3, <2>4, AnswerStep
<1>8. CASE samlFails(t)
  BY <1>8, PlainAnswer, PlainAnswers DEF samlFails
<1> QED BY <1>1, <1>2, <1>3, <1>4, <1>5, <1>6, <1>7, <1>8

LEMMA SamlSessionStep ==
    ASSUME CookieInv, NEW t \in Tabs,
           \/ samlInvalidCookie(t) \/ samlIsValidCookie(t) \/ samlAuthinfo(t)
           \/ samlLogoutAdmitted(t) \/ samlLogout(t) \/ samlLogoutFails(t)
    PROVE  CookieInv'
<1> USE DEF Unchanged, history
<1>1. CASE samlInvalidCookie(t)
  BY <1>1, RejectedStep DEF samlInvalidCookie, SamlGuarded
<1>2. CASE samlIsValidCookie(t)
  <2> DEFINE o == IF Keepalive THEN Set(get(t)) ELSE Keep
  <2>1. get(t) = stored[t] /\ stored[t].kind = "session"
    BY <1>2, CookieKinds DEF samlIsValidCookie, HasToken, get
  <2>2. o = Keep \/ (Opens(o) /\ o.value.user = stored[t].user)
    BY <2>1, SetIsSet DEF Opens
  <2>3. pc[t] = "sent" /\ at[t] \in SamlGuarded
    BY <1>2 DEF samlIsValidCookie
  <2>4. Handles(t, at[t], "authinfo", token[t], o, extra[t])
    BY <1>2, StaysSo DEF samlIsValidCookie, Await, Handles, CookieInv
  <2> HIDE DEF o
  <2>5. extra[t] = Keep /\ at[t] \notin Presented \cup {"idp", "logout"}
    BY <2>3, UnderWay DEF SamlGuarded, Presented
  <2>6. Faithful(at[t], o, extra[t])
    BY <2>1, <2>2, <2>3, <2>5, UnderWay, PlainAnswers DEF Faithful
  <2>7. Stage(Request(t, at[t], "authinfo", token[t], o, extra[t]))
    BY <2>1, <2>2, <2>5, PlainAnswers DEF Stage, Request
  <2> QED BY <2>3, <2>4, <2>6, <2>7, AwaitStep
<1>3. CASE samlAuthinfo(t)
  <2>1. PICK place : Answer(t, out[t], Keep, place)
    BY <1>3 DEF samlAuthinfo
  <2>2. pc[t] = "authinfo" /\ UNCHANGED <<jar, pieces, at, stored, token, told, alone>>
    BY <1>3 DEF samlAuthinfo
  <2>3. Proper(t, out[t], Keep)
    BY <2>2, UnderWay DEF Proper, Faithful
  <2> QED BY <2>1, <2>2, <2>3, AnswerStep
<1>4. CASE samlLogoutAdmitted(t)
  <2>1. pc[t] = "authinfo" /\ at[t] = "signout" /\ out[t] # Clear
        /\ stored[t].kind = "session" /\ Faithful("signout", out[t], extra[t])
    BY <1>4, UnderWay DEF samlLogoutAdmitted, Guarded
  <2>2. Handles(t, "logout", "leaving", token[t], out[t], extra[t])
    BY <1>4, StaysSo DEF samlLogoutAdmitted, Await, answer, Handles, CookieInv
  <2>3. Faithful("logout", out[t], extra[t])
    BY <2>1 DEF Faithful, Presented
  <2>4. Stage(Request(t, "logout", "leaving", token[t], out[t], extra[t]))
    BY <2>1 DEF Stage, Request
  <2> QED BY <2>1, <2>2, <2>3, <2>4, AwaitStep
<1>5. CASE samlLogout(t)
  <2>1. pc[t] = "leaving" /\ Answer(t, Clear, Set(NoToken), "app")
        /\ UNCHANGED <<jar, pieces, at, stored, token, told, alone>>
    BY <1>5 DEF samlLogout
  <2>2. at[t] = "logout"
    BY <2>1, UnderWay
  <2>3. Proper(t, Clear, Set(NoToken))
    BY <2>2, PlainAnswers, SetIsSet DEF Proper, Faithful, Presented
  <2> QED BY <2>1, <2>3, AnswerStep
<1>6. CASE samlLogoutFails(t)
  <2>1. pc[t] = "leaving" /\ Answer(t, out[t], Keep, "app")
        /\ UNCHANGED <<jar, pieces, at, stored, token, told, alone>>
    BY <1>6 DEF samlLogoutFails
  <2>2. Proper(t, out[t], Keep)
    BY <2>1, UnderWay DEF Proper, Faithful, Presented
  <2> QED BY <2>1, <2>2, AnswerStep
<1> QED BY <1>1, <1>2, <1>3, <1>4, <1>5, <1>6

LEMMA SamlCookieNext ==
    ASSUME CookieInv, [SamlNext]_samlVars
    PROVE  CookieInv'
<1>1. ASSUME NEW t \in Tabs,
             \/ \E place \in SamlAsked : SamlAsk(t, place)
             \/ SamlFollow(t) \/ SamlDeliver(t)
             \/ \E user \in Users : Authenticate(t, user)
             \/ Lose(t)
      PROVE  CookieInv'
  <2>1. \/ \E place \in Asked \cup SamlAsked : Ask(t, place)
        \/ at[t] # "idp" /\ Send(t) /\ UNCHANGED at
        \/ \E user \in Users : Authenticate(t, user)
        \/ Deliver(t) \/ Lose(t)
    BY <1>1 DEF SamlAsk, SamlFollow, SamlDeliver
  <2> QED BY <2>1, BrowserStep
<1>2. ASSUME NEW t \in Tabs, Leave(t)
      PROVE  CookieInv'
  BY <1>2, MoveStep DEF Leave, request, answer, history
<1>3. ASSUME NEW t \in Tabs, SamlServer(t)
      PROVE  CookieInv'
  BY <1>3, SamlLoginStep, SamlSessionStep, UnauthenticatedStep, GetCookieStep DEF SamlServer
<1>4. CASE Tick \/ UNCHANGED samlVars
  BY <1>4, NothingStep DEF Tick, samlVars, vars, browser, request, answer, history
<1> QED BY <1>1, <1>2, <1>3, <1>4 DEF SamlNext

(* The inductive invariant of SAML's two theorems about cookies. *)
THEOREM SamlCookies == SamlSpec => []CookieInv
<1>1. SamlInit => CookieInv
  BY CookieInvInit DEF SamlInit
<1>2. CookieInv /\ [SamlNext]_samlVars => CookieInv'
  BY SamlCookieNext
<1> QED BY <1>1, <1>2, PTL DEF SamlSpec

(* Once saml/routes.ts has acknowledged a login, or taken an assertion nobody asked for, *)
(* with nothing else under way, the session and the split token are that user's.    *)
THEOREM SamlLoginHolds == SamlSpec => []LoginHolds
BY SamlCookies, HolderShows, PTL

(* Once it has acknowledged a logout so, no session and no readable token is left. *)
THEOREM SamlLoggedOutClean == SamlSpec => []LoggedOutClean
BY SamlCookies, HolderShows, PTL

-----------------------------------------------------------------------------
(* The refresh tokens of OpenID Connect.                                     *)

(* Those that were exchanged, by a request that nothing excuses. *)
Wasted == spent \ excused

(* A session has a token that the provider has given out, or none. *)
Given == (1..issued) \cup {None}
Known(cookie) == cookie.kind = "session" => cookie.refresh \in Given

(* A request that carries a token exchanged since is the one that has exchanged it.   *)
Exchanger(t) == t \in alone /\ pc[t] \in {"authinfo", "answered"}

RefreshTab(t) ==
    /\ Known(stored[t])
    /\ Opens(out[t]) => Known(out[t].value) /\ out[t].value.refresh \notin Wasted
    /\ stored[t].kind = "session" /\ stored[t].refresh \in Wasted => Exchanger(t)
    /\ pc[t] = "none" => stored[t] = NoCookie
    /\ pc[t] = "refresh" => stored[t].refresh # None

(* It is about to replace the cookie. *)
Replaced(t) ==
    /\ Exchanger(t) /\ out[t] # Keep
    /\ stored[t].kind = "session" /\ stored[t].refresh = jar.refresh

RefreshInv ==
    /\ issued \in 0..MaxRefresh /\ spent \subseteq 1..issued
    /\ Known(jar)
    /\ jar.kind = "session" /\ jar.refresh \in Wasted => \E t \in Tabs : Replaced(t)
    /\ \A t \in Tabs : RefreshTab(t)

(* A handler of tab t goes on to p with the answer o. *)
LEMMA RefreshStep ==
    ASSUME RefreshInv, ReturnInv, NEW t \in Tabs, pc[t] # "none", NEW p, NEW o,
           pc' = [pc EXCEPT ![t] = p], out' = [out EXCEPT ![t] = o],
           UNCHANGED <<stored, jar, spent, excused, alone>>, p # "none",
           issued' \in issued..MaxRefresh,
           Opens(o) => o.value.refresh \in Given' \ Wasted,
           pc[t] \in {"authinfo", "answered"} =>
                p \in {"authinfo", "answered"} /\ (out[t] # Keep => o # Keep),
           p = "refresh" => stored[t].refresh # None
    PROVE  RefreshInv'
<1>1. /\ pc'[t] = p /\ out'[t] = o
      /\ \A u \in Tabs \ {t} : pc'[u] = pc[u] /\ out'[u] = out[u]
  BY DEF ReturnInv, Functions, PerTab
<1>2. issued' \in 0..MaxRefresh /\ spent' \subseteq 1..issued' /\ Given \subseteq Given'
      /\ Wasted' = Wasted
  BY OpenIdAssumption DEF RefreshInv, Given, Wasted
<1>3. Known(jar)'
  BY <1>2 DEF RefreshInv, Known
<1>4. ASSUME NEW u \in Tabs
      PROVE  /\ Exchanger(u) => Exchanger(u)'
             /\ Replaced(u) => Replaced(u)'
  BY <1>1 DEF Exchanger, Replaced
<1>5. jar'.kind = "session" /\ jar'.refresh \in Wasted' => \E u \in Tabs : Replaced(u)'
  BY <1>2, <1>4 DEF RefreshInv
<1>6. ASSUME NEW u \in Tabs
      PROVE  RefreshTab(u)'
  <2>1. RefreshTab(u) /\ (Exchanger(u) => Exchanger(u)')
    BY <1>4 DEF RefreshInv
  <2>2. CASE u = t
    BY <1>1, <1>2, <2>1, <2>2 DEF RefreshTab, Known
  <2>3. CASE u # t
    BY <1>1, <1>2, <2>1, <2>3 DEF RefreshTab, Known
  <2> QED BY <2>2, <2>3
<1> QED BY <1>2, <1>3, <1>5, <1>6 DEF RefreshInv

(* A handler of tab t answers. *)
LEMMA RefreshAnswer ==
    ASSUME RefreshInv, ReturnInv, NEW t \in Tabs, pc[t] # "none", NEW o, NEW x, NEW place,
           Answer(t, o, x, place), UNCHANGED <<stored, jar, idp, excused, alone>>,
           Opens(o) => o.value.refresh \in Given \ Wasted,
           pc[t] \in {"authinfo", "answered"} => (out[t] # Keep => o # Keep)
    PROVE  RefreshInv'
<1>1. issued' \in issued..MaxRefresh /\ spent' = spent /\ Given' = Given
  BY OpenIdAssumption DEF RefreshInv, idp, Given
<1>2. pc' = [pc EXCEPT ![t] = "answered"] /\ out' = [out EXCEPT ![t] = o]
  BY DEF Answer
<1> QED BY <1>1, <1>2, RefreshStep

(* A token that the provider gives out is new. *)
LEMMA NewToken ==
    ASSUME RefreshInv, GiveOut, spent' \subseteq 1..issued
    PROVE  /\ issued' \in issued..MaxRefresh /\ issued' \in 0..MaxRefresh
           /\ NewRefreshToken \in Given' /\ NewRefreshToken \notin spent'
           /\ NewRefreshToken \notin spent
<1>1. issued \in Nat /\ MaxRefresh \in Nat /\ issued <= MaxRefresh /\ spent \subseteq 1..issued
  BY OpenIdAssumption DEF RefreshInv
<1>2. \A r \in 1..issued : r # NewRefreshToken
  BY <1>1, OpenIdAssumption DEF NewRefreshToken
<1>3. issued' \in issued..MaxRefresh /\ issued' \in 0..MaxRefresh
  BY <1>1 DEF GiveOut
<1>4. NewRefreshToken \in Given'
  BY <1>1 DEF GiveOut, NewRefreshToken, Given
<1> QED BY <1>1, <1>2, <1>3, <1>4

(* The token of the request's own session may be sent back. *)
LEMMA OwnToken ==
    ASSUME RefreshInv, NEW t \in Tabs, stored[t].kind = "session",
           pc[t] \notin {"authinfo", "answered"}
    PROVE  stored[t].refresh \in Given \ Wasted
BY DEF RefreshInv, RefreshTab, Exchanger, Known

(* So may that of the answer. *)
LEMMA OutToken ==
    ASSUME RefreshInv, NEW t \in Tabs, Opens(out[t])
    PROVE  out[t].value.refresh \in Given \ Wasted
BY DEF RefreshInv, RefreshTab, Known, Opens

LEMMA RefreshLogin ==
    ASSUME RefreshInv, ReturnInv, CookieInv, NEW t \in Tabs,
           \/ captureUrlFragment(t) \/ login(t) \/ callbackRefused(t) \/ callback(t)
           \/ callTokenEndpoint(t) \/ authenticateWithHeader(t) \/ callbackFails(t)
    PROVE  RefreshInv'
<1> USE DEF Unchanged, history
<1>1. CASE captureUrlFragment(t)
  BY <1>1, RefreshAnswer, PlainAnswers DEF captureUrlFragment, Arrived
<1>2. CASE login(t)
  BY <1>2, RefreshAnswer, PlainAnswers DEF login, Arrived
<1>3. CASE callbackRefused(t)
  BY <1>3, RefreshAnswer, PlainAnswers DEF callbackRefused, redirectToLogin, Arrived
<1>4. CASE callback(t)
  <2>1. /\ pc[t] = "sent" /\ pc' = [pc EXCEPT ![t] = "token"] /\ out' = [out EXCEPT ![t] = out[t]]
        /\ UNCHANGED <<stored, jar, idp, excused, alone>>
    BY <1>4, StaysSo DEF callback, Arrived, Await, answer, CookieInv
  <2>2. issued' \in issued..MaxRefresh /\ spent' = spent /\ Given' = Given
    BY <2>1, OpenIdAssumption DEF RefreshInv, idp, Given
  <2> QED BY <2>1, <2>2, OutToken, RefreshStep
<1>5. CASE callTokenEndpoint(t)
  <2> DEFINE o == Set(Session(code[t], now + TokenLife, NewRefreshToken, 0))
  <2>1. /\ pc[t] = "token" /\ pc' = [pc EXCEPT ![t] = "user"] /\ out' = [out EXCEPT ![t] = o]
        /\ UNCHANGED <<stored, jar, spent, excused, alone>> /\ GiveOut
    BY <1>5 DEF callTokenEndpoint, Await
  <2>2. o.value.refresh = NewRefreshToken
    BY SetIsSet, CookieKinds
  <2>3. issued' \in issued..MaxRefresh /\ NewRefreshToken \in Given' \ Wasted
    BY <2>1, NewToken DEF RefreshInv, Wasted
  <2> HIDE DEF o
  <2> QED BY <2>1, <2>2, <2>3, RefreshStep
<1>6. CASE authenticateWithHeader(t)
  <2> DEFINE o == Set(Ending(out[t].value, now + Ttl))
  <2>1. PICK c : IsSession(c) /\ out[t] = Set(c)
    BY <1>6 DEF authenticateWithHeader, ReturnInv, ReturnOf
  <2>2. o.value.refresh = out[t].value.refresh /\ Opens(out[t])
    BY <2>1, SetIsSet, MovedSame, Kinds DEF Opens, Returning
  <2>3. pc[t] = "user" /\ Answer(t, o, Set(token[t]), "app")
        /\ UNCHANGED <<stored, jar, idp, excused, alone>>
    BY <1>6 DEF authenticateWithHeader, Ending
  <2> HIDE DEF o
  <2> QED BY <2>2, <2>3, OutToken, RefreshAnswer
<1>7. CASE callbackFails(t)
  <2>1. PICK o, place : Answer(t, o, Keep, place) /\ ~Opens(o)
    BY <1>7, PlainAnswers DEF callbackFails, redirectToLogin
  <2> QED BY <1>7, <2>1, RefreshAnswer DEF callbackFails
<1> QED BY <1>1, <1>2, <1>3, <1>4, <1>5, <1>6, <1>7

(* A request whose session is not taken. *)
LEMMA RefreshRejected ==
    ASSUME RefreshInv, ReturnInv, NEW t \in Tabs, pc[t] # "none", Rejected(t),
           UNCHANGED <<stored, jar, idp, excused, alone>>
    PROVE  RefreshInv'
BY RefreshAnswer, PlainAnswers DEF Rejected

(* The exchange of a refresh token, by a request alone or by one of several. *)
LEMMA ExchangeStep ==
    ASSUME RefreshInv, ReturnInv, CookieInv, Keepalive = TRUE, NEW t \in Tabs, Refreshed(t)
    PROVE  RefreshInv'
<1> DEFINE r == stored[t].refresh
<1> DEFINE o == Set(Ending(renewedCredentials(t), now + Ttl))
<1>1. /\ pc[t] = "refresh" /\ stored[t].kind = "session" /\ r # None /\ r \in 1..issued
      /\ out[t] = Keep
  BY UnderWay DEF Refreshed, RefreshInv, RefreshTab, Known, Given
<1>2. /\ pc' = [pc EXCEPT ![t] = "authinfo"] /\ out' = [out EXCEPT ![t] = o] /\ GiveOut
      /\ UNCHANGED <<jar, stored, alone>> /\ spent' = spent \cup {r}
      /\ excused' = IF t \in alone THEN excused ELSE excused \cup {r}
  BY DEF Refreshed, Valid, Await, Ending
<1>3. IsSession(renewedCredentials(t)) /\ renewedCredentials(t).refresh = NewRefreshToken
  BY CookieKinds DEF renewedCredentials, IsSession
<1>4. o # Keep /\ o.value.refresh = NewRefreshToken
  BY <1>3, SetIsSet, MovedSame
<1> HIDE DEF o
<1>5. pc'[t] = "authinfo" /\ out'[t] = o
      /\ \A u \in Tabs \ {t} : pc'[u] = pc[u] /\ out'[u] = out[u]
  BY <1>2 DEF ReturnInv, Functions, PerTab
<1>6. spent' \subseteq 1..issued /\ spent \subseteq 1..issued
  BY <1>1, <1>2 DEF RefreshInv
<1>7. /\ issued' \in 0..MaxRefresh /\ issued' \in issued..MaxRefresh
      /\ NewRefreshToken \in Given' /\ NewRefreshToken \notin spent'
  BY <1>2, <1>6, NewToken
<1>8. spent' \subseteq 1..issued' /\ Given \subseteq Given'
  BY <1>6, <1>7, OpenIdAssumption DEF RefreshInv, Given
<1>9. Wasted' \subseteq Wasted \cup {r} /\ (t \notin alone => Wasted' \subseteq Wasted)
  BY <1>2 DEF Wasted
<1>10. ASSUME NEW u \in Tabs, Exchanger(u)
       PROVE  FALSE
  BY <1>1, <1>10 DEF Exchanger, CookieInv, Single
<1>11. ~(jar.kind = "session" /\ jar.refresh \in Wasted)
  BY <1>10 DEF RefreshInv, Replaced
<1>12. Known(jar)'
  BY <1>2, <1>8 DEF RefreshInv, Known
<1>13. ASSUME jar'.kind = "session", jar'.refresh \in Wasted'
       PROVE  \E u \in Tabs : Replaced(u)'
  <2>1. jar.refresh = r /\ t \in alone
    BY <1>2, <1>9, <1>11, <1>13
  <2>2. Replaced(t)'
    BY <1>1, <1>2, <1>4, <1>5, <2>1 DEF Replaced, Exchanger
  <2> QED BY <2>2
<1>14. RefreshTab(t)'
  <2>1. Known(stored[t])' /\ Known(out[t].value)'
    BY <1>2, <1>4, <1>5, <1>7, <1>8 DEF RefreshInv, RefreshTab, Known
  <2>2. out'[t].value.refresh \notin Wasted'
    BY <1>4, <1>5, <1>7 DEF Wasted
  <2>3. stored'[t].refresh \in Wasted' => Exchanger(t)'
    <3>1. r \in Wasted => Exchanger(t)
      BY <1>1 DEF RefreshInv, RefreshTab
    <3>2. r \in Wasted' => t \in alone
      BY <1>9, <1>10, <3>1
    <3> QED BY <1>2, <1>5, <3>2 DEF Exchanger
  <2> QED BY <1>5, <2>1, <2>2, <2>3 DEF RefreshTab
<1>15. ASSUME NEW u \in Tabs \ {t}
       PROVE  RefreshTab(u)'
  <2>1. RefreshTab(u) /\ pc'[u] = pc[u] /\ out'[u] = out[u] /\ stored'[u] = stored[u]
    BY <1>2, <1>5 DEF RefreshInv
  <2>2. Known(stored[u])' /\ (Opens(out[u]) => Known(out[u].value)')
    BY <1>8, <2>1 DEF RefreshTab, Known
  <2>3. CASE t \in alone
    <3>1. pc[u] = "none" /\ out[u] = Keep /\ stored[u] = NoCookie
      BY <2>1, <2>3 DEF CookieInv, Single, CookieTab, Stage, View, RefreshTab
    <3> QED BY <2>1, <2>2, <3>1, CookieKinds, PlainAnswers DEF RefreshTab
  <2>4. CASE t \notin alone
    BY <1>9, <1>10, <2>1, <2>2, <2>4 DEF RefreshTab
  <2> QED BY <2>3, <2>4
<1> QED BY <1>7, <1>8, <1>12, <1>13, <1>14, <1>15 DEF RefreshInv

LEMMA RefreshSession ==
    ASSUME RefreshInv, ReturnInv, CookieInv, NEW t \in Tabs,
           \/ invalidCookie(t) \/ isValidCookie(t) \/ renewToken(t) \/ RefreshRefused(t)
           \/ Authinfo(t) \/ Unauthenticated(t) \/ \E user \in Users : getCookie(t, user)
           \/ logout(t)
    PROVE  RefreshInv'
<1> USE DEF Unchanged, history
<1>1. CASE invalidCookie(t)
  BY <1>1, RefreshRejected DEF invalidCookie
<1>2. CASE isValidCookie(t)
  <2> DEFINE o == IF Keepalive THEN Set(Ending(get(t), now + Ttl)) ELSE Keep
  <2>1. get(t) = stored[t] /\ IsSession(stored[t]) /\ stored[t].kind = "session"
    BY <1>2, GetReturns, Kinds DEF isValidCookie, HasToken
  <2>2. Opens(o) => o.value.refresh = stored[t].refresh
    BY <2>1, MovedSame, SetIsSet, PlainAnswers
  <2>3. /\ pc[t] = "sent" /\ pc' = [pc EXCEPT ![t] = "authinfo"] /\ out' = [out EXCEPT ![t] = o]
        /\ UNCHANGED <<stored, jar, idp, excused, alone>>
    BY <1>2 DEF isValidCookie, Valid, Await, Ending
  <2>4. issued' \in issued..MaxRefresh /\ spent' = spent /\ Given' = Given
    BY <2>3, OpenIdAssumption DEF RefreshInv, idp, Given
  <2> HIDE DEF o
  <2> QED BY <2>1, <2>2, <2>3, <2>4, OwnToken, RefreshStep
<1>3. CASE renewToken(t)
  <2>1. stored[t].refresh # None
    BY <1>3, GetReturns DEF renewToken, HasToken
  <2>2. /\ pc[t] = "sent"
        /\ pc' = [pc EXCEPT ![t] = "refresh"]
        /\ out' = [out EXCEPT ![t] = out[t]]
        /\ UNCHANGED <<stored, jar, idp, excused, alone>>
    BY <1>3, StaysSo DEF renewToken, Await, answer, CookieInv
  <2>3. issued' \in issued..MaxRefresh /\ spent' = spent /\ Given' = Given
    BY <2>2, OpenIdAssumption DEF RefreshInv, idp, Given
  <2> QED BY <2>1, <2>2, <2>3, OutToken, RefreshStep
<1>4. CASE RefreshRefused(t)
  BY <1>4, RefreshRejected DEF RefreshRefused
<1>5. CASE Authinfo(t)
  BY <1>5, OutToken, RefreshAnswer DEF Authinfo
<1>6. CASE Unauthenticated(t)
  <2>1. PICK place : Answer(t, Clear, extra[t], place)
    BY <1>6 DEF Unauthenticated
  <2> QED BY <1>6, <2>1, PlainAnswers, RefreshAnswer DEF Unauthenticated
<1>7. CASE \E user \in Users : getCookie(t, user)
  <2>1. PICK user \in Users : getCookie(t, user)
    BY <1>7
  <2>2. Set(Session(user, 0, None, now + Ttl)).value.refresh = None
    BY SetIsSet, CookieKinds
  <2>3. None \in Given \ Wasted
    <3>1. /\ issued \in Nat
          /\ MaxRefresh \in Nat
          /\ issued <= MaxRefresh
          /\ spent \subseteq 1..issued
      BY OpenIdAssumption DEF RefreshInv
    <3>2. \A r \in 1..issued : r # None
      BY <3>1, OpenIdAssumption
    <3> QED BY <3>1, <3>2 DEF Given, Wasted
  <2> QED BY <2>1, <2>2, <2>3, RefreshAnswer DEF getCookie, Arrived
<1>8. CASE logout(t)
  <2>1. PICK x : Answer(t, Clear, x, "app")
    BY <1>8 DEF logout
  <2> QED BY <1>8, <2>1, PlainAnswers, RefreshAnswer DEF logout
<1> QED BY <1>1, <1>2, <1>3, <1>4, <1>5, <1>6, <1>7, <1>8

(* A request is sent: it has the token of the cookie, and so may have another, which  *)
(* is under way and excused.                                                *)
LEMMA RefreshSend ==
    ASSUME RefreshInv, ReturnInv, CookieInv, NEW t \in Tabs, Send(t)
    PROVE  RefreshInv'
<1>1. /\ pc[t] = "none" /\ pc' = [pc EXCEPT ![t] = "sent"] /\ stored' = [stored EXCEPT ![t] = jar]
      /\ UNCHANGED <<jar, out, issued, spent>>
      /\ alone' = IF InFlight = {} THEN {t} ELSE {}
      /\ excused' = excused \cup {stored[u].refresh : u \in {v \in InFlight : stored[v].kind = "session"}}
  BY DEF Send, answer, idp
<1>2. /\ pc'[t] = "sent" /\ stored'[t] = jar /\ out'[t] = Keep
      /\ \A u \in Tabs \ {t} : pc'[u] = pc[u] /\ out'[u] = out[u] /\ stored'[u] = stored[u]
  BY <1>1 DEF ReturnInv, Functions, PerTab, CookieInv, CookieTab, Stage, View
<1>3. Given' = Given /\ Wasted' \subseteq Wasted
  BY <1>1 DEF Given, Wasted
<1>4. ASSUME NEW u \in Tabs, pc[u] # "none", stored[u].kind = "session"
      PROVE  stored[u].refresh \notin Wasted'
  BY <1>1, <1>4 DEF InFlight, Wasted
<1>5. ~(jar.kind = "session" /\ jar.refresh \in Wasted')
  <2>1. CASE jar.kind = "session" /\ jar.refresh \in Wasted
    <3>1. PICK u \in Tabs : Replaced(u)
      BY <2>1 DEF RefreshInv
    <3> QED BY <1>4, <3>1 DEF Replaced, Exchanger
  <2>2. CASE ~(jar.kind = "session" /\ jar.refresh \in Wasted)
    BY <1>3, <2>2
  <2> QED BY <2>1, <2>2
<1>6. RefreshTab(t)'
  BY <1>1, <1>2, <1>3, <1>5, PlainAnswers DEF RefreshInv, RefreshTab, Known
<1>7. ASSUME NEW u \in Tabs \ {t}
      PROVE  RefreshTab(u)'
  <2>1. RefreshTab(u) /\ (pc[u] = "none" => stored[u].kind # "session")
    BY CookieKinds DEF RefreshInv, RefreshTab
  <2>2. stored'[u].kind = "session" => stored'[u].refresh \notin Wasted'
    BY <1>2, <1>4, <2>1
  <2> QED BY <1>2, <1>3, <2>1, <2>2 DEF RefreshTab, Known
<1> QED BY <1>1, <1>3, <1>5, <1>6, <1>7 DEF RefreshInv, Known

(* The answer of tab t arrives, or is lost and then excuses what it would replace. *)
LEMMA RefreshSettled ==
    ASSUME RefreshInv, ReturnInv, CookieInv, NEW t \in Tabs, Deliver(t) \/ Lose(t)
    PROVE  RefreshInv'
<1>1. pc[t] = "answered" /\ Settled(t) /\ UNCHANGED <<issued, spent>>
  BY DEF Deliver, Lose, idp
<1>2. /\ pc'[t] = "none" /\ stored'[t] = NoCookie /\ out'[t] = Keep
      /\ \A u \in Tabs \ {t} : pc'[u] = pc[u] /\ out'[u] = out[u] /\ stored'[u] = stored[u]
  BY <1>1 DEF Settled, ReturnInv, Functions, PerTab
<1>3. Given' = Given /\ Wasted' \subseteq Wasted
  BY <1>1 DEF Given, Wasted, Deliver, Lose
<1>4. ASSUME NEW u \in Tabs, Exchanger(u)
      PROVE  u = t
  BY <1>1, <1>4 DEF Exchanger, CookieInv, Single
<1>5. Known(jar)' /\ ~(jar'.kind = "session" /\ jar'.refresh \in Wasted')
  <2>1. jar.kind = "session" /\ jar.refresh \in Wasted => Replaced(t)
    BY <1>4 DEF RefreshInv, Replaced
  <2>2. CASE Deliver(t)
    <3>1. jar' = (IF out[t] = Keep THEN jar ELSE out[t].value) /\ Wasted' = Wasted
      BY <2>2 DEF Deliver, idp, Wasted
    <3>2. CASE out[t] = Keep
      BY <1>3, <2>1, <3>1, <3>2 DEF Replaced, RefreshInv, Known
    <3>3. CASE out[t] # Keep
      BY <1>3, <3>1, <3>3 DEF RefreshInv, RefreshTab, Opens, Known
    <3> QED BY <3>2, <3>3
  <2>3. CASE Lose(t)
    <3>1. jar' = jar /\ (stored[t].kind = "session" => stored[t].refresh \notin Wasted')
      BY <2>3 DEF Lose, Wasted
    <3> QED BY <1>3, <2>1, <3>1 DEF Replaced, RefreshInv, Known
  <2> QED BY <2>2, <2>3
<1>6. RefreshTab(t)'
  BY <1>2, CookieKinds, PlainAnswers DEF RefreshTab, Known
<1>7. ASSUME NEW u \in Tabs \ {t}
      PROVE  RefreshTab(u)'
  <2>1. RefreshTab(u) /\ ~Exchanger(u)
    BY <1>4 DEF RefreshInv
  <2> QED BY <1>2, <1>3, <2>1 DEF RefreshTab, Known
<1> QED BY <1>1, <1>5, <1>6, <1>7 DEF RefreshInv

LEMMA RefreshNext ==
    ASSUME RefreshInv, ReturnInv, CookieInv, Keepalive = TRUE, [Next]_vars
    PROVE  RefreshInv'
<1>1. ASSUME NEW t \in Tabs, (\E place \in Asked : Ask(t, place)) \/ Follow(t)
      PROVE  RefreshInv'
  BY <1>1, RefreshSend DEF Ask, Follow
<1>2. ASSUME NEW t \in Tabs, Server(t)
      PROVE  RefreshInv'
  BY <1>2, RefreshLogin, RefreshSession, ExchangeStep DEF Server
<1>3. CASE (\E t \in Tabs : \E user \in Users : Authenticate(t, user)) \/ Tick \/ UNCHANGED vars
  <2>1. UNCHANGED <<jar, pc, stored, out, issued, spent, excused, alone>>
    BY <1>3 DEF Authenticate, Tick, vars, browser, request, answer, idp, history
  <2> QED BY <2>1 DEF RefreshInv, RefreshTab, Known, Given, Wasted, Exchanger, Replaced
<1> QED BY <1>1, <1>2, <1>3, RefreshSettled DEF Next

LEMMA RefreshInit == Init => RefreshInv
<1> SUFFICES ASSUME Init
             PROVE  RefreshInv
  OBVIOUS
<1>1. issued \in 0..MaxRefresh /\ spent = {} /\ Wasted = {}
  BY OpenIdAssumption DEF Init, Idle, Wasted
<1>2. Known(jar)
  BY CookieKinds DEF Init, NewBrowser, EarlierVisit, Known, Given
<1>3. ASSUME NEW t \in Tabs
      PROVE  RefreshTab(t)
  BY <1>1, CookieKinds, PlainAnswers DEF Init, Idle, RefreshTab, Known
<1> QED BY <1>1, <1>2, <1>3 DEF RefreshInv

(* A session that is kept alive never presents a refresh token that was exchanged     *)
(* before, but when two requests were under way or an answer was lost: openid_auth.ts   *)
(* writes the new one into the very answer of the request that has exchanged the old.  *)
THEOREM RefreshTokenNotWasted ==
    ASSUME Keepalive = TRUE
    PROVE  Spec => []RefreshNotWasted
<1>1. RefreshInv /\ ReturnInv /\ CookieInv /\ [Next]_vars => RefreshInv'
  BY RefreshNext
<1>2. RefreshInv /\ CookieInv => RefreshNotWasted
  BY UnderWay DEF RefreshInv, RefreshTab, Exchanger, RefreshNotWasted, Wasted
<1> QED BY <1>1, <1>2, RefreshInit, ReturnInvariant, OpenIdCookies, PTL DEF Spec

-----------------------------------------------------------------------------
(* The page and the fragment that a login by SAML comes back to.             *)

(* The places of a login whose fragment has been captured. *)
Beyond == {"login", "idp", "callback", "fragment", "pop"}

(* A cookie with the request id of tab t says what t is to come back to. *)
Marked(t, cookie) ==
    cookie.kind = "flow" /\ cookie.state = t =>
        cookie.redirectHash = (fragment[t] # NoHash) /\ Place(t, cookie.nextUrl)

(* Only a login sets such a cookie, its own. *)
IsFlowAnswer(o) == o # Keep /\ o.value.kind = "flow"
FlowOf(t, place, o) ==
    IsFlowAnswer(o) => place = "login" /\ o.value.state = t /\ Marked(t, o.value)

(* Where an answer sends the browser. *)
SentFrom(t, place, o, g) ==
    /\ g # "callback"
    /\ g = "login" => place = "script"
    /\ g = "idp" => IsFlowAnswer(o)
    /\ g = "fragment" => place = "callback" /\ fragment[t] # NoHash
    /\ g = "pop" => place = "fragment"
    /\ place = "pop" => g = "app"

(* What a handler has found when it awaits call p. *)
Found(t, place, p) ==
    /\ p = "header" => place = "login"
    /\ p \in {"token", "user"} => place \in {"callback", "initiated"}
    /\ place = "callback" /\ p \in {"token", "user"} => stored[t].kind = "flow"
    /\ place = "callback" /\ p = "user" => stored[t].state = t

Carries(t) ==
    /\ at[t] = "callback" /\ pc[t] # "none" => Marked(t, stored[t])
    /\ Found(t, at[t], pc[t])

Remembers(t) ==
    /\ fragment[t] \in {NoHash, t}
    /\ at[t] \in Beyond /\ fragment[t] # NoHash /\ ~met[t] => samlHash = t
    /\ at[t] \in {"fragment", "pop"} => fragment[t] # NoHash
    /\ at[t] # "app" => landed[t] = NoHash
    /\ landed[t] # NoHash /\ ~met[t] => landed[t] = t
    /\ pc[t] # "none" => at[t] # "app"
    /\ at[t] \in {"idp", "callback"} => Marked(t, jar)
    /\ Place(t, where[t])

FragmentTab(t) ==
    /\ Remembers(t) /\ Carries(t) /\ FlowOf(t, at[t], out[t])
    /\ pc[t] = "answered" => SentFrom(t, at[t], out[t], goes[t])

Places ==
    PerTab(where) /\ PerTab(goes) /\ PerTab(fragment) /\ PerTab(landed) /\ PerTab(met)

FragmentInv == Places /\ \A t \in Tabs : FragmentTab(t)

(* The five functions at the tabs. *)
LEMMA PlacesStay ==
    ASSUME Places, NEW t \in Tabs
    PROVE  /\ where = [where EXCEPT ![t] = where[t]] /\ goes = [goes EXCEPT ![t] = goes[t]]
           /\ landed = [landed EXCEPT ![t] = landed[t]]
BY DEF Places, PerTab

(* A handler of tab t goes on to p, or answers. *)
LEMMA FragmentStep ==
    ASSUME FragmentInv, Views, NEW t \in Tabs, pc[t] # "none", NEW p, NEW o, NEW g, NEW w, NEW a,
           pc' = [pc EXCEPT ![t] = p], out' = [out EXCEPT ![t] = o],
           goes' = [goes EXCEPT ![t] = g], where' = [where EXCEPT ![t] = w],
           at' = [at EXCEPT ![t] = a], UNCHANGED <<jar, stored, fragments>>,
           a = at[t] \/ a \notin Beyond \cup {"app"}, Place(t, w), p # "none",
           FlowOf(t, a, o), p = "answered" => SentFrom(t, a, o, g),
           Found(t, a, p)
    PROVE  FragmentInv'
<1>1. /\ pc'[t] = p /\ out'[t] = o /\ goes'[t] = g /\ where'[t] = w /\ at'[t] = a
      /\ \A u \in Tabs \ {t} :
            /\ pc'[u] = pc[u] /\ out'[u] = out[u] /\ goes'[u] = goes[u]
            /\ where'[u] = where[u] /\ at'[u] = at[u]
  BY DEF FragmentInv, Places, Views, PerTab
<1>2. Places'
  BY DEF FragmentInv, Places, PerTab, fragments
<1>3. UNCHANGED <<jar, stored, fragment, landed, met, samlHash>>
  BY DEF fragments
<1>4. FragmentTab(t)'
  <2>1. Remembers(t)'
    BY <1>1, <1>3 DEF FragmentInv, FragmentTab, Remembers, Marked, Beyond
  <2>2. Carries(t)'
    BY <1>1, <1>3 DEF FragmentInv, FragmentTab, Carries, Marked, Beyond, Found
  <2>3. FlowOf(t, at[t], out[t])' /\ (pc'[t] = "answered" => SentFrom(t, at[t], out[t], goes[t])')
    BY <1>1, <1>3 DEF FlowOf, SentFrom, Marked
  <2> QED BY <2>1, <2>2, <2>3 DEF FragmentTab
<1>5. ASSUME NEW u \in Tabs \ {t}
      PROVE  FragmentTab(u)'
  <2>1. FragmentTab(u)
    BY DEF FragmentInv
  <2> QED BY <1>1, <1>3, <2>1
          DEF FragmentTab, Remembers, Carries, FlowOf, SentFrom, Marked, Found
<1> QED BY <1>2, <1>4, <1>5 DEF FragmentInv

LEMMA FragmentAnswer ==
    ASSUME FragmentInv, Views, NEW t \in Tabs, pc[t] # "none", NEW o, NEW x, NEW g, NEW w,
           Answer(t, o, x, g), where' = [where EXCEPT ![t] = w], Place(t, w),
           UNCHANGED <<at, jar, stored, fragments>>,
           FlowOf(t, at[t], o), SentFrom(t, at[t], o, g)
    PROVE  FragmentInv'
<1>1. /\ pc' = [pc EXCEPT ![t] = "answered"] /\ out' = [out EXCEPT ![t] = o]
      /\ goes' = [goes EXCEPT ![t] = g] /\ at' = [at EXCEPT ![t] = at[t]]
  BY StaysSo DEF Answer
<1>2. Found(t, at[t], "answered")
  BY DEF Found
<1> QED BY <1>1, <1>2, FragmentStep

(* The same where the tab is to come back to the page it was to come back to. *)
LEMMA FragmentReply ==
    ASSUME FragmentInv, Views, NEW t \in Tabs, pc[t] # "none", NEW o, NEW x, NEW g,
           Answer(t, o, x, g), UNCHANGED <<where, at, jar, stored, fragments>>,
           FlowOf(t, at[t], o), SentFrom(t, at[t], o, g)
    PROVE  FragmentInv'
<1>1. where' = [where EXCEPT ![t] = where[t]] /\ Place(t, where[t])
  BY PlacesStay DEF FragmentInv, FragmentTab, Remembers
<1> QED BY <1>1, FragmentAnswer

(* A handler that awaits a call. *)
LEMMA FragmentAwait ==
    ASSUME FragmentInv, Views, NEW t \in Tabs, pc[t] # "none", NEW p, NEW o,
           p \notin {"none", "answered"},
           pc' = [pc EXCEPT ![t] = p], out' = [out EXCEPT ![t] = o],
           UNCHANGED <<goes, where, at, jar, stored, fragments>>, ~IsFlowAnswer(o),
           Found(t, at[t], p)
    PROVE  FragmentInv'
<1>1. /\ where' = [where EXCEPT ![t] = where[t]] /\ Place(t, where[t])
      /\ goes' = [goes EXCEPT ![t] = goes[t]] /\ at' = [at EXCEPT ![t] = at[t]]
  BY PlacesStay, StaysSo DEF FragmentInv, FragmentTab, Remembers
<1>2. FlowOf(t, at[t], o)
  BY DEF FlowOf
<1> QED BY <1>1, <1>2, FragmentStep

(* Which answers set the cookie of a login. *)
LEMMA FlowAnswers ==
    /\ ~IsFlowAnswer(Keep) /\ ~IsFlowAnswer(Clear)
    /\ \A c : IsFlowAnswer(Set(c)) <=> c.kind = "flow"
BY SetIsSet, CookieKinds DEF IsFlowAnswer

(* The login: its page, the request id, the assertion and the session. *)
LEMMA FragmentLogin ==
    ASSUME FragmentInv, CookieInv, NEW t \in Tabs, UNCHANGED fragments,
           \/ samlCapture(t) \/ samlLogin(t) \/ getSamlHeader(t) \/ acsRefused(t)
           \/ acs(t) \/ authToken(t) \/ openSamlSession(t) \/ samlFails(t)
    PROVE  FragmentInv'
<1>1. Views /\ FragmentTab(t)
  BY DEF CookieInv, FragmentInv
<1> USE DEF Unchanged
<1>2. CASE samlCapture(t)
  <2>1. PICK g : /\ Answer(t, Clear, Keep, g) /\ g \in {"script", "login"}
                 /\ g = "login" => at[t] = "script"
                 /\ at[t] # "pop"
    BY <1>2 DEF samlCapture, Arrived
  <2>2. FlowOf(t, at[t], Clear) /\ SentFrom(t, at[t], Clear, g)
    BY <2>1, FlowAnswers DEF FlowOf, SentFrom
  <2>3. pc[t] # "none" /\ UNCHANGED <<where, at, jar, stored, fragments>>
    BY <1>2 DEF samlCapture, Arrived
  <2> QED BY <1>1, <2>1, <2>2, <2>3, FragmentReply
<1>3. CASE samlLogin(t)
  <2>1. /\ pc[t] = "sent"
        /\ pc' = [pc EXCEPT ![t] = "header"]
        /\ out' = [out EXCEPT ![t] = out[t]]
        /\ out[t] = Keep
        /\ at[t] = "login"
        /\ UNCHANGED <<goes, where, at, jar, stored, fragments>>
    BY <1>1, <1>3, StaysSo, UnderWay DEF samlLogin, Arrived, Await, answer
  <2>2. Found(t, at[t], "header")
    BY <2>1 DEF Found
  <2> QED BY <1>1, <2>1, <2>2, FlowAnswers, FragmentAwait
<1>4. CASE getSamlHeader(t)
  <2>1. pc[t] = "header" /\ Answer(t, Set(SamlCookie(t)), Keep, "idp")
        /\ UNCHANGED <<where, at, jar, stored, fragments>>
    BY <1>4 DEF getSamlHeader
  <2>2. at[t] = "login"
    BY <1>1, <2>1 DEF FragmentTab, Carries, Found
  <2>3. FlowOf(t, at[t], Set(SamlCookie(t))) /\ SentFrom(t, at[t], Set(SamlCookie(t)), "idp")
    BY <1>1, <2>2, FlowAnswers, SetIsSet
       DEF FlowOf, SentFrom, SamlCookie, Marked, FragmentTab, Remembers
  <2> QED BY <1>1, <2>1, <2>3, FragmentReply
<1>5. CASE acsRefused(t)
  <2>1. FlowOf(t, at[t], Keep) /\ SentFrom(t, at[t], Keep, "app")
    BY FlowAnswers DEF FlowOf, SentFrom
  <2> QED BY <1>1, <1>5, <2>1, FragmentReply DEF acsRefused, Arrived
<1>6. CASE acs(t)
  <2>1. /\ pc[t] = "sent" /\ pc' = [pc EXCEPT ![t] = "token"] /\ out' = [out EXCEPT ![t] = out[t]]
        /\ out[t] = Keep /\ UNCHANGED <<goes, where, at, jar, stored, fragments>>
    BY <1>1, <1>6, StaysSo, UnderWay DEF acs, Arrived, Await, answer
  <2>2. Found(t, at[t], "token")
    BY <1>6, CookieKinds DEF acs, Arrived, get, Found
  <2> QED BY <1>1, <2>1, <2>2, FlowAnswers, FragmentAwait
<1>7. CASE authToken(t)
  <2>1. /\ pc[t] = "token" /\ pc' = [pc EXCEPT ![t] = "user"] /\ out' = [out EXCEPT ![t] = out[t]]
        /\ out[t] = Keep /\ UNCHANGED <<goes, where, at, jar, stored, fragments>>
    BY <1>1, <1>7, StaysSo, UnderWay DEF authToken, Await, answer
  <2>2. Found(t, at[t], "user")
    BY <1>1, <1>7, <2>1 DEF authToken, AnswersRequest, FragmentTab, Carries, Found
  <2> QED BY <1>1, <2>1, <2>2, FlowAnswers, FragmentAwait
<1>8. CASE openSamlSession(t)
  <2> DEFINE g == IF at[t] = "callback" /\ stored[t].redirectHash THEN "fragment" ELSE "app"
  <2> DEFINE w == IF at[t] = "initiated" THEN Base ELSE stored[t].nextUrl
  <2>1. PICK over : Answer(t, Set(Session(token[t].user, 0, None, over)), Set(token[t]), g)
    BY <1>8 DEF openSamlSession
  <2> DEFINE o == Set(Session(token[t].user, 0, None, over))
  <2>2. /\ pc[t] = "user"
        /\ where' = [where EXCEPT ![t] = w]
        /\ UNCHANGED <<at, jar, stored, fragments>>
        /\ Answer(t, o, Set(token[t]), g)
    BY <1>8, <2>1 DEF openSamlSession
  <2>3. at[t] = "callback" =>
           stored[t].kind = "flow" /\ stored[t].state = t /\ Marked(t, stored[t])
    BY <1>1, <2>2 DEF FragmentTab, Carries, Found
  <2>4. at[t] \in {"callback", "initiated"}
    BY <1>1, <2>2 DEF FragmentTab, Carries, Found
  <2>5. ~IsFlowAnswer(o)
    BY FlowAnswers, CookieKinds
  <2>6. SentFrom(t, at[t], o, g)
    BY <2>3, <2>4 DEF SentFrom, Marked
  <2> HIDE DEF o, g
  <2>7. Place(t, w)
    BY <2>3, <2>4 DEF Marked, Place
  <2>8. FlowOf(t, at[t], o)
    BY <2>5 DEF FlowOf
  <2> HIDE DEF w
  <2> QED BY <1>1, <2>2, <2>6, <2>7, <2>8, FragmentAnswer
<1>9. CASE samlFails(t)
  <2>1. FlowOf(t, at[t], Keep) /\ SentFrom(t, at[t], Keep, "app")
    BY FlowAnswers DEF FlowOf, SentFrom
  <2> QED BY <1>1, <1>9, <2>1, FragmentReply DEF samlFails
<1> QED BY <1>2, <1>3, <1>4, <1>5, <1>6, <1>7, <1>8, <1>9

(* The session: its pages, the bearer's, and the logout. *)
LEMMA FragmentSession ==
    ASSUME FragmentInv, CookieInv, NEW t \in Tabs, UNCHANGED fragments,
           \/ samlInvalidCookie(t) \/ samlIsValidCookie(t) \/ samlAuthinfo(t)
           \/ Unauthenticated(t) \/ samlLogoutAdmitted(t) \/ samlLogout(t)
           \/ samlLogoutFails(t) \/ \E user \in Users : getCookie(t, user)
    PROVE  FragmentInv'
<1>1. Views /\ FragmentTab(t) /\ FlowOf(t, at[t], out[t])
  BY DEF CookieInv, FragmentInv, FragmentTab
<1> USE DEF Unchanged
<1>2. ASSUME NEW g \in {"app", "capture"}, at[t] = "pop" => g = "app",
             NEW o, ~IsFlowAnswer(o)
      PROVE  FlowOf(t, at[t], o) /\ SentFrom(t, at[t], o, g)
  BY <1>2 DEF FlowOf, SentFrom
<1>3. CASE samlInvalidCookie(t)
  <2>1. PICK g \in {"app", "capture"} : Answer(t, Clear, Keep, g) /\ (at[t] = "pop" => g = "app")
    BY <1>3 DEF samlInvalidCookie, Rejected
  <2> QED BY <1>1, <1>2, <1>3, <2>1, FlowAnswers, FragmentReply DEF samlInvalidCookie
<1>4. CASE samlIsValidCookie(t)
  <2> DEFINE o == IF Keepalive THEN Set(get(t)) ELSE Keep
  <2>1. ~IsFlowAnswer(o)
    BY <1>4, FlowAnswers DEF samlIsValidCookie, HasToken
  <2>2. /\ pc[t] = "sent" /\ pc' = [pc EXCEPT ![t] = "authinfo"] /\ out' = [out EXCEPT ![t] = o]
        /\ UNCHANGED <<goes, where, at, jar, stored, fragments>>
    BY <1>4 DEF samlIsValidCookie, Await
  <2>3. Found(t, at[t], "authinfo")
    BY DEF Found
  <2> HIDE DEF o
  <2> QED BY <1>1, <2>1, <2>2, <2>3, FragmentAwait
<1>5. CASE samlAuthinfo(t)
  <2> DEFINE g == IF at[t] = "fragment" THEN "pop" ELSE "app"
  <2>1. pc[t] = "authinfo" /\ Answer(t, out[t], Keep, g)
        /\ UNCHANGED <<where, at, jar, stored, fragments>>
    BY <1>5 DEF samlAuthinfo
  <2>2. SentFrom(t, at[t], out[t], g)
    BY DEF SentFrom
  <2> HIDE DEF g
  <2> QED BY <1>1, <2>1, <2>2, FragmentReply
<1>6. CASE Unauthenticated(t)
  <2>1. PICK g \in {"app", "capture"} : Answer(t, Clear, extra[t], g) /\ (at[t] = "pop" => g = "app")
    BY <1>6 DEF Unauthenticated
  <2> QED BY <1>1, <1>2, <1>6, <2>1, FlowAnswers, FragmentReply DEF Unauthenticated
<1>7. CASE samlLogoutAdmitted(t)
  <2>1. /\ at[t] = "signout" /\ pc[t] = "authinfo"
        /\ pc' = [pc EXCEPT ![t] = "leaving"] /\ at' = [at EXCEPT ![t] = "logout"]
        /\ out' = [out EXCEPT ![t] = out[t]] /\ goes' = [goes EXCEPT ![t] = goes[t]]
        /\ where' = [where EXCEPT ![t] = where[t]] /\ UNCHANGED <<jar, stored, fragments>>
    BY <1>1, <1>7, StaysSo, PlacesStay DEF samlLogoutAdmitted, Await, answer, FragmentInv
  <2>2. Place(t, where[t]) /\ FlowOf(t, "logout", out[t]) /\ Found(t, "logout", "leaving")
    BY <1>1, <2>1 DEF FragmentTab, Remembers, FlowOf, Found
  <2>3. "logout" \notin Beyond \cup {"app"}
    BY DEF Beyond
  <2> QED BY <1>1, <2>1, <2>2, <2>3, FragmentStep
<1>8. CASE samlLogout(t)
  BY <1>1, <1>2, <1>8, FlowAnswers, FragmentReply DEF samlLogout
<1>9. CASE samlLogoutFails(t)
  <2>1. SentFrom(t, at[t], out[t], "app")
    BY DEF SentFrom
  <2> QED BY <1>1, <1>9, <2>1, FragmentReply DEF samlLogoutFails
<1>10. CASE \E user \in Users : getCookie(t, user)
  <2>1. PICK user \in Users : getCookie(t, user)
    BY <1>10
  <2>2. ~IsFlowAnswer(Set(Session(user, 0, None, now + Ttl)))
    BY FlowAnswers, CookieKinds
  <2> QED BY <1>1, <1>2, <2>1, <2>2, FragmentReply DEF getCookie, Arrived
<1> QED BY <1>3, <1>4, <1>5, <1>6, <1>7, <1>8, <1>9, <1>10

(* Requests are sent, from the page with a fragment or without. *)
LEMMA FragmentAsk ==
    ASSUME FragmentInv, CookieInv, NEW t \in Tabs, NEW place \in SamlAsked, SamlAsk(t, place)
    PROVE  FragmentInv'
<1>1. PICK hash \in {NoHash, t} : fragment' = [fragment EXCEPT ![t] = hash]
  BY DEF SamlAsk
<1>2. /\ at' = [at EXCEPT ![t] = place] /\ where' = [where EXCEPT ![t] = t]
      /\ landed' = [landed EXCEPT ![t] = NoHash] /\ pc' = [pc EXCEPT ![t] = "sent"]
      /\ stored' = [stored EXCEPT ![t] = jar] /\ pc[t] = "none"
      /\ UNCHANGED <<jar, out, goes, samlHash, met>>
  BY DEF SamlAsk, Ask, Send, answer
<1>3. Views /\ out[t] = Keep
  BY <1>2 DEF CookieInv, CookieTab, Stage, View
<1>4. /\ fragment'[t] = hash /\ at'[t] = place /\ where'[t] = t /\ landed'[t] = NoHash
      /\ pc'[t] = "sent" /\ stored'[t] = jar /\ out'[t] = Keep
      /\ \A u \in Tabs \ {t} :
            /\ fragment'[u] = fragment[u] /\ at'[u] = at[u] /\ where'[u] = where[u]
            /\ landed'[u] = landed[u] /\ pc'[u] = pc[u] /\ stored'[u] = stored[u]
  BY <1>1, <1>2, <1>3 DEF FragmentInv, Places, Views, PerTab
<1>5. Places'
  BY <1>1, <1>2 DEF FragmentInv, Places, PerTab
<1>6. FragmentTab(t)'
  <2>1. place \notin Beyond \cup {"app"}
    BY DEF SamlAsked, Beyond
  <2> QED BY <1>4, <2>1, FlowAnswers
          DEF FragmentTab, Remembers, Carries, FlowOf, Found, Place, Beyond
<1>7. ASSUME NEW u \in Tabs \ {t}
      PROVE  FragmentTab(u)'
  <2>1. FragmentTab(u)
    BY DEF FragmentInv
  <2> QED BY <1>2, <1>4, <2>1
          DEF FragmentTab, Remembers, Carries, FlowOf, SentFrom, Marked, Found
<1> QED BY <1>5, <1>6, <1>7 DEF FragmentInv

LEMMA FragmentFollow ==
    ASSUME FragmentInv, CookieInv, NEW t \in Tabs, SamlFollow(t)
    PROVE  FragmentInv'
<1>1. /\ at[t] # "app" /\ pc' = [pc EXCEPT ![t] = "sent"] /\ pc[t] = "none"
      /\ stored' = [stored EXCEPT ![t] = jar]
      /\ UNCHANGED <<jar, out, goes, at, where, samlHash, fragment, landed, met>>
  BY DEF SamlFollow, Send, answer, fragments
<1>2. /\ Views
      /\ pc'[t] = "sent" /\ stored'[t] = jar
      /\ \A u \in Tabs \ {t} : pc'[u] = pc[u] /\ stored'[u] = stored[u]
  BY <1>1 DEF CookieInv, Views, PerTab
<1>3. Places'
  BY <1>1 DEF FragmentInv, Places, PerTab
<1>4. ASSUME NEW u \in Tabs
      PROVE  FragmentTab(u)'
  <2>1. FragmentTab(u)
    BY DEF FragmentInv
  <2>2. CASE u = t
    BY <1>1, <1>2, <2>1, <2>2
       DEF FragmentTab, Remembers, Carries, FlowOf, Marked, Found
  <2>3. CASE u # t
    BY <1>1, <1>2, <2>1, <2>3
       DEF FragmentTab, Remembers, Carries, FlowOf, SentFrom, Marked, Found
  <2> QED BY <2>2, <2>3
<1> QED BY <1>3, <1>4 DEF FragmentInv

(* The user comes back from the provider, with an assertion or without. *)
LEMMA FragmentMove ==
    ASSUME FragmentInv, CookieInv, NEW t \in Tabs, at[t] = "idp", NEW place \in {"callback", "app"},
           at' = [at EXCEPT ![t] = place],
           UNCHANGED <<jar, pc, stored, out, goes, where, fragments>>
    PROVE  FragmentInv'
<1>1. Views /\ pc[t] = "none" /\ out[t] = Keep
  BY DEF CookieInv, CookieTab, Stage, View
<1>2. at'[t] = place /\ \A u \in Tabs \ {t} : at'[u] = at[u]
  BY <1>1 DEF Views, PerTab
<1>3. UNCHANGED <<jar, pc, stored, out, goes, where, samlHash, fragment, landed, met>>
  BY DEF fragments
<1>4. Places'
  BY <1>3 DEF FragmentInv, Places, PerTab
<1>5. ASSUME NEW u \in Tabs
      PROVE  FragmentTab(u)'
  <2>1. FragmentTab(u)
    BY DEF FragmentInv
  <2>2. CASE u = t
    BY <1>1, <1>2, <1>3, <2>1, <2>2, FlowAnswers
       DEF FragmentTab, Remembers, Carries, FlowOf, SentFrom, Marked, Found, Beyond
  <2>3. CASE u # t
    BY <1>2, <1>3, <2>1, <2>3
       DEF FragmentTab, Remembers, Carries, FlowOf, SentFrom, Marked, Found
  <2> QED BY <2>2, <2>3
<1> QED BY <1>4, <1>5 DEF FragmentInv

(* What the scripts leave: tab t has its own fragment in the storage, or has taken it  *)
(* out, and the other tabs know that theirs may be gone.                        *)
Scripts(t) ==
    /\ UNCHANGED fragment /\ Places'
    /\ \A u \in Tabs \ {t} : landed'[u] = landed[u]
    /\ \/ UNCHANGED <<samlHash, landed, met>> /\ (at[t] = "script" => fragment[t] = NoHash)
       \/ /\ at[t] = "script" /\ samlHash' = t /\ UNCHANGED landed
          /\ ~met'[t] /\ \A u \in Tabs \ {t} : met'[u]
       \/ /\ at[t] = "pop" /\ met'[t] = met[t] /\ \A u \in Tabs \ {t} : met'[u]
          /\ samlHash' = NoHash
          /\ landed'[t] = IF samlHash = NoHash THEN NullHash ELSE samlHash

LEMMA ScriptsRun ==
    ASSUME FragmentInv, NEW t \in Tabs, SamlDeliver(t)
    PROVE  Scripts(t)
<1>1. UNCHANGED <<fragment, where>> /\ goes' = [goes EXCEPT ![t] = "app"]
  BY DEF SamlDeliver, Deliver, Settled
<1>2. Places /\ Remembers(t)
  BY DEF FragmentInv, FragmentTab
<1>3. CASE at[t] = "script" /\ captureUrlFragmentScript(t) /\ UNCHANGED landed
  <2>1. CASE fragment[t] # NoHash
    <3>1. samlHash' = t /\ met' = [TouchedBy(t) EXCEPT ![t] = FALSE]
      BY <1>2, <1>3, <2>1 DEF captureUrlFragmentScript, Remembers
    <3>2. ~met'[t] /\ PerTab(met)' /\ \A u \in Tabs \ {t} : met'[u]
      BY <3>1 DEF TouchedBy, PerTab
    <3> QED BY <1>1, <1>2, <1>3, <3>1, <3>2 DEF Scripts, Places, PerTab
  <2>2. CASE fragment[t] = NoHash
    BY <1>1, <1>2, <1>3, <2>2 DEF captureUrlFragmentScript, Scripts, Places, PerTab
  <2> QED BY <2>1, <2>2
<1>4. CASE at[t] = "pop" /\ redirectUrlFragmentScript(t)
  <2>1. /\ samlHash' = NoHash /\ met' = TouchedBy(t)
        /\ landed' = [landed EXCEPT ![t] = IF samlHash = NoHash THEN NullHash ELSE samlHash]
    BY <1>4 DEF redirectUrlFragmentScript
  <2>2. /\ met'[t] = met[t] /\ PerTab(met)' /\ PerTab(landed)'
        /\ landed'[t] = (IF samlHash = NoHash THEN NullHash ELSE samlHash)
        /\ \A u \in Tabs \ {t} : met'[u] /\ landed'[u] = landed[u]
    BY <1>2, <2>1 DEF TouchedBy, Places, PerTab
  <2> QED BY <1>1, <1>2, <1>4, <2>1, <2>2 DEF Scripts, Places, PerTab
<1>5. CASE at[t] # "script" /\ UNCHANGED <<samlHash, landed, met>>
  BY <1>1, <1>2, <1>5 DEF Scripts, Places, PerTab
<1> QED BY <1>3, <1>4, <1>5 DEF SamlDeliver

LEMMA FragmentDeliver ==
    ASSUME FragmentInv, CookieInv, NEW t \in Tabs, SamlDeliver(t)
    PROVE  FragmentInv'
<1>1. /\ pc[t] = "answered" /\ Settled(t) /\ at' = [at EXCEPT ![t] = goes[t]]
      /\ jar' = (IF out[t] = Keep THEN jar ELSE out[t].value) /\ UNCHANGED where
  BY DEF SamlDeliver, Deliver
<1>2. Scripts(t) /\ FragmentTab(t)
  BY ScriptsRun DEF FragmentInv
<1>3. /\ Views /\ Places
      /\ pc'[t] = "none" /\ out'[t] = Keep /\ at'[t] = goes[t]
      /\ \A u \in Tabs \ {t} :
            /\ pc'[u] = pc[u] /\ out'[u] = out[u] /\ at'[u] = at[u] /\ stored'[u] = stored[u]
            /\ goes'[u] = goes[u]
  BY <1>1 DEF Settled, CookieInv, FragmentInv, Views, Places, PerTab
<1>4. Remembers(t)'
  <2>1. Remembers(t) /\ SentFrom(t, at[t], out[t], goes[t]) /\ FlowOf(t, at[t], out[t])
    BY <1>1, <1>2 DEF FragmentTab
  <2>2. UNCHANGED <<fragment, where>>
    BY <1>1, <1>2 DEF Scripts
  <2>3. at'[t] \in {"idp", "callback"} => Marked(t, jar)'
    BY <1>1, <1>3, <2>1, <2>2 DEF SentFrom, FlowOf, IsFlowAnswer, Marked
  <2>4. at'[t] \in Beyond => at[t] \in {"script", "callback", "login", "fragment"}
    BY <1>3, <2>1 DEF SentFrom, FlowOf, Beyond
  <2>5. at'[t] \in Beyond /\ fragment[t] # NoHash /\ ~met'[t] => samlHash' = t
    BY <1>2, <2>1, <2>4 DEF Scripts, Remembers, Beyond
  <2>6. at[t] # "app" /\ landed[t] = NoHash
    BY <1>1, <2>1 DEF Remembers
  <2>7. at[t] = "pop" => at'[t] = "app"
    BY <1>3, <2>1 DEF SentFrom
  <2>8. at'[t] # "app" => landed'[t] = NoHash
    BY <1>2, <2>1, <2>6, <2>7 DEF Scripts
  <2>9. at[t] = "pop" /\ ~met[t] => samlHash = t
    BY <2>1 DEF Remembers, Beyond
  <2>10. landed'[t] # NoHash /\ ~met'[t] => landed'[t] = t
    BY <1>2, <2>6, <2>9, SamlAssumption DEF Scripts
  <2>11. at'[t] \in {"fragment", "pop"} => fragment'[t] # NoHash
    BY <1>3, <2>1, <2>2 DEF SentFrom, Remembers
  <2> QED BY <1>3, <2>1, <2>2, <2>3, <2>5, <2>8, <2>10, <2>11 DEF Remembers
<1>5. Carries(t)' /\ FlowOf(t, at[t], out[t])'
  BY <1>3, FlowAnswers DEF Carries, Found, FlowOf
<1>6. ASSUME NEW u \in Tabs \ {t}
      PROVE  FragmentTab(u)'
  <2>1. FragmentTab(u) /\ FlowOf(t, at[t], out[t])
    BY <1>2 DEF FragmentInv, FragmentTab
  <2>2. /\ UNCHANGED <<fragment, where>> /\ landed'[u] = landed[u]
        /\ met'[u] \/ (met'[u] = met[u] /\ samlHash' = samlHash)
    BY <1>1, <1>2 DEF Scripts
  <2>3. Marked(u, jar) => Marked(u, jar)'
    BY <1>1, <2>1, <2>2 DEF Marked, FlowOf, IsFlowAnswer
  <2>4. Remembers(u)'
    BY <1>3, <2>1, <2>2, <2>3 DEF FragmentTab, Remembers
  <2>5. Carries(u)' /\ FlowOf(u, at[u], out[u])'
        /\ (pc'[u] = "answered" => SentFrom(u, at[u], out[u], goes[u])')
    BY <1>3, <2>1, <2>2 DEF FragmentTab, Carries, Found, FlowOf, Marked, SentFrom
  <2> QED BY <2>4, <2>5 DEF FragmentTab
<1> QED BY <1>2, <1>3, <1>4, <1>5, <1>6 DEF FragmentInv, FragmentTab, Scripts

LEMMA FragmentLose ==
    ASSUME FragmentInv, CookieInv, NEW t \in Tabs, Lose(t), UNCHANGED fragments
    PROVE  FragmentInv'
<1>1. Settled(t) /\ at' = [at EXCEPT ![t] = "app"]
      /\ UNCHANGED <<jar, where, samlHash, fragment, landed, met>>
  BY DEF Lose, fragments
<1>2. /\ Places'
      /\ pc'[t] = "none" /\ out'[t] = Keep /\ at'[t] = "app"
      /\ \A u \in Tabs \ {t} :
            /\ pc'[u] = pc[u] /\ out'[u] = out[u] /\ at'[u] = at[u] /\ stored'[u] = stored[u]
            /\ goes'[u] = goes[u]
  BY <1>1 DEF Settled, CookieInv, FragmentInv, Views, Places, PerTab
<1>3. ASSUME NEW u \in Tabs
      PROVE  FragmentTab(u)'
  <2>1. FragmentTab(u)
    BY DEF FragmentInv
  <2>2. CASE u = t
    BY <1>1, <1>2, <2>1, <2>2, FlowAnswers
       DEF FragmentTab, Remembers, Carries, Found, FlowOf, Beyond
  <2>3. CASE u # t
    BY <1>1, <1>2, <2>1, <2>3
       DEF FragmentTab, Remembers, Carries, FlowOf, SentFrom, Marked, Found
  <2> QED BY <2>2, <2>3
<1> QED BY <1>2, <1>3 DEF FragmentInv

LEMMA FragmentNext ==
    ASSUME FragmentInv, CookieInv, [SamlNext]_samlVars
    PROVE  FragmentInv'
<1>1. ASSUME NEW t \in Tabs, SamlServer(t), UNCHANGED fragments
      PROVE  FragmentInv'
  BY <1>1, FragmentLogin, FragmentSession DEF SamlServer
<1>2. ASSUME NEW t \in Tabs,
             Leave(t) \/ (UNCHANGED fragments /\ \E user \in Users : Authenticate(t, user))
      PROVE  FragmentInv'
  BY <1>2, FragmentMove DEF Leave, Authenticate, request, answer
<1>3. CASE (Tick /\ UNCHANGED fragments) \/ UNCHANGED samlVars
  <2>1. UNCHANGED <<jar, at, where, pc, stored, out, goes, samlHash, fragment, landed, met>>
    BY <1>3 DEF Tick, samlVars, vars, browser, request, answer, fragments
  <2> QED BY <2>1 DEF FragmentInv, Places, PerTab, FragmentTab, Remembers, Carries, FlowOf,
                      SentFrom, Marked, Found
<1> QED BY <1>1, <1>2, <1>3, FragmentAsk, FragmentFollow, FragmentDeliver, FragmentLose
           DEF SamlNext

LEMMA FragmentInit == SamlInit => FragmentInv
<1> SUFFICES ASSUME SamlInit
             PROVE  FragmentInv
  OBVIOUS
<1>1. Places
  BY DEF SamlInit, Idle, NoFragments, Places, PerTab
<1>2. ASSUME NEW t \in Tabs
      PROVE  FragmentTab(t)
  BY FlowAnswers DEF SamlInit, Idle, NoFragments, FragmentTab, Remembers, Carries,
     FlowOf, Found, Beyond, Place
<1> QED BY <1>1, <1>2 DEF FragmentInv

(* The inductive invariant of the next two theorems. *)
THEOREM SamlFragments == SamlSpec => []FragmentInv
<1>1. FragmentInv /\ CookieInv /\ [SamlNext]_samlVars => FragmentInv'
  BY FragmentNext
<1> QED BY <1>1, FragmentInit, SamlCookies, PTL DEF SamlSpec

(* The fragment that saml/routes.ts's scripts carry over the login is that of the tab's  *)
(* own page, whatever was left in the storage, unless another tab has touched it since. *)
THEOREM SamlFragmentIsOwn == SamlSpec => []FragmentIsOwn
<1>1. FragmentInv => FragmentIsOwn
  BY DEF FragmentInv, FragmentTab, Remembers, FragmentIsOwn
<1> QED BY <1>1, SamlFragments, PTL

(* A login by SAML too returns to the page its own tab was at. *)
THEOREM SamlReturnsToOwnPage == SamlSpec => []ReturnsToOwnPage
<1>1. FragmentInv => ReturnsToOwnPage
  BY DEF FragmentInv, FragmentTab, Remembers, Place, ReturnsToOwnPage
<1> QED BY <1>1, SamlFragments, PTL
=============================================================================
