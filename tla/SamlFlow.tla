------------------------------- MODULE SamlFlow -------------------------------
(***************************************************************************)
(* server/auth/types/saml: logging in by an assertion of the identity provider, *)
(* asked for by the browser or sent unasked, and logging out.  The browser, its  *)
(* cookies and tabs are those of OpenIdFlow; the request id that the backend     *)
(* gives a login is named by its tab, as the nonce is there.                    *)
(*                                                                         *)
(* The fragment of a page's URL never reaches the server: a script keeps it in     *)
(* local storage, which the tabs share, and another one takes it out again.     *)
(***************************************************************************)
EXTENDS OpenIdFlow

CONSTANTS
    NoHash,           \* no fragment
    NullHash,         \* "null", which JavaScript appends for a missing one
    MaxSamlAsks       \* bound: requests of the user's own making

ASSUME SamlAssumption ==
    /\ NoHash \notin Tabs /\ NullHash \notin Tabs \cup {NoHash}
    /\ MaxSamlAsks \in 0..MaxAsks

VARIABLES
    samlHash,         \* in local storage
    fragment,         \* per tab: of the page it asked for
    landed,           \* per tab: the fragment its login has ended with
    met               \* history: another tab has touched samlHash since
fragments == <<samlHash, fragment, landed, met>>
samlVars == <<vars, fragments>>

SamlAsked == {"page", "background", "bearer", "signout", "initiated"}
SamlGuarded == {"page", "background", "signout", "fragment", "pop"}

NoFragments ==
    /\ samlHash = NoHash
    /\ fragment = [t \in Tabs |-> NoHash] /\ landed = [t \in Tabs |-> NoHash]
    /\ met = [t \in Tabs |-> FALSE]

SamlInit ==
    /\ Idle /\ issued = 0
    /\ \/ NewBrowser
       \/ \E user \in Users : EarlierVisit(Session(user, 0, None, now + TokenLife))
    /\ NoFragments
-----------------------------------------------------------------------------
(* The browser. *)
SamlAsk(t, place) ==
    /\ asks < MaxSamlAsks /\ Ask(t, place)
    /\ \E hash \in (IF place = "page" THEN {NoHash, t} ELSE {NoHash}) :
          fragment' = [fragment EXCEPT ![t] = hash]
    /\ landed' = [landed EXCEPT ![t] = NoHash]
    /\ UNCHANGED <<samlHash, met>>

SamlFollow(t) ==
    /\ at[t] \in {"capture", "script", "login", "callback", "fragment", "pop"}
    /\ Send(t)
    /\ UNCHANGED <<at, where, asks, fragments>>

(* The user goes back from the provider. *)
Leave(t) ==
    /\ at[t] = "idp"
    /\ at' = [at EXCEPT ![t] = "app"]
    /\ UNCHANGED <<jar, pieces, where, request, answer, now, idp, bounds, history, fragments>>

TouchedBy(t) == [u \in Tabs |-> IF u = t THEN met[t] ELSE TRUE]

(* Fault: a fragment that is there already is left. *)
captureUrlFragmentScript_KeepsOld(t) ==
    IF fragment[t] # NoHash
    THEN /\ samlHash' = IF samlHash = NoHash THEN fragment[t] ELSE samlHash
         /\ met' = [TouchedBy(t) EXCEPT ![t] = FALSE]
    ELSE UNCHANGED <<samlHash, met>>

captureUrlFragmentScript(t) ==
    IF fragment[t] # NoHash
    THEN /\ samlHash' = fragment[t]
         /\ met' = [TouchedBy(t) EXCEPT ![t] = FALSE]
    ELSE UNCHANGED <<samlHash, met>>

(* A fragment that is no longer there is appended as "null". *)
redirectUrlFragmentScript(t) ==
    /\ landed' = [landed EXCEPT ![t] = IF samlHash = NoHash THEN NullHash ELSE samlHash]
    /\ samlHash' = NoHash
    /\ met' = TouchedBy(t)

(* An answer that is a script runs; an error page is none. *)
SamlDeliver(t) ==
    /\ Deliver(t)
    /\ \/ at[t] = "script" /\ captureUrlFragmentScript(t) /\ UNCHANGED landed
       \/ at[t] = "pop" /\ out[t] # Clear /\ redirectUrlFragmentScript(t)
       \/ /\ at[t] # "script" /\ ~(at[t] = "pop" /\ out[t] # Clear)
          /\ UNCHANGED <<samlHash, landed, met>>
    /\ UNCHANGED fragment

-----------------------------------------------------------------------------
(* The capture page and its script both clear the cookie. *)
samlCapture(t) ==
    /\ \/ Arrived(t, "capture") /\ Answer(t, Clear, Keep, "script")
       \/ Arrived(t, "script") /\ Answer(t, Clear, Keep, "login")
    /\ UNCHANGED <<where, stored, token, idp, bounds>> /\ Unchanged

samlLogin(t) ==
    /\ Arrived(t, "login")
    /\ Await(t, "header")
    /\ UNCHANGED <<where, stored, token, answer, idp, bounds>> /\ Unchanged

SamlCookie(t) ==
    [kind |-> "flow", state |-> t, nextUrl |-> where[t], redirectHash |-> fragment[t] # NoHash]

getSamlHeader(t) ==
    /\ pc[t] = "header"
    /\ Answer(t, Set(SamlCookie(t)), Keep, "idp")
    /\ UNCHANGED <<where, stored, token, idp, bounds>> /\ Unchanged

(* POST saml/acs asks for a request id in the cookie, whichever it is. *)
acsRefused(t) ==
    /\ Arrived(t, "callback") /\ get(t).kind # "flow"
    /\ Answer(t, Keep, Keep, "app")
    /\ UNCHANGED <<where, stored, token, idp, bounds>> /\ Unchanged

acs(t) ==
    /\ \/ Arrived(t, "callback") /\ get(t).kind = "flow"
       \/ Arrived(t, "initiated")
    /\ Await(t, "token")
    /\ UNCHANGED <<where, stored, token, answer, idp, bounds>> /\ Unchanged

(* The backend takes an assertion for the request it answers, or for none. *)
AnswersRequest(t) == at[t] = "callback" => stored[t].state = t

authToken(t) ==
    /\ pc[t] = "token" /\ AnswersRequest(t)
    /\ Await(t, "user")
    /\ \E user \in (IF at[t] = "initiated" THEN Users ELSE {code[t]}) :
          token' = [token EXCEPT ![t] = IdToken(user)]
    /\ UNCHANGED <<where, stored, answer, idp, bounds>> /\ Unchanged

(* The session ends with its token, if that says when, or after the ttl. *)
openSamlSession(t) ==
    /\ pc[t] = "user"
    /\ \E end \in {token[t].exp, now + Ttl} :
          Answer(t, Set(Session(token[t].user, 0, None, end)), Set(token[t]),
                 IF at[t] = "callback" /\ stored[t].redirectHash THEN "fragment" ELSE "app")
    /\ where' = [where EXCEPT ![t] = IF at[t] = "initiated" THEN Base ELSE stored[t].nextUrl]
    /\ UNCHANGED <<stored, token, idp, bounds>> /\ Unchanged

(* A failure ends the attempt: the cookie stays as it is. *)
samlFails(t) ==
    /\ pc[t] \in {"header", "token", "user"}
    /\ \/ faults < MaxFaults /\ faults' = faults + 1
       \/ pc[t] = "token" /\ ~AnswersRequest(t) /\ UNCHANGED faults
    /\ Answer(t, Keep, Keep, "app")
    /\ UNCHANGED <<where, stored, token, idp, asks>> /\ Unchanged

-----------------------------------------------------------------------------
(* authHandler, for the pages, the logout and the pages of the fragment. *)
samlInvalidCookie(t) ==
    /\ pc[t] = "sent" /\ at[t] \in SamlGuarded /\ ~HasToken(t)
    /\ Rejected(t)
    /\ UNCHANGED <<where, stored, token, idp, bounds>> /\ Unchanged

(* Keepalive sends the cookie back as it is. *)
samlIsValidCookie(t) ==
    /\ pc[t] = "sent" /\ at[t] \in SamlGuarded /\ HasToken(t)
    /\ Await(t, "authinfo")
    /\ out' = [out EXCEPT ![t] = IF Keepalive THEN Set(get(t)) ELSE Keep]
    /\ UNCHANGED <<where, stored, token, extra, goes, idp, bounds>> /\ Unchanged

samlAuthinfo(t) ==
    /\ pc[t] = "authinfo" /\ token[t].exp > now /\ at[t] # "signout"
    /\ Answer(t, out[t], Keep, IF at[t] = "fragment" THEN "pop" ELSE "app")
    /\ UNCHANGED <<where, stored, token, idp, bounds>> /\ Unchanged

(* The handler of the logout is reached, and asks once more who it is for. *)
samlLogoutAdmitted(t) ==
    /\ pc[t] = "authinfo" /\ token[t].exp > now /\ at[t] = "signout"
    /\ Await(t, "leaving")
    /\ at' = [at EXCEPT ![t] = "logout"]
    /\ UNCHANGED <<jar, pieces, where, stored, token, code, answer, now, idp, bounds, history>>

samlLogout(t) ==
    /\ pc[t] = "leaving" /\ token[t].exp > now
    /\ Answer(t, Clear, Set(NoToken), "app")
    /\ UNCHANGED <<where, stored, token, idp, bounds>> /\ Unchanged

(* Nothing is cleared when the backend does not answer, or not any more. *)
samlLogoutFails(t) ==
    /\ pc[t] = "leaving"
    /\ \/ token[t].exp <= now /\ UNCHANGED faults
       \/ faults < MaxFaults /\ faults' = faults + 1
    /\ Answer(t, out[t], Keep, "app")
    /\ UNCHANGED <<where, stored, token, idp, asks>> /\ Unchanged

SamlServer(t) ==
    \/ samlCapture(t) \/ samlLogin(t) \/ getSamlHeader(t)
    \/ acsRefused(t) \/ acs(t) \/ authToken(t) \/ openSamlSession(t) \/ samlFails(t)
    \/ samlInvalidCookie(t) \/ samlIsValidCookie(t) \/ samlAuthinfo(t) \/ Unauthenticated(t)
    \/ samlLogoutAdmitted(t) \/ samlLogout(t) \/ samlLogoutFails(t)
    \/ \E user \in Users : getCookie(t, user)

SamlNext ==
    \/ \E t \in Tabs :
          \/ \E place \in SamlAsked : SamlAsk(t, place)
          \/ SamlFollow(t) \/ Leave(t) \/ SamlDeliver(t)
          \/ /\ UNCHANGED fragments
             /\ \/ \E user \in Users : Authenticate(t, user)
                \/ SamlServer(t) \/ Lose(t)
    \/ Tick /\ UNCHANGED fragments

SamlSpec == SamlInit /\ [][SamlNext]_samlVars

-----------------------------------------------------------------------------
(* A login that brings back the fragment of a page brings back its own, whatever    *)
(* an earlier login that was given up has left, unless another tab has captured or   *)
(* taken one meanwhile: then it is the other's, or the word "null".            *)
FragmentIsOwn ==
    \A t \in Tabs : landed[t] # NoHash /\ ~met[t] => landed[t] = t
=============================================================================
