---------------------------- MODULE BrowserSession ----------------------------
(***************************************************************************)
(* What the plugin promises of the one session cookie a browser holds, seen *)
(* from the browser.  A request leaves with a copy of the cookie; when it    *)
(* ends, the cookie in the browser is what it was, or gone, or the copy the  *)
(* request left with, renewed, or a session opened by a credential that very *)
(* request presented.                                                        *)
(*                                                                         *)
(* So concurrent requests can undo one another (a renewed copy may bring     *)
(* back a session closed in between, or an earlier tenant), but no           *)
(* interleaving mixes two sessions, gives a session to somebody who never    *)
(* presented its credential, or makes one outlast its renewals.              *)
(***************************************************************************)
EXTENDS SessionCookie

CONSTANTS Reqs, CredUser, Keepalive, MaxTime

VARIABLES now, jar, carried
abstractVars == <<now, jar, carried>>

Idle == [cookie |-> NoCookie, presents |-> {}, under |-> FALSE]

Init ==
    /\ now = 0
    /\ jar = NoCookie
    /\ carried = [r \in Reqs |-> Idle]

Tick == now < MaxTime /\ now' = now + 1 /\ UNCHANGED <<jar, carried>>

Begin(r, creds) ==
    /\ ~carried[r].under
    /\ carried' = [carried EXCEPT ![r] = [cookie |-> jar, presents |-> creds, under |-> TRUE]]
    /\ UNCHANGED <<now, jar>>

(* A renewed session is the same one, with any tenant, and a later end only  *)
(* where sessions are kept alive. *)
Renews(old, new) ==
    /\ old # NoCookie /\ new # NoCookie
    /\ new.authType = old.authType /\ new.username = old.username /\ new.cred = old.cred
    /\ \/ new.expiryTime = old.expiryTime
       \/ Keepalive /\ old.authType # SAML /\ new.expiryTime <= now + Ttl

(* A session opened by one of the credentials, for the user behind it.  It is  *)
(* labelled anonymous when the backend was asked about a request without it,    *)
(* and nameless by the proxy type.                                             *)
Opened(creds, new) ==
    /\ new # NoCookie
    /\ \E c \in creds :
        /\ new.cred = c \/ (new.cred = Anonymous /\ CredUser[c] = AnonymousUser)
        /\ new.username \in {CredUser[c], AnonymousUser, NoUser}
    /\ new.expiryTime <= now + Ttl

End(r) ==
    /\ carried[r].under
    /\ carried' = [carried EXCEPT ![r] = Idle]
    /\ \/ jar' = jar
       \/ jar' = NoCookie
       \/ jar' \in Session /\ Renews(carried[r].cookie, jar')
       \/ jar' \in Session /\ Opened(carried[r].presents, jar')
    /\ UNCHANGED now

Next ==
    \/ Tick
    \/ \E r \in Reqs, creds \in SUBSET Creds : Begin(r, creds)
    \/ \E r \in Reqs : End(r)

Spec == Init /\ [][Next]_abstractVars
=============================================================================
