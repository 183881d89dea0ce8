---------------------------- MODULE MCAuthHandler ----------------------------
(***************************************************************************)
(* Small instances of AuthHandler.  Two users with a password or token each, *)
(* an anonymous one, two requests at a time, and a backend that withdraws a  *)
(* tenant, a user, or the multitenancy setting.                              *)
(***************************************************************************)
EXTENDS AuthHandler, TLC

CONSTANTS annCred, bobCred, anonCred

MCUsers == {"ann", "bob", "nobody"}
MCCreds == {annCred, bobCred, anonCred}
MCCredUser == (annCred :> "ann") @@ (bobCred :> "bob") @@ (anonCred :> "nobody")
MCNames == PRIVATE_TENANTS \cup GLOBAL_TENANTS \cup {globalTenantName, "hr", "ann", "bob"}
MCLowerCase == [t \in MCNames |->
    CASE t = "Private" -> "private" [] t = "Global" -> "global" [] OTHER -> t]

Never == MaxTime + Ttl + 1
Passwords == [c \in MCCreds |-> Never]
ShortTokens == (annCred :> 2) @@ (bobCred :> Never) @@ (anonCred :> Never)

(* The backend before and after an administrator's change. *)
Open == [mt |-> TRUE, private |-> TRUE, default |-> "hr"]
Closed == [mt |-> FALSE, private |-> TRUE, default |-> Undefined]
Granting(ann, bob, tenancy) ==
    [grant |-> ("ann" :> ann) @@ ("bob" :> bob) @@ ("nobody" :> <<globalTenantName>>),
     tenancy |-> tenancy]
Full == Granting(<<globalTenantName, "hr", "ann">>, <<globalTenantName, "bob">>, Open)
LessHr == Granting(<<globalTenantName, "ann">>, <<globalTenantName, "bob">>, Open)
NoAnn == Granting(Denied, <<globalTenantName, "bob">>, Open)
NoTenancy == Granting(<<globalTenantName, "hr", "ann">>, <<globalTenantName, "bob">>, Closed)
Gone == [NoAnn EXCEPT !.grant["nobody"] = Denied]

FullOrLess == {Full, LessHr, NoAnn}
FullClosedOrNoAnn == {Full, NoTenancy, NoAnn}
FullOrGone == {Full, Gone}

GlobalFirst == [global |-> TRUE, preferred |-> <<>>]
PrivateFirst == [global |-> FALSE, preferred |-> <<"Private", "hr">>]

Basic == <<BASIC>>
Jwt == <<JWT>>
BasicJwt == <<BASIC, JWT>>

Plain(kind) == [Blank EXCEPT !.kind = kind]
LoginAs(cred) == [Plain("login") EXCEPT !.cred = cred]
Bearing(via, cred) == [Plain("page") EXCEPT !.via = via, !.cred = cred]
Switch(t) == [Plain("tenant") EXCEPT !.tenant = t]

(* The tenant a request works in, while tenants and users come and go. *)
TenantRequests ==
    {Plain("page"), LoginAs(annCred), Bearing("authorization", bobCred), Plain("logout"),
     Switch("hr"), [Plain("api") EXCEPT !.asked = <<"Private">>]}

(* Sessions of two types side by side, through time. *)
ExpiryRequests ==
    {Plain("page"), Plain("logout"), Plain("anonymous"), LoginAs(bobCred),
     Bearing("urlparam", annCred)}

(* One JWT under a header name of its own. *)
JwtRequests == {Plain("page"), Bearing("jwtheader", annCred), Plain("logout")}

(* Every way through the handler. *)
PathRequests ==
    {Plain("page"), Plain("asset"), Plain("capabilities"), Plain("public"), Plain("loginPage"),
     LoginAs(annCred), LoginAs(bobCred), Plain("anonymous"),
     Bearing("authorization", annCred), Switch("hr")}

Symmetric == Permutations(Reqs)
=============================================================================
