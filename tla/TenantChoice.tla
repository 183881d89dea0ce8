---------------------------- MODULE TenantChoice ----------------------------
(***************************************************************************)
(* The tenants of one user's session: each request asks for a tenant or      *)
(* leaves the choice to the server, which resolves it and remembers its       *)
(* last answer in the cookie (authentication_type.ts:180-184).               *)
(***************************************************************************)
EXTENDS TenantResolver

CONSTANTS
    User,           \* the user's name
    ConfChoices,    \* configurations of the plugin
    TenancyChoices, \* what the backend says of multitenancy
    Availables,     \* the tenants the user can hold
    Queries,        \* what a request asks for
    NoneYet         \* no answer

(* Every tenant has a name, the global one too, and nobody is called by the        *)
(* symbols of the global and the private tenant.                              *)
ASSUME ChoiceAssumption ==
    /\ User \in Names \ {GlobalTenant, PrivateTenant}
    /\ ConfChoices \subseteq Conf /\ TenancyChoices \subseteq Tenancy
    /\ Availables \subseteq Seq(Names \ {GlobalTenant}) /\ Queries \subseteq Seq(Names)
    /\ NoneYet \notin Names \cup {Undefined}

VARIABLES confNow, tenancyNow, granted, asked, cookie, answer
choiceVars == <<confNow, tenancyNow, granted, asked, cookie, answer>>

ChoiceInit ==
    /\ confNow \in ConfChoices /\ tenancyNow \in TenancyChoices /\ granted \in Availables
    /\ cookie \in Names \cup {Undefined}
    /\ asked = <<>> /\ answer = NoneYet

Request ==
    /\ asked' \in Queries
    /\ answer' = resolveTenant(User, asked', cookie, granted, confNow, tenancyNow)
    /\ cookie' = IF isValidTenant(answer') THEN answer' ELSE cookie
    /\ UNCHANGED <<confNow, tenancyNow, granted>>

(* An administrator changes the roles, hence the tenants, of the user. *)
Regrant ==
    /\ granted' \in Availables
    /\ answer' = NoneYet /\ asked' = <<>>
    /\ UNCHANGED <<confNow, tenancyNow, cookie>>

ChoiceNext == Request \/ Regrant
ChoiceSpec == ChoiceInit /\ [][ChoiceNext]_choiceVars

Resolved == answer # NoneYet

(* Whatever the query, the cookie and the preferences say, the tenant given *)
(* is one the user is entitled to under the configuration in force.   *)
OnlyEntitled ==
    Resolved /\ isValidTenant(answer) => answer \in Entitled(granted, confNow, tenancyNow)

(* A user is turned away exactly when nothing but their own name is left;   *)
(* every other user gets some tenant, through whichever fallback.           *)
RefusedOnlyWithoutTenant ==
    Resolved => (answer = Undefined <=> Entitled(granted, confNow, tenancyNow) \subseteq {User})

(* A request that names no tenant stays in the one the session was given:   *)
(* resolving the answer again gives it back, so the cookie does not drift.  *)
StaysPut ==
    [][Resolved /\ isValidTenant(answer) /\ answer' # NoneYet /\ asked' = <<>>
          => answer' = answer]_choiceVars

(* A tenant the user holds is given to them when they ask for it by name.   *)
(* (Their own name alone does not count once the global and private tenants *)
(* are both off: see RefusedOnlyWithoutTenant.)                             *)
AskedAndHeld ==
    Resolved /\ tenancyNow.mt /\ asked # <<>> =>
        LET t == asked[1]
        IN  In(t, granted) /\ Entitled(granted, confNow, tenancyNow) # {User} => answer = t
=============================================================================
