------------------------------ MODULE MCTenants ------------------------------
(***************************************************************************)
(* Which tenant a user gets, and what is done in it, in one run.  The choice is a  *)
(* session of Ann's under every small configuration: tenants she shares, her own     *)
(* and the global one, preferred ones in either case, and requests that ask for       *)
(* nothing, for any name, or for two at once.  The storage is a server that allows    *)
(* private tenants or not, in its own configuration and in the backend's, with Ann,   *)
(* who has write access to the team, and Bob, who may only read there.  Neither       *)
(* knows of the other: each is explored with the other at its start.           *)
(***************************************************************************)
EXTENDS TenantChoice, TenantStorage

TenantNames == PRIVATE_TENANTS \cup GLOBAL_TENANTS \cup
               {globalTenantName, "ann", "bob", "hr", "HR", "ops", "team", "default"}
Lower == [t \in TenantNames |->
    CASE t = "Private" -> "private" [] t = "Global" -> "global" [] t = "HR" -> "hr"
      [] OTHER -> t]

Known == TenantNames \ {"bob", "team", "default"}
MCAvailables == {<<>>, <<User>>, <<"hr">>, <<User, "hr">>, <<"hr", "ops">>,
                 <<globalTenantName, User>>, <<globalTenantName>>,
                 <<globalTenantName, "hr", User>>}
MCConfs == [global : BOOLEAN,
            preferred : {<<>>, <<"Private", "hr">>, <<"HR">>, <<"ops", "Global">>}]
MCTenancies == [mt : BOOLEAN, private : BOOLEAN, default : {Undefined, "hr", "Private"}]
MCQueries == {<<>>} \cup {<<t>> : t \in Known} \cup {<<GlobalTenant, "hr">>, <<"ops", "hr">>}

Available == [u \in {"ann", "bob"} |-> <<"global_tenant", "team", u>>]
Writable == [u \in {"ann", "bob"} |->
               IF u = "ann" THEN {"ann", "team", "global_tenant"} ELSE {"bob"}]
Settings == {[mt |-> TRUE, private |-> TRUE, default |-> ""],
             [mt |-> TRUE, private |-> FALSE, default |-> "team"],
             [mt |-> FALSE, private |-> TRUE, default |-> ""]}
Kinds == {[type |-> "config", id |-> 1], [type |-> "dashboard", id |-> 1]}

VARIABLE part

NoChoice ==
    /\ ChoiceInit /\ granted = <<>> /\ cookie = Undefined
    /\ confNow = (CHOOSE c \in ConfChoices : TRUE)
    /\ tenancyNow = (CHOOSE s \in TenancyChoices : TRUE)
NoStorage ==
    /\ Init /\ tenancy = (CHOOSE s \in Settings : TRUE) /\ session.user = "ann"
    /\ conf = [enabled |-> TRUE, aggregation |-> TRUE, enable_private |-> TRUE, auth |-> TRUE]

TenantsInit ==
    \/ part = "choice" /\ ChoiceInit /\ NoStorage
    \/ part = "storage" /\ NoChoice /\ Init

TenantsNext ==
    /\ UNCHANGED part
    /\ IF part = "choice" THEN ChoiceNext ELSE UNCHANGED choiceVars
    /\ IF part = "storage" THEN Next ELSE UNCHANGED vars

TenantsSpec == TenantsInit /\ [][TenantsNext]_<<part, choiceVars, vars>>
=============================================================================
