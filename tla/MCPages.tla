------------------------------- MODULE MCPages -------------------------------
(***************************************************************************)
(* The pages of entities and of a role, the tab of multi-tenancy and the account  *)
(* menu in one run.  The router shows one page at a time: a page mounts with its     *)
(* first state and is gone when another one is shown, so each is explored from its   *)
(* mount, with the others as they never were.                                *)
(***************************************************************************)
EXTENDS EntityEdit, RoleView, TenancyConfig, BrowserApp, TLC

CONSTANTS alice, bob

DuplicateNames == "x" :> "x_copy" @@ "x_copy" :> "x_copy"

(* Alice has a tenant whose name the server encodes, Bob only the global one. *)
BrowserTenants == alice :> {"", "r&d"} @@ bob :> {""}
HtmlEntities == "" :> "" @@ "r&d" :> "r&amp;d"
TabSymmetry == Permutations(Tabs)

(* Nothing is claimed of what follows once a save of the tenancy settings was not  *)
(* waited for.                                                              *)
WhileWaited == waited

VARIABLE page_shown

NoEntity == EditInit /\ resourceType = "roles" /\ entities = [id \in Ids |-> Missing]
NoRoleView == RoleViewInit /\ mapping = Gone
NoTenancy == TenancyInit /\ tenancy = [multitenancy_enabled |-> TRUE,
                                       private_tenant_enabled |-> TRUE, default_tenant |-> Private]

PagesInit ==
    \/ page_shown = "entity" /\ EditInit /\ NoRoleView /\ NoTenancy /\ BrowserInit
    \/ page_shown = "role" /\ NoEntity /\ RoleViewInit /\ NoTenancy /\ BrowserInit
    \/ page_shown = "tenancy" /\ NoEntity /\ NoRoleView /\ TenancyInit /\ BrowserInit
    \/ page_shown = "menu" /\ NoEntity /\ NoRoleView /\ NoTenancy /\ BrowserInit

PagesVars == <<page_shown, editVars, viewVars, tenancyVars, browserVars>>

PagesNext ==
    /\ UNCHANGED page_shown
    /\ IF page_shown = "entity" THEN EditNext ELSE UNCHANGED editVars
    /\ IF page_shown = "role" THEN RoleViewNext ELSE UNCHANGED viewVars
    /\ IF page_shown = "tenancy" THEN TenancyNext ELSE UNCHANGED tenancyVars
    /\ IF page_shown = "menu" THEN BrowserNext ELSE UNCHANGED browserVars

PagesSpec == PagesInit /\ [][PagesNext]_PagesVars

(* The page shown is all that tells two states apart. *)
PageView ==
    CASE page_shown = "entity" -> <<page_shown, editVars>>
      [] page_shown = "role" -> <<page_shown, viewVars>>
      [] page_shown = "tenancy" -> <<page_shown, tenancyVars>>
      [] page_shown = "menu" -> <<page_shown, browserVars>>
=============================================================================
