---------------------------- MODULE TenancyConfig ----------------------------
(***************************************************************************)
(* public/apps/configuration/panels/tenant-list: the tab that configures       *)
(* multi-tenancy (configure_tab1, save_changes_modal).  It keeps the settings   *)
(* as loaded, as changed in the form, and a count of changes; a dialog has the  *)
(* changes ticked one by one before they are saved.  It can be cancelled, and      *)
(* confirmed again, while the answer is awaited.                              *)
(***************************************************************************)
EXTENDS Naturals, FiniteSets

CONSTANTS
    Tenants, Private,    \* tenants that can be the default
    NoTenant,            \* the default tenant of a form that has not been loaded
    MaxTenancyEdits,     \* bound: changes of the form
    MaxTenancySaves,     \* bound: saves under way at once
    MaxTenancyFailures,  \* bound: calls that fail
    MaxTenancyOthers     \* bound: changes by other administrators

ASSUME TenancyConfigAssumption ==
    /\ Private \in Tenants /\ NoTenant \notin Tenants
    /\ MaxTenancyEdits \in Nat /\ MaxTenancySaves \in Nat /\ MaxTenancyFailures \in Nat
    /\ MaxTenancyOthers \in Nat

VARIABLES
    tenancy,                                  \* what the cluster holds
    tab,                                      \* info, tenants, shown or refused
    options,                                  \* the tenants were received
    originalConfiguration, updatedConfiguration,
    changeIn,                                 \* the counters, one per setting
    showErrorWarning,
    saveModal, passed, checked,               \* the dialog, its settings, and what is ticked
    tenancySaves,                             \* the saves: stage, settings and what was ticked
    tenancyEdits, tenancyFailures, tenancyOthers,
    sure, settled, waited, reviewed           \* history: see the properties
tabForm == <<originalConfiguration, updatedConfiguration, changeIn, showErrorWarning>>
tenancyCounts == <<tenancyEdits, tenancyFailures, tenancyOthers>>
tabModal == <<saveModal, passed, checked>>
tenancyHistory == <<sure, settled, waited, reviewed>>
tenancyVars == <<tenancy, tab, options, tabForm, tabModal, tenancySaves, tenancyCounts,
                 tenancyHistory>>

Keys == {"multitenancy_enabled", "private_tenant_enabled", "default_tenant"}
Tenancies == [multitenancy_enabled : BOOLEAN, private_tenant_enabled : BOOLEAN,
              default_tenant : Tenants]
Unloaded == [multitenancy_enabled |-> FALSE, private_tenant_enabled |-> FALSE,
             default_tenant |-> NoTenant]
NothingPassed == [original |-> Unloaded, updated |-> Unloaded]
NoTenancySave == [stage |-> "none", original |-> Unloaded, updated |-> Unloaded, what |-> {}]
SaveUnderWay == \E c \in 1..MaxTenancySaves : tenancySaves[c].stage # "none"
NotReviewed == [on |-> FALSE, what |-> {}, changed |-> {}]
NoChange == [k \in Keys |-> 0]
Differ(a, b) == {k \in Keys : a[k] # b[k]}

TenancyInit ==
    /\ tenancy \in Tenancies
    /\ tab = "info" /\ options = FALSE
    /\ originalConfiguration = Unloaded /\ updatedConfiguration = Unloaded
    /\ changeIn = NoChange /\ showErrorWarning = FALSE
    /\ saveModal = "closed" /\ passed = NothingPassed /\ checked = {}
    /\ tenancySaves = [c \in 1..MaxTenancySaves |-> NoTenancySave]
    /\ tenancyEdits = 0 /\ tenancyFailures = 0 /\ tenancyOthers = 0
    /\ sure = FALSE /\ settled = FALSE /\ waited = TRUE /\ reviewed = NotReviewed

(* The tab shows nothing while it loads. *)
infoReceived ==
    /\ tab = "info"
    /\ tab' = "tenants"
    /\ originalConfiguration' = tenancy /\ updatedConfiguration' = tenancy
    /\ sure' = TRUE /\ settled' = TRUE
    /\ UNCHANGED <<tenancy, options, changeIn, showErrorWarning, tabModal, tenancySaves,
                   tenancyCounts, waited, reviewed>>

allTenantsReceived ==
    /\ tab = "tenants"
    /\ tab' = "shown" /\ options' = TRUE
    /\ UNCHANGED <<tenancy, tabForm, tabModal, tenancySaves, tenancyCounts, tenancyHistory>>

(* A refusal hides the form; after another failure it can be used as it is. *)
tabLoadFails(isRefusal) ==
    /\ tab \in {"info", "tenants"} /\ tenancyFailures < MaxTenancyFailures
    /\ tenancyFailures' = tenancyFailures + 1
    /\ tab' = IF isRefusal THEN "refused" ELSE "shown"
    /\ UNCHANGED <<tenancy, options, tabForm, tabModal, tenancySaves, tenancyEdits,
                   tenancyOthers, tenancyHistory>>

-----------------------------------------------------------------------------
Editable == tab = "shown" /\ saveModal = "closed" /\ tenancyEdits < MaxTenancyEdits

(* A change counts as one if the setting was unchanged before it. *)
changed(key, value) ==
    /\ updatedConfiguration' = [updatedConfiguration EXCEPT ![key] = value]
    /\ changeIn' = [changeIn EXCEPT ![key] =
                       IF originalConfiguration[key] = updatedConfiguration[key] THEN 1 ELSE 0]
    /\ tenancyEdits' = tenancyEdits + 1
    /\ settled' = FALSE /\ reviewed' = NotReviewed
    /\ UNCHANGED <<tenancy, tab, options, originalConfiguration, tabModal, tenancySaves,
                   tenancyFailures, tenancyOthers, sure, waited>>

onSwitchChangeTenancyEnabled ==
    /\ Editable
    /\ changed("multitenancy_enabled", ~updatedConfiguration.multitenancy_enabled)
    /\ UNCHANGED showErrorWarning

onSwitchChangePrivateTenantEnabled ==
    /\ Editable /\ updatedConfiguration.multitenancy_enabled
    /\ changed("private_tenant_enabled", ~updatedConfiguration.private_tenant_enabled)
    /\ showErrorWarning' = (/\ updatedConfiguration.default_tenant = Private
                            /\ updatedConfiguration.private_tenant_enabled)

(* The warning looks at the tenant that was the default before. *)
updateDefaultTenant(newDefaultTenant) ==
    /\ Editable /\ options /\ updatedConfiguration.multitenancy_enabled
    /\ changed("default_tenant", newDefaultTenant)
    /\ showErrorWarning' = (/\ updatedConfiguration.default_tenant = Private
                            /\ ~updatedConfiguration.private_tenant_enabled)

unsavedChanges == Cardinality({k \in Keys : changeIn[k] = 1})
BottomBarShown == tab = "shown" /\ unsavedChanges > 0 /\ ~showErrorWarning

discardChangesFunction ==
    /\ BottomBarShown /\ saveModal = "closed"
    /\ updatedConfiguration' = originalConfiguration
    /\ changeIn' = NoChange
    /\ settled' = sure /\ reviewed' = NotReviewed
    /\ UNCHANGED <<tenancy, tab, options, originalConfiguration, showErrorWarning, tabModal,
                   tenancySaves, tenancyCounts, sure, waited>>

-----------------------------------------------------------------------------
(* The dialog keeps the settings as they are when it opens. *)
showSaveChangesModal ==
    /\ BottomBarShown /\ saveModal = "closed"
    /\ saveModal' = "open" /\ checked' = {} /\ reviewed' = NotReviewed
    /\ passed' = [original |-> originalConfiguration, updated |-> updatedConfiguration]
    /\ UNCHANGED <<tenancy, tab, options, tabForm, tenancySaves, tenancyCounts, sure, settled,
                   waited>>

OnlyDefaultChanged == Differ(passed.original, passed.updated) = {"default_tenant"}

(* Fault: a change of the default tenant is not among those to tick. *)
Toggled_NotDefault ==
    LET differ == Differ(passed.original, passed.updated)
    IN  IF passed.updated.multitenancy_enabled THEN differ \ {"default_tenant"}
        ELSE differ \cap {"multitenancy_enabled"}

(* The boxes of the dialog.  Without tenancy the other settings are not reviewed. *)
Toggled ==
    LET differ == Differ(passed.original, passed.updated)
    IN  IF passed.updated.multitenancy_enabled THEN differ
        ELSE differ \cap {"multitenancy_enabled"}

tick(key) ==
    /\ saveModal = "open" /\ ~OnlyDefaultChanged /\ key \in Toggled
    /\ checked' = IF key \in checked THEN checked \ {key} ELSE checked \cup {key}
    /\ UNCHANGED <<tenancy, tab, options, tabForm, saveModal, passed, tenancySaves,
                   tenancyCounts, tenancyHistory>>

Closed == saveModal' = "closed" /\ passed' = NothingPassed /\ checked' = {}

handleClose ==
    /\ saveModal = "open"
    /\ Closed
    /\ waited' = (waited /\ ~SaveUnderWay)
    /\ UNCHANGED <<tenancy, tab, options, tabForm, tenancySaves, tenancyCounts, sure, settled,
                   reviewed>>

-----------------------------------------------------------------------------
(* The dialog names the default tenant when that is all that changes.  It stays     *)
(* open, and can be confirmed again, until the answer comes.                    *)
handleSave(c) ==
    /\ saveModal = "open" /\ (OnlyDefaultChanged \/ checked = Toggled)
    /\ tenancySaves[c].stage = "none" /\ \A d \in 1..(c - 1) : tenancySaves[d].stage # "none"
    /\ tenancySaves' = [tenancySaves EXCEPT ![c] =
           [stage |-> "asked", original |-> passed.original, updated |-> passed.updated,
            what |-> IF OnlyDefaultChanged THEN {"default_tenant"} ELSE checked]]
    /\ settled' = FALSE /\ waited' = (waited /\ ~SaveUnderWay)
    /\ UNCHANGED <<tenancy, tab, options, tabForm, tabModal, tenancyCounts, sure, reviewed>>

updateTenancyConfiguration(c) ==
    /\ tenancySaves[c].stage = "asked"
    /\ tenancySaves' = [tenancySaves EXCEPT ![c].stage = "written"]
    /\ tenancy' = tenancySaves[c].updated
    /\ reviewed' = [on |-> tenancySaves[c].updated.multitenancy_enabled,
                    what |-> tenancySaves[c].what,
                    changed |-> Differ(tenancy, tenancySaves[c].updated)]
    /\ UNCHANGED <<tab, options, tabForm, tabModal, tenancyCounts, sure, settled, waited>>

(* Any dialog is closed, and nothing counts as changed any more. *)
Answered(c) ==
    /\ tenancySaves' = [tenancySaves EXCEPT ![c] = NoTenancySave]
    /\ changeIn' = NoChange /\ Closed

saveAnswered(c) ==
    /\ tenancySaves[c].stage = "written"
    /\ Answered(c)
    /\ originalConfiguration' = tenancySaves[c].updated
    /\ settled' = sure
    /\ UNCHANGED <<tenancy, tab, options, updatedConfiguration, showErrorWarning, tenancyCounts,
                   sure, waited, reviewed>>

(* Fault: the form keeps what has not been saved. *)
saveFailed_KeepsForm(c) ==
    /\ tenancySaves[c].stage # "none" /\ tenancyFailures < MaxTenancyFailures
    /\ tenancyFailures' = tenancyFailures + 1
    /\ Answered(c)
    /\ sure' = (sure /\ tenancySaves[c].stage = "asked") /\ settled' = sure'
    /\ reviewed' = NotReviewed
    /\ UNCHANGED <<tenancy, tab, options, originalConfiguration, updatedConfiguration,
                   showErrorWarning, tenancyEdits, tenancyOthers, waited>>

(* The form goes back to the settings the dialog was opened with, though the call    *)
(* may have been carried out.                                                *)
saveFailed(c) ==
    /\ tenancySaves[c].stage # "none" /\ tenancyFailures < MaxTenancyFailures
    /\ tenancyFailures' = tenancyFailures + 1
    /\ Answered(c)
    /\ updatedConfiguration' = tenancySaves[c].original
    /\ sure' = (sure /\ tenancySaves[c].stage = "asked") /\ settled' = sure'
    /\ reviewed' = NotReviewed
    /\ UNCHANGED <<tenancy, tab, options, originalConfiguration, showErrorWarning, tenancyEdits,
                   tenancyOthers, waited>>

OtherTenancy(config) ==
    /\ tenancyOthers < MaxTenancyOthers /\ config # tenancy
    /\ tenancyOthers' = tenancyOthers + 1
    /\ tenancy' = config
    /\ sure' = FALSE /\ settled' = FALSE /\ reviewed' = NotReviewed
    /\ UNCHANGED <<tab, options, tabForm, tabModal, tenancySaves, tenancyEdits,
                   tenancyFailures, waited>>

TenancyNext ==
    \/ infoReceived \/ allTenantsReceived \/ \E isRefusal \in BOOLEAN : tabLoadFails(isRefusal)
    \/ onSwitchChangeTenancyEnabled \/ onSwitchChangePrivateTenantEnabled
    \/ \E t \in Tenants : updateDefaultTenant(t)
    \/ discardChangesFunction \/ showSaveChangesModal \/ handleClose
    \/ \E key \in Keys : tick(key)
    \/ \E c \in 1..MaxTenancySaves :
          handleSave(c) \/ updateTenancyConfiguration(c) \/ saveAnswered(c) \/ saveFailed(c)
    \/ \E config \in Tenancies : OtherTenancy(config)

TenancySpec == TenancyInit /\ [][TenancyNext]_tenancyVars

-----------------------------------------------------------------------------
(* After a load, a save, a save that failed and a discard, the form shows what    *)
(* the cluster holds, unless somebody else changed it, a failed call was carried *)
(* out, the settings never came, or the dialog was cancelled or confirmed again    *)
(* while a save was under way: then the answer drops the count of what was edited    *)
(* since.                                                                  *)
FormIsTrue ==
    settled /\ waited => updatedConfiguration = tenancy /\ originalConfiguration = tenancy

(* With tenancy on, every setting that a save changes in the cluster was ticked   *)
(* in the dialog, or is the one it names; so it is only as long as the settings  *)
(* were loaded and nobody else changed them, another save of this tab included.   *)
ChangesWereReviewed ==
    sure /\ waited /\ reviewed.on => reviewed.changed \subseteq reviewed.what

(* "n Unsaved change(s)": the number is that of the settings that differ from the *)
(* ones loaded.  It is not so: choosing the tenant that is the default already      *)
(* counts as a change, and a second choice of another one takes back the count of   *)
(* the first, and with it the buttons that save or discard.                      *)
UnsavedCounted ==
    unsavedChanges = Cardinality(Differ(originalConfiguration, updatedConfiguration))
=============================================================================
