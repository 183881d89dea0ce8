------------------------------ MODULE ListPanel ------------------------------
(***************************************************************************)
(* public/apps/configuration: the lists of roles, internal users, action     *)
(* groups and tenants.  Each is loaded from a data source the user can        *)
(* change, keeps rows and a selection in the page, deletes what is selected   *)
(* one call after another, and (action groups, tenants) saves from a dialog   *)
(* and loads again.                                                         *)
(*                                                                         *)
(* A deletion and a save are awaited with the page alive: the dialog's Cancel  *)
(* works meanwhile, and rows, selection and data source may have changed when   *)
(* the answer comes.  What the page does then is done with what it held at the  *)
(* click.                                                                   *)
(*                                                                         *)
(* A row is an object: its name, the source and the load it came from.  Two    *)
(* loads of the same entity give two rows, as JavaScript compares them.       *)
(***************************************************************************)
EXTENDS Naturals, FiniteSets, ConfigApi

CONSTANTS
    Names,              \* of entities
    Protected,          \* the reserved ones, and the current user
    MaxLoads,           \* bound: loads of one page
    MaxDeletions,       \* bound: deletions under way at a time
    MaxMishaps          \* bound: calls that fail, changes by other administrators

ASSUME ListAssumption ==
    /\ Protected \subseteq Names
    /\ MaxLoads \in Nat \ {0} /\ MaxDeletions \in Nat \ {0} /\ MaxMishaps \in Nat

VARIABLES
    panel, source,             \* the list shown, the data source chosen
    clusters,                  \* per source: entities, and mappings of roles
    rows, selection,           \* page state
    loading, errorFlag, accessErrorFlag,
    loads,                     \* the loads: stage, source, entities received
    modal, editing,            \* dialog, and the name it saves
    deletions,                 \* under way: what each held at the click, what is left
    saves,                     \* under way: sources and names
    mishaps,
    careful, single, gone, dropped     \* history: see the properties
page == <<rows, selection, loading, errorFlag, accessErrorFlag>>
listHistory == <<careful, single, gone, dropped>>
listVars == <<panel, source, clusters, page, loads, modal, editing, deletions, saves,
              mishaps, listHistory>>

Row(name, from, load) == [name |-> name, from |-> from, load |-> load]
NoLoad == [stage |-> "none", source |-> Local, got |-> {}]
Load(from) == [stage |-> "list", source |-> from, got |-> {}]
Ended == [NoLoad EXCEPT !.stage = "done"]
InLoading == {n \in 1..MaxLoads : loads[n].stage \notin {"none", "done"}}
Loaded == Cardinality({n \in 1..MaxLoads : loads[n].stage # "none"})

(* A deletion: the data source, rows and selection of the click, the names left, *)
(* the role whose mapping is next, and whether it counts for DoneMeansGone.     *)
NoDeletion == [active |-> FALSE, source |-> Local, shown |-> {}, chosen |-> {},
               todo |-> {}, half |-> {}, fresh |-> FALSE]
Deletion == [active |-> TRUE, source |-> source, shown |-> rows, chosen |-> selection,
             todo |-> {r.name : r \in selection}, half |-> {},
             fresh |-> selection \subseteq rows /\ InLoading = {}]
InDeletion == {d \in 1..MaxDeletions : deletions[d].active}

ListInit ==
    /\ panel \in {"roles", "users", "permissions", "tenants"}
    /\ source = Local
    /\ clusters = [s \in Sources |-> [kind \in {"entities", "rolesmapping"} |->
                                        [name \in Names |-> "there"]]]
    /\ rows = {} /\ selection = {}
    /\ loading = TRUE /\ errorFlag = FALSE /\ accessErrorFlag = FALSE
    /\ loads = [n \in 1..MaxLoads |-> IF n = 1 THEN Load(Local) ELSE NoLoad]
    /\ modal = "closed" /\ editing = CHOOSE name \in Names : TRUE
    /\ deletions = [d \in 1..MaxDeletions |-> NoDeletion]
    /\ saves = {}
    /\ mishaps = 0
    /\ careful = TRUE /\ single = TRUE /\ gone = {} /\ dropped = {}

-----------------------------------------------------------------------------
(* The dialog is part of the list, and goes when the list does, except on the  *)
(* pages of permissions.                                                    *)
DialogShown == panel = "permissions" \/ (~loading /\ ~accessErrorFlag)

(* Deletions no longer count, of all that is being deleted. *)
Stale == [d \in 1..MaxDeletions |-> [deletions[d] EXCEPT !.fresh = FALSE]]

(* Loading.  The effect runs again when the data source changes; a load under  *)
(* way goes on, and whichever ends last leaves its rows.                     *)
fetchData(from) ==
    /\ Loaded < MaxLoads
    /\ loads' = [loads EXCEPT ![Loaded + 1] = Load(from)]
    /\ loading' = TRUE
    /\ deletions' = Stale /\ dropped' = {}

setDataSource(s) ==
    /\ panel # "tenants" /\ s # source
    /\ ~(modal # "closed" /\ DialogShown)
    /\ source' = s
    /\ fetchData(s)
    /\ careful' = (careful /\ InLoading = {} /\ selection = {} /\ InDeletion = {} /\ saves = {})
    /\ UNCHANGED <<panel, clusters, rows, selection, errorFlag, accessErrorFlag, modal,
                   editing, saves, mishaps, single, gone>>

Listed(from) == {n \in Names : listResource(clusters, from, "entities")[n] # Absent}

(* fetchRole, getUserList, fetchActionGroups, fetchTenants.  The server may still *)
(* list what has just been deleted.                                         *)
listReceived(n) ==
    /\ loads[n].stage = "list"
    /\ \E late \in SUBSET (Names \ Listed(loads[n].source)) :
          loads' = [loads EXCEPT ![n].stage = "rest",
                                 ![n].got = Listed(loads[n].source) \cup late]
    /\ UNCHANGED <<panel, source, clusters, page, modal, editing, deletions, saves, mishaps,
                   listHistory>>

NewRows(n) == {Row(name, loads[n].source, n) : name \in loads[n].got}

(* The role mappings, the current user, or nothing more has been received: the *)
(* rows are replaced, the selection is not.                                 *)
rowsReceived(n) ==
    /\ loads[n].stage = "rest" /\ panel # "tenants"
    /\ loads' = [loads EXCEPT ![n] = Ended]
    /\ rows' = NewRows(n)
    /\ loading' = FALSE /\ errorFlag' = FALSE /\ accessErrorFlag' = FALSE
    /\ UNCHANGED <<panel, source, clusters, selection, modal, editing, deletions, saves,
                   mishaps, listHistory>>

(* The tenants are shown before the tenancy settings are asked for. *)
tenantsReceived(n) ==
    /\ loads[n].stage = "rest" /\ panel = "tenants"
    /\ loads' = [loads EXCEPT ![n].stage = "settings", ![n].got = {}]
    /\ rows' = NewRows(n)
    /\ UNCHANGED <<panel, source, clusters, selection, loading, errorFlag,
                   accessErrorFlag, modal, editing, deletions, saves, mishaps, listHistory>>

settingsReceived(n) ==
    /\ loads[n].stage = "settings"
    /\ loads' = [loads EXCEPT ![n] = Ended]
    /\ loading' = FALSE /\ errorFlag' = FALSE
    /\ UNCHANGED <<panel, source, clusters, rows, selection, accessErrorFlag, modal,
                   editing, deletions, saves, mishaps, listHistory>>

(* Fault: only a refusal is remembered. *)
fetchFails_NoErrorFlag(n, refused) ==
    /\ n \in InLoading /\ mishaps < MaxMishaps
    /\ mishaps' = mishaps + 1
    /\ loads' = [loads EXCEPT ![n] = Ended]
    /\ accessErrorFlag' = (accessErrorFlag \/ refused)
    /\ loading' = FALSE
    /\ UNCHANGED <<panel, source, clusters, rows, selection, errorFlag, modal, editing,
                   deletions, saves, listHistory>>

(* A refusal (400, 403) hides the list, another failure the rows. *)
fetchFails(n, refused) ==
    /\ n \in InLoading /\ mishaps < MaxMishaps
    /\ mishaps' = mishaps + 1
    /\ loads' = [loads EXCEPT ![n] = Ended]
    /\ accessErrorFlag' = (accessErrorFlag \/ refused)
    /\ errorFlag' = TRUE
    /\ loading' = FALSE
    /\ UNCHANGED <<panel, source, clusters, rows, selection, modal, editing,
                   deletions, saves, listHistory>>

-----------------------------------------------------------------------------
(* What the page shows, and lets the user do.  The menu of actions stands next *)
(* to the table, and stays when the table shows an error.                    *)
MenuShown == ~loading /\ ~accessErrorFlag /\ modal = "closed"
TableShown == MenuShown /\ ~errorFlag

onSelectionChange(chosen) ==
    /\ TableShown /\ chosen # selection
    /\ selection' = chosen
    /\ UNCHANGED <<panel, source, clusters, rows, loading, errorFlag, accessErrorFlag,
                   loads, modal, editing, deletions, saves, mishaps, listHistory>>

deleteDisabled == selection = {} \/ \E r \in selection : r.name \in Protected

showDeleteConfirmModal ==
    /\ MenuShown /\ ~deleteDisabled
    /\ modal' = "confirm"
    /\ UNCHANGED <<panel, source, clusters, page, loads, editing, deletions, saves, mishaps, listHistory>>

closeModal ==
    /\ modal # "closed" /\ DialogShown
    /\ modal' = "closed"
    /\ UNCHANGED <<panel, source, clusters, page, loads, editing, deletions, saves, mishaps,
                   listHistory>>

(* Confirm.  The dialog stays until the answer, and is as live as before. *)
handleDelete(d) ==
    /\ modal = "confirm" /\ DialogShown
    /\ d \notin InDeletion /\ 1..(d - 1) \subseteq InDeletion
    /\ deletions' = [deletions EXCEPT ![d] = Deletion]
    /\ single' = (single /\ InDeletion = {})
    /\ UNCHANGED <<panel, source, clusters, page, loads, modal, editing, saves, mishaps,
                   careful, gone, dropped>>

There(d, name) == getResource(clusters, deletions[d].source, "entities", name) # Absent

(* Fault: the mapping of a role is left. *)
requestDelete_RoleOnly(d, name) ==
    /\ name \in deletions[d].todo /\ There(d, name)
    /\ clusters' = deleteResource(clusters, deletions[d].source, "entities", name)
    /\ deletions' = [deletions EXCEPT ![d].todo = @ \ {name}]
    /\ UNCHANGED <<panel, source, page, loads, modal, editing, saves, mishaps, listHistory>>

(* requestDeleteRoles deletes the role, then its mapping, which may be missing. *)
requestDelete(d, name) ==
    /\ name \in deletions[d].todo
    /\ \/ /\ deletions[d].half = {} /\ There(d, name)
          /\ clusters' = deleteResource(clusters, deletions[d].source, "entities", name)
          /\ deletions' = IF panel = "roles"
                          THEN [deletions EXCEPT ![d].half = {name}]
                          ELSE [deletions EXCEPT ![d].todo = @ \ {name}]
       \/ /\ deletions[d].half = {name}
          /\ clusters' = deleteResource(clusters, deletions[d].source, "rolesmapping", name)
          /\ deletions' = [deletions EXCEPT ![d].half = {}, ![d].todo = @ \ {name}]
    /\ UNCHANGED <<panel, source, page, loads, modal, editing, saves, mishaps, listHistory>>

(* After its deletion a dialog closes, the confirmation of another one too. *)
confirmCloses == modal' = IF modal = "confirm" THEN "closed" ELSE modal

(* The deleted rows are taken from the rows of the click, not loaded again. *)
deleted(d) ==
    /\ d \in InDeletion /\ deletions[d].todo = {}
    /\ LET done == {<<deletions[d].source, r.name>> : r \in deletions[d].chosen}
       IN  IF deletions[d].fresh
           THEN gone' = gone \cup done /\ dropped' = dropped \cup done
           ELSE UNCHANGED <<gone, dropped>>
    /\ rows' = deletions[d].shown \ deletions[d].chosen
    /\ selection' = {}
    /\ confirmCloses
    /\ deletions' = [deletions EXCEPT ![d] = NoDeletion]
    /\ UNCHANGED <<panel, source, clusters, loading, errorFlag, accessErrorFlag, loads,
                   editing, saves, mishaps, careful, single>>

(* A call fails, or the entity is no longer there: what is left is not deleted, *)
(* rows and selection stay.                                                 *)
deleteFails(d) ==
    /\ deletions[d].todo # {}
    /\ \/ deletions[d].half = {} /\ \E name \in deletions[d].todo : ~There(d, name)
          /\ UNCHANGED mishaps
       \/ mishaps < MaxMishaps /\ mishaps' = mishaps + 1
    /\ confirmCloses
    /\ deletions' = [deletions EXCEPT ![d] = NoDeletion]
    /\ UNCHANGED <<panel, source, clusters, page, loads, editing, saves, listHistory>>

-----------------------------------------------------------------------------
(* Action groups and tenants are created, duplicated and edited in a dialog. *)
showEditModal(name) ==
    /\ MenuShown /\ panel \in {"permissions", "tenants"} /\ name \notin Protected
    /\ modal' = "edit" /\ editing' = name
    /\ UNCHANGED <<panel, source, clusters, page, loads, deletions, saves, mishaps,
                   listHistory>>

handleSave ==
    /\ modal = "edit" /\ DialogShown
    /\ saves' = saves \cup {<<source, editing>>}
    /\ UNCHANGED <<panel, source, clusters, page, loads, modal, editing, deletions, mishaps,
                   listHistory>>

(* Saved, in the data source of the click, which is then loaded again. *)
saveEnded(s, name) ==
    /\ <<s, name>> \in saves
    /\ saves' = saves \ {<<s, name>>}
    /\ clusters' = saveResource(clusters, s, "entities", name, "there")
    /\ modal' = IF modal = "edit" THEN "closed" ELSE modal
    /\ fetchData(s)
    /\ gone' = gone \ {<<s, name>>}
    /\ UNCHANGED <<panel, source, rows, selection, errorFlag, accessErrorFlag, editing,
                   mishaps, careful, single>>

(* The dialog of a tenant stays open, that of an action group closes. *)
handleSaveFails(s, name) ==
    /\ <<s, name>> \in saves /\ mishaps < MaxMishaps
    /\ saves' = saves \ {<<s, name>>}
    /\ mishaps' = mishaps + 1
    /\ modal' = IF modal = "edit" /\ panel = "permissions" THEN "closed" ELSE modal
    /\ UNCHANGED <<panel, source, clusters, page, loads, editing, deletions, listHistory>>

(* Another administrator creates, maps or deletes. *)
OtherAdmin(s, name) ==
    /\ mishaps < MaxMishaps
    /\ mishaps' = mishaps + 1
    /\ \E kind \in {"entities", "rolesmapping"}, value \in {"there", Absent} :
          /\ kind = "entities" \/ panel = "roles"
          /\ clusters' = [clusters EXCEPT ![s][kind][name] = value]
    /\ gone' = gone \ {<<s, name>>}
    /\ deletions' = Stale
    /\ UNCHANGED <<panel, source, page, loads, modal, editing, saves, careful, single, dropped>>

ListNext ==
    \/ \E s \in Sources : setDataSource(s)
    \/ \E n \in 1..MaxLoads :
          \/ listReceived(n) \/ rowsReceived(n) \/ tenantsReceived(n) \/ settingsReceived(n)
          \/ \E refused \in BOOLEAN : fetchFails(n, refused)
    \/ \E chosen \in SUBSET rows : onSelectionChange(chosen)
    \/ showDeleteConfirmModal \/ closeModal
    \/ \E d \in 1..MaxDeletions :
          \/ handleDelete(d) \/ deleted(d) \/ deleteFails(d)
          \/ \E name \in Names : requestDelete(d, name)
    \/ \E name \in Names : showEditModal(name)
    \/ handleSave
    \/ \E s \in Sources, name \in Names :
          saveEnded(s, name) \/ handleSaveFails(s, name) \/ OtherAdmin(s, name)

ListSpec == ListInit /\ [][ListNext]_listVars

-----------------------------------------------------------------------------
(* What is deleted was selected from the data source it is deleted from, as    *)
(* long as the data source has only been changed with no rows selected and      *)
(* nothing under way, neither loads nor deletions nor saves: then no failed or   *)
(* late load, no cancelled dialog and no late deletion leaves rows of another    *)
(* source to be selected.                                                   *)
DeletesWhatWasSelected ==
    careful => \A d \in InDeletion : \A r \in deletions[d].chosen : r.from = deletions[d].source

Showing(g) == \E r \in rows : <<r.from, r.name>> = g

(* Once the page has dropped deleted rows that were selected from the rows it   *)
(* showed, the entities are gone from their source, the mappings of roles with  *)
(* them, until somebody creates them again; and as long as no two deletions were  *)
(* under way at a time, no row shows them before the next load.               *)
DoneMeansGone ==
    /\ \A g \in gone :
          /\ getResource(clusters, g[1], "entities", g[2]) = Absent
          /\ panel = "roles" => getResource(clusters, g[1], "rolesmapping", g[2]) = Absent
    /\ single => \A g \in dropped : ~Showing(g)
=============================================================================
