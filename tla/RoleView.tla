------------------------------- MODULE RoleView -------------------------------
(***************************************************************************)
(* public/apps/configuration/panels/role-view: the page of one role.  It       *)
(* shows who is mapped to the role, takes mappings away from a copy it made     *)
(* when it was opened, and deletes the role.                                 *)
(***************************************************************************)
EXTENDS Naturals, FiniteSets

CONSTANTS
    People,           \* names of users and of backend roles
    Gone,             \* nothing of that name
    MaxViewFailures,  \* bound: calls that fail
    MaxMappers        \* bound: changes by other administrators

ASSUME RoleViewAssumption == MaxViewFailures \in Nat /\ MaxMappers \in Nat

VARIABLES
    role, mapping,                          \* what the cluster holds
    step,                                   \* of the load: mapping, role, done
    mappedUsers, mapped, hosts, viewError,  \* page state
    ticked, dialog,                         \* selection, dialog or call under way
    viewFailures, mappers,
    alone, before                           \* history: see the properties
cluster == <<role, mapping>>
viewPage == <<mappedUsers, hosts, viewError>>
viewCounts == <<viewFailures, mappers>>
viewVars == <<cluster, step, mapped, viewPage, ticked, dialog, viewCounts, alone, before>>

Mappings == [users : SUBSET People, backend_roles : SUBSET People, hosts : {"some", "none"}]
ASSUME GoneIsNoMapping == Gone \notin Mappings

Entries(m) ==
    IF m = Gone THEN {}
    ELSE {<<"User", n>> : n \in m.users} \cup {<<"Backend role", n>> : n \in m.backend_roles}

RoleViewInit ==
    /\ role = "there" /\ mapping \in Mappings \cup {Gone}
    /\ step = "mapping"
    /\ mappedUsers = {} /\ mapped = FALSE /\ hosts = "none" /\ viewError = FALSE
    /\ ticked = {} /\ dialog = "closed"
    /\ viewFailures = 0 /\ mappers = 0
    /\ alone = TRUE /\ before = Gone

(* A role nobody is mapped to has no mapping, which is not an error. *)
mappingReceived ==
    /\ step = "mapping"
    /\ step' = "role" /\ mapped' = (mapping # Gone)
    /\ IF mapping # Gone
       THEN mappedUsers' = Entries(mapping) /\ hosts' = mapping.hosts
       ELSE UNCHANGED <<mappedUsers, hosts>>
    /\ UNCHANGED <<cluster, viewError, ticked, dialog, viewCounts, alone, before>>

(* The action groups, and the role itself. *)
roleReceived ==
    /\ step = "role" /\ role # Gone
    /\ step' = "done"
    /\ UNCHANGED <<cluster, mapped, viewPage, ticked, dialog, viewCounts, alone, before>>

viewFails ==
    /\ step # "done"
    /\ \/ viewFailures < MaxViewFailures /\ viewFailures' = viewFailures + 1
       \/ step = "role" /\ role = Gone /\ UNCHANGED viewFailures
    /\ step' = "done" /\ viewError' = TRUE
    /\ UNCHANGED <<cluster, mapped, mappedUsers, hosts, ticked, dialog, mappers, alone, before>>

-----------------------------------------------------------------------------
select(chosen) ==
    /\ dialog = "closed" /\ ~viewError /\ chosen # ticked
    /\ ticked' = chosen
    /\ UNCHANGED <<cluster, step, mapped, viewPage, dialog, viewCounts, alone, before>>

askToDeleteMapping ==
    /\ dialog = "closed" /\ ticked # {}
    /\ dialog' = "confirm"
    /\ UNCHANGED <<cluster, step, mapped, viewPage, ticked, viewCounts, alone, before>>

cancel ==
    /\ dialog = "confirm"
    /\ dialog' = "closed"
    /\ UNCHANGED <<cluster, step, mapped, viewPage, ticked, viewCounts, alone, before>>

Named(type) == {r[2] : r \in {e \in mappedUsers : e[1] = type}}
usersToDelete == {r[2] : r \in ticked}

(* Fault: the hosts, which the table does not show, are not sent back. *)
updateObject_NoHosts ==
    [users |-> Named("User") \ usersToDelete,
     backend_roles |-> Named("Backend role") \ usersToDelete, hosts |-> "none"]

(* A name that is selected is taken from the users and from the backend roles. *)
updateObject ==
    [users |-> Named("User") \ usersToDelete,
     backend_roles |-> Named("Backend role") \ usersToDelete, hosts |-> hosts]

(* The page drops the rows that were selected, and does not load again. *)
handleRoleMappingDelete ==
    /\ dialog = "confirm"
    /\ mapping' = updateObject /\ before' = mapping
    /\ mappedUsers' = mappedUsers \ ticked
    /\ dialog' = "deleted"
    /\ UNCHANGED <<role, step, mapped, hosts, viewError, ticked, viewCounts, alone>>

selectionCleared ==
    /\ dialog = "deleted"
    /\ ticked' = {} /\ dialog' = "closed" /\ before' = Gone
    /\ UNCHANGED <<cluster, step, mapped, viewPage, viewCounts, alone>>

(* A failure is only logged: rows and selection stay. *)
mappingDeleteFails ==
    /\ dialog = "confirm" /\ viewFailures < MaxViewFailures
    /\ viewFailures' = viewFailures + 1
    /\ dialog' = "closed"
    /\ UNCHANGED <<cluster, step, mapped, viewPage, ticked, mappers, alone, before>>

(* The role is deleted without a question, then its mapping, and the page left. *)
deleteRole ==
    /\ dialog = "closed" /\ role # Gone
    /\ role' = Gone /\ dialog' = "mapping"
    /\ UNCHANGED <<mapping, step, mapped, viewPage, ticked, viewCounts, alone, before>>

deleteMappingOfRole ==
    /\ dialog = "mapping"
    /\ mapping' = Gone /\ dialog' = "left"
    /\ UNCHANGED <<role, step, mapped, viewPage, ticked, viewCounts, alone, before>>

(* The page stays; nothing remembers that only the mapping is left. *)
roleDeleteFails ==
    /\ dialog \in {"closed", "mapping"}
    /\ \/ viewFailures < MaxViewFailures /\ viewFailures' = viewFailures + 1
       \/ dialog = "closed" /\ role = Gone /\ UNCHANGED viewFailures
    /\ dialog' = "closed"
    /\ UNCHANGED <<cluster, step, mapped, viewPage, ticked, mappers, alone, before>>

OtherMapper(m) ==
    /\ mappers < MaxMappers /\ m # mapping /\ dialog \notin {"deleted", "left"}
    /\ mappers' = mappers + 1
    /\ mapping' = m
    /\ alone' = (alone /\ step = "mapping")
    /\ UNCHANGED <<role, step, mapped, viewPage, ticked, dialog, viewFailures, before>>

RoleViewNext ==
    \/ mappingReceived \/ roleReceived \/ viewFails
    \/ \E chosen \in SUBSET mappedUsers : select(chosen)
    \/ askToDeleteMapping \/ cancel \/ handleRoleMappingDelete \/ selectionCleared
    \/ mappingDeleteFails \/ deleteRole \/ deleteMappingOfRole \/ roleDeleteFails
    \/ \E m \in Mappings : OtherMapper(m)

RoleViewSpec == RoleViewInit /\ [][RoleViewNext]_viewVars

-----------------------------------------------------------------------------
(* Deleting mappings sends the whole mapping back, from the copy the page made:   *)
(* as long as nobody else changed it, nothing is lost but what has a selected    *)
(* name, the hosts included, though the page never shows them.                *)
OthersKeepTheirMapping ==
    dialog = "deleted" /\ alone =>
        /\ mapping.hosts = before.hosts
        /\ \A e \in Entries(before) : e[2] \notin usersToDelete => e \in Entries(mapping)

(* "Do you really want to delete selected mapping(s)?": what is deleted was       *)
(* selected.  It is not so when a user and a backend role have the same name.    *)
DeletesOnlySelected ==
    dialog = "deleted" /\ alone => Entries(before) \ Entries(mapping) \subseteq ticked
=============================================================================
