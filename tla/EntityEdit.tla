------------------------------ MODULE EntityEdit ------------------------------
(***************************************************************************)
(* public/apps/configuration: the pages that edit one role, internal user or   *)
(* role mapping.  A page loads the entity, turns it into the state of a form,   *)
(* and saves the whole entity from that state.  The form can be used before it  *)
(* has been loaded, and what it does not show is not saved.                  *)
(*                                                                         *)
(* An entity is a function of its parts; a form of the parts it shows.       *)
(***************************************************************************)
EXTENDS Naturals, Sequences, FiniteSets

CONSTANTS
    Items,            \* users, backend roles, permissions, fields
    Ids,              \* names of entities
    CopyOf,           \* the name a duplicate is given
    BadName,          \* a name that does not pass the validation
    NoName,           \* the empty name
    Passwords, NoPassword,
    Missing,          \* no such entity
    MaxEdits,         \* bound: changes of a form
    MaxOpens,         \* bound: pages opened
    MaxFaults         \* bound: calls that fail, changes by other administrators

EmptyRow == "empty row"

(* Names are not empty, and an entity has finitely many. *)
ASSUME EditAssumption ==
    /\ CopyOf \in [Ids -> Ids] /\ {BadName, NoName, Missing} \cap Ids = {}
    /\ IsFiniteSet(Items) /\ EmptyRow \notin Items /\ Passwords # {}
    /\ MaxEdits \in Nat /\ MaxOpens \in Nat /\ MaxFaults \in Nat

VARIABLES
    resourceType,            \* roles, internalusers, rolesmapping
    entities,            \* what the cluster holds
    action, sourceName,  \* of the page: create, edit, duplicate; what it was opened for
    fetching,            \* the load of the page
    form, formName, isFormValid, password, isPasswordInvalid,
    edits, opens, faults,
    origin, touched, saved  \* history: the entity as loaded, the parts changed since, the outcome
formVars == <<form, formName, isFormValid, password, isPasswordInvalid>>
editCounts == <<edits, opens, faults>>
editHistory == <<origin, touched, saved>>
editVars == <<resourceType, entities, action, sourceName, fetching, formVars, editCounts,
              editHistory>>

Shown(kind) ==
    CASE kind = "roles" -> {"cluster_permissions", "index_permissions", "tenant_permissions"}
      [] kind = "internalusers" -> {"backend_roles", "attributes"}
      [] kind = "rolesmapping" -> {"users", "backend_roles", "hosts"}

(* The description, the conditions that must hold together, the password's hash: *)
(* not part of any form.                                                    *)
Unshown(kind) == IF kind = "internalusers" THEN {"rest", "hash"} ELSE {"rest"}

Lists == {"cluster_permissions", "backend_roles", "users"}

Field(item, excluded) == [item |-> item, excluded |-> excluded]
Fields == [item : Items, excluded : BOOLEAN]

(* What a cluster may hold.  Fields are included or excluded one by one. *)
Originals(kind) ==
    CASE kind = "roles" ->
            [cluster_permissions : SUBSET Items, index_permissions : SUBSET Fields,
             tenant_permissions : SUBSET {"read", "write"}, rest : {"text"}]
      [] kind = "internalusers" ->
            [backend_roles : SUBSET Items, rest : {"text"}, hash : Passwords,
             attributes : UNION {[keys -> Items] : keys \in SUBSET Items}]
      [] kind = "rolesmapping" ->
            [users : SUBSET Items, backend_roles : SUBSET Items, hosts : {"some", "none"},
             rest : {"text"}]

(* The values of a form.  All fields of a role are included or all excluded, a   *)
(* tenant's actions are a type, and attributes are rows, with keys that may be   *)
(* empty or the same.                                                       *)
FormValues(part) ==
    CASE part \in Lists -> SUBSET (Items \cup {EmptyRow})
      [] part = "index_permissions" -> [method : {"include", "exclude"}, fields : SUBSET Items]
      [] part = "tenant_permissions" -> {"Read only", "Read and Write"}
      [] part = "attributes" -> UNION {[1..n -> (Items \cup {EmptyRow}) \X Items] : n \in 0..2}
      [] part = "hosts" -> {}

EmptyForm(part) ==
    CASE part \in Lists -> {}
      [] part = "index_permissions" -> [method |-> "exclude", fields |-> {}]
      [] part = "tenant_permissions" -> "Read and Write"
      [] part = "attributes" -> <<>>
      [] part = "hosts" -> "none"

-----------------------------------------------------------------------------
getFieldLevelSecurityMethod(fls) ==
    IF \E f \in fls : f.excluded THEN "exclude" ELSE "include"

getTenantPermissionType(actions) ==
    IF "write" \in actions THEN "Read and Write"
    ELSE IF "read" \in actions THEN "Read only" ELSE ""

(* Some order of the rows. *)
buildAttributeState(dict) ==
    CHOOSE rows \in [1..Cardinality(DOMAIN dict) -> Items \X Items] :
        {rows[i] : i \in DOMAIN rows} = {<<k, dict[k]>> : k \in DOMAIN dict}

build(part, value) ==
    CASE part = "index_permissions" ->
            [method |-> getFieldLevelSecurityMethod(value), fields |-> {f.item : f \in value}]
      [] part = "tenant_permissions" -> getTenantPermissionType(value)
      [] part = "attributes" -> buildAttributeState(value)
      [] part \in Lists \cup {"hosts"} -> value

(* Of two rows with the same key the later counts. *)
unbuildAttributeState(rows) ==
    LET keys == {rows[i][1] : i \in DOMAIN rows} \ {EmptyRow}
        last(k) == CHOOSE i \in DOMAIN rows :
                      rows[i][1] = k /\ \A j \in DOMAIN rows : rows[j][1] = k => j <= i
    IN  [k \in keys |-> rows[last(k)][2]]

(* Fault: excluded fields are saved without the mark. *)
unbuild_Unmarked(part, state) ==
    CASE part \in Lists -> state \ {EmptyRow}
      [] part = "index_permissions" -> {Field(i, FALSE) : i \in state.fields}
      [] part = "tenant_permissions" ->
            (CASE state = "Read and Write" -> {"write"} [] state = "Read only" -> {"read"}
               [] state = "" -> {})
      [] part = "attributes" -> unbuildAttributeState(state)
      [] part = "hosts" -> state

unbuild(part, state) ==
    CASE part \in Lists -> state \ {EmptyRow}
      [] part = "index_permissions" -> {Field(i, state.method = "exclude") : i \in state.fields}
      [] part = "tenant_permissions" ->
            (CASE state = "Read and Write" -> {"write"} [] state = "Read only" -> {"read"}
               [] state = "" -> {})
      [] part = "attributes" -> unbuildAttributeState(state)
      [] part = "hosts" -> state

-----------------------------------------------------------------------------
NotSaved == [id |-> NoName, as |-> "closed", before |-> Missing]
Blank(kind) == [part \in Shown(kind) |-> EmptyForm(part)]

EditInit ==
    /\ resourceType \in {"roles", "internalusers", "rolesmapping"}
    /\ \E whole \in Originals(resourceType) : entities \in [Ids -> {whole, Missing}]
    /\ action = "closed" /\ sourceName = NoName
    /\ fetching = FALSE
    /\ form = Blank(resourceType) /\ formName = NoName /\ isFormValid = TRUE
    /\ password = NoPassword /\ isPasswordInvalid = FALSE
    /\ edits = 0 /\ opens = 0 /\ faults = 0
    /\ origin = Missing /\ touched = {} /\ saved = NotSaved

(* A page mounts with an empty form, and loads unless it creates.  A mapping is  *)
(* only ever edited, under the name of its role.                             *)
open(what, id) ==
    /\ action = "closed" /\ opens < MaxOpens
    /\ resourceType = "rolesmapping" => what = "edit"
    /\ what = "create" <=> id = NoName
    /\ action' = what /\ sourceName' = id
    /\ fetching' = (what # "create")
    /\ form' = Blank(resourceType)
    /\ formName' = IF resourceType = "rolesmapping" THEN id ELSE NoName
    /\ isFormValid' = TRUE /\ password' = NoPassword /\ isPasswordInvalid' = FALSE
    /\ edits' = 0 /\ opens' = opens + 1
    /\ origin' = Missing /\ touched' = {} /\ saved' = NotSaved
    /\ UNCHANGED <<resourceType, entities, faults>>

close ==
    /\ action # "closed"
    /\ action' = "closed" /\ fetching' = FALSE
    /\ UNCHANGED <<resourceType, entities, sourceName, formVars, editCounts, editHistory>>

generateResourceName(what, id) ==
    CASE what = "edit" -> id [] what = "duplicate" -> CopyOf[id] [] what = "create" -> NoName

(* What has been typed so far is overwritten.  A mapping that does not exist     *)
(* leaves the form as it is.                                                *)
entityReceived ==
    /\ fetching
    /\ fetching' = FALSE
    /\ IF entities[sourceName] # Missing
       THEN /\ form' = [part \in Shown(resourceType) |-> build(part, entities[sourceName][part])]
            /\ formName' = IF resourceType = "rolesmapping" THEN formName
                          ELSE generateResourceName(action, sourceName)
            /\ origin' = entities[sourceName] /\ touched' = {}
       ELSE UNCHANGED <<form, formName, origin, touched>>
    /\ UNCHANGED <<resourceType, entities, action, sourceName, isFormValid, password,
                   isPasswordInvalid, editCounts, saved>>

entityFetchFails ==
    /\ fetching /\ faults < MaxFaults
    /\ fetching' = FALSE /\ faults' = faults + 1
    /\ UNCHANGED <<resourceType, entities, action, sourceName, formVars, edits, opens, editHistory>>

-----------------------------------------------------------------------------
Open == action # "closed"

edit(part, value) ==
    /\ Open /\ edits < MaxEdits /\ part \in Shown(resourceType) /\ form[part] # value
    /\ form' = [form EXCEPT ![part] = value]
    /\ touched' = touched \cup {part}
    /\ edits' = edits + 1
    /\ UNCHANGED <<resourceType, entities, action, sourceName, fetching, formName, isFormValid,
                   password, isPasswordInvalid, opens, faults, origin, saved>>

(* One panel for each part of a form. *)
EditEach(part) == part \in Shown(resourceType) /\ \E value \in FormValues(part) : edit(part, value)

ClusterPermissionPanel == EditEach("cluster_permissions")
IndexPermissionPanel == EditEach("index_permissions")
TenantPanel == EditEach("tenant_permissions")
AttributePanel == EditEach("attributes")
BackendRolePanel == resourceType = "internalusers" /\ EditEach("backend_roles")
ExternalIdentitiesPanel == resourceType = "rolesmapping" /\ EditEach("backend_roles")
InternalUsersPanel == EditEach("users")

(* The name is validated when its field is left; it has none when editing. *)
setName(id) ==
    /\ Open /\ edits < MaxEdits /\ resourceType # "rolesmapping" /\ action # "edit"
    /\ formName' = id /\ isFormValid' = (id \in Ids)
    /\ edits' = edits + 1
    /\ UNCHANGED <<resourceType, entities, action, sourceName, fetching, form, password,
                   isPasswordInvalid, opens, faults, editHistory>>

(* A password and its repetition. *)
setPassword(typed, repeated) ==
    /\ Open /\ edits < MaxEdits /\ resourceType = "internalusers"
    /\ password' = typed /\ isPasswordInvalid' = (repeated # typed)
    /\ edits' = edits + 1
    /\ UNCHANGED <<resourceType, entities, action, sourceName, fetching, form, formName,
                   isFormValid, opens, faults, editHistory>>

-----------------------------------------------------------------------------
(* Fault: a user that does not exist yet can be saved without a password. *)
Refused_NotForNew ==
    \/ ~isFormValid
    \/ (resourceType = "internalusers" /\ isPasswordInvalid)

Refused ==
    \/ ~isFormValid
    \/ /\ resourceType = "internalusers"
       /\ isPasswordInvalid \/ (password = NoPassword /\ action # "edit")

(* The backend: what the body leaves out is gone, but a user keeps the password. *)
Whole(id) ==
    [part \in Shown(resourceType) \cup Unshown(resourceType) |->
        CASE part = "hash" -> IF password # NoPassword THEN password ELSE entities[id].hash
          [] part = "rest" -> "none"
          [] part \in Shown(resourceType) -> unbuild(part, form[part])]

(* The page is left for the entity that was saved. *)
updateHandler ==
    /\ Open /\ ~Refused /\ formName \in Ids
    /\ (resourceType = "internalusers" /\ password = NoPassword) => entities[formName] # Missing
    /\ entities' = [entities EXCEPT ![formName] = Whole(formName)]
    /\ saved' = [id |-> formName, as |-> action, before |-> entities[formName]]
    /\ action' = "closed" /\ fetching' = FALSE
    /\ UNCHANGED <<resourceType, sourceName, formVars, editCounts, origin, touched>>

(* A name that is empty has no route; otherwise a call may fail.  The form stays. *)
updateHandlerFails ==
    /\ Open /\ ~Refused
    /\ formName \in Ids => faults < MaxFaults
    /\ faults' = IF formName \in Ids THEN faults + 1 ELSE faults
    /\ UNCHANGED <<resourceType, entities, action, sourceName, fetching, formVars, edits, opens,
                   editHistory>>

(* Another administrator deletes the entity, or puts another in its place.  Until a *)
(* page is opened the entities are any: see EditInit.                         *)
AnOriginal(kind) == CHOOSE whole \in Originals(kind) : TRUE

OtherEditor(id, whole) ==
    /\ Open /\ faults < MaxFaults
    /\ faults' = faults + 1
    /\ entities' = [entities EXCEPT ![id] = whole]
    /\ saved' = NotSaved
    /\ UNCHANGED <<resourceType, action, sourceName, fetching, formVars, edits, opens,
                   origin, touched>>

EditNext ==
    \/ \E what \in {"create", "edit", "duplicate"}, id \in Ids \cup {NoName} : open(what, id)
    \/ close \/ entityReceived \/ entityFetchFails
    \/ ClusterPermissionPanel \/ IndexPermissionPanel \/ TenantPanel
    \/ AttributePanel \/ BackendRolePanel
    \/ InternalUsersPanel \/ ExternalIdentitiesPanel
    \/ \E id \in Ids \cup {BadName} : setName(id)
    \/ \E typed, repeated \in Passwords : setPassword(typed, repeated)
    \/ updateHandler \/ updateHandlerFails
    \/ \E id \in Ids : \E whole \in {Missing, AnOriginal(resourceType)} :
          OtherEditor(id, whole)

EditSpec == EditInit /\ [][EditNext]_editVars

-----------------------------------------------------------------------------
(* A role whose fields are all included or all excluded, and whose tenants are   *)
(* readable, or readable and writable, is one the form can show.             *)
Regular(part, value) ==
    CASE part = "index_permissions" -> \A f, g \in value : f.excluded = g.excluded
      [] part = "tenant_permissions" -> Cardinality(value) <= 1
      [] part \in Lists \cup {"attributes", "hosts"} -> TRUE

(* An entity that was loaded and saved is, in every part of the form that the     *)
(* user left alone, the entity that was loaded: turning it into rows, options,   *)
(* types and methods and back changes nothing, as long as the form can show it.  *)
UntouchedKept ==
    saved # NotSaved /\ origin # Missing =>
        \A part \in Shown(resourceType) \ touched :
            Regular(part, origin[part]) => entities[saved.id][part] = origin[part]

(* A user that is edited keeps the password unless a new one was typed; and a     *)
(* user that is created or duplicated, over an existing one too, has the one     *)
(* that was typed.                                                          *)
PasswordKept ==
    saved # NotSaved /\ resourceType = "internalusers" =>
        entities[saved.id].hash =
            IF password = NoPassword /\ saved.as = "edit" THEN saved.before.hash ELSE password
=============================================================================
