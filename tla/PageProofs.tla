------------------------------ MODULE PageProofs ------------------------------
(***************************************************************************)
(* The pages that edit one entity and the account menu.  What a form makes *)
(* of a role, a user or a mapping, and saves of it; the copy of a mapping  *)
(* that the role's page takes names away from; what the form of the        *)
(* tenancy settings shows and its dialog reviews; and which tenant the     *)
(* menu names, switches to and comes back to: for any names, entities,     *)
(* tenants and tabs, and any number of changes, failures and other         *)
(* administrators.                                                         *)
(***************************************************************************)
EXTENDS RoleView, TenancyConfig, EntityEdit, BrowserApp,
        FiniteSetTheorems, WellFoundedInduction, TLAPS

-----------------------------------------------------------------------------
(***************************************************************************)
(* The role's page and its mapping.                                        *)
(***************************************************************************)
Types == {"User", "Backend role"}

(* What the page keeps has the form of rows, and of hosts. *)
PageTyped ==
    /\ mappedUsers \subseteq Types \X People
    /\ hosts \in {"some", "none"}
    /\ mapping \in Mappings \cup {Gone}

(* The selection is of rows of the page, and of none before they came. *)
SelectionShown ==
    /\ step = "mapping" => mappedUsers = {}
    /\ dialog # "deleted" => ticked \subseteq mappedUsers
    /\ dialog = "confirm" => ticked # {}
    /\ dialog = "deleted" => step # "mapping"

(* The copy holds all that the cluster does while nobody else changes the mapping. *)
CopyComplete ==
    alone /\ dialog # "left" /\ (mappedUsers # {} \/ dialog = "deleted") =>
        /\ mapping # Gone
        /\ hosts = mapping.hosts
        /\ Entries(mapping) \subseteq mappedUsers

RoleInv == PageTyped /\ SelectionShown /\ CopyComplete /\ OthersKeepTheirMapping

-----------------------------------------------------------------------------
(* The rows of a mapping are pairs of a type and a name. *)
LEMMA EntriesTyped ==
    ASSUME NEW m \in Mappings \cup {Gone}
    PROVE  Entries(m) \subseteq Types \X People
<1>1. CASE m = Gone
  BY <1>1 DEF Entries
<1>2. CASE m # Gone
  <2>1. m.users \subseteq People /\ m.backend_roles \subseteq People
    BY <1>2 DEF Mappings
  <2>2. \A n \in People : <<"User", n>> \in Types \X People
    BY DEF Types
  <2>3. \A n \in People : <<"Backend role", n>> \in Types \X People
    BY DEF Types
  <2>4. \A e \in Entries(m) : \/ \E n \in m.users : e = <<"User", n>>
                            \/ \E n \in m.backend_roles : e = <<"Backend role", n>>
    BY <1>2 DEF Entries
  <2> QED BY <2>1, <2>2, <2>3, <2>4
<1> QED BY <1>1, <1>2

(* The names of a type are those of its rows. *)
LEMMA NamedRow ==
    ASSUME PageTyped, NEW type \in Types, NEW n
    PROVE  n \in Named(type) <=> <<type, n>> \in mappedUsers
<1>1. ASSUME n \in Named(type)
      PROVE  <<type, n>> \in mappedUsers
  <2>1. PICK r \in mappedUsers : r[1] = type /\ r[2] = n
    BY <1>1 DEF Named
  <2>2. r = <<r[1], r[2]>>
    BY DEF PageTyped
  <2> QED BY <2>1, <2>2
<1>2. ASSUME <<type, n>> \in mappedUsers
      PROVE  n \in Named(type)
  <2>1. <<type, n>>[1] = type /\ <<type, n>>[2] = n
    OBVIOUS
  <2> QED BY <1>2, <2>1 DEF Named
<1> QED BY <1>1, <1>2

(* What is sent back is a mapping: the rows whose name is not selected. *)
LEMMA UpdateObject ==
    ASSUME PageTyped
    PROVE  /\ updateObject \in Mappings
           /\ updateObject.hosts = hosts
           /\ Entries(updateObject) = {e \in mappedUsers : e[2] \notin usersToDelete}
<1>1. updateObject \in Mappings
  BY DEF PageTyped, updateObject, Mappings, Named
<1>2. updateObject # Gone
  BY <1>1, GoneIsNoMapping
<1>3. \A n : n \in Named("User") <=> <<"User", n>> \in mappedUsers
  BY NamedRow DEF Types
<1>4. \A n : n \in Named("Backend role") <=> <<"Backend role", n>> \in mappedUsers
  BY NamedRow DEF Types
<1>5. Entries(updateObject) =
        {<<"User", n>> : n \in Named("User") \ usersToDelete} \cup
        {<<"Backend role", n>> : n \in Named("Backend role") \ usersToDelete}
  BY <1>2 DEF Entries, updateObject
<1>6. ASSUME NEW e \in Entries(updateObject)
      PROVE  e \in mappedUsers /\ e[2] \notin usersToDelete
  <2>0. PICK type \in Types : \E n \in Named(type) \ usersToDelete : e = <<type, n>>
    BY <1>5, <1>6 DEF Types
  <2>1. PICK n \in Named(type) \ usersToDelete : e = <<type, n>>
    BY <2>0
  <2>2. <<type, n>> \in mappedUsers
    BY NamedRow
  <2>3. e[2] = n
    BY <2>1
  <2> QED BY <2>1, <2>2, <2>3
<1>7. ASSUME NEW e \in mappedUsers, e[2] \notin usersToDelete
      PROVE  e \in Entries(updateObject)
  <2>1. PICK type \in Types, n \in People : e = <<type, n>>
    BY DEF PageTyped
  <2>2. e[1] = type /\ e[2] = n
    BY <2>1
  <2>3. CASE type = "User"
    BY <1>3, <1>5, <1>7, <2>1, <2>2, <2>3
  <2>4. CASE type = "Backend role"
    BY <1>4, <1>5, <1>7, <2>1, <2>2, <2>4
  <2> QED BY <2>3, <2>4 DEF Types
<1>8. updateObject.hosts = hosts
  BY DEF updateObject
<1> QED BY <1>1, <1>6, <1>7, <1>8

(* The invariant holds of a page that has just been opened. *)
LEMMA RoleInvInit == RoleViewInit => RoleInv
BY DEF RoleViewInit, RoleInv, PageTyped, SelectionShown, CopyComplete,
      OthersKeepTheirMapping

(* Nothing is claimed of a deletion while none has just been made. *)
LEMMA NoDeletion ==
    ASSUME dialog' # "deleted"
    PROVE  OthersKeepTheirMapping'
BY DEF OthersKeepTheirMapping

(* The mapping has come: the copy is the mapping. *)
LEMMA MappingReceivedKeeps ==
    ASSUME RoleInv, mappingReceived
    PROVE  RoleInv'
<1> USE DEF mappingReceived, cluster, viewPage, viewCounts
<1>1. dialog # "deleted"
  BY DEF RoleInv, SelectionShown
<1>2. PageTyped'
  <2>1. CASE mapping = Gone
    BY <2>1 DEF RoleInv, PageTyped
  <2>2. CASE mapping # Gone
    BY <2>2, EntriesTyped DEF RoleInv, PageTyped, Mappings
  <2> QED BY <2>1, <2>2
<1>3. SelectionShown'
  BY <1>1 DEF RoleInv, SelectionShown
<1>4. CopyComplete'
  BY <1>1 DEF RoleInv, SelectionShown, CopyComplete
<1>5. OthersKeepTheirMapping'
  BY <1>1, NoDeletion
<1> QED BY <1>2, <1>3, <1>4, <1>5 DEF RoleInv

(* The mapping without the selected names is saved. *)
LEMMA MappingDeleteKeeps ==
    ASSUME RoleInv, handleRoleMappingDelete
    PROVE  RoleInv'
<1> USE DEF handleRoleMappingDelete
<1>1. PageTyped /\ SelectionShown /\ CopyComplete
  BY DEF RoleInv
<1>2. ticked # {} /\ ticked \subseteq mappedUsers /\ mappedUsers # {}
  BY <1>1 DEF SelectionShown
<1>3. /\ mapping' \in Mappings /\ mapping' # Gone /\ mapping'.hosts = hosts
      /\ Entries(mapping') = {e \in mappedUsers : e[2] \notin usersToDelete}
  BY <1>1, UpdateObject, GoneIsNoMapping
<1>4. PageTyped'
  BY <1>1, <1>3 DEF PageTyped
<1>5. SelectionShown'
  BY <1>1, <1>2 DEF SelectionShown
<1>6. CopyComplete'
  BY <1>3 DEF CopyComplete, usersToDelete
<1>7. OthersKeepTheirMapping'
  <2> SUFFICES ASSUME alone
               PROVE  /\ mapping'.hosts = mapping.hosts
                      /\ \A e \in Entries(mapping) :
                            e[2] \notin usersToDelete => e \in Entries(mapping')
    BY DEF OthersKeepTheirMapping, usersToDelete
  <2>1. hosts = mapping.hosts /\ Entries(mapping) \subseteq mappedUsers
    BY <1>1, <1>2 DEF CopyComplete
  <2> QED BY <1>3, <2>1
<1> QED BY <1>4, <1>5, <1>6, <1>7 DEF RoleInv

(* Every step of the page, of the user and of other administrators. *)
LEMMA RoleInvNext ==
    ASSUME RoleInv, [RoleViewNext]_viewVars
    PROVE  RoleInv'
<1> USE DEF RoleInv, PageTyped, SelectionShown, CopyComplete, OthersKeepTheirMapping,
            usersToDelete, cluster, viewPage, viewCounts
<1>1. CASE mappingReceived
  BY <1>1, MappingReceivedKeeps
<1>2. CASE roleReceived
  BY <1>2 DEF roleReceived
<1>3. CASE viewFails
  BY <1>3 DEF viewFails
<1>4. CASE \E picked \in SUBSET mappedUsers : select(picked)
  BY <1>4 DEF select
<1>5. CASE askToDeleteMapping
  BY <1>5 DEF askToDeleteMapping
<1>6. CASE cancel
  BY <1>6 DEF cancel
<1>7. CASE handleRoleMappingDelete
  BY <1>7, MappingDeleteKeeps
<1>8. CASE selectionCleared
  BY <1>8 DEF selectionCleared
<1>9. CASE mappingDeleteFails
  BY <1>9 DEF mappingDeleteFails
<1>10. CASE deleteRole
  BY <1>10 DEF deleteRole
<1>11. CASE deleteMappingOfRole
  BY <1>11 DEF deleteMappingOfRole
<1>12. CASE roleDeleteFails
  BY <1>12 DEF roleDeleteFails
<1>13. CASE \E m \in Mappings : OtherMapper(m)
  BY <1>13 DEF OtherMapper
<1>14. CASE UNCHANGED viewVars
  BY <1>14 DEF viewVars
<1> QED
  BY <1>1, <1>2, <1>3, <1>4, <1>5, <1>6, <1>7, <1>8, <1>9, <1>10, <1>11, <1>12, <1>13, <1>14
     DEF RoleViewNext

(* The invariant of every behaviour of the page. *)
THEOREM RoleViewInvariant == RoleViewSpec => []RoleInv
<1>1. RoleInv /\ [RoleViewNext]_viewVars => RoleInv'
  BY RoleInvNext
<1> QED BY <1>1, RoleInvInit, PTL DEF RoleViewSpec

(* role-view.tsx sends the whole mapping back when some of it is deleted, the    *)
(* hosts it never shows with it: what has no selected name is kept.           *)
THEOREM RoleViewKeepsOthers == RoleViewSpec => []OthersKeepTheirMapping
<1>1. RoleInv => OthersKeepTheirMapping
  BY DEF RoleInv
<1> QED BY <1>1, RoleViewInvariant, PTL

-----------------------------------------------------------------------------
(***************************************************************************)
(* The tenancy settings.                                                   *)
(***************************************************************************)
Forms == [multitenancy_enabled : BOOLEAN, private_tenant_enabled : BOOLEAN,
          default_tenant : Tenants \cup {NoTenant}]
TenancySaveRecords == [stage : {"none", "asked", "written"}, original : Forms, updated : Forms,
                       what : SUBSET Keys]

TenancyTyped ==
    /\ tenancy \in Forms /\ originalConfiguration \in Forms /\ updatedConfiguration \in Forms
    /\ passed \in [original : Forms, updated : Forms] /\ checked \in SUBSET Keys
    /\ tenancySaves \in [1..MaxTenancySaves -> TenancySaveRecords]
    /\ sure \in BOOLEAN /\ settled \in BOOLEAN /\ waited \in BOOLEAN

(* While saves are waited for, the dialog is of the form, and the one save there may *)
(* be is of the dialog, with all it changes ticked.                           *)
SaveOfDialog ==
    waited =>
        /\ saveModal = "open" => /\ passed.original = originalConfiguration
                                 /\ passed.updated = updatedConfiguration
        /\ \A c \in 1..MaxTenancySaves : tenancySaves[c].stage # "none" =>
              /\ saveModal = "open" /\ ~settled
              /\ tenancySaves[c].original = originalConfiguration
              /\ tenancySaves[c].updated = updatedConfiguration
              /\ tenancySaves[c].updated.multitenancy_enabled =>
                    Differ(tenancySaves[c].original, tenancySaves[c].updated)
                        \subseteq tenancySaves[c].what
              /\ \A d \in 1..MaxTenancySaves : tenancySaves[d].stage # "none" => d = c

Written == \E c \in 1..MaxTenancySaves : tenancySaves[c].stage = "written"

(* The settings loaded are the cluster's while nothing makes them doubtful, but for  *)
(* a save that was written and not answered yet; and those in the form too when it   *)
(* is settled.                                                              *)
FormOfCluster ==
    waited =>
        /\ sure => IF Written THEN tenancy = updatedConfiguration
                   ELSE tenancy = originalConfiguration
        /\ settled => sure /\ updatedConfiguration = tenancy /\ originalConfiguration = tenancy

(* Nothing can have been saved before the settings came. *)
ReviewFollowsLoad ==
    tab = "info" => /\ saveModal = "closed" /\ reviewed = NotReviewed
                    /\ \A c \in 1..MaxTenancySaves : tenancySaves[c].stage = "none"

TenancyInv ==
    TenancyTyped /\ SaveOfDialog /\ FormOfCluster /\ ReviewFollowsLoad /\ ChangesWereReviewed

-----------------------------------------------------------------------------
LEMMA FormRecords ==
    /\ Unloaded \in Forms /\ NothingPassed \in [original : Forms, updated : Forms]
    /\ NoTenancySave \in TenancySaveRecords /\ NoTenancySave.stage = "none"
    /\ Tenancies \subseteq Forms
<1>1. Unloaded \in Forms /\ Tenancies \subseteq Forms
  BY DEF Unloaded, Forms, Tenancies
<1> QED BY <1>1 DEF NothingPassed, NoTenancySave, TenancySaveRecords

LEMMA TenancySaveParts ==
    ASSUME TenancyTyped, NEW c \in 1..MaxTenancySaves
    PROVE  /\ tenancySaves[c] \in TenancySaveRecords
           /\ tenancySaves[c].original \in Forms /\ tenancySaves[c].updated \in Forms
           /\ tenancySaves[c].what \in SUBSET Keys
BY DEF TenancyTyped, TenancySaveRecords

(* The invariant holds of a tab that has just been mounted. *)
LEMMA TenancyInvInit == TenancyInit => TenancyInv
<1> SUFFICES ASSUME TenancyInit
             PROVE  TenancyInv
  OBVIOUS
<1>1. TenancyTyped
  BY FormRecords DEF TenancyInit, TenancyTyped
<1>2. \A c \in 1..MaxTenancySaves : tenancySaves[c].stage = "none"
  BY FormRecords DEF TenancyInit
<1> QED
  BY <1>1, <1>2 DEF TenancyInit, TenancyInv, SaveOfDialog, FormOfCluster, ReviewFollowsLoad,
                    ChangesWereReviewed, NotReviewed

(* Nothing is claimed of a review that has not been made. *)
LEMMA NothingReviewed ==
    ASSUME reviewed' = NotReviewed
    PROVE  ChangesWereReviewed'
BY DEF ChangesWereReviewed, NotReviewed

(* A step that leaves form, dialog and saves alone. *)
LEMMA TenancyFrame ==
    ASSUME TenancyInv, tab' = "info" => tab = "info",
           UNCHANGED <<tenancy, originalConfiguration, updatedConfiguration, saveModal, passed,
                       tenancySaves, sure, settled, waited, reviewed>>,
           checked' \in SUBSET Keys
    PROVE  TenancyInv'
BY DEF TenancyInv, TenancyTyped, SaveOfDialog, FormOfCluster, Written, ReviewFollowsLoad,
       ChangesWereReviewed

(* With no dialog open there is no save under way. *)
LEMMA NoDialogNoSave ==
    ASSUME TenancyInv, saveModal = "closed", waited
    PROVE  \A c \in 1..MaxTenancySaves : tenancySaves[c].stage = "none"
BY DEF TenancyInv, SaveOfDialog

(* The form changes while no dialog is open. *)
LEMMA FormChanges ==
    ASSUME TenancyInv, saveModal = "closed", tab # "info", updatedConfiguration' \in Forms,
           settled' \in BOOLEAN, reviewed' = NotReviewed,
           waited /\ settled' => sure /\ updatedConfiguration' = originalConfiguration,
           UNCHANGED <<tenancy, tab, originalConfiguration, saveModal, passed, checked,
                       tenancySaves, sure, waited>>
    PROVE  TenancyInv'
<1> USE DEF TenancyInv
<1>1. TenancyTyped'
  BY DEF TenancyTyped
<1>2. waited => ~Written
  BY NoDialogNoSave DEF Written
<1>3. FormOfCluster'
  BY <1>2 DEF FormOfCluster, Written
<1>4. SaveOfDialog'
  BY NoDialogNoSave DEF SaveOfDialog
<1>5. ReviewFollowsLoad'
  BY DEF ReviewFollowsLoad
<1> QED BY <1>1, <1>3, <1>4, <1>5, NothingReviewed

(* A change of the form is neither settled nor reviewed. *)
LEMMA ChangedKeeps ==
    ASSUME TenancyInv, Editable, NEW key \in Keys, NEW value, changed(key, value),
           [updatedConfiguration EXCEPT ![key] = value] \in Forms
    PROVE  TenancyInv'
BY FormChanges DEF Editable, changed, tabModal

(* The dialog opens with the form. *)
LEMMA DialogKeeps ==
    ASSUME TenancyInv, showSaveChangesModal
    PROVE  TenancyInv'
<1> USE DEF TenancyInv
<1>1. /\ tab # "info" /\ saveModal = "closed" /\ saveModal' = "open" /\ checked' = {}
      /\ passed' = [original |-> originalConfiguration, updated |-> updatedConfiguration]
      /\ reviewed' = NotReviewed
      /\ UNCHANGED <<tenancy, tab, originalConfiguration, updatedConfiguration, tenancySaves,
                     sure, settled, waited>>
  BY DEF showSaveChangesModal, BottomBarShown, tabForm
<1>2. TenancyTyped'
  BY <1>1 DEF TenancyTyped
<1>3. SaveOfDialog'
  BY <1>1, NoDialogNoSave DEF SaveOfDialog
<1>4. FormOfCluster' /\ ReviewFollowsLoad'
  BY <1>1 DEF FormOfCluster, Written, ReviewFollowsLoad
<1> QED BY <1>1, <1>2, <1>3, <1>4, NothingReviewed

(* It is closed while no save is under way, or nothing is claimed any more. *)
LEMMA CancelKeeps ==
    ASSUME TenancyInv, handleClose
    PROVE  TenancyInv'
<1> USE DEF TenancyInv
<1>1. /\ saveModal = "open" /\ saveModal' = "closed" /\ passed' = NothingPassed /\ checked' = {}
      /\ waited' = (waited /\ ~SaveUnderWay)
      /\ UNCHANGED <<tenancy, tab, originalConfiguration, updatedConfiguration, tenancySaves,
                     sure, settled, reviewed>>
  BY DEF handleClose, Closed, tabForm
<1>2. TenancyTyped'
  BY <1>1, FormRecords DEF TenancyTyped
<1>3. SaveOfDialog'
  BY <1>1 DEF SaveOfDialog, SaveUnderWay
<1>4. FormOfCluster' /\ ReviewFollowsLoad' /\ ChangesWereReviewed'
  BY <1>1 DEF FormOfCluster, Written, ReviewFollowsLoad, ChangesWereReviewed
<1> QED BY <1>2, <1>3, <1>4

(* What is asked for has been ticked, or is the default tenant alone. *)
LEMMA AskedKeeps ==
    ASSUME TenancyInv, NEW c \in 1..MaxTenancySaves, handleSave(c)
    PROVE  TenancyInv'
<1> USE DEF TenancyInv
<1> DEFINE new == [stage |-> "asked", original |-> passed.original, updated |-> passed.updated,
                   what |-> IF OnlyDefaultChanged THEN {"default_tenant"} ELSE checked]
<1>1. /\ saveModal = "open" /\ tenancySaves[c].stage = "none"
      /\ OnlyDefaultChanged \/ checked = Toggled
      /\ tenancySaves' = [tenancySaves EXCEPT ![c] = new]
      /\ settled' = FALSE /\ waited' = (waited /\ ~SaveUnderWay)
      /\ UNCHANGED <<tenancy, tab, originalConfiguration, updatedConfiguration, saveModal, passed,
                     checked, sure, reviewed>>
  BY DEF handleSave, tabForm, tabModal
<1>2. passed.original \in Forms /\ passed.updated \in Forms /\ checked \in SUBSET Keys
  BY DEF TenancyTyped
<1>3. new \in TenancySaveRecords /\ new.stage = "asked" /\ new.original = passed.original
      /\ new.updated = passed.updated
      /\ new.what = IF OnlyDefaultChanged THEN {"default_tenant"} ELSE checked
  BY <1>2 DEF TenancySaveRecords, Keys
<1> HIDE DEF new
<1>4. /\ TenancyTyped'
      /\ \A d \in 1..MaxTenancySaves : tenancySaves'[d] = IF d = c THEN new ELSE tenancySaves[d]
  BY <1>1, <1>3 DEF TenancyTyped
<1>5. new.updated.multitenancy_enabled => Differ(new.original, new.updated) \subseteq new.what
  <2>1. CASE OnlyDefaultChanged
    BY <1>3, <2>1 DEF OnlyDefaultChanged
  <2>2. CASE ~OnlyDefaultChanged
    BY <1>1, <1>3, <2>2 DEF Toggled
  <2> QED BY <2>1, <2>2
<1>6. waited' => waited /\ \A d \in 1..MaxTenancySaves : tenancySaves[d].stage = "none"
  BY <1>1 DEF SaveUnderWay
<1>7. SaveOfDialog'
  BY <1>1, <1>3, <1>4, <1>5, <1>6 DEF SaveOfDialog
<1>8. FormOfCluster'
  BY <1>1, <1>3, <1>4, <1>6 DEF FormOfCluster, Written
<1>9. ReviewFollowsLoad' /\ ChangesWereReviewed'
  BY <1>1, <1>4 DEF ReviewFollowsLoad, ChangesWereReviewed
<1> QED BY <1>4, <1>7, <1>8, <1>9

(* What a save changes is what the dialog had ticked, or the default tenant alone. *)
LEMMA WrittenKeeps ==
    ASSUME TenancyInv, NEW c \in 1..MaxTenancySaves, updateTenancyConfiguration(c)
    PROVE  TenancyInv'
<1> USE DEF TenancyInv
<1> DEFINE s == tenancySaves[c]
           new == [s EXCEPT !.stage = "written"]
<1>1. s \in TenancySaveRecords /\ s.updated \in Forms
  BY TenancySaveParts
<1>2. new \in TenancySaveRecords /\ new.stage = "written" /\ new.original = s.original
      /\ new.updated = s.updated /\ new.what = s.what
  BY <1>1 DEF TenancySaveRecords
<1>3. /\ s.stage = "asked" /\ tenancySaves' = [tenancySaves EXCEPT ![c] = new]
      /\ tenancy' = s.updated
      /\ reviewed' = [on |-> s.updated.multitenancy_enabled, what |-> s.what,
                      changed |-> Differ(tenancy, s.updated)]
      /\ UNCHANGED <<tab, originalConfiguration, updatedConfiguration, saveModal, passed, checked,
                     sure, settled, waited>>
  BY DEF updateTenancyConfiguration, tabForm, tabModal, TenancyTyped
<1> HIDE DEF new
<1>4. /\ TenancyTyped'
      /\ \A d \in 1..MaxTenancySaves : tenancySaves'[d] = IF d = c THEN new ELSE tenancySaves[d]
  BY <1>1, <1>2, <1>3 DEF TenancyTyped
<1>5. SaveOfDialog'
  <2> SUFFICES ASSUME waited
               PROVE  SaveOfDialog'
    BY <1>3 DEF SaveOfDialog
  <2>1. \A d \in 1..MaxTenancySaves :
           /\ tenancySaves'[d].stage # "none" <=> tenancySaves[d].stage # "none"
           /\ tenancySaves'[d].original = tenancySaves[d].original
           /\ tenancySaves'[d].updated = tenancySaves[d].updated
           /\ tenancySaves'[d].what = tenancySaves[d].what
    BY <1>2, <1>3, <1>4
  <2> QED BY <1>3, <2>1 DEF SaveOfDialog
<1>6. waited => ~settled /\ s.updated = updatedConfiguration /\ s.original = originalConfiguration
                /\ ~Written
                /\ (s.updated.multitenancy_enabled => Differ(s.original, s.updated) \subseteq s.what)
  BY <1>3 DEF SaveOfDialog, Written
<1>7. FormOfCluster'
  BY <1>2, <1>3, <1>4, <1>6 DEF FormOfCluster, Written
<1>8. ReviewFollowsLoad'
  BY <1>3 DEF ReviewFollowsLoad
<1>9. ChangesWereReviewed'
  BY <1>3, <1>6 DEF ChangesWereReviewed, FormOfCluster
<1> QED BY <1>4, <1>5, <1>7, <1>8, <1>9

(* A save that has ended is none any more, and was the only one. *)
LEMMA SaveEnded ==
    ASSUME TenancyInv, NEW c \in 1..MaxTenancySaves, tenancySaves[c].stage # "none", Answered(c)
    PROVE  /\ tenancySaves' \in [1..MaxTenancySaves -> TenancySaveRecords]
           /\ waited => \A d \in 1..MaxTenancySaves : tenancySaves'[d].stage = "none"
           /\ saveModal' = "closed" /\ passed' = NothingPassed /\ checked' = {} /\ tab # "info"
<1> USE DEF TenancyInv
<1>1. tenancySaves' = [tenancySaves EXCEPT ![c] = NoTenancySave]
      /\ saveModal' = "closed" /\ passed' = NothingPassed /\ checked' = {}
  BY DEF Answered, Closed
<1>2. /\ tenancySaves' \in [1..MaxTenancySaves -> TenancySaveRecords]
      /\ \A d \in 1..MaxTenancySaves :
            tenancySaves'[d] = IF d = c THEN NoTenancySave ELSE tenancySaves[d]
  BY <1>1, FormRecords DEF TenancyTyped
<1>3. waited => \A d \in 1..MaxTenancySaves : tenancySaves[d].stage # "none" => d = c
  BY DEF SaveOfDialog
<1>4. tab # "info"
  BY DEF ReviewFollowsLoad
<1> QED BY <1>1, <1>2, <1>3, <1>4, FormRecords

LEMMA AnsweredKeeps ==
    ASSUME TenancyInv, NEW c \in 1..MaxTenancySaves, saveAnswered(c)
    PROVE  TenancyInv'
<1> USE DEF TenancyInv
<1>1. /\ tenancySaves[c].stage = "written" /\ Answered(c)
      /\ originalConfiguration' = tenancySaves[c].updated /\ settled' = sure
      /\ UNCHANGED <<tenancy, tab, updatedConfiguration, sure, waited, reviewed>>
  BY DEF saveAnswered
<1>2. /\ tenancySaves' \in [1..MaxTenancySaves -> TenancySaveRecords]
      /\ waited => \A d \in 1..MaxTenancySaves : tenancySaves'[d].stage = "none"
      /\ saveModal' = "closed" /\ passed' = NothingPassed /\ checked' = {} /\ tab # "info"
  BY <1>1, SaveEnded
<1>3. tenancySaves[c].updated \in Forms
  BY TenancySaveParts
<1>4. TenancyTyped'
  BY <1>1, <1>2, <1>3, FormRecords DEF TenancyTyped
<1>5. waited => tenancySaves[c].updated = updatedConfiguration /\ Written /\ ~Written'
  BY <1>1, <1>2 DEF SaveOfDialog, Written
<1>6. SaveOfDialog'
  BY <1>1, <1>2 DEF SaveOfDialog
<1>7. FormOfCluster'
  BY <1>1, <1>5 DEF FormOfCluster
<1>8. ReviewFollowsLoad' /\ ChangesWereReviewed'
  BY <1>1, <1>2 DEF ReviewFollowsLoad, ChangesWereReviewed
<1> QED BY <1>4, <1>6, <1>7, <1>8

(* A save that failed, whether or not the cluster carried it out. *)
LEMMA FailureKeeps ==
    ASSUME TenancyInv, NEW c \in 1..MaxTenancySaves, saveFailed(c)
    PROVE  TenancyInv'
<1> USE DEF TenancyInv
<1>1. /\ tenancySaves[c].stage # "none" /\ Answered(c)
      /\ updatedConfiguration' = tenancySaves[c].original
      /\ sure' = (sure /\ tenancySaves[c].stage = "asked") /\ settled' = sure'
      /\ reviewed' = NotReviewed
      /\ UNCHANGED <<tenancy, tab, originalConfiguration, waited>>
  BY DEF saveFailed
<1>2. /\ tenancySaves' \in [1..MaxTenancySaves -> TenancySaveRecords]
      /\ waited => \A d \in 1..MaxTenancySaves : tenancySaves'[d].stage = "none"
      /\ saveModal' = "closed" /\ passed' = NothingPassed /\ checked' = {} /\ tab # "info"
  BY <1>1, SaveEnded
<1>3. tenancySaves[c].original \in Forms
  BY TenancySaveParts
<1>4. TenancyTyped'
  BY <1>1, <1>2, <1>3, FormRecords DEF TenancyTyped
<1>5. waited => tenancySaves[c].original = originalConfiguration /\ ~Written'
  BY <1>1, <1>2 DEF SaveOfDialog, Written
<1>6. waited /\ tenancySaves[c].stage = "asked" => ~Written
  BY DEF SaveOfDialog, Written
<1>7. SaveOfDialog'
  BY <1>1, <1>2 DEF SaveOfDialog
<1>8. FormOfCluster'
  BY <1>1, <1>5, <1>6 DEF FormOfCluster
<1>9. ReviewFollowsLoad'
  BY <1>1, <1>2 DEF ReviewFollowsLoad
<1> QED BY <1>1, <1>4, <1>7, <1>8, <1>9, NothingReviewed

(* Every step of the tab, of the user and of other administrators. *)
LEMMA TenancyInvNext ==
    ASSUME TenancyInv, [TenancyNext]_tenancyVars
    PROVE  TenancyInv'
<1> USE DEF TenancyInv
<1>1. CASE infoReceived
  <2>1. /\ tab = "info" /\ tab' = "tenants" /\ originalConfiguration' = tenancy
        /\ updatedConfiguration' = tenancy /\ sure' = TRUE /\ settled' = TRUE
        /\ UNCHANGED <<tenancy, saveModal, passed, checked, tenancySaves, waited, reviewed>>
    BY <1>1 DEF infoReceived, tabModal
  <2>2. saveModal = "closed" /\ reviewed' = NotReviewed
        /\ \A c \in 1..MaxTenancySaves : tenancySaves'[c].stage = "none"
    BY <2>1 DEF ReviewFollowsLoad
  <2>3. TenancyTyped'
    BY <2>1 DEF TenancyTyped
  <2> QED
    BY <2>1, <2>2, <2>3, NothingReviewed
       DEF SaveOfDialog, FormOfCluster, Written, ReviewFollowsLoad
<1>2. CASE allTenantsReceived
  BY <1>2, TenancyFrame DEF allTenantsReceived, tabForm, tabModal, tenancyHistory, TenancyTyped
<1>3. CASE \E isRefusal \in BOOLEAN : tabLoadFails(isRefusal)
  <2>1. tab' # "info"
        /\ UNCHANGED <<tenancy, originalConfiguration, updatedConfiguration, saveModal, passed,
                       checked, tenancySaves, sure, settled, waited, reviewed>>
    BY <1>3 DEF tabLoadFails, tabForm, tabModal, tenancyHistory
  <2> QED BY <2>1, TenancyFrame DEF TenancyTyped
<1>4. CASE onSwitchChangeTenancyEnabled
  BY <1>4, ChangedKeeps DEF onSwitchChangeTenancyEnabled, TenancyTyped, Forms, Keys
<1>5. CASE onSwitchChangePrivateTenantEnabled
  BY <1>5, ChangedKeeps DEF onSwitchChangePrivateTenantEnabled, TenancyTyped, Forms, Keys
<1>6. CASE \E t \in Tenants : updateDefaultTenant(t)
  BY <1>6, ChangedKeeps DEF updateDefaultTenant, TenancyTyped, Forms, Keys
<1>7. CASE discardChangesFunction
  BY <1>7, FormChanges DEF discardChangesFunction, BottomBarShown, tabModal, TenancyTyped
<1>8. CASE showSaveChangesModal
  BY <1>8, DialogKeeps
<1>9. CASE handleClose
  BY <1>9, CancelKeeps
<1>10. CASE \E key \in Keys : tick(key)
  BY <1>10, TenancyFrame DEF tick, tabForm, tenancyHistory, TenancyTyped
<1>11. CASE \E c \in 1..MaxTenancySaves : \/ handleSave(c) \/ updateTenancyConfiguration(c)
                                          \/ saveAnswered(c) \/ saveFailed(c)
  BY <1>11, AskedKeeps, WrittenKeeps, AnsweredKeeps, FailureKeeps
<1>12. CASE \E config \in Tenancies : OtherTenancy(config)
  <2>1. PICK config \in Tenancies : OtherTenancy(config)
    BY <1>12
  <2>2. /\ tenancy' \in Forms /\ sure' = FALSE /\ settled' = FALSE /\ reviewed' = NotReviewed
        /\ UNCHANGED <<tab, originalConfiguration, updatedConfiguration, saveModal, passed,
                       checked, tenancySaves, waited>>
    BY <2>1, FormRecords DEF OtherTenancy, tabForm, tabModal
  <2>3. TenancyTyped'
    BY <2>2 DEF TenancyTyped
  <2> QED
    BY <2>2, <2>3, NothingReviewed DEF SaveOfDialog, FormOfCluster, ReviewFollowsLoad
<1>13. CASE UNCHANGED tenancyVars
  BY <1>13, TenancyFrame DEF tenancyVars, tabForm, tabModal, tenancyHistory, TenancyTyped
<1> QED
  BY <1>1, <1>2, <1>3, <1>4, <1>5, <1>6, <1>7, <1>8, <1>9, <1>10, <1>11, <1>12, <1>13
     DEF TenancyNext

(* The invariant of every behaviour of the tab. *)
THEOREM TenancyInvariant == TenancySpec => []TenancyInv
<1>1. TenancyInv /\ [TenancyNext]_tenancyVars => TenancyInv'
  BY TenancyInvNext
<1> QED BY <1>1, TenancyInvInit, PTL DEF TenancySpec

(* After a load, a save, a failed save and a discard the form shows what the       *)
(* cluster holds, as long as saves are waited for: configure_tab1.tsx then never     *)
(* leaves it with what was not saved.                                         *)
THEOREM TenancyFormTrue == TenancySpec => []FormIsTrue
<1>1. TenancyInv => FormIsTrue
  BY DEF TenancyInv, FormOfCluster, FormIsTrue
<1> QED BY <1>1, TenancyInvariant, PTL

(* With tenancy on, a save changes nothing that the dialog of                  *)
(* save_changes_modal.tsx did not have ticked, or did not name, as long as saves   *)
(* are waited for.                                                          *)
THEOREM TenancyChangesReviewed == TenancySpec => []ChangesWereReviewed
<1>1. TenancyInv => ChangesWereReviewed
  BY DEF TenancyInv
<1> QED BY <1>1, TenancyInvariant, PTL

-----------------------------------------------------------------------------
(***************************************************************************)
(* The pages that edit a role, a user or a mapping.                           *)
(***************************************************************************)
(* The values a part can have in the cluster, and in a form. *)
Values(part) ==
    CASE part \in Lists -> SUBSET Items
      [] part = "index_permissions" -> SUBSET Fields
      [] part = "tenant_permissions" -> SUBSET {"read", "write"}
      [] part = "attributes" -> UNION {[keys -> Items] : keys \in SUBSET Items}
      [] part = "hosts" -> {"some", "none"}

AttributeRows(n) == [1..n -> (Items \cup {EmptyRow}) \X Items]

States(part) ==
    CASE part \in Lists -> SUBSET (Items \cup {EmptyRow})
      [] part = "index_permissions" -> [method : {"include", "exclude"}, fields : SUBSET Items]
      [] part = "tenant_permissions" -> {"Read only", "Read and Write", ""}
      [] part = "attributes" -> UNION {AttributeRows(n) : n \in Nat}
      [] part = "hosts" -> {"some", "none"}

Proper(whole) ==
    whole # Missing => \A part \in Shown(resourceType) : whole[part] \in Values(part)

EditTyped ==
    /\ resourceType \in {"roles", "internalusers", "rolesmapping"}
    /\ DOMAIN entities = Ids /\ \A id \in Ids : Proper(entities[id])
    /\ DOMAIN form = Shown(resourceType)
    /\ \A part \in Shown(resourceType) : form[part] \in States(part)
    /\ Proper(origin)

(* A page that loads is open, and was opened for an entity; and one that has saved *)
(* is closed.                                                              *)
PageOrder ==
    /\ fetching => action # "closed" /\ sourceName \in Ids
    /\ saved # NotSaved => action = "closed"

(* What has not been touched is the state of what was loaded. *)
FormOfOrigin ==
    origin # Missing =>
        \A part \in Shown(resourceType) \ touched : form[part] = build(part, origin[part])

EditInv == EditTyped /\ PageOrder /\ FormOfOrigin /\ UntouchedKept /\ PasswordKept

-----------------------------------------------------------------------------
Parts == Lists \cup {"index_permissions", "tenant_permissions", "attributes", "hosts"}
Kinds == {"roles", "internalusers", "rolesmapping"}

LEMMA ShownParts ==
    ASSUME NEW kind \in Kinds
    PROVE  /\ Shown(kind) \subseteq Parts
           /\ "hash" \notin Shown(kind) /\ "rest" \notin Shown(kind)
<1>1. CASE kind = "roles"
  BY <1>1 DEF Shown, Parts, Lists
<1>2. CASE kind = "internalusers"
  BY <1>2 DEF Shown, Parts, Lists
<1>3. CASE kind = "rolesmapping"
  BY <1>3 DEF Shown, Parts, Lists
<1> QED BY <1>1, <1>2, <1>3 DEF Kinds

(* Among some of the first n numbers there is a last one. *)
LEMMA LatestIndex ==
    ASSUME NEW n \in Nat, NEW S, S \subseteq 1..n, S # {}
    PROVE  \E i \in S : \A j \in S : j <= i
<1> DEFINE T == {n - i : i \in S}
<1>1. T \subseteq Nat /\ T # {}
  <2>1. \A i \in S : n - i \in Nat
    OBVIOUS
  <2> QED BY <2>1
<1>2. PICK m \in T : \A k \in T : ~(<<k, m>> \in OpToRel(<, Nat))
  <2> HIDE DEF T
  <2> QED BY <1>1, NatLessThanWellFounded, WFMin, Zenon
<1>3. \A k \in T : ~(k < m)
  <2> HIDE DEF T
  <2> QED BY <1>1, <1>2 DEF OpToRel
<1>4. PICK i \in S : m = n - i
  OBVIOUS
<1>5. \A j \in S : n - j \in T
  OBVIOUS
<1>6. \A j \in S : j <= i
  <2> HIDE DEF T
  <2> QED BY <1>3, <1>4, <1>5
<1> QED BY <1>6

(* Rows give an attribute to each key that is not empty, and it is one of the       *)
(* row's.                                                                   *)
LEMMA RowsToAttributes ==
    ASSUME NEW n \in Nat, NEW rows \in AttributeRows(n),
           NEW dict, dict = unbuildAttributeState(rows)
    PROVE  /\ dict \in [{rows[i][1] : i \in 1..n} \ {EmptyRow} -> Items]
           /\ \A k \in DOMAIN dict : <<k, dict[k]>> \in {rows[i] : i \in 1..n}
<1> DEFINE keys == {rows[i][1] : i \in DOMAIN rows} \ {EmptyRow}
           isLast(k, i) == rows[i][1] = k /\ \A j \in DOMAIN rows : rows[j][1] = k => j <= i
           last(k) == CHOOSE i \in DOMAIN rows : isLast(k, i)
<1>1. dict = [k \in keys |-> rows[last(k)][2]]
  BY DEF unbuildAttributeState
<1>2. DOMAIN rows = 1..n
  BY DEF AttributeRows
<1>3. ASSUME NEW k \in keys
      PROVE  last(k) \in 1..n /\ rows[last(k)][1] = k
  <2> DEFINE S == {i \in 1..n : rows[i][1] = k}
  <2>1. S \subseteq 1..n /\ S # {}
    BY <1>2
  <2>2. PICK i \in S : \A j \in S : j <= i
    BY <2>1, LatestIndex
  <2>3. i \in DOMAIN rows /\ isLast(k, i)
    BY <1>2, <2>2
  <2>4. last(k) \in DOMAIN rows /\ isLast(k, last(k))
    <3> HIDE DEF isLast
    <3> QED BY <2>3
  <2> QED BY <1>2, <2>4
<1> HIDE DEF last
<1>4. \A k \in keys : rows[last(k)][2] \in Items
                     /\ rows[last(k)] = <<rows[last(k)][1], rows[last(k)][2]>>
  BY <1>3 DEF AttributeRows
<1>5. keys = {rows[i][1] : i \in 1..n} \ {EmptyRow}
  BY <1>2
<1> HIDE DEF keys
<1>6. dict \in [keys -> Items]
  BY <1>1, <1>4
<1>7. \A k \in keys : <<k, dict[k]>> = rows[last(k)]
  BY <1>1, <1>3, <1>4
<1>8. \A k \in keys : <<k, dict[k]>> \in {rows[i] : i \in 1..n}
  BY <1>3, <1>7
<1>9. DOMAIN dict = keys
  BY <1>6
<1> QED BY <1>5, <1>6, <1>8, <1>9

(* The rows of a dictionary are its keys with their values. *)
LEMMA AttributesToRows ==
    ASSUME NEW keys \in SUBSET Items, NEW dict \in [keys -> Items]
    PROVE  LET rows == buildAttributeState(dict)
           IN  /\ Cardinality(keys) \in Nat
               /\ rows \in [1..Cardinality(keys) -> Items \X Items]
               /\ {rows[i] : i \in DOMAIN rows} = {<<k, dict[k]>> : k \in keys}
<1> USE EditAssumption
<1> DEFINE n == Cardinality(keys)
           right(rows) == {rows[i] : i \in DOMAIN rows} = {<<k, dict[k]>> : k \in DOMAIN dict}
<1>1. IsFiniteSet(keys)
  BY FS_Subset
<1>2. n \in Nat /\ ExistsBijection(1..n, keys)
  BY <1>1, FS_CardinalityType
<1> HIDE DEF n
<1>3. PICK f : f \in Bijection(1..n, keys)
  BY <1>2 DEF ExistsBijection
<1>4. f \in [1..n -> keys] /\ \A k \in keys : \E i \in 1..n : f[i] = k
  BY <1>3 DEF Bijection, Injection, Surjection
<1> DEFINE rows == [i \in 1..n |-> <<f[i], dict[f[i]]>>]
<1>5. rows \in [1..n -> Items \X Items]
  BY <1>4
<1>6. right(rows)
  <2>1. DOMAIN rows = 1..n /\ DOMAIN dict = keys
    OBVIOUS
  <2>2. \A i \in 1..n : rows[i] \in {<<k, dict[k]>> : k \in keys}
    BY <1>4
  <2>3. ASSUME NEW k \in keys
        PROVE  <<k, dict[k]>> \in {rows[i] : i \in 1..n}
    <3>1. PICK i \in 1..n : f[i] = k
      BY <1>4
    <3>2. rows[i] = <<k, dict[k]>>
      BY <3>1
    <3> QED BY <3>2
  <2> HIDE DEF rows
  <2> QED BY <2>1, <2>2, <2>3
<1>7. buildAttributeState(dict) = CHOOSE r \in [1..n -> Items \X Items] : right(r)
  BY DEF buildAttributeState, n
<1> HIDE DEF right, rows
<1>8. /\ buildAttributeState(dict) \in [1..n -> Items \X Items]
      /\ right(buildAttributeState(dict))
  BY <1>5, <1>6, <1>7
<1> QED BY <1>2, <1>8 DEF n, right

LEMMA RowsOfDictionary ==
    ASSUME NEW keys \in SUBSET Items, NEW dict \in [keys -> Items],
           NEW n \in Nat, NEW rows \in [1..n -> Items \X Items],
           {rows[i] : i \in DOMAIN rows} = {<<k, dict[k]>> : k \in keys},
           NEW back, back = unbuildAttributeState(rows)
    PROVE  back = dict
<1>1. rows \in AttributeRows(n)
  BY DEF AttributeRows
<1>2. back \in [{rows[i][1] : i \in 1..n} \ {EmptyRow} -> Items]
  BY <1>1, RowsToAttributes
<1>3. \A k \in DOMAIN back : <<k, back[k]>> \in {rows[i] : i \in 1..n}
  BY <1>1, RowsToAttributes
<1>4. DOMAIN rows = 1..n
  OBVIOUS
<1>5. \A k \in DOMAIN back : k \in keys /\ back[k] = dict[k]
  <2> SUFFICES ASSUME NEW k \in DOMAIN back
               PROVE  k \in keys /\ back[k] = dict[k]
    OBVIOUS
  <2>1. <<k, back[k]>> \in {<<key, dict[key]>> : key \in keys}
    BY <1>3, <1>4
  <2>2. PICK key \in keys : <<k, back[k]>> = <<key, dict[key]>>
    BY <2>1
  <2> QED BY <2>2
<1>6. keys \subseteq DOMAIN back
  <2> SUFFICES ASSUME NEW k \in keys
               PROVE  k \in DOMAIN back
    OBVIOUS
  <2>1. <<k, dict[k]>> \in {rows[i] : i \in 1..n}
    BY <1>4
  <2>2. PICK i \in 1..n : rows[i] = <<k, dict[k]>>
    BY <2>1
  <2>3. rows[i][1] = k /\ k # EmptyRow
    BY <2>2, EditAssumption
  <2> QED BY <1>2, <2>3
<1>7. DOMAIN back = keys
  BY <1>5, <1>6
<1> QED BY <1>2, <1>5, <1>7

LEMMA AttributesRoundTrip ==
    ASSUME NEW keys \in SUBSET Items, NEW dict \in [keys -> Items]
    PROVE  unbuildAttributeState(buildAttributeState(dict)) = dict
<1>1. /\ Cardinality(keys) \in Nat
      /\ buildAttributeState(dict) \in [1..Cardinality(keys) -> Items \X Items]
      /\ {buildAttributeState(dict)[i] : i \in DOMAIN buildAttributeState(dict)}
             = {<<k, dict[k]>> : k \in keys}
  BY AttributesToRows
<1> QED BY <1>1, RowsOfDictionary

(* What a form is built from is one it can hold. *)
LEMMA BuildState ==
    ASSUME NEW part \in Parts, NEW v \in Values(part)
    PROVE  build(part, v) \in States(part)
<1>1. CASE part \in Lists
  BY <1>1 DEF Lists, Values, States, build
<1>2. CASE part = "index_permissions"
  <2>1. v \in SUBSET Fields /\ \A f \in v : f.item \in Items
    BY <1>2 DEF Values, Fields, Lists
  <2>2. build(part, v) = [method |-> getFieldLevelSecurityMethod(v), fields |-> {f.item : f \in v}]
    BY <1>2 DEF build, Lists
  <2>3. getFieldLevelSecurityMethod(v) \in {"include", "exclude"}
    BY DEF getFieldLevelSecurityMethod
  <2>4. States(part) = [method : {"include", "exclude"}, fields : SUBSET Items]
    BY <1>2 DEF States, Lists
  <2> QED BY <2>1, <2>2, <2>3, <2>4
<1>3. CASE part = "tenant_permissions"
  BY <1>3 DEF States, build, getTenantPermissionType, Lists
<1>4. CASE part = "attributes"
  <2>1. PICK keys \in SUBSET Items : v \in [keys -> Items]
    BY <1>4 DEF Values, Lists
  <2>2. /\ Cardinality(keys) \in Nat
        /\ buildAttributeState(v) \in [1..Cardinality(keys) -> Items \X Items]
    BY <2>1, AttributesToRows
  <2>3. buildAttributeState(v) \in AttributeRows(Cardinality(keys))
    BY <2>2 DEF AttributeRows
  <2>4. /\ States(part) = UNION {AttributeRows(n) : n \in Nat}
        /\ build(part, v) = buildAttributeState(v)
    BY <1>4 DEF States, build, Lists
  <2> QED BY <2>2, <2>3, <2>4
<1>5. CASE part = "hosts"
  BY <1>5 DEF Values, States, build, Lists
<1> QED BY <1>1, <1>2, <1>3, <1>4, <1>5 DEF Parts

(* What a form is saved as is something the cluster can hold. *)
LEMMA UnbuildValue ==
    ASSUME NEW part \in Parts, NEW state \in States(part)
    PROVE  unbuild(part, state) \in Values(part)
<1>1. CASE part \in Lists
  BY <1>1 DEF Lists, Values, States, unbuild
<1>2. CASE part = "index_permissions"
  <2>1. state \in [method : {"include", "exclude"}, fields : SUBSET Items]
    BY <1>2 DEF States, Lists
  <2>2. \A i \in Items, e \in BOOLEAN : Field(i, e) \in Fields
    BY DEF Field, Fields
  <2>3. unbuild(part, state) = {Field(i, state.method = "exclude") : i \in state.fields}
    BY <1>2 DEF unbuild, Lists
  <2>4. unbuild(part, state) \subseteq Fields
    BY <2>1, <2>2, <2>3
  <2> QED BY <1>2, <2>4 DEF Values, Lists
<1>3. CASE part = "tenant_permissions"
  BY <1>3 DEF States, Values, unbuild, Lists
<1>4. CASE part = "attributes"
  <2>1. PICK n \in Nat : state \in AttributeRows(n)
    BY <1>4 DEF States, Lists
  <2> DEFINE keys == {state[i][1] : i \in 1..n} \ {EmptyRow}
  <2>2. unbuildAttributeState(state) \in [keys -> Items]
    BY <2>1, RowsToAttributes
  <2>3. keys \subseteq Items
    BY <2>1 DEF AttributeRows
  <2>4. unbuild(part, state) = unbuildAttributeState(state)
        /\ Values(part) = UNION {[k -> Items] : k \in SUBSET Items}
    BY <1>4 DEF unbuild, Values, Lists
  <2> QED BY <2>2, <2>3, <2>4
<1>5. CASE part = "hosts"
  BY <1>5 DEF Values, States, unbuild, Lists
<1> QED BY <1>1, <1>2, <1>3, <1>4, <1>5 DEF Parts

(* Turning a part into what the form shows and back changes nothing. *)
LEMMA RoundTrip ==
    ASSUME NEW part \in Parts, NEW v \in Values(part), Regular(part, v)
    PROVE  unbuild(part, build(part, v)) = v
<1>1. CASE part \in Lists
  BY <1>1, EditAssumption DEF Lists, Values, build, unbuild
<1>2. CASE part = "index_permissions"
  <2> DEFINE method == getFieldLevelSecurityMethod(v)
             items == {f.item : f \in v}
             state == [method |-> method, fields |-> items]
  <2>1. v \subseteq Fields /\ \A f, g \in v : f.excluded = g.excluded
    BY <1>2 DEF Values, Lists, Regular
  <2>2. \A f \in v : f = Field(f.item, f.excluded) /\ f.excluded \in BOOLEAN
    BY <2>1 DEF Fields, Field
  <2>3. \A f \in v : f.excluded = (method = "exclude")
    BY <2>1, <2>2 DEF getFieldLevelSecurityMethod
  <2>4. \A f \in v : f = Field(f.item, method = "exclude")
    BY <2>2, <2>3
  <2>6. build(part, v) = state
    BY <1>2 DEF build, Lists
  <2> HIDE DEF method
  <2>5. {Field(i, method = "exclude") : i \in items} = v
    BY <2>4
  <2>7. state.method = method /\ state.fields = items
    OBVIOUS
  <2> HIDE DEF state
  <2>8. unbuild(part, state) = {Field(i, state.method = "exclude") : i \in state.fields}
    BY <1>2 DEF unbuild, Lists
  <2> QED BY <2>5, <2>6, <2>7, <2>8
<1>3. CASE part = "tenant_permissions"
  <2>1. v \subseteq {"read", "write"} /\ Cardinality(v) <= 1
    BY <1>3 DEF Values, Lists, Regular
  <2>2. v # {"read", "write"}
    <3>1. IsFiniteSet({"read"}) /\ Cardinality({"read"}) = 1 /\ "write" \notin {"read"}
      BY FS_Singleton
    <3>2. Cardinality({"read"} \cup {"write"}) = Cardinality({"read"}) + 1
      BY <3>1, FS_AddElement
    <3>3. {"read"} \cup {"write"} = {"read", "write"}
      OBVIOUS
    <3> QED BY <2>1, <3>1, <3>2, <3>3
  <2>3. v = {} \/ v = {"read"} \/ v = {"write"}
    BY <2>1, <2>2
  <2>4. build(part, v) = getTenantPermissionType(v)
    BY <1>3 DEF build, Lists
  <2>5. CASE v = {}
    BY <1>3, <2>4, <2>5 DEF unbuild, getTenantPermissionType, Lists
  <2>6. CASE v = {"read"}
    BY <1>3, <2>4, <2>6 DEF unbuild, getTenantPermissionType, Lists
  <2>7. CASE v = {"write"}
    BY <1>3, <2>4, <2>7 DEF unbuild, getTenantPermissionType, Lists
  <2> QED BY <2>3, <2>5, <2>6, <2>7
<1>4. CASE part = "attributes"
  <2>1. PICK keys \in SUBSET Items : v \in [keys -> Items]
    BY <1>4 DEF Values, Lists
  <2>2. unbuild(part, build(part, v)) = unbuildAttributeState(buildAttributeState(v))
    BY <1>4 DEF unbuild, build, Lists
  <2> QED BY <2>1, <2>2, AttributesRoundTrip
<1>5. CASE part = "hosts"
  BY <1>5 DEF build, unbuild, Lists
<1> QED BY <1>1, <1>2, <1>3, <1>4, <1>5 DEF Parts

-----------------------------------------------------------------------------
(* An entity the cluster may hold from the start has the values of its parts. *)
LEMMA OriginalsProper ==
    ASSUME resourceType \in Kinds, NEW whole \in Originals(resourceType)
    PROVE  Proper(whole)
<1>1. CASE resourceType = "roles"
  BY <1>1 DEF Originals, Proper, Shown, Values, Lists
<1>2. CASE resourceType = "internalusers"
  BY <1>2 DEF Originals, Proper, Shown, Values, Lists
<1>3. CASE resourceType = "rolesmapping"
  BY <1>3 DEF Originals, Proper, Shown, Values, Lists
<1> QED BY <1>1, <1>2, <1>3 DEF Kinds

LEMMA AnOriginalProper ==
    ASSUME resourceType \in Kinds
    PROVE  Proper(AnOriginal(resourceType))
<1>1. CASE resourceType = "roles"
  <2> DEFINE whole == [cluster_permissions |-> {}, index_permissions |-> {},
                       tenant_permissions |-> {}, rest |-> "text"]
  <2>1. whole \in Originals(resourceType)
    BY <1>1 DEF Originals
  <2> QED BY <2>1, OriginalsProper DEF AnOriginal
<1>2. CASE resourceType = "internalusers"
  <2>1. PICK p \in Passwords : TRUE
    BY EditAssumption
  <2> DEFINE none == [k \in {} |-> k]
             whole == [backend_roles |-> {}, rest |-> "text", hash |-> p, attributes |-> none]
  <2>2. none \in [{} -> Items] /\ {} \in SUBSET Items
    OBVIOUS
  <2>3. none \in UNION {[keys -> Items] : keys \in SUBSET Items}
    BY <2>2
  <2> HIDE DEF none
  <2>4. whole \in Originals(resourceType)
    BY <1>2, <2>3 DEF Originals
  <2> QED BY <2>4, OriginalsProper DEF AnOriginal
<1>3. CASE resourceType = "rolesmapping"
  <2> DEFINE whole == [users |-> {}, backend_roles |-> {}, hosts |-> "none", rest |-> "text"]
  <2>1. whole \in Originals(resourceType)
    BY <1>3 DEF Originals
  <2> QED BY <2>1, OriginalsProper DEF AnOriginal
<1> QED BY <1>1, <1>2, <1>3 DEF Kinds

(* A form starts, and is changed, within what it can hold. *)
LEMMA EmptyState ==
    ASSUME NEW part \in Parts
    PROVE  EmptyForm(part) \in States(part)
<1>1. CASE part = "attributes"
  <2>1. EmptyForm(part) = << >> /\ States(part) = UNION {AttributeRows(n) : n \in Nat}
    BY <1>1 DEF EmptyForm, States, Lists
  <2>2. << >> \in AttributeRows(0)
    BY DEF AttributeRows
  <2> QED BY <2>1, <2>2
<1>2. CASE part # "attributes"
  BY <1>2 DEF EmptyForm, States, Lists, Parts
<1> QED BY <1>1, <1>2

LEMMA FormValueState ==
    ASSUME NEW part \in Parts, NEW value \in FormValues(part)
    PROVE  value \in States(part)
<1>1. CASE part = "attributes"
  <2>1. PICK n \in 0..2 : value \in AttributeRows(n)
    BY <1>1 DEF FormValues, Lists, AttributeRows
  <2>2. States(part) = UNION {AttributeRows(k) : k \in Nat}
    BY <1>1 DEF States, Lists
  <2> QED BY <2>1, <2>2
<1>2. CASE part # "attributes"
  BY <1>2 DEF FormValues, States, Lists, Parts
<1> QED BY <1>1, <1>2

LEMMA BlankTyped ==
    ASSUME resourceType \in Kinds, form = Blank(resourceType)
    PROVE  DOMAIN form = Shown(resourceType)
           /\ \A part \in Shown(resourceType) : form[part] \in States(part)
BY EmptyState, ShownParts DEF Blank

(* Nothing has been saved: nothing is said of it. *)
LEMMA NothingSaved ==
    /\ saved = NotSaved => UntouchedKept /\ PasswordKept
    /\ saved' = NotSaved => UntouchedKept' /\ PasswordKept'
BY DEF UntouchedKept, PasswordKept, NotSaved

(* A cluster that holds proper entities, and no page. *)
LEMMA EditInvInit == EditInit => EditInv
<1> SUFFICES ASSUME EditInit
             PROVE  EditInv
  OBVIOUS
<1>1. resourceType \in Kinds
  BY DEF EditInit, Kinds
<1>2. PICK whole \in Originals(resourceType) : entities \in [Ids -> {whole, Missing}]
  BY DEF EditInit
<1>3. Proper(whole) /\ Proper(Missing)
  BY <1>1, OriginalsProper DEF Proper
<1>4. EditTyped
  BY <1>1, <1>2, <1>3, BlankTyped DEF EditInit, EditTyped, Kinds
<1>5. PageOrder /\ FormOfOrigin
  BY DEF EditInit, PageOrder, FormOfOrigin
<1>6. UntouchedKept /\ PasswordKept
  BY NothingSaved DEF EditInit
<1> QED BY <1>4, <1>5, <1>6 DEF EditInv

(* What a page sends is an entity in all its parts, with the password typed or the  *)
(* one there was.                                                           *)
LEMMA WholeProper ==
    ASSUME EditTyped, NEW id
    PROVE  /\ \A part \in Shown(resourceType) : Whole(id)[part] = unbuild(part, form[part])
           /\ Proper(Whole(id))
           /\ resourceType = "internalusers" =>
                 Whole(id).hash = IF password # NoPassword THEN password ELSE entities[id].hash
<1>1. resourceType \in Kinds
  BY DEF EditTyped, Kinds
<1>2. /\ Shown(resourceType) \subseteq Parts
      /\ "hash" \notin Shown(resourceType) /\ "rest" \notin Shown(resourceType)
  BY <1>1, ShownParts
<1>3. \A part \in Shown(resourceType) : Whole(id)[part] = unbuild(part, form[part])
  BY <1>2 DEF Whole
<1>4. \A part \in Shown(resourceType) : Whole(id)[part] \in Values(part)
  BY <1>2, <1>3, UnbuildValue DEF EditTyped
<1>5. resourceType = "internalusers" =>
         Whole(id).hash = IF password # NoPassword THEN password ELSE entities[id].hash
  <2> SUFFICES ASSUME resourceType = "internalusers"
               PROVE  Whole(id)["hash"] =
                          IF password # NoPassword THEN password ELSE entities[id].hash
    OBVIOUS
  <2>1. "hash" \in Unshown(resourceType)
    BY DEF Unshown
  <2> QED BY <1>2, <2>1 DEF Whole
<1> QED BY <1>3, <1>4, <1>5 DEF Proper

(* A step that leaves the cluster and the page's form alone. *)
LEMMA EditFrame ==
    ASSUME EditInv, saved = NotSaved, saved' = NotSaved, fetching' => fetching /\ action' = action,
           UNCHANGED <<resourceType, entities, sourceName, form, origin, touched>>
    PROVE  EditInv'
<1>1. EditTyped' /\ FormOfOrigin'
  BY DEF EditInv, EditTyped, Proper, FormOfOrigin
<1>2. PageOrder'
  BY DEF EditInv, PageOrder, NotSaved
<1>3. UntouchedKept' /\ PasswordKept'
  BY NothingSaved
<1> QED BY <1>1, <1>2, <1>3 DEF EditInv

(* Every step of a page, and of other administrators. *)
LEMMA EditInvNext ==
    ASSUME EditInv, [EditNext]_editVars
    PROVE  EditInv'
<1> USE DEF formVars, editCounts, editHistory, Open
<1>1. resourceType \in Kinds /\ Shown(resourceType) \subseteq Parts
  BY ShownParts DEF EditInv, EditTyped, Kinds
<1>2. action # "closed" => saved = NotSaved
  BY DEF EditInv, PageOrder
<1>3. fetching => action # "closed" /\ sourceName \in Ids
  BY DEF EditInv, PageOrder
<1>4. ASSUME NEW what \in {"create", "edit", "duplicate"}, NEW id \in Ids \cup {NoName},
             open(what, id)
      PROVE  EditInv'
  <2>1. /\ action' = what /\ sourceName' = id /\ fetching' = (what # "create")
        /\ what = "create" <=> id = NoName
        /\ form' = Blank(resourceType) /\ origin' = Missing /\ saved' = NotSaved
        /\ UNCHANGED <<resourceType, entities>>
    BY <1>4 DEF open
  <2>2. DOMAIN form' = Shown(resourceType)
        /\ \A part \in Shown(resourceType) : form'[part] \in States(part)
    BY <1>1, <2>1, EmptyState DEF Blank
  <2>3. EditTyped'
    BY <2>1, <2>2 DEF EditInv, EditTyped, Proper
  <2>4. PageOrder' /\ FormOfOrigin'
    BY <2>1 DEF PageOrder, FormOfOrigin, NotSaved
  <2> QED BY <2>1, <2>3, <2>4, NothingSaved DEF EditInv
<1>5. CASE close
  BY <1>2, <1>5, EditFrame DEF close
<1>6. CASE entityReceived
  <2>1. /\ fetching /\ ~fetching' /\ saved' = NotSaved
        /\ UNCHANGED <<resourceType, entities, action, sourceName>>
    BY <1>2, <1>3, <1>6 DEF entityReceived
  <2> DEFINE entity == entities[sourceName]
  <2>2. Proper(entity)
    BY <1>3, <2>1 DEF EditInv, EditTyped
  <2>3. CASE entity # Missing
    <3>1. /\ form' = [part \in Shown(resourceType) |-> build(part, entity[part])]
          /\ origin' = entity
      BY <1>6, <2>3 DEF entityReceived
    <3>2. \A part \in Shown(resourceType) : entity[part] \in Values(part)
      BY <2>2, <2>3 DEF Proper
    <3> HIDE DEF entity
    <3>3. \A part \in Shown(resourceType) : form'[part] = build(part, entity[part])
      BY <3>1
    <3>4. \A part \in Shown(resourceType) : form'[part] \in States(part)
      BY <1>1, <3>2, <3>3, BuildState
    <3>5. DOMAIN form' = Shown(resourceType)
      BY <3>1
    <3>6. EditTyped'
      BY <2>1, <2>2, <3>1, <3>4, <3>5 DEF EditInv, EditTyped, Proper
    <3>7. FormOfOrigin'
      BY <2>1, <3>1, <3>3 DEF FormOfOrigin
    <3>8. PageOrder'
      BY <2>1 DEF PageOrder, NotSaved
    <3> QED BY <2>1, <3>6, <3>7, <3>8, NothingSaved DEF EditInv
  <2>4. CASE entity = Missing
    <3>1. UNCHANGED <<form, origin, touched>>
      BY <1>6, <2>4 DEF entityReceived
    <3> QED BY <1>2, <1>3, <2>1, <3>1, EditFrame
  <2> QED BY <2>3, <2>4
<1>7. CASE entityFetchFails
  BY <1>2, <1>3, <1>7, EditFrame DEF entityFetchFails
<1>8. ASSUME NEW part, EditEach(part)
      PROVE  EditInv'
  <2>1. part \in Shown(resourceType)
    BY <1>8 DEF EditEach
  <2>2. PICK value \in FormValues(part) : edit(part, value)
    BY <1>8 DEF EditEach
  <2>3. value \in States(part)
    BY <1>1, <2>1, FormValueState
  <2>4. /\ form' = [form EXCEPT ![part] = value] /\ touched' = touched \cup {part}
        /\ action # "closed"
        /\ UNCHANGED <<resourceType, entities, action, sourceName, fetching, origin, saved>>
    BY <2>2 DEF edit
  <2>5. EditTyped'
    BY <2>3, <2>4 DEF EditInv, EditTyped, Proper
  <2>6. FormOfOrigin'
    BY <2>4 DEF EditInv, EditTyped, FormOfOrigin
  <2>7. PageOrder'
    BY <2>4 DEF EditInv, PageOrder
  <2> QED BY <1>2, <2>4, <2>5, <2>6, <2>7, NothingSaved DEF EditInv
<1>9. CASE \/ ClusterPermissionPanel \/ IndexPermissionPanel \/ TenantPanel
           \/ AttributePanel \/ BackendRolePanel \/ InternalUsersPanel \/ ExternalIdentitiesPanel
  BY <1>8, <1>9 DEF ClusterPermissionPanel, IndexPermissionPanel, TenantPanel,
     AttributePanel, BackendRolePanel, InternalUsersPanel, ExternalIdentitiesPanel
<1>10. CASE \E id \in Ids \cup {BadName} : setName(id)
  BY <1>2, <1>10, EditFrame DEF setName
<1>11. CASE \E typed, repeated \in Passwords : setPassword(typed, repeated)
  BY <1>2, <1>11, EditFrame DEF setPassword
<1>12. CASE updateHandler
  <2> DEFINE whole == Whole(formName)
  <2>1. /\ action # "closed" /\ ~Refused /\ formName \in Ids
        /\ entities' = [entities EXCEPT ![formName] = whole]
        /\ saved' = [id |-> formName, as |-> action, before |-> entities[formName]]
        /\ action' = "closed" /\ ~fetching'
        /\ UNCHANGED <<resourceType, sourceName, form, password, origin, touched>>
    BY <1>12 DEF updateHandler
  <2>2. /\ \A part \in Shown(resourceType) : whole[part] = unbuild(part, form[part])
        /\ Proper(whole)
        /\ resourceType = "internalusers" =>
              whole.hash = IF password # NoPassword THEN password ELSE entities[formName].hash
    BY WholeProper DEF EditInv
  <2> HIDE DEF whole
  <2>3. /\ DOMAIN entities' = Ids /\ entities'[formName] = whole
        /\ \A id \in Ids : entities'[id] = whole \/ entities'[id] = entities[id]
    BY <2>1 DEF EditInv, EditTyped
  <2>4. EditTyped'
    BY <2>1, <2>2, <2>3 DEF EditInv, EditTyped, Proper
  <2>5. PageOrder' /\ FormOfOrigin'
    BY <2>1 DEF EditInv, PageOrder, FormOfOrigin
  <2>6. saved'.id = formName /\ saved'.as = action /\ saved'.before = entities[formName]
    BY <2>1
  <2>7. UntouchedKept'
    <3> SUFFICES ASSUME origin # Missing, NEW part \in Shown(resourceType) \ touched,
                        Regular(part, origin[part])
                 PROVE  whole[part] = origin[part]
      BY <2>1, <2>3, <2>6 DEF UntouchedKept
    <3>1. form[part] = build(part, origin[part])
      BY DEF EditInv, FormOfOrigin
    <3>2. origin[part] \in Values(part)
      BY DEF EditInv, EditTyped, Proper
    <3> QED BY <1>1, <2>2, <3>1, <3>2, RoundTrip
  <2>8. PasswordKept'
    <3>1. resourceType = "internalusers" => password # NoPassword \/ action = "edit"
      BY <2>1 DEF Refused
    <3> QED BY <2>1, <2>2, <2>3, <2>6, <3>1 DEF PasswordKept
  <2> QED BY <2>4, <2>5, <2>7, <2>8 DEF EditInv
<1>13. CASE updateHandlerFails
  BY <1>2, <1>13, EditFrame DEF updateHandlerFails
<1>14. ASSUME NEW id \in Ids, NEW whole \in {Missing, AnOriginal(resourceType)},
              OtherEditor(id, whole)
       PROVE  EditInv'
  <2>1. Proper(whole)
    BY <1>1, AnOriginalProper DEF Proper
  <2>2. /\ action # "closed" /\ entities' = [entities EXCEPT ![id] = whole] /\ saved' = NotSaved
        /\ UNCHANGED <<resourceType, action, sourceName, fetching, form, origin, touched>>
    BY <1>14 DEF OtherEditor
  <2>3. /\ DOMAIN entities' = Ids
        /\ \A k \in Ids : entities'[k] = whole \/ entities'[k] = entities[k]
    BY <2>2 DEF EditInv, EditTyped
  <2>4. EditTyped'
    BY <2>1, <2>2, <2>3 DEF EditInv, EditTyped, Proper
  <2>5. PageOrder' /\ FormOfOrigin'
    BY <2>2 DEF EditInv, PageOrder, FormOfOrigin, NotSaved
  <2> QED BY <2>2, <2>4, <2>5, NothingSaved DEF EditInv
<1>15. CASE UNCHANGED editVars
  <2>1. UNCHANGED <<resourceType, entities, action, sourceName, fetching, form, password, origin,
                    touched, saved>>
    BY <1>15 DEF editVars
  <2>2. EditTyped' /\ PageOrder' /\ FormOfOrigin'
    BY <2>1 DEF EditInv, EditTyped, Proper, PageOrder, FormOfOrigin
  <2>3. UntouchedKept' /\ PasswordKept'
    BY <2>1 DEF EditInv, UntouchedKept, PasswordKept
  <2> QED BY <2>2, <2>3 DEF EditInv
<1> QED
  BY <1>4, <1>5, <1>6, <1>7, <1>9, <1>10, <1>11, <1>12, <1>13, <1>14, <1>15 DEF EditNext

(* The invariant of every behaviour of these pages. *)
THEOREM EditInvariant == EditSpec => []EditInv
BY EditInvInit, EditInvNext, PTL DEF EditSpec

(* Loading an entity into a form and saving it changes no part the user left       *)
(* alone, for any entity the form can show, any number of edits, pages, failures   *)
(* and other administrators, and entities that such pages saved before           *)
(* (panels/role-edit, panels/internal-user-edit, panels/role-mapping).          *)
THEOREM UntouchedPartsKept == EditSpec => []UntouchedKept
<1>1. EditInv => UntouchedKept
  BY DEF EditInv
<1> QED BY <1>1, EditInvariant, PTL

(* A user that is edited keeps the password, and one that is new has the one typed   *)
(* (panels/internal-user-edit/internal-user-edit.tsx).                         *)
THEOREM UserKeepsPassword == EditSpec => []PasswordKept
<1>1. EditInv => PasswordKept
  BY DEF EditInv
<1> QED BY <1>1, EditInvariant, PTL

-----------------------------------------------------------------------------
(***************************************************************************)
(* The account menu, its switch and the login page, in any number of tabs.   *)
(***************************************************************************)
Stages == OnPage \cup {"blank", "login", "signedIn", "reload", "reopen"}
Known == TenantNames \cup {NoTenantName}
Answers == Known \cup {encode[tenant] : tenant \in Known}
Pages == [stage : Stages, url : Known, user : Users \cup {Nobody}, tenant : Answers,
          link : Answers, want : Known, switching : SUBSET TenantNames]

BrowserTyped ==
    /\ session \in Users \cup {Nobody}
    /\ cookieTenant \in Known /\ savedTenant \in Known
    /\ popup \in [Tabs -> {"unset", "no"}]
    /\ tabs \in [Tabs -> Pages]
    /\ underWay \in [user : Users, tenant : Known] \cup {NothingUnderWay}
    /\ pending \in Known /\ chosen \in Known
    /\ strayed \in BOOLEAN /\ opened \in BOOLEAN /\ calm \in [Tabs -> BOOLEAN]
    /\ reloads \in [Tabs -> Nat]

(* A tab that has asked remembers it as long as its page stays, and through the     *)
(* reload that follows; only the login page, where the user starts anew, and the    *)
(* user's own steps take it back.                                            *)
AskedOnce(t) ==
    /\ reloads[t] <= 1
    /\ tabs[t].stage \in {"ready", "reload"} => popup[t] = "no"
    /\ tabs[t].stage \in {"select", "reload"} => reloads[t] = 0
    /\ tabs[t].stage \in {"account", "tenant", "info"} /\ reloads[t] = 1 => popup[t] = "no"

(* What a calm tab was told is the tenant of the session. *)
ToldTenant(t) ==
    calm[t] /\ session # Nobody /\ tabs[t].stage \in OnPage =>
        /\ tabs[t].tenant \in {NoTenantName, encode[cookieTenant]}
        /\ tabs[t].link \in {NoTenantName, encode[cookieTenant]}

TabInv(t) == AskedOnce(t) /\ ToldTenant(t)

(* A switch that is the only one under way is the one saved, and so is the one that  *)
(* was carried out last.                                                     *)
SavedFirst ==
    /\ pending # NoTenantName =>
          savedTenant = pending /\ \A t \in Tabs : tabs[t].switching \subseteq {pending}
    /\ chosen # NoTenantName => savedTenant = chosen

(* A session begins in the global tenant; once it has come to the page its login     *)
(* opens it is where the last switch took it.                                   *)
SessionTenant ==
    session # Nobody /\ ~strayed /\ defaultTenant = NoTenantName =>
        /\ ~opened => cookieTenant = Global
        /\ opened /\ chosen \in Entitled[session] /\ multitenancyEnabled => cookieTenant = chosen

BrowserInv == BrowserTyped /\ (\A t \in Tabs : TabInv(t)) /\ SavedFirst /\ SessionTenant

-----------------------------------------------------------------------------
LEMMA BrowserInvInit == BrowserInit => BrowserInv
<1> SUFFICES ASSUME BrowserInit
             PROVE  BrowserInv
  OBVIOUS
<1>1. BrowserTyped
  BY DEF BrowserInit, BrowserTyped, Pages, Stages, Known, Answers, Tab
<1>2. (\A t \in Tabs : TabInv(t)) /\ SavedFirst /\ SessionTenant
  BY DEF BrowserInit, TabInv, AskedOnce, ToldTenant, SavedFirst, SessionTenant, OnPage, Tab
<1> QED BY <1>1, <1>2 DEF BrowserInv

(* What the server resolves is a tenant: the one asked for if the user has it. *)
LEMMA ResolveKnown ==
    ASSUME NEW user \in Users, NEW requested
    PROVE  /\ Resolve(user, requested) \in TenantNames
           /\ requested = Global => Resolve(user, requested) = Global
           /\ requested = NoTenantName /\ defaultTenant = NoTenantName =>
                 Resolve(user, requested) = Global
           /\ requested \in Entitled[user] /\ multitenancyEnabled =>
                 Resolve(user, requested) = requested
<1>1. Entitled[user] \subseteq TenantNames
  BY BrowserAssumption
<1> QED BY <1>1, BrowserAssumption DEF Resolve

(* A page just asked for. *)
LEMMA TabTyped ==
    ASSUME NEW stage \in {"blank", "login", "account"}, NEW url \in Known
    PROVE  /\ Tab(stage, url) \in Pages
           /\ Tab(stage, url).stage = stage
           /\ Tab(stage, url).tenant = NoTenantName /\ Tab(stage, url).link = NoTenantName
           /\ Tab(stage, url).switching = {}
<1>1. stage \in Stages
  BY DEF Stages, OnPage
<1>2. NoTenantName \in Known /\ NoTenantName \in Answers
  BY DEF Known, Answers
<1> QED BY <1>1, <1>2 DEF Tab, Pages

(* What the others find when a tab has changed the cookie. *)
LEMMA UndisturbedKeeps ==
    ASSUME BrowserTyped, NEW t \in Tabs,
           calm' = Undisturbed(t) \/ calm' = [Undisturbed(t) EXCEPT ![t] = TRUE]
    PROVE  /\ calm' \in [Tabs -> BOOLEAN]
           /\ \A u \in Tabs \ {t} : calm'[u] => calm[u] /\ UNCHANGED <<session, cookieTenant>>
<1>1. Undisturbed(t) \in [Tabs -> BOOLEAN]
  BY DEF Undisturbed, BrowserTyped
<1>2. \A u \in Tabs \ {t} : calm'[u] => Undisturbed(t)[u]
  BY <1>1
<1>3. \A u \in Tabs \ {t} : Undisturbed(t)[u] => calm[u] /\ UNCHANGED <<session, cookieTenant>>
  BY DEF Undisturbed, cookies
<1> QED BY <1>1, <1>2, <1>3

(* What a step of one tab leaves of the others. *)
LEMMA OthersKeep ==
    ASSUME BrowserTyped, \A u \in Tabs : TabInv(u), NEW t \in Tabs,
           \A u \in Tabs \ {t} :
               /\ tabs'[u] = tabs[u] /\ popup'[u] = popup[u] /\ reloads'[u] = reloads[u]
               /\ calm'[u] => calm[u] /\ UNCHANGED <<session, cookieTenant>>,
           TabInv(t)'
    PROVE  \A u \in Tabs : TabInv(u)'
<1> SUFFICES ASSUME NEW u \in Tabs \ {t}
             PROVE  TabInv(u)'
  OBVIOUS
<1> QED BY DEF TabInv, AskedOnce, ToldTenant

(* A step of a tab that has become this page. *)
LEMMA TabStep ==
    ASSUME BrowserInv, NEW t \in Tabs, NEW page \in Pages,
           tabs' = [tabs EXCEPT ![t] = page],
           session' \in Users \cup {Nobody}, cookieTenant' \in Known, savedTenant' \in Known,
           underWay' \in [user : Users, tenant : Known] \cup {NothingUnderWay},
           pending' \in Known, chosen' \in Known, strayed' \in BOOLEAN, opened' \in BOOLEAN,
           NEW asked \in {"unset", "no"}, popup' = [popup EXCEPT ![t] = asked],
           NEW count \in Nat, reloads' = [reloads EXCEPT ![t] = count],
           calm' \in [Tabs -> BOOLEAN],
           \A u \in Tabs \ {t} : calm'[u] => calm[u] /\ UNCHANGED <<session, cookieTenant>>,
           count <= 1,
           page.stage \in {"ready", "reload"} => asked = "no",
           page.stage \in {"select", "reload"} => count = 0,
           page.stage \in {"account", "tenant", "info"} /\ count = 1 => asked = "no",
           calm'[t] /\ session' # Nobody /\ page.stage \in OnPage =>
               /\ page.tenant \in {NoTenantName, encode[cookieTenant']}
               /\ page.link \in {NoTenantName, encode[cookieTenant']},
           pending' # NoTenantName =>
               /\ savedTenant' = pending' /\ page.switching \subseteq {pending'}
               /\ \A u \in Tabs \ {t} : tabs[u].switching \subseteq {pending'},
           chosen' # NoTenantName => savedTenant' = chosen',
           SessionTenant'
    PROVE  BrowserInv'
<1>0. BrowserTyped /\ \A u \in Tabs : TabInv(u)
  BY DEF BrowserInv
<1>1. tabs'[t] = page /\ popup'[t] = asked /\ reloads'[t] = count
  BY <1>0 DEF BrowserTyped
<1>2. BrowserTyped'
  BY <1>0 DEF BrowserTyped
<1>3. TabInv(t)'
  BY <1>1 DEF TabInv, AskedOnce, ToldTenant
<1>4. \A u \in Tabs \ {t} : tabs'[u] = tabs[u] /\ popup'[u] = popup[u] /\ reloads'[u] = reloads[u]
  BY <1>0 DEF BrowserTyped
<1>5. \A u \in Tabs : TabInv(u)'
  BY <1>0, <1>3, <1>4, OthersKeep
<1>6. SavedFirst'
  BY <1>1, <1>4 DEF SavedFirst
<1> QED BY <1>2, <1>5, <1>6 DEF BrowserInv

(* A step that leaves the tabs, and what they know, as they are. *)
LEMMA TabsStay ==
    ASSUME BrowserInv, UNCHANGED <<tabs, popup, reloads, savedTenant, pending, chosen>>,
           session' \in Users \cup {Nobody}, cookieTenant' \in Known,
           underWay' \in [user : Users, tenant : Known] \cup {NothingUnderWay},
           strayed' \in BOOLEAN, opened' \in BOOLEAN, calm' \in [Tabs -> BOOLEAN],
           \A t \in Tabs : calm'[t] => calm[t] /\ UNCHANGED <<session, cookieTenant>>,
           SessionTenant'
    PROVE  BrowserInv'
<1>1. BrowserTyped'
  BY DEF BrowserInv, BrowserTyped
<1>2. \A t \in Tabs : TabInv(t)'
  BY DEF BrowserInv, TabInv, AskedOnce, ToldTenant
<1>3. SavedFirst'
  BY DEF BrowserInv, SavedFirst
<1> QED BY <1>1, <1>2, <1>3 DEF BrowserInv

-----------------------------------------------------------------------------
(* A page that is asked for, or the login page, takes the place of the tab's, and the *)
(* session is in the tenant resolved.                                          *)
LEMMA LoadServes ==
    ASSUME BrowserTyped, NEW t \in Tabs, NEW url \in Known, load(t, url)
    PROVE  /\ \E stage \in {"login", "account"} : tabs' = [tabs EXCEPT ![t] = Tab(stage, url)]
           /\ cookieTenant' \in Known
           /\ session # Nobody =>
                 cookieTenant' = Resolve(session, IF url # NoTenantName THEN url ELSE cookieTenant)
<1>1. cookieTenant' \in Known
  BY ResolveKnown DEF load, BrowserTyped, Known
<1> QED BY <1>1 DEF load

(* A tab that loads, by itself or not. *)
LEMMA OpensKeeps ==
    ASSUME BrowserInv, NEW t \in Tabs, NEW url \in Known, Opens(t, url),
           NEW count \in {0, 1}, reloads' = [reloads EXCEPT ![t] = count],
           count = 1 => popup[t] = "no"
    PROVE  BrowserInv'
<1>0. BrowserTyped /\ SavedFirst /\ SessionTenant
  BY DEF BrowserInv
<1>1. /\ load(t, url)
      /\ UNCHANGED <<session, savedTenant, popup, underWay, pending, chosen, opened>>
      /\ calm' = [Undisturbed(t) EXCEPT ![t] = TRUE]
      /\ strayed' = (strayed \/ (session # Nobody /\ url # NoTenantName))
  BY DEF Opens
<1>2. /\ cookieTenant' \in Known
      /\ session # Nobody =>
            cookieTenant' = Resolve(session, IF url # NoTenantName THEN url ELSE cookieTenant)
  BY <1>0, <1>1, LoadServes
<1>3. PICK stage \in {"login", "account"} : tabs' = [tabs EXCEPT ![t] = Tab(stage, url)]
  BY <1>0, <1>1, LoadServes
<1> DEFINE page == Tab(stage, url)
<1>4. /\ page \in Pages /\ page.stage = stage /\ page.switching = {}
      /\ page.tenant = NoTenantName /\ page.link = NoTenantName
  BY TabTyped
<1>5. tabs' = [tabs EXCEPT ![t] = page]
  BY <1>3
<1> HIDE DEF page
<1>6. /\ calm' \in [Tabs -> BOOLEAN]
      /\ \A u \in Tabs \ {t} : calm'[u] => calm[u] /\ UNCHANGED <<session, cookieTenant>>
  BY <1>0, <1>1, UndisturbedKeeps
<1>7. popup' = [popup EXCEPT ![t] = popup[t]] /\ popup[t] \in {"unset", "no"}
  BY <1>0, <1>1 DEF BrowserTyped
<1>8. SessionTenant'
  <2> SUFFICES ASSUME session # Nobody, ~strayed, url = NoTenantName, defaultTenant = NoTenantName
               PROVE  /\ ~opened => cookieTenant' = Global
                      /\ opened /\ chosen \in Entitled[session] /\ multitenancyEnabled =>
                            cookieTenant' = chosen
    BY <1>1 DEF SessionTenant
  <2>1. session \in Users /\ cookieTenant' = Resolve(session, cookieTenant)
    BY <1>0, <1>2 DEF BrowserTyped
  <2> QED BY <1>0, <2>1, ResolveKnown DEF SessionTenant
<1>9. /\ session' \in Users \cup {Nobody} /\ savedTenant' \in Known
      /\ underWay' \in [user : Users, tenant : Known] \cup {NothingUnderWay}
      /\ pending' \in Known /\ chosen' \in Known /\ strayed' \in BOOLEAN /\ opened' \in BOOLEAN
  BY <1>0, <1>1 DEF BrowserTyped
<1>10. /\ pending' # NoTenantName =>
             /\ savedTenant' = pending' /\ page.switching \subseteq {pending'}
             /\ \A u \in Tabs \ {t} : tabs[u].switching \subseteq {pending'}
       /\ chosen' # NoTenantName => savedTenant' = chosen'
  BY <1>0, <1>1, <1>4 DEF SavedFirst
<1>11. /\ count \in Nat /\ count <= 1
       /\ page.stage \notin {"ready", "reload", "select"}
       /\ page.stage \in {"account", "tenant", "info"} /\ count = 1 => popup[t] = "no"
       /\ page.tenant \in {NoTenantName, encode[cookieTenant']}
       /\ page.link \in {NoTenantName, encode[cookieTenant']}
  BY <1>4
<1> QED BY <1>2, <1>4, <1>5, <1>6, <1>7, <1>8, <1>9, <1>10, <1>11, TabStep

LEMMA NavigateKeeps ==
    ASSUME BrowserInv, NEW t \in Tabs, NEW url \in Known, navigate(t, url)
    PROVE  BrowserInv'
<1>1. Opens(t, url) /\ reloads' = [reloads EXCEPT ![t] = 0] /\ 0 \in {0, 1} /\ 0 # 1
  BY DEF navigate
<1> QED BY <1>1, OpensKeeps

(* A page that loads itself again, or that the user has sent elsewhere. *)
LEMMA ReloadKeeps ==
    ASSUME BrowserInv, NEW t \in Tabs, reload(t) \/ reopen(t)
    PROVE  BrowserInv'
<1>0. /\ reloads \in [Tabs -> Nat] /\ AskedOnce(t)
      /\ tabs[t].url \in Known
  BY DEF BrowserInv, BrowserTyped, TabInv, Pages
<1>1. CASE reload(t)
  <2>1. reloads[t] = 0 /\ popup[t] = "no"
    BY <1>0, <1>1 DEF reload, AskedOnce
  <2>2. /\ Opens(t, tabs[t].url) /\ 1 \in {0, 1}
        /\ reloads' = [reloads EXCEPT ![t] = 1]
    BY <1>0, <1>1, <2>1 DEF reload
  <2> QED BY <1>0, <2>1, <2>2, OpensKeeps
<1>2. CASE reopen(t)
  <2>1. /\ Opens(t, tabs[t].url) /\ 0 \in {0, 1} /\ 0 # 1
        /\ reloads' = [reloads EXCEPT ![t] = 0]
    BY <1>2 DEF reopen
  <2> QED BY <1>0, <2>1, OpensKeeps
<1> QED BY <1>1, <1>2

(* The user of the page. *)
LEMMA FetchAccountInfoSafeKeeps ==
    ASSUME BrowserInv, NEW t \in Tabs, fetchAccountInfoSafe(t)
    PROVE  BrowserInv'
<1> DEFINE page == [tabs[t] EXCEPT !.user = session, !.stage = "tenant"]
<1>0. BrowserTyped /\ SavedFirst /\ SessionTenant /\ TabInv(t) /\ tabs[t] \in Pages
  BY DEF BrowserInv, BrowserTyped
<1>1. /\ page \in Pages
      /\ page.stage = "tenant" /\ page.tenant = tabs[t].tenant
      /\ page.link = tabs[t].link /\ page.switching = tabs[t].switching
  BY <1>0, BrowserAssumption DEF BrowserTyped, Pages, Stages, OnPage, Known, Answers, fetchAccountInfoSafe
<1>2. /\ tabs' = [tabs EXCEPT ![t] = page]
      /\ popup' = [popup EXCEPT ![t] = popup[t]]
      /\ reloads' = [reloads EXCEPT ![t] = reloads[t]]
  BY <1>0 DEF BrowserTyped, settle, cookies, storage, choice, fetchAccountInfoSafe
<1> HIDE DEF page
<1>3. /\ session' \in Users \cup {Nobody} /\ cookieTenant' \in Known /\ savedTenant' \in Known
      /\ underWay' \in [user : Users, tenant : Known] \cup {NothingUnderWay}
      /\ pending' \in Known /\ chosen' \in Known /\ strayed' \in BOOLEAN /\ opened' \in BOOLEAN
  BY <1>0 DEF BrowserTyped, Pages, Known, cookies, storage, choice, fetchAccountInfoSafe
<1>4. /\ calm' \in [Tabs -> BOOLEAN]
      /\ \A u \in Tabs \ {t} : calm'[u] => calm[u] /\ UNCHANGED <<session, cookieTenant>>
  BY <1>0 DEF BrowserTyped, cookies, choice, fetchAccountInfoSafe
<1>5. SessionTenant'
  BY <1>0, BrowserAssumption DEF BrowserTyped, SessionTenant, SavedFirst, Known,
        cookies, storage, choice, fetchAccountInfoSafe
<1>6. /\ popup[t] \in {"unset", "no"} /\ reloads[t] \in Nat
      /\ reloads[t] <= 1
      /\ page.stage \in {"ready", "reload"} => popup[t] = "no"
      /\ page.stage \in {"select", "reload"} => reloads[t] = 0
      /\ page.stage \in {"account", "tenant", "info"} /\ reloads[t] = 1 => popup[t] = "no"
  BY <1>0, <1>1 DEF BrowserTyped, TabInv, AskedOnce, OnPage, fetchAccountInfoSafe
<1>7. calm'[t] /\ session' # Nobody /\ page.stage \in OnPage =>
         /\ page.tenant \in {NoTenantName, encode[cookieTenant']}
         /\ page.link \in {NoTenantName, encode[cookieTenant']}
  BY <1>0, <1>1 DEF BrowserTyped, TabInv, ToldTenant, OnPage, cookies, storage, choice, fetchAccountInfoSafe
<1>8. /\ pending' # NoTenantName =>
            /\ savedTenant' = pending' /\ page.switching \subseteq {pending'}
            /\ \A u \in Tabs \ {t} : tabs[u].switching \subseteq {pending'}
      /\ chosen' # NoTenantName => savedTenant' = chosen'
  BY <1>0, <1>1 DEF SavedFirst, cookies, storage, choice, fetchAccountInfoSafe
<1> QED BY <1>1, <1>2, <1>3, <1>4, <1>5, <1>6, <1>7, <1>8, TabStep

(* The tenant of the page. *)
LEMMA FetchCurrentTenantKeeps ==
    ASSUME BrowserInv, NEW t \in Tabs, fetchCurrentTenant(t)
    PROVE  BrowserInv'
<1> DEFINE page == [tabs[t] EXCEPT !.tenant = encode[cookieTenant], !.stage = "info"]
<1>0. BrowserTyped /\ SavedFirst /\ SessionTenant /\ TabInv(t) /\ tabs[t] \in Pages
  BY DEF BrowserInv, BrowserTyped
<1>1. /\ page \in Pages
      /\ page.stage = "info" /\ page.tenant = encode[cookieTenant]
      /\ page.link = tabs[t].link /\ page.switching = tabs[t].switching
  BY <1>0, BrowserAssumption DEF BrowserTyped, Pages, Stages, OnPage, Known, Answers, fetchCurrentTenant
<1>2. /\ tabs' = [tabs EXCEPT ![t] = page]
      /\ popup' = [popup EXCEPT ![t] = popup[t]]
      /\ reloads' = [reloads EXCEPT ![t] = reloads[t]]
  BY <1>0 DEF BrowserTyped, settle, cookies, storage, choice, fetchCurrentTenant
<1> HIDE DEF page
<1>3. /\ session' \in Users \cup {Nobody} /\ cookieTenant' \in Known /\ savedTenant' \in Known
      /\ underWay' \in [user : Users, tenant : Known] \cup {NothingUnderWay}
      /\ pending' \in Known /\ chosen' \in Known /\ strayed' \in BOOLEAN /\ opened' \in BOOLEAN
  BY <1>0 DEF BrowserTyped, Pages, Known, cookies, storage, choice, fetchCurrentTenant
<1>4. /\ calm' \in [Tabs -> BOOLEAN]
      /\ \A u \in Tabs \ {t} : calm'[u] => calm[u] /\ UNCHANGED <<session, cookieTenant>>
  BY <1>0 DEF BrowserTyped, cookies, choice, fetchCurrentTenant
<1>5. SessionTenant'
  BY <1>0, BrowserAssumption DEF BrowserTyped, SessionTenant, SavedFirst, Known,
        cookies, storage, choice, fetchCurrentTenant
<1>6. /\ popup[t] \in {"unset", "no"} /\ reloads[t] \in Nat
      /\ reloads[t] <= 1
      /\ page.stage \in {"ready", "reload"} => popup[t] = "no"
      /\ page.stage \in {"select", "reload"} => reloads[t] = 0
      /\ page.stage \in {"account", "tenant", "info"} /\ reloads[t] = 1 => popup[t] = "no"
  BY <1>0, <1>1 DEF BrowserTyped, TabInv, AskedOnce, OnPage, fetchCurrentTenant
<1>7. calm'[t] /\ session' # Nobody /\ page.stage \in OnPage =>
         /\ page.tenant \in {NoTenantName, encode[cookieTenant']}
         /\ page.link \in {NoTenantName, encode[cookieTenant']}
  BY <1>0, <1>1 DEF BrowserTyped, TabInv, ToldTenant, OnPage, cookies, storage, choice, fetchCurrentTenant
<1>8. /\ pending' # NoTenantName =>
            /\ savedTenant' = pending' /\ page.switching \subseteq {pending'}
            /\ \A u \in Tabs \ {t} : tabs[u].switching \subseteq {pending'}
      /\ chosen' # NoTenantName => savedTenant' = chosen'
  BY <1>0, <1>1 DEF SavedFirst, cookies, storage, choice, fetchCurrentTenant
<1> QED BY <1>1, <1>2, <1>3, <1>4, <1>5, <1>6, <1>7, <1>8, TabStep

(* It stays unknown. *)
LEMMA FetchCurrentTenantFailsKeeps ==
    ASSUME BrowserInv, NEW t \in Tabs, fetchCurrentTenantFails(t)
    PROVE  BrowserInv'
<1> DEFINE page == [tabs[t] EXCEPT !.stage = "info"]
<1>0. BrowserTyped /\ SavedFirst /\ SessionTenant /\ TabInv(t) /\ tabs[t] \in Pages
  BY DEF BrowserInv, BrowserTyped
<1>1. /\ page \in Pages
      /\ page.stage = "info" /\ page.tenant = tabs[t].tenant
      /\ page.link = tabs[t].link /\ page.switching = tabs[t].switching
  BY <1>0, BrowserAssumption DEF BrowserTyped, Pages, Stages, OnPage, Known, Answers, fetchCurrentTenantFails
<1>2. /\ tabs' = [tabs EXCEPT ![t] = page]
      /\ popup' = [popup EXCEPT ![t] = popup[t]]
      /\ reloads' = [reloads EXCEPT ![t] = reloads[t]]
  BY <1>0 DEF BrowserTyped, settle, cookies, storage, choice, fetchCurrentTenantFails
<1> HIDE DEF page
<1>3. /\ session' \in Users \cup {Nobody} /\ cookieTenant' \in Known /\ savedTenant' \in Known
      /\ underWay' \in [user : Users, tenant : Known] \cup {NothingUnderWay}
      /\ pending' \in Known /\ chosen' \in Known /\ strayed' \in BOOLEAN /\ opened' \in BOOLEAN
  BY <1>0 DEF BrowserTyped, Pages, Known, cookies, storage, choice, fetchCurrentTenantFails
<1>4. /\ calm' \in [Tabs -> BOOLEAN]
      /\ \A u \in Tabs \ {t} : calm'[u] => calm[u] /\ UNCHANGED <<session, cookieTenant>>
  BY <1>0 DEF BrowserTyped, cookies, choice, fetchCurrentTenantFails
<1>5. SessionTenant'
  BY <1>0, BrowserAssumption DEF BrowserTyped, SessionTenant, SavedFirst, Known,
        cookies, storage, choice, fetchCurrentTenantFails
<1>6. /\ popup[t] \in {"unset", "no"} /\ reloads[t] \in Nat
      /\ reloads[t] <= 1
      /\ page.stage \in {"ready", "reload"} => popup[t] = "no"
      /\ page.stage \in {"select", "reload"} => reloads[t] = 0
      /\ page.stage \in {"account", "tenant", "info"} /\ reloads[t] = 1 => popup[t] = "no"
  BY <1>0, <1>1 DEF BrowserTyped, TabInv, AskedOnce, OnPage, fetchCurrentTenantFails
<1>7. calm'[t] /\ session' # Nobody /\ page.stage \in OnPage =>
         /\ page.tenant \in {NoTenantName, encode[cookieTenant']}
         /\ page.link \in {NoTenantName, encode[cookieTenant']}
  BY <1>0, <1>1 DEF BrowserTyped, TabInv, ToldTenant, OnPage, cookies, storage, choice, fetchCurrentTenantFails
<1>8. /\ pending' # NoTenantName =>
            /\ savedTenant' = pending' /\ page.switching \subseteq {pending'}
            /\ \A u \in Tabs \ {t} : tabs[u].switching \subseteq {pending'}
      /\ chosen' # NoTenantName => savedTenant' = chosen'
  BY <1>0, <1>1 DEF SavedFirst, cookies, storage, choice, fetchCurrentTenantFails
<1> QED BY <1>1, <1>2, <1>3, <1>4, <1>5, <1>6, <1>7, <1>8, TabStep

(* The tenant of its links. *)
LEMMA AddTenantToShareURLKeeps ==
    ASSUME BrowserInv, NEW t \in Tabs, addTenantToShareURL(t)
    PROVE  BrowserInv'
<1> DEFINE page == [tabs[t] EXCEPT !.link = encode[cookieTenant]]
<1>0. BrowserTyped /\ SavedFirst /\ SessionTenant /\ TabInv(t) /\ tabs[t] \in Pages
  BY DEF BrowserInv, BrowserTyped
<1>1. /\ page \in Pages
      /\ page.stage = tabs[t].stage /\ page.tenant = tabs[t].tenant
      /\ page.link = encode[cookieTenant] /\ page.switching = tabs[t].switching
  BY <1>0, BrowserAssumption DEF BrowserTyped, Pages, Stages, OnPage, Known, Answers, addTenantToShareURL
<1>2. /\ tabs' = [tabs EXCEPT ![t] = page]
      /\ popup' = [popup EXCEPT ![t] = popup[t]]
      /\ reloads' = [reloads EXCEPT ![t] = reloads[t]]
  BY <1>0 DEF BrowserTyped, settle, cookies, storage, choice, addTenantToShareURL
<1> HIDE DEF page
<1>3. /\ session' \in Users \cup {Nobody} /\ cookieTenant' \in Known /\ savedTenant' \in Known
      /\ underWay' \in [user : Users, tenant : Known] \cup {NothingUnderWay}
      /\ pending' \in Known /\ chosen' \in Known /\ strayed' \in BOOLEAN /\ opened' \in BOOLEAN
  BY <1>0 DEF BrowserTyped, Pages, Known, cookies, storage, choice, addTenantToShareURL
<1>4. /\ calm' \in [Tabs -> BOOLEAN]
      /\ \A u \in Tabs \ {t} : calm'[u] => calm[u] /\ UNCHANGED <<session, cookieTenant>>
  BY <1>0 DEF BrowserTyped, cookies, choice, addTenantToShareURL
<1>5. SessionTenant'
  BY <1>0, BrowserAssumption DEF BrowserTyped, SessionTenant, SavedFirst, Known,
        cookies, storage, choice, addTenantToShareURL
<1>6. /\ popup[t] \in {"unset", "no"} /\ reloads[t] \in Nat
      /\ reloads[t] <= 1
      /\ page.stage \in {"ready", "reload"} => popup[t] = "no"
      /\ page.stage \in {"select", "reload"} => reloads[t] = 0
      /\ page.stage \in {"account", "tenant", "info"} /\ reloads[t] = 1 => popup[t] = "no"
  BY <1>0, <1>1 DEF BrowserTyped, TabInv, AskedOnce, OnPage, addTenantToShareURL
<1>7. calm'[t] /\ session' # Nobody /\ page.stage \in OnPage =>
         /\ page.tenant \in {NoTenantName, encode[cookieTenant']}
         /\ page.link \in {NoTenantName, encode[cookieTenant']}
  BY <1>0, <1>1 DEF BrowserTyped, TabInv, ToldTenant, OnPage, cookies, storage, choice, addTenantToShareURL
<1>8. /\ pending' # NoTenantName =>
            /\ savedTenant' = pending' /\ page.switching \subseteq {pending'}
            /\ \A u \in Tabs \ {t} : tabs[u].switching \subseteq {pending'}
      /\ chosen' # NoTenantName => savedTenant' = chosen'
  BY <1>0, <1>1 DEF SavedFirst, cookies, storage, choice, addTenantToShareURL
<1> QED BY <1>1, <1>2, <1>3, <1>4, <1>5, <1>6, <1>7, <1>8, TabStep

(* The menu without the settings. *)
LEMMA GetDashboardsInfoFailsKeeps ==
    ASSUME BrowserInv, NEW t \in Tabs, getDashboardsInfoFails(t)
    PROVE  BrowserInv'
<1> DEFINE page == [tabs[t] EXCEPT !.stage = "ready"]
<1>0. BrowserTyped /\ SavedFirst /\ SessionTenant /\ TabInv(t) /\ tabs[t] \in Pages
  BY DEF BrowserInv, BrowserTyped
<1>1. /\ page \in Pages
      /\ page.stage = "ready" /\ page.tenant = tabs[t].tenant
      /\ page.link = tabs[t].link /\ page.switching = tabs[t].switching
  BY <1>0, BrowserAssumption DEF BrowserTyped, Pages, Stages, OnPage, Known, Answers, getDashboardsInfoFails
<1>2. /\ tabs' = [tabs EXCEPT ![t] = page]
      /\ popup' = [popup EXCEPT ![t] = "no"]
      /\ reloads' = [reloads EXCEPT ![t] = reloads[t]]
  BY <1>0 DEF BrowserTyped, settle, cookies, storage, choice, getDashboardsInfoFails
<1> HIDE DEF page
<1>3. /\ session' \in Users \cup {Nobody} /\ cookieTenant' \in Known /\ savedTenant' \in Known
      /\ underWay' \in [user : Users, tenant : Known] \cup {NothingUnderWay}
      /\ pending' \in Known /\ chosen' \in Known /\ strayed' \in BOOLEAN /\ opened' \in BOOLEAN
  BY <1>0 DEF BrowserTyped, Pages, Known, cookies, storage, choice, getDashboardsInfoFails
<1>4. /\ calm' \in [Tabs -> BOOLEAN]
      /\ \A u \in Tabs \ {t} : calm'[u] => calm[u] /\ UNCHANGED <<session, cookieTenant>>
  BY <1>0 DEF BrowserTyped, cookies, choice, getDashboardsInfoFails
<1>5. SessionTenant'
  BY <1>0, BrowserAssumption DEF BrowserTyped, SessionTenant, SavedFirst, Known,
        cookies, storage, choice, getDashboardsInfoFails
<1>6. /\ popup[t] \in {"unset", "no"} /\ reloads[t] \in Nat
      /\ reloads[t] <= 1
      /\ page.stage \in {"ready", "reload"} => "no" = "no"
      /\ page.stage \in {"select", "reload"} => reloads[t] = 0
      /\ page.stage \in {"account", "tenant", "info"} /\ reloads[t] = 1 => "no" = "no"
  BY <1>0, <1>1 DEF BrowserTyped, TabInv, AskedOnce, OnPage, getDashboardsInfoFails
<1>7. calm'[t] /\ session' # Nobody /\ page.stage \in OnPage =>
         /\ page.tenant \in {NoTenantName, encode[cookieTenant']}
         /\ page.link \in {NoTenantName, encode[cookieTenant']}
  BY <1>0, <1>1 DEF BrowserTyped, TabInv, ToldTenant, OnPage, cookies, storage, choice, getDashboardsInfoFails
<1>8. /\ pending' # NoTenantName =>
            /\ savedTenant' = pending' /\ page.switching \subseteq {pending'}
            /\ \A u \in Tabs \ {t} : tabs[u].switching \subseteq {pending'}
      /\ chosen' # NoTenantName => savedTenant' = chosen'
  BY <1>0, <1>1 DEF SavedFirst, cookies, storage, choice, getDashboardsInfoFails
<1> QED BY <1>1, <1>2, <1>3, <1>4, <1>5, <1>6, <1>7, <1>8, TabStep

(* The saved tenant is taken up. *)
LEMMA SelectSavedKeeps ==
    ASSUME BrowserInv, NEW t \in Tabs, selectSaved(t)
    PROVE  BrowserInv'
<1> DEFINE page == [tabs[t] EXCEPT !.stage = "reload", !.tenant = tabs[t].want]
<1>0. BrowserTyped /\ SavedFirst /\ SessionTenant /\ TabInv(t) /\ tabs[t] \in Pages
  BY DEF BrowserInv, BrowserTyped
<1>1. /\ page \in Pages
      /\ page.stage = "reload" /\ page.tenant = tabs[t].want
      /\ page.link = tabs[t].link /\ page.switching = tabs[t].switching
  BY <1>0, BrowserAssumption DEF BrowserTyped, Pages, Stages, OnPage, Known, Answers, selectSaved, GoesBack
<1>2. /\ tabs' = [tabs EXCEPT ![t] = page]
      /\ popup' = [popup EXCEPT ![t] = "no"]
      /\ reloads' = [reloads EXCEPT ![t] = reloads[t]]
  BY <1>0 DEF BrowserTyped, settle, cookies, storage, choice, selectSaved, GoesBack
<1> HIDE DEF page
<1>3. /\ session' \in Users \cup {Nobody} /\ cookieTenant' \in Known /\ savedTenant' \in Known
      /\ underWay' \in [user : Users, tenant : Known] \cup {NothingUnderWay}
      /\ pending' \in Known /\ chosen' \in Known /\ strayed' \in BOOLEAN /\ opened' \in BOOLEAN
  BY <1>0 DEF BrowserTyped, Pages, Known, cookies, storage, choice, selectSaved, GoesBack
<1>4. /\ calm' \in [Tabs -> BOOLEAN]
      /\ \A u \in Tabs \ {t} : calm'[u] => calm[u] /\ UNCHANGED <<session, cookieTenant>>
  BY <1>0, UndisturbedKeeps DEF selectSaved, GoesBack
<1>5. SessionTenant'
  BY <1>0, BrowserAssumption DEF BrowserTyped, SessionTenant, SavedFirst, Known,
        cookies, storage, choice, selectSaved, GoesBack
<1>6. /\ popup[t] \in {"unset", "no"} /\ reloads[t] \in Nat
      /\ reloads[t] <= 1
      /\ page.stage \in {"ready", "reload"} => "no" = "no"
      /\ page.stage \in {"select", "reload"} => reloads[t] = 0
      /\ page.stage \in {"account", "tenant", "info"} /\ reloads[t] = 1 => "no" = "no"
  BY <1>0, <1>1 DEF BrowserTyped, TabInv, AskedOnce, OnPage, selectSaved, GoesBack
<1>7. calm'[t] /\ session' # Nobody /\ page.stage \in OnPage =>
         /\ page.tenant \in {NoTenantName, encode[cookieTenant']}
         /\ page.link \in {NoTenantName, encode[cookieTenant']}
  BY <1>0, <1>1 DEF BrowserTyped, TabInv, ToldTenant, OnPage, cookies, storage, choice, selectSaved, GoesBack
<1>8. /\ pending' # NoTenantName =>
            /\ savedTenant' = pending' /\ page.switching \subseteq {pending'}
            /\ \A u \in Tabs \ {t} : tabs[u].switching \subseteq {pending'}
      /\ chosen' # NoTenantName => savedTenant' = chosen'
  BY <1>0, <1>1 DEF SavedFirst, cookies, storage, choice, selectSaved, GoesBack
<1> QED BY <1>1, <1>2, <1>3, <1>4, <1>5, <1>6, <1>7, <1>8, TabStep

(* It is not. *)
LEMMA SelectSavedFailsKeeps ==
    ASSUME BrowserInv, NEW t \in Tabs, selectSavedFails(t)
    PROVE  BrowserInv'
<1> DEFINE page == [tabs[t] EXCEPT !.stage = "ready"]
<1>0. BrowserTyped /\ SavedFirst /\ SessionTenant /\ TabInv(t) /\ tabs[t] \in Pages
  BY DEF BrowserInv, BrowserTyped
<1>1. /\ page \in Pages
      /\ page.stage = "ready" /\ page.tenant = tabs[t].tenant
      /\ page.link = tabs[t].link /\ page.switching = tabs[t].switching
  BY <1>0, BrowserAssumption DEF BrowserTyped, Pages, Stages, OnPage, Known, Answers, selectSavedFails
<1>2. /\ tabs' = [tabs EXCEPT ![t] = page]
      /\ popup' = [popup EXCEPT ![t] = "no"]
      /\ reloads' = [reloads EXCEPT ![t] = reloads[t]]
  BY <1>0 DEF BrowserTyped, settle, cookies, storage, choice, selectSavedFails
<1> HIDE DEF page
<1>3. /\ session' \in Users \cup {Nobody} /\ cookieTenant' \in Known /\ savedTenant' \in Known
      /\ underWay' \in [user : Users, tenant : Known] \cup {NothingUnderWay}
      /\ pending' \in Known /\ chosen' \in Known /\ strayed' \in BOOLEAN /\ opened' \in BOOLEAN
  BY <1>0 DEF BrowserTyped, Pages, Known, cookies, storage, choice, selectSavedFails
<1>4. /\ calm' \in [Tabs -> BOOLEAN]
      /\ \A u \in Tabs \ {t} : calm'[u] => calm[u] /\ UNCHANGED <<session, cookieTenant>>
  BY <1>0 DEF BrowserTyped, cookies, choice, selectSavedFails
<1>5. SessionTenant'
  BY <1>0, BrowserAssumption DEF BrowserTyped, SessionTenant, SavedFirst, Known,
        cookies, storage, choice, selectSavedFails
<1>6. /\ popup[t] \in {"unset", "no"} /\ reloads[t] \in Nat
      /\ reloads[t] <= 1
      /\ page.stage \in {"ready", "reload"} => "no" = "no"
      /\ page.stage \in {"select", "reload"} => reloads[t] = 0
      /\ page.stage \in {"account", "tenant", "info"} /\ reloads[t] = 1 => "no" = "no"
  BY <1>0, <1>1 DEF BrowserTyped, TabInv, AskedOnce, OnPage, selectSavedFails
<1>7. calm'[t] /\ session' # Nobody /\ page.stage \in OnPage =>
         /\ page.tenant \in {NoTenantName, encode[cookieTenant']}
         /\ page.link \in {NoTenantName, encode[cookieTenant']}
  BY <1>0, <1>1 DEF BrowserTyped, TabInv, ToldTenant, OnPage, cookies, storage, choice, selectSavedFails
<1>8. /\ pending' # NoTenantName =>
            /\ savedTenant' = pending' /\ page.switching \subseteq {pending'}
            /\ \A u \in Tabs \ {t} : tabs[u].switching \subseteq {pending'}
      /\ chosen' # NoTenantName => savedTenant' = chosen'
  BY <1>0, <1>1 DEF SavedFirst, cookies, storage, choice, selectSavedFails
<1> QED BY <1>1, <1>2, <1>3, <1>4, <1>5, <1>6, <1>7, <1>8, TabStep

(* A choice in the switch panel is saved first. *)
LEMMA HandleTenantConfirmationKeeps ==
    ASSUME BrowserInv, NEW t \in Tabs, NEW tenant \in TenantNames, handleTenantConfirmation(t, tenant)
    PROVE  BrowserInv'
<1> DEFINE page == [tabs[t] EXCEPT !.switching = @ \cup {tenant}]
<1>0. BrowserTyped /\ SavedFirst /\ SessionTenant /\ TabInv(t) /\ tabs[t] \in Pages
  BY DEF BrowserInv, BrowserTyped
<1>1. /\ page \in Pages
      /\ page.stage = tabs[t].stage /\ page.tenant = tabs[t].tenant
      /\ page.link = tabs[t].link /\ page.switching = tabs[t].switching \cup {tenant}
  BY <1>0, BrowserAssumption DEF BrowserTyped, Pages, Stages, OnPage, Known, Answers, handleTenantConfirmation, Confirms
<1>2. /\ tabs' = [tabs EXCEPT ![t] = page]
      /\ popup' = [popup EXCEPT ![t] = popup[t]]
      /\ reloads' = [reloads EXCEPT ![t] = reloads[t]]
  BY <1>0 DEF BrowserTyped, settle, cookies, storage, choice, handleTenantConfirmation, Confirms
<1> HIDE DEF page
<1>3. /\ session' \in Users \cup {Nobody} /\ cookieTenant' \in Known /\ savedTenant' \in Known
      /\ underWay' \in [user : Users, tenant : Known] \cup {NothingUnderWay}
      /\ pending' \in Known /\ chosen' \in Known /\ strayed' \in BOOLEAN /\ opened' \in BOOLEAN
  BY <1>0 DEF BrowserTyped, Pages, Known, cookies, storage, choice, handleTenantConfirmation, Confirms
<1>4. /\ calm' \in [Tabs -> BOOLEAN]
      /\ \A u \in Tabs \ {t} : calm'[u] => calm[u] /\ UNCHANGED <<session, cookieTenant>>
  BY <1>0 DEF BrowserTyped, cookies, choice, handleTenantConfirmation, Confirms
<1>5. SessionTenant'
  BY <1>0, BrowserAssumption DEF BrowserTyped, SessionTenant, SavedFirst, Known,
        cookies, storage, choice, handleTenantConfirmation, Confirms
<1>6. /\ popup[t] \in {"unset", "no"} /\ reloads[t] \in Nat
      /\ reloads[t] <= 1
      /\ page.stage \in {"ready", "reload"} => popup[t] = "no"
      /\ page.stage \in {"select", "reload"} => reloads[t] = 0
      /\ page.stage \in {"account", "tenant", "info"} /\ reloads[t] = 1 => popup[t] = "no"
  BY <1>0, <1>1 DEF BrowserTyped, TabInv, AskedOnce, OnPage, handleTenantConfirmation, Confirms
<1>7. calm'[t] /\ session' # Nobody /\ page.stage \in OnPage =>
         /\ page.tenant \in {NoTenantName, encode[cookieTenant']}
         /\ page.link \in {NoTenantName, encode[cookieTenant']}
  BY <1>0, <1>1 DEF BrowserTyped, TabInv, ToldTenant, OnPage, cookies, storage, choice, handleTenantConfirmation, Confirms
<1>8. /\ pending' # NoTenantName =>
            /\ savedTenant' = pending' /\ page.switching \subseteq {pending'}
            /\ \A u \in Tabs \ {t} : tabs[u].switching \subseteq {pending'}
      /\ chosen' # NoTenantName => savedTenant' = chosen'
  BY <1>0, <1>1 DEF SavedFirst, cookies, storage, choice, handleTenantConfirmation, Confirms
<1> QED BY <1>1, <1>2, <1>3, <1>4, <1>5, <1>6, <1>7, <1>8, TabStep

(* Then the server has it. *)
LEMMA ChangeTenantKeeps ==
    ASSUME BrowserInv, NEW t \in Tabs, NEW tenant \in TenantNames, changeTenant(t, tenant)
    PROVE  BrowserInv'
<1> DEFINE page == [tabs[t] EXCEPT !.stage = "reopen", !.url = NoTenantName, !.switching = {}]
<1>0. BrowserTyped /\ SavedFirst /\ SessionTenant /\ TabInv(t) /\ tabs[t] \in Pages
  BY DEF BrowserInv, BrowserTyped
<1>1. /\ page \in Pages
      /\ page.stage = "reopen" /\ page.tenant = tabs[t].tenant
      /\ page.link = tabs[t].link /\ page.switching = {}
  BY <1>0, BrowserAssumption DEF BrowserTyped, Pages, Stages, OnPage, Known, Answers, changeTenant
<1>2. /\ tabs' = [tabs EXCEPT ![t] = page]
      /\ popup' = [popup EXCEPT ![t] = popup[t]]
      /\ reloads' = [reloads EXCEPT ![t] = reloads[t]]
  BY <1>0 DEF BrowserTyped, settle, cookies, storage, choice, changeTenant
<1> HIDE DEF page
<1>3. /\ session' \in Users \cup {Nobody} /\ cookieTenant' \in Known /\ savedTenant' \in Known
      /\ underWay' \in [user : Users, tenant : Known] \cup {NothingUnderWay}
      /\ pending' \in Known /\ chosen' \in Known /\ strayed' \in BOOLEAN /\ opened' \in BOOLEAN
  BY <1>0 DEF BrowserTyped, Pages, Known, cookies, storage, choice, changeTenant
<1>4. /\ calm' \in [Tabs -> BOOLEAN]
      /\ \A u \in Tabs \ {t} : calm'[u] => calm[u] /\ UNCHANGED <<session, cookieTenant>>
  BY <1>0, UndisturbedKeeps DEF changeTenant
<1>5. SessionTenant'
  BY <1>0, BrowserAssumption DEF BrowserTyped, SessionTenant, SavedFirst, Known,
        cookies, storage, choice, changeTenant
<1>6. /\ popup[t] \in {"unset", "no"} /\ reloads[t] \in Nat
      /\ reloads[t] <= 1
      /\ page.stage \in {"ready", "reload"} => popup[t] = "no"
      /\ page.stage \in {"select", "reload"} => reloads[t] = 0
      /\ page.stage \in {"account", "tenant", "info"} /\ reloads[t] = 1 => popup[t] = "no"
  BY <1>0, <1>1 DEF BrowserTyped, TabInv, AskedOnce, OnPage, changeTenant
<1>7. calm'[t] /\ session' # Nobody /\ page.stage \in OnPage =>
         /\ page.tenant \in {NoTenantName, encode[cookieTenant']}
         /\ page.link \in {NoTenantName, encode[cookieTenant']}
  BY <1>0, <1>1 DEF BrowserTyped, TabInv, ToldTenant, OnPage, cookies, storage, choice, changeTenant
<1>8. /\ pending' # NoTenantName =>
            /\ savedTenant' = pending' /\ page.switching \subseteq {pending'}
            /\ \A u \in Tabs \ {t} : tabs[u].switching \subseteq {pending'}
      /\ chosen' # NoTenantName => savedTenant' = chosen'
  BY <1>0, <1>1 DEF SavedFirst, cookies, storage, choice, changeTenant
<1> QED BY <1>1, <1>2, <1>3, <1>4, <1>5, <1>6, <1>7, <1>8, TabStep

(* Or refuses it. *)
LEMMA ChangeTenantFailsKeeps ==
    ASSUME BrowserInv, NEW t \in Tabs, NEW tenant \in TenantNames, changeTenantFails(t, tenant)
    PROVE  BrowserInv'
<1> DEFINE page == [tabs[t] EXCEPT !.switching = @ \ {tenant}]
<1>0. BrowserTyped /\ SavedFirst /\ SessionTenant /\ TabInv(t) /\ tabs[t] \in Pages
  BY DEF BrowserInv, BrowserTyped
<1>1. /\ page \in Pages
      /\ page.stage = tabs[t].stage /\ page.tenant = tabs[t].tenant
      /\ page.link = tabs[t].link /\ page.switching = tabs[t].switching \ {tenant}
  BY <1>0, BrowserAssumption DEF BrowserTyped, Pages, Stages, OnPage, Known, Answers, changeTenantFails
<1>2. /\ tabs' = [tabs EXCEPT ![t] = page]
      /\ popup' = [popup EXCEPT ![t] = popup[t]]
      /\ reloads' = [reloads EXCEPT ![t] = reloads[t]]
  BY <1>0 DEF BrowserTyped, settle, cookies, storage, choice, changeTenantFails
<1> HIDE DEF page
<1>3. /\ session' \in Users \cup {Nobody} /\ cookieTenant' \in Known /\ savedTenant' \in Known
      /\ underWay' \in [user : Users, tenant : Known] \cup {NothingUnderWay}
      /\ pending' \in Known /\ chosen' \in Known /\ strayed' \in BOOLEAN /\ opened' \in BOOLEAN
  BY <1>0 DEF BrowserTyped, Pages, Known, cookies, storage, choice, changeTenantFails
<1>4. /\ calm' \in [Tabs -> BOOLEAN]
      /\ \A u \in Tabs \ {t} : calm'[u] => calm[u] /\ UNCHANGED <<session, cookieTenant>>
  BY <1>0 DEF BrowserTyped, cookies, choice, changeTenantFails
<1>5. SessionTenant'
  BY <1>0, BrowserAssumption DEF BrowserTyped, SessionTenant, SavedFirst, Known,
        cookies, storage, choice, changeTenantFails
<1>6. /\ popup[t] \in {"unset", "no"} /\ reloads[t] \in Nat
      /\ reloads[t] <= 1
      /\ page.stage \in {"ready", "reload"} => popup[t] = "no"
      /\ page.stage \in {"select", "reload"} => reloads[t] = 0
      /\ page.stage \in {"account", "tenant", "info"} /\ reloads[t] = 1 => popup[t] = "no"
  BY <1>0, <1>1 DEF BrowserTyped, TabInv, AskedOnce, OnPage, changeTenantFails
<1>7. calm'[t] /\ session' # Nobody /\ page.stage \in OnPage =>
         /\ page.tenant \in {NoTenantName, encode[cookieTenant']}
         /\ page.link \in {NoTenantName, encode[cookieTenant']}
  BY <1>0, <1>1 DEF BrowserTyped, TabInv, ToldTenant, OnPage, cookies, storage, choice, changeTenantFails
<1>8. /\ pending' # NoTenantName =>
            /\ savedTenant' = pending' /\ page.switching \subseteq {pending'}
            /\ \A u \in Tabs \ {t} : tabs[u].switching \subseteq {pending'}
      /\ chosen' # NoTenantName => savedTenant' = chosen'
  BY <1>0, <1>1 DEF SavedFirst, cookies, storage, choice, changeTenantFails
<1> QED BY <1>1, <1>2, <1>3, <1>4, <1>5, <1>6, <1>7, <1>8, TabStep

(* The list of tenants saves nothing. *)
LEMMA SwitchToSelectedTenantKeeps ==
    ASSUME BrowserInv, NEW t \in Tabs, NEW tenant \in TenantNames, switchToSelectedTenant(t, tenant)
    PROVE  BrowserInv'
<1> DEFINE page == [tabs[t] EXCEPT !.stage = "reopen", !.url = tabs[t].url, !.switching = {}]
<1>0. BrowserTyped /\ SavedFirst /\ SessionTenant /\ TabInv(t) /\ tabs[t] \in Pages
  BY DEF BrowserInv, BrowserTyped
<1>1. /\ page \in Pages
      /\ page.stage = "reopen" /\ page.tenant = tabs[t].tenant
      /\ page.link = tabs[t].link /\ page.switching = {}
  BY <1>0, BrowserAssumption DEF BrowserTyped, Pages, Stages, OnPage, Known, Answers, switchToSelectedTenant, Switches
<1>2. /\ tabs' = [tabs EXCEPT ![t] = page]
      /\ popup' = [popup EXCEPT ![t] = popup[t]]
      /\ reloads' = [reloads EXCEPT ![t] = reloads[t]]
  BY <1>0 DEF BrowserTyped, settle, cookies, storage, choice, switchToSelectedTenant, Switches
<1> HIDE DEF page
<1>3. /\ session' \in Users \cup {Nobody} /\ cookieTenant' \in Known /\ savedTenant' \in Known
      /\ underWay' \in [user : Users, tenant : Known] \cup {NothingUnderWay}
      /\ pending' \in Known /\ chosen' \in Known /\ strayed' \in BOOLEAN /\ opened' \in BOOLEAN
  BY <1>0 DEF BrowserTyped, Pages, Known, cookies, storage, choice, switchToSelectedTenant, Switches
<1>4. /\ calm' \in [Tabs -> BOOLEAN]
      /\ \A u \in Tabs \ {t} : calm'[u] => calm[u] /\ UNCHANGED <<session, cookieTenant>>
  BY <1>0, UndisturbedKeeps DEF switchToSelectedTenant, Switches
<1>5. SessionTenant'
  BY <1>0, BrowserAssumption DEF BrowserTyped, SessionTenant, SavedFirst, Known,
        cookies, storage, choice, switchToSelectedTenant, Switches
<1>6. /\ popup[t] \in {"unset", "no"} /\ reloads[t] \in Nat
      /\ reloads[t] <= 1
      /\ page.stage \in {"ready", "reload"} => popup[t] = "no"
      /\ page.stage \in {"select", "reload"} => reloads[t] = 0
      /\ page.stage \in {"account", "tenant", "info"} /\ reloads[t] = 1 => popup[t] = "no"
  BY <1>0, <1>1 DEF BrowserTyped, TabInv, AskedOnce, OnPage, switchToSelectedTenant, Switches
<1>7. calm'[t] /\ session' # Nobody /\ page.stage \in OnPage =>
         /\ page.tenant \in {NoTenantName, encode[cookieTenant']}
         /\ page.link \in {NoTenantName, encode[cookieTenant']}
  BY <1>0, <1>1 DEF BrowserTyped, TabInv, ToldTenant, OnPage, cookies, storage, choice, switchToSelectedTenant, Switches
<1>8. /\ pending' # NoTenantName =>
            /\ savedTenant' = pending' /\ page.switching \subseteq {pending'}
            /\ \A u \in Tabs \ {t} : tabs[u].switching \subseteq {pending'}
      /\ chosen' # NoTenantName => savedTenant' = chosen'
  BY <1>0, <1>1 DEF SavedFirst, cookies, storage, choice, switchToSelectedTenant, Switches
<1> QED BY <1>1, <1>2, <1>3, <1>4, <1>5, <1>6, <1>7, <1>8, TabStep

(* Nor does the way to its dashboards. *)
LEMMA ViewOrCreateDashboardKeeps ==
    ASSUME BrowserInv, NEW t \in Tabs, NEW tenant \in TenantNames, viewOrCreateDashboard(t, tenant)
    PROVE  BrowserInv'
<1> DEFINE page == [tabs[t] EXCEPT !.stage = "reopen", !.url = NoTenantName, !.switching = {}]
<1>0. BrowserTyped /\ SavedFirst /\ SessionTenant /\ TabInv(t) /\ tabs[t] \in Pages
  BY DEF BrowserInv, BrowserTyped
<1>1. /\ page \in Pages
      /\ page.stage = "reopen" /\ page.tenant = tabs[t].tenant
      /\ page.link = tabs[t].link /\ page.switching = {}
  BY <1>0, BrowserAssumption DEF BrowserTyped, Pages, Stages, OnPage, Known, Answers, viewOrCreateDashboard, Switches
<1>2. /\ tabs' = [tabs EXCEPT ![t] = page]
      /\ popup' = [popup EXCEPT ![t] = popup[t]]
      /\ reloads' = [reloads EXCEPT ![t] = reloads[t]]
  BY <1>0 DEF BrowserTyped, settle, cookies, storage, choice, viewOrCreateDashboard, Switches
<1> HIDE DEF page
<1>3. /\ session' \in Users \cup {Nobody} /\ cookieTenant' \in Known /\ savedTenant' \in Known
      /\ underWay' \in [user : Users, tenant : Known] \cup {NothingUnderWay}
      /\ pending' \in Known /\ chosen' \in Known /\ strayed' \in BOOLEAN /\ opened' \in BOOLEAN
  BY <1>0 DEF BrowserTyped, Pages, Known, cookies, storage, choice, viewOrCreateDashboard, Switches
<1>4. /\ calm' \in [Tabs -> BOOLEAN]
      /\ \A u \in Tabs \ {t} : calm'[u] => calm[u] /\ UNCHANGED <<session, cookieTenant>>
  BY <1>0, UndisturbedKeeps DEF viewOrCreateDashboard, Switches
<1>5. SessionTenant'
  BY <1>0, BrowserAssumption DEF BrowserTyped, SessionTenant, SavedFirst, Known,
        cookies, storage, choice, viewOrCreateDashboard, Switches
<1>6. /\ popup[t] \in {"unset", "no"} /\ reloads[t] \in Nat
      /\ reloads[t] <= 1
      /\ page.stage \in {"ready", "reload"} => popup[t] = "no"
      /\ page.stage \in {"select", "reload"} => reloads[t] = 0
      /\ page.stage \in {"account", "tenant", "info"} /\ reloads[t] = 1 => popup[t] = "no"
  BY <1>0, <1>1 DEF BrowserTyped, TabInv, AskedOnce, OnPage, viewOrCreateDashboard, Switches
<1>7. calm'[t] /\ session' # Nobody /\ page.stage \in OnPage =>
         /\ page.tenant \in {NoTenantName, encode[cookieTenant']}
         /\ page.link \in {NoTenantName, encode[cookieTenant']}
  BY <1>0, <1>1 DEF BrowserTyped, TabInv, ToldTenant, OnPage, cookies, storage, choice, viewOrCreateDashboard, Switches
<1>8. /\ pending' # NoTenantName =>
            /\ savedTenant' = pending' /\ page.switching \subseteq {pending'}
            /\ \A u \in Tabs \ {t} : tabs[u].switching \subseteq {pending'}
      /\ chosen' # NoTenantName => savedTenant' = chosen'
  BY <1>0, <1>1 DEF SavedFirst, cookies, storage, choice, viewOrCreateDashboard, Switches
<1> QED BY <1>1, <1>2, <1>3, <1>4, <1>5, <1>6, <1>7, <1>8, TabStep

(* The tab asks for the saved tenant, or shows its menu. *)
LEMMA DecideKeeps ==
    ASSUME BrowserInv, NEW t \in Tabs, decide(t)
    PROVE  BrowserInv'
<1> DEFINE asking == [tabs[t] EXCEPT !.stage = "select", !.want = savedTenant]
           ready == [tabs[t] EXCEPT !.stage = "ready"]
<1>0. /\ BrowserTyped /\ SavedFirst /\ SessionTenant /\ TabInv(t)
      /\ tabs[t] \in Pages /\ savedTenant \in Known
  BY DEF BrowserInv, BrowserTyped
<1>1. /\ asking \in Pages /\ asking.stage = "select" /\ asking.switching = tabs[t].switching
      /\ asking.tenant = tabs[t].tenant /\ asking.link = tabs[t].link
      /\ ready \in Pages /\ ready.stage = "ready" /\ ready.switching = tabs[t].switching
      /\ ready.tenant = tabs[t].tenant /\ ready.link = tabs[t].link
  BY <1>0 DEF Pages, Stages, OnPage
<1>2. UNCHANGED <<session, cookieTenant, savedTenant, underWay, pending, chosen, strayed, opened,
                  calm, reloads>>
  BY DEF decide, cookies, choice
<1>3. SessionTenant'
  BY <1>0, <1>2 DEF SessionTenant
<1>4. /\ tabs[t].stage = "info"
      /\ reloads[t] \in Nat
      /\ reloads[t] <= 1
      /\ popup[t] \in {"unset", "no"}
  BY <1>0 DEF decide, BrowserTyped, TabInv, AskedOnce
<1>5. calm[t] /\ session # Nobody =>
         /\ tabs[t].tenant \in {NoTenantName, encode[cookieTenant]}
         /\ tabs[t].link \in {NoTenantName, encode[cookieTenant]}
  BY <1>0, <1>4 DEF TabInv, ToldTenant, OnPage
<1>6. reloads' = [reloads EXCEPT ![t] = reloads[t]]
  BY <1>0, <1>2 DEF BrowserTyped
<1>7. /\ pending # NoTenantName =>
            /\ savedTenant = pending /\ tabs[t].switching \subseteq {pending}
            /\ \A u \in Tabs \ {t} : tabs[u].switching \subseteq {pending}
      /\ chosen # NoTenantName => savedTenant = chosen
  BY <1>0 DEF SavedFirst
<1>8. CASE AsksForSaved(t)
  <2>1. tabs' = [tabs EXCEPT ![t] = asking] /\ popup' = [popup EXCEPT ![t] = popup[t]]
    BY <1>0, <1>8 DEF decide, BrowserTyped
  <2>2. reloads[t] = 0
    BY <1>0, <1>4, <1>8 DEF AsksForSaved, TabInv, AskedOnce
  <2> HIDE DEF asking
  <2> QED BY <1>0, <1>1, <1>2, <1>3, <1>4, <1>5, <1>6, <1>7, <2>1, <2>2, TabStep DEF BrowserTyped
<1>9. CASE ~AsksForSaved(t)
  <2>1. tabs' = [tabs EXCEPT ![t] = ready] /\ popup' = [popup EXCEPT ![t] = "no"]
    BY <1>0, <1>9 DEF decide, settle, BrowserTyped
  <2> HIDE DEF ready
  <2> QED BY <1>0, <1>1, <1>2, <1>3, <1>4, <1>5, <1>6, <1>7, <2>1, TabStep DEF BrowserTyped
<1> QED BY <1>8, <1>9

(* The page that a login opens, in the tenant saved unless it names another.       *)
LEMMA RedirectKeeps ==
    ASSUME BrowserInv, NEW t \in Tabs, redirect(t)
    PROVE  BrowserInv'
<1> DEFINE asked == tabs[t].url
           hasSaved == savedTenant \notin {NoTenantName, Global}
           url == IF asked = NoTenantName /\ hasSaved THEN savedTenant ELSE asked
<1>0. BrowserTyped /\ SavedFirst /\ SessionTenant /\ url \in Known
  BY DEF BrowserInv, BrowserTyped, Pages
<1>1. /\ load(t, url)
      /\ strayed' = (asked # NoTenantName \/ (strayed /\ ~hasSaved)) /\ opened' = TRUE
      /\ calm' = [Undisturbed(t) EXCEPT ![t] = TRUE] /\ reloads' = [reloads EXCEPT ![t] = 0]
      /\ UNCHANGED <<session, savedTenant, popup, underWay, pending, chosen>>
  BY DEF redirect, storage
<1>2. /\ cookieTenant' \in Known
      /\ session # Nobody =>
            cookieTenant' = Resolve(session, IF url # NoTenantName THEN url ELSE cookieTenant)
  BY <1>0, <1>1, LoadServes
<1>3. PICK stage \in {"login", "account"} : tabs' = [tabs EXCEPT ![t] = Tab(stage, url)]
  BY <1>0, <1>1, LoadServes
<1> DEFINE page == Tab(stage, url)
<1>4. /\ page \in Pages /\ page.stage = stage /\ page.switching = {}
      /\ page.tenant = NoTenantName /\ page.link = NoTenantName
  BY <1>0, TabTyped
<1>5. tabs' = [tabs EXCEPT ![t] = page]
  BY <1>3
<1> HIDE DEF page
<1>6. /\ calm' \in [Tabs -> BOOLEAN]
      /\ \A u \in Tabs \ {t} : calm'[u] => calm[u] /\ UNCHANGED <<session, cookieTenant>>
  BY <1>0, <1>1, UndisturbedKeeps
<1>7. popup' = [popup EXCEPT ![t] = popup[t]] /\ popup[t] \in {"unset", "no"}
  BY <1>0, <1>1 DEF BrowserTyped
<1>8. SessionTenant'
  <2> SUFFICES ASSUME session # Nobody, asked = NoTenantName, strayed => hasSaved,
                      defaultTenant = NoTenantName,
                      chosen \in Entitled[session], multitenancyEnabled
               PROVE  cookieTenant' = chosen
    BY <1>1 DEF SessionTenant
  <2>1. session \in Users /\ chosen # NoTenantName
    BY <1>0, BrowserAssumption DEF BrowserTyped
  <2>2. savedTenant = chosen
    BY <1>0, <2>1 DEF SavedFirst
  <2>3. CASE hasSaved
    BY <1>2, <2>1, <2>2, <2>3, ResolveKnown
  <2>4. CASE ~hasSaved
    <3>1. chosen = Global /\ ~strayed
      BY <2>1, <2>2, <2>4
    <3>2. cookieTenant = chosen
      BY <1>0, <3>1 DEF SessionTenant
    <3> QED BY <1>2, <2>1, <2>4, <3>1, <3>2, ResolveKnown
  <2> QED BY <2>3, <2>4
<1>9. /\ session' \in Users \cup {Nobody} /\ savedTenant' \in Known
      /\ underWay' \in [user : Users, tenant : Known] \cup {NothingUnderWay}
      /\ pending' \in Known /\ chosen' \in Known /\ strayed' \in BOOLEAN /\ opened' \in BOOLEAN
  BY <1>0, <1>1 DEF BrowserTyped
<1>10. /\ pending' # NoTenantName =>
             /\ savedTenant' = pending' /\ page.switching \subseteq {pending'}
             /\ \A u \in Tabs \ {t} : tabs[u].switching \subseteq {pending'}
       /\ chosen' # NoTenantName => savedTenant' = chosen'
  BY <1>0, <1>1, <1>4 DEF SavedFirst
<1>11. /\ 0 \in Nat /\ 0 <= 1 /\ 0 # 1
       /\ page.stage \notin {"ready", "reload", "select"}
       /\ page.tenant \in {NoTenantName, encode[cookieTenant']}
       /\ page.link \in {NoTenantName, encode[cookieTenant']}
  BY <1>4
<1> HIDE DEF url, asked, hasSaved
<1> QED BY <1>1, <1>2, <1>4, <1>5, <1>6, <1>7, <1>8, <1>9, <1>10, <1>11, TabStep

(* The login page takes the place of a page, at the user's wish or not. *)
LEMMA LeaveKeeps ==
    ASSUME BrowserInv, NEW t \in Tabs, logout(t) \/ interceptError(t)
    PROVE  BrowserInv'
<1>0. BrowserTyped /\ SavedFirst /\ TabInv(t)
  BY DEF BrowserInv
<1>1. PICK url \in Known : tabs' = [tabs EXCEPT ![t] = Tab("login", url)]
  BY <1>0 DEF logout, interceptError, BrowserTyped, Pages, Known
<1> DEFINE page == Tab("login", url)
<1>2. page \in Pages /\ page.stage = "login" /\ page.switching = {}
  BY TabTyped
<1>3. tabs' = [tabs EXCEPT ![t] = page]
  BY <1>1
<1> HIDE DEF page
<1>4. /\ popup' = [popup EXCEPT ![t] = "unset"] /\ reloads' = [reloads EXCEPT ![t] = reloads[t]]
      /\ UNCHANGED <<savedTenant, underWay, pending, chosen, strayed, opened>>
  BY <1>0 DEF logout, interceptError, clearSessionStorage, BrowserTyped, cookies, choice
<1>5. session' = Nobody /\ cookieTenant' \in Known
  BY <1>0 DEF logout, interceptError, BrowserTyped, Known, cookies
<1>6. /\ calm' \in [Tabs -> BOOLEAN]
      /\ \A u \in Tabs \ {t} : calm'[u] => calm[u] /\ UNCHANGED <<session, cookieTenant>>
  <2>1. CASE logout(t)
    BY <1>0, <2>1, UndisturbedKeeps DEF logout
  <2>2. CASE interceptError(t)
    BY <1>0, <2>2 DEF interceptError, BrowserTyped, cookies
  <2> QED BY <2>1, <2>2
<1>7. SessionTenant' /\ reloads[t] \in Nat /\ reloads[t] <= 1
  BY <1>0, <1>5 DEF BrowserTyped, SessionTenant, TabInv, AskedOnce
<1>8. /\ savedTenant' \in Known
      /\ underWay' \in [user : Users, tenant : Known] \cup {NothingUnderWay}
      /\ pending' \in Known /\ chosen' \in Known /\ strayed' \in BOOLEAN /\ opened' \in BOOLEAN
  BY <1>0, <1>4 DEF BrowserTyped
<1>9. /\ pending' # NoTenantName =>
            /\ savedTenant' = pending' /\ page.switching \subseteq {pending'}
            /\ \A u \in Tabs \ {t} : tabs[u].switching \subseteq {pending'}
      /\ chosen' # NoTenantName => savedTenant' = chosen'
  BY <1>0, <1>2, <1>4 DEF SavedFirst
<1>10. page.stage \notin {"ready", "reload", "select", "account", "tenant", "info"}
  BY <1>2
<1> QED BY <1>2, <1>3, <1>4, <1>5, <1>6, <1>7, <1>8, <1>9, <1>10, TabStep

-----------------------------------------------------------------------------
(* A request that is sent changes nothing yet. *)
LEMMA SendRequestKeeps ==
    ASSUME BrowserInv, NEW t \in Tabs, sendRequest(t)
    PROVE  BrowserInv'
<1>1. BrowserTyped /\ SessionTenant
  BY DEF BrowserInv
<1>2. UNCHANGED <<tabs, popup, reloads, savedTenant, pending, chosen, session, cookieTenant,
                  strayed, opened, calm>>
  BY DEF sendRequest, cookies, storage, choice
<1>3. underWay' \in [user : Users, tenant : Known]
  BY <1>1 DEF sendRequest, BrowserTyped
<1>4. SessionTenant'
  BY <1>1, <1>2 DEF SessionTenant
<1> QED BY <1>1, <1>2, <1>3, <1>4, TabsStay DEF BrowserTyped

(* Its answer sets the cookie it was sent with, and then disturbs everyone. *)
LEMMA AnswerArrivesKeeps ==
    ASSUME BrowserInv, answerArrives
    PROVE  BrowserInv'
<1>1. BrowserTyped /\ SessionTenant
  BY DEF BrowserInv
<1>2. /\ UNCHANGED <<tabs, popup, reloads, savedTenant, pending, chosen, opened>>
      /\ underWay' = NothingUnderWay
      /\ strayed' = (strayed \/ cookies' # cookies)
      /\ calm' = IF cookies' = cookies THEN calm ELSE [t \in Tabs |-> FALSE]
  BY DEF answerArrives, storage
<1>3. underWay.user \in Users
  BY <1>1 DEF answerArrives, BrowserTyped
<1>4. session' \in Users \cup {Nobody} /\ cookieTenant' \in Known
  <2>1. Resolve(underWay.user, underWay.tenant) \in Known
    BY <1>3, ResolveKnown DEF Known
  <2> QED BY <1>1, <1>3, <2>1 DEF answerArrives, BrowserTyped, cookies
<1>5. strayed' \in BOOLEAN /\ opened' \in BOOLEAN /\ calm' \in [Tabs -> BOOLEAN]
  BY <1>1, <1>2 DEF BrowserTyped
<1>6. \A t \in Tabs : calm'[t] => calm[t] /\ UNCHANGED <<session, cookieTenant>>
  BY <1>2 DEF cookies
<1>7. SessionTenant'
  BY <1>1, <1>2 DEF SessionTenant, cookies
<1> QED BY <1>1, <1>2, <1>4, <1>5, <1>6, <1>7, TabsStay

(* POST /auth/login: a session that has come to no page yet. *)
LEMMA SignsInSets ==
    ASSUME BrowserInv, NEW t \in Tabs, NEW user \in Users, SignsIn(t, user)
    PROVE  /\ tabs[t].stage = "login" /\ session' = user /\ cookieTenant' \in Known
           /\ calm' = Undisturbed(t) /\ strayed' = FALSE /\ opened' = FALSE
           /\ UNCHANGED <<savedTenant, popup, underWay, pending, chosen, reloads>>
           /\ SessionTenant'
<1>1. /\ tabs[t].stage = "login" /\ session' = user
      /\ cookieTenant' = Resolve(user, NoTenantName)
      /\ calm' = Undisturbed(t) /\ strayed' = FALSE /\ opened' = FALSE
      /\ UNCHANGED <<savedTenant, popup, underWay, pending, chosen, reloads>>
  BY DEF SignsIn, storage
<1>2. /\ cookieTenant' \in Known
      /\ defaultTenant = NoTenantName => cookieTenant' = Global
  BY <1>1, ResolveKnown DEF Known
<1> QED BY <1>1, <1>2 DEF SessionTenant

LEMMA LoginKeeps ==
    ASSUME BrowserInv, NEW t \in Tabs, NEW user \in Users,
           login(t, user) \/ loginAnswerLost(t, user)
    PROVE  BrowserInv'
<1> DEFINE page == IF tabs' = tabs THEN tabs[t] ELSE [tabs[t] EXCEPT !.stage = "signedIn"]
<1>0. BrowserTyped /\ SavedFirst /\ TabInv(t) /\ tabs[t] \in Pages
  BY DEF BrowserInv, BrowserTyped
<1>1. SignsIn(t, user)
  BY DEF login, loginAnswerLost
<1>2. /\ tabs[t].stage = "login" /\ session' = user /\ cookieTenant' \in Known
      /\ calm' = Undisturbed(t) /\ strayed' = FALSE /\ opened' = FALSE
      /\ UNCHANGED <<savedTenant, popup, underWay, pending, chosen, reloads>>
      /\ SessionTenant'
  BY <1>1, SignsInSets
<1>3. /\ page \in Pages /\ page.stage \in {"login", "signedIn"}
      /\ page.switching = tabs[t].switching
  BY <1>0, <1>2 DEF Pages, Stages
<1>4. tabs' = [tabs EXCEPT ![t] = page]
  BY <1>0 DEF login, loginAnswerLost, BrowserTyped
<1> HIDE DEF page
<1>5. /\ calm' \in [Tabs -> BOOLEAN]
      /\ \A u \in Tabs \ {t} : calm'[u] => calm[u] /\ UNCHANGED <<session, cookieTenant>>
  BY <1>0, <1>2, UndisturbedKeeps
<1>6. /\ popup' = [popup EXCEPT ![t] = popup[t]] /\ popup[t] \in {"unset", "no"}
      /\ reloads' = [reloads EXCEPT ![t] = reloads[t]]
      /\ reloads[t] \in Nat /\ reloads[t] <= 1
  BY <1>0, <1>2 DEF BrowserTyped, TabInv, AskedOnce
<1>7. /\ savedTenant' \in Known
      /\ underWay' \in [user : Users, tenant : Known] \cup {NothingUnderWay}
      /\ pending' \in Known /\ chosen' \in Known
  BY <1>0, <1>2 DEF BrowserTyped
<1>8. /\ pending' # NoTenantName =>
            /\ savedTenant' = pending' /\ page.switching \subseteq {pending'}
            /\ \A u \in Tabs \ {t} : tabs[u].switching \subseteq {pending'}
      /\ chosen' # NoTenantName => savedTenant' = chosen'
  BY <1>0, <1>2, <1>3 DEF SavedFirst
<1>9. page.stage \notin {"ready", "reload", "select", "account", "tenant", "info"}
  BY <1>3
<1>10. page.stage \notin OnPage
  BY <1>3 DEF OnPage
<1> QED BY <1>2, <1>3, <1>4, <1>5, <1>6, <1>7, <1>8, <1>9, <1>10, TabStep

(* A session ends, and a logout that fails. *)
LEMMA EndKeeps ==
    ASSUME BrowserInv, expire \/ (\E t \in Tabs : logoutFails(t)) \/ UNCHANGED browserVars
    PROVE  BrowserInv'
<1>0. BrowserTyped /\ SessionTenant
  BY DEF BrowserInv
<1>1. UNCHANGED <<tabs, popup, reloads, savedTenant, underWay, pending, chosen, strayed, opened>>
  BY DEF expire, logoutFails, browserVars, storage, choice
<1>2. \/ UNCHANGED <<session, cookieTenant, calm>>
      \/ session' = Nobody /\ cookieTenant' = NoTenantName /\ calm' = [t \in Tabs |-> FALSE]
  BY DEF expire, logoutFails, browserVars, cookies
<1>3. /\ session' \in Users \cup {Nobody} /\ cookieTenant' \in Known
      /\ calm' \in [Tabs -> BOOLEAN]
      /\ \A t \in Tabs : calm'[t] => calm[t] /\ UNCHANGED <<session, cookieTenant>>
      /\ SessionTenant'
  BY <1>0, <1>1, <1>2 DEF BrowserTyped, Known, SessionTenant
<1> QED BY <1>0, <1>1, <1>3, TabsStay DEF BrowserTyped

-----------------------------------------------------------------------------
LEMMA BrowserInvNext ==
    ASSUME BrowserInv, [BrowserNext]_browserVars
    PROVE  BrowserInv'
<1>1. ASSUME NEW t \in Tabs, NEW url \in TenantNames \cup {NoTenantName}, navigate(t, url)
      PROVE  BrowserInv'
  BY <1>1, NavigateKeeps DEF Known
<1>2. ASSUME NEW t \in Tabs,
             \/ reload(t) \/ reopen(t) \/ sendRequest(t)
             \/ fetchAccountInfoSafe(t) \/ fetchCurrentTenant(t) \/ fetchCurrentTenantFails(t)
             \/ addTenantToShareURL(t) \/ decide(t) \/ getDashboardsInfoFails(t)
             \/ selectSaved(t) \/ selectSavedFails(t)
      PROVE  BrowserInv'
  BY <1>2, ReloadKeeps, SendRequestKeeps, FetchAccountInfoSafeKeeps, FetchCurrentTenantKeeps,
     FetchCurrentTenantFailsKeeps, AddTenantToShareURLKeeps, DecideKeeps,
     GetDashboardsInfoFailsKeeps, SelectSavedKeeps, SelectSavedFailsKeeps
<1>3. ASSUME NEW t \in Tabs, NEW tenant \in TenantNames,
             \/ handleTenantConfirmation(t, tenant)
             \/ changeTenant(t, tenant) \/ changeTenantFails(t, tenant)
             \/ switchToSelectedTenant(t, tenant) \/ viewOrCreateDashboard(t, tenant)
      PROVE  BrowserInv'
  BY <1>3, HandleTenantConfirmationKeeps, ChangeTenantKeeps, ChangeTenantFailsKeeps,
     SwitchToSelectedTenantKeeps, ViewOrCreateDashboardKeeps
<1>4. ASSUME NEW t \in Tabs, logout(t) \/ interceptError(t) \/ redirect(t)
      PROVE  BrowserInv'
  BY <1>4, LeaveKeeps, RedirectKeeps
<1>5. ASSUME NEW t \in Tabs, NEW user \in Users, login(t, user) \/ loginAnswerLost(t, user)
      PROVE  BrowserInv'
  BY <1>5, LoginKeeps
<1>6. CASE answerArrives
  BY <1>6, AnswerArrivesKeeps
<1>7. CASE expire \/ (\E t \in Tabs : logoutFails(t)) \/ UNCHANGED browserVars
  BY <1>7, EndKeeps
<1> QED BY <1>1, <1>2, <1>3, <1>4, <1>5, <1>6, <1>7 DEF BrowserNext

(* The invariant of every behaviour of the browser. *)
THEOREM BrowserInvariant == BrowserSpec => []BrowserInv
<1>1. BrowserInv /\ [BrowserNext]_browserVars => BrowserInv'
  BY BrowserInvNext
<1> QED BY <1>1, BrowserInvInit, PTL DEF BrowserSpec

(* A page that the user opens loads itself again at most once, whatever tenant is    *)
(* saved in the browser and however the server answers.                       *)
THEOREM BrowserReloadsOnce == BrowserSpec => []ReloadsOnce
<1>1. BrowserInv => ReloadsOnce
  BY DEF BrowserInv, TabInv, AskedOnce, ReloadsOnce
<1> QED BY <1>1, BrowserInvariant, PTL

(* The menu and the links of a page name the tenant of the session, or none, while no *)
(* other tab, no late answer and no end of the session has disturbed it.        *)
THEOREM BrowserNamesTenant == BrowserSpec => []PageNamesItsTenant
<1>1. BrowserInv => PageNamesItsTenant
  BY DEF BrowserInv, TabInv, ToldTenant, PageNamesItsTenant, OnPage
<1> QED BY <1>1, BrowserInvariant, PTL

(* A session is in the tenant switched to last in the menu, also one that begins later, *)
(* from the page its login opens, while no URL, no other list, no tab that was        *)
(* starting and no late answer has taken it elsewhere.                          *)
THEOREM BrowserReturns == BrowserSpec => []ReturnsToLastTenant
<1>1. BrowserInv => ReturnsToLastTenant
  BY DEF BrowserInv, SessionTenant, ReturnsToLastTenant
<1> QED BY <1>1, BrowserInvariant, PTL
=============================================================================
