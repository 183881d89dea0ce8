------------------------------ MODULE PanelProofs ------------------------------
(***************************************************************************)
(* Lists of entities, the audit page and the resource sharing panel: which *)
(* data source rows, selections and settings are from, what is gone when a *)
(* deletion says so, and what a sharing sends; for any data sources,       *)
(* entities, people and resources, and any number of loads and mishaps.    *)
(***************************************************************************)
EXTENDS ListPanel, AuditPage, ResourceSharing, FiniteSetTheorems, TLAPS

Stages == {"none", "list", "rest", "settings", "done"}
LoadRecords == [stage : Stages, source : Sources, got : SUBSET Names]
Rows == [name : Names, from : Sources, load : 1..MaxLoads]
DeletionRecords == [active : BOOLEAN, source : Sources, shown : SUBSET Rows,
                    chosen : SUBSET Rows, todo : SUBSET Names, half : SUBSET Names,
                    fresh : BOOLEAN]
ClusterStates == [Sources -> [{"entities", "rolesmapping"} -> [Names -> {"there", Absent}]]]

ListTyped ==
    /\ source \in Sources /\ clusters \in ClusterStates
    /\ rows \subseteq Rows /\ selection \subseteq Rows
    /\ loads \in [1..MaxLoads -> LoadRecords]
    /\ modal = "edit" => editing \in Names
    /\ deletions \in [1..MaxDeletions -> DeletionRecords]
    /\ saves \subseteq Sources \X Names
    /\ gone \subseteq Sources \X Names

(* The calls of a page are for the data source they name. *)
LEMMA OwnCluster == \A s \in Sources : wrapRouteWithDataSource(s) = s
  BY ConfigApiAssumption DEF wrapRouteWithDataSource

(* A load that ends, and one that goes on with what it has received. *)
LEMMA LoadMoves ==
    ASSUME ListTyped, NEW n \in 1..MaxLoads, NEW load \in LoadRecords,
           loads' = [loads EXCEPT ![n] = load]
    PROVE  /\ loads' \in [1..MaxLoads -> LoadRecords]
           /\ loads'[n] = load
           /\ \A k \in 1..MaxLoads : k # n => loads'[k] = loads[k]
  BY DEF ListTyped

(* What a deletion becomes, with the others as they were. *)
LEMMA DeletionMoves ==
    ASSUME ListTyped, NEW d \in 1..MaxDeletions, NEW new \in DeletionRecords,
           deletions' = [deletions EXCEPT ![d] = new]
    PROVE  /\ deletions' \in [1..MaxDeletions -> DeletionRecords]
           /\ deletions'[d] = new
           /\ \A e \in 1..MaxDeletions : e # d => deletions'[e] = deletions[e]
  BY DEF ListTyped

(* Stale deletions are what they were, but do not count. *)
LEMMA StaleDeletions ==
    ASSUME ListTyped, deletions' = Stale
    PROVE  /\ deletions' \in [1..MaxDeletions -> DeletionRecords]
           /\ \A d \in 1..MaxDeletions :
                 /\ ~deletions'[d].fresh
                 /\ deletions'[d].active = deletions[d].active
                 /\ deletions'[d].source = deletions[d].source
                 /\ deletions'[d].shown = deletions[d].shown
                 /\ deletions'[d].chosen = deletions[d].chosen
           /\ InDeletion' = InDeletion
<1>1. ASSUME NEW d \in 1..MaxDeletions
      PROVE  /\ deletions'[d] \in DeletionRecords
             /\ ~deletions'[d].fresh
             /\ deletions'[d].active = deletions[d].active
             /\ deletions'[d].source = deletions[d].source
             /\ deletions'[d].shown = deletions[d].shown
             /\ deletions'[d].chosen = deletions[d].chosen
  <2>1. deletions[d] \in DeletionRecords
    BY DEF ListTyped
  <2>2. deletions'[d] = [deletions[d] EXCEPT !.fresh = FALSE]
    BY DEF Stale
  <2> QED BY <2>1, <2>2 DEF DeletionRecords
<1>2. deletions' \in [1..MaxDeletions -> DeletionRecords]
  BY <1>1 DEF Stale
<1> QED BY <1>1, <1>2 DEF InDeletion

(* A deletion begins with what the page holds. *)
LEMMA DeletionBegins ==
    ASSUME ListTyped
    PROVE  /\ Deletion \in DeletionRecords
           /\ Deletion.active /\ Deletion.source = source
           /\ Deletion.shown = rows /\ Deletion.chosen = selection
           /\ Deletion.todo = {r.name : r \in selection} /\ Deletion.half = {}
           /\ Deletion.fresh => selection \subseteq rows /\ InLoading = {}
<1>1. {r.name : r \in selection} \in SUBSET Names
  BY DEF ListTyped, Rows
<1> QED BY <1>1 DEF ListTyped, Deletion, DeletionRecords

(* A deletion without a deletion. *)
LEMMA NoDeletionTyped == NoDeletion \in DeletionRecords /\ ~NoDeletion.active
  BY ConfigApiAssumption DEF NoDeletion, DeletionRecords

(* One call of a deletion, and what it leaves. *)
LEMMA CallDeletes ==
    ASSUME ListTyped, NEW d \in 1..MaxDeletions, NEW name \in Names, requestDelete(d, name)
    PROVE  \E kind \in {"entities", "rolesmapping"}, new \in DeletionRecords :
              /\ clusters' = [clusters EXCEPT ![deletions[d].source][kind][name] = Absent]
              /\ deletions' = [deletions EXCEPT ![d] = new]
              /\ new.active = deletions[d].active /\ new.source = deletions[d].source
              /\ new.shown = deletions[d].shown /\ new.chosen = deletions[d].chosen
              /\ new.fresh = deletions[d].fresh
              /\ \/ /\ kind = "entities"
                    /\ \/ /\ panel = "roles" /\ new.todo = deletions[d].todo
                          /\ new.half = {name}
                       \/ /\ panel # "roles" /\ new.todo = deletions[d].todo \ {name}
                          /\ new.half = deletions[d].half
                 \/ /\ kind = "rolesmapping" /\ deletions[d].half = {name}
                    /\ new.todo = deletions[d].todo \ {name} /\ new.half = {}
<1>1. deletions[d] \in DeletionRecords /\ deletions[d].source \in Sources
  BY DEF ListTyped, DeletionRecords
<1>2. \A kind : deleteResource(clusters, deletions[d].source, kind, name)
                   = [clusters EXCEPT ![deletions[d].source][kind][name] = Absent]
  BY <1>1, OwnCluster DEF deleteResource
<1>3. CASE /\ clusters' = deleteResource(clusters, deletions[d].source, "entities", name)
           /\ panel = "roles" /\ deletions' = [deletions EXCEPT ![d].half = {name}]
  <2> DEFINE new == [deletions[d] EXCEPT !.half = {name}]
  <2>1. new \in DeletionRecords /\ deletions' = [deletions EXCEPT ![d] = new]
    BY <1>1, <1>3 DEF ListTyped, DeletionRecords
  <2>2. /\ new.active = deletions[d].active /\ new.source = deletions[d].source
        /\ new.shown = deletions[d].shown /\ new.chosen = deletions[d].chosen
        /\ new.fresh = deletions[d].fresh /\ new.todo = deletions[d].todo
        /\ new.half = {name}
    BY <1>1 DEF DeletionRecords
  <2> HIDE DEF new
  <2> QED BY <1>2, <1>3, <2>1, <2>2
<1>4. CASE /\ clusters' = deleteResource(clusters, deletions[d].source, "entities", name)
           /\ panel # "roles" /\ deletions' = [deletions EXCEPT ![d].todo = @ \ {name}]
  <2> DEFINE new == [deletions[d] EXCEPT !.todo = @ \ {name}]
  <2>1. new \in DeletionRecords /\ deletions' = [deletions EXCEPT ![d] = new]
    BY <1>1, <1>4 DEF ListTyped, DeletionRecords
  <2>2. /\ new.active = deletions[d].active /\ new.source = deletions[d].source
        /\ new.shown = deletions[d].shown /\ new.chosen = deletions[d].chosen
        /\ new.fresh = deletions[d].fresh /\ new.todo = deletions[d].todo \ {name}
        /\ new.half = deletions[d].half
    BY <1>1 DEF DeletionRecords
  <2> HIDE DEF new
  <2> QED BY <1>2, <1>4, <2>1, <2>2
<1>5. CASE /\ clusters' = deleteResource(clusters, deletions[d].source, "rolesmapping", name)
           /\ deletions[d].half = {name}
           /\ deletions' = [deletions EXCEPT ![d].half = {}, ![d].todo = @ \ {name}]
  <2> DEFINE new == [deletions[d] EXCEPT !.half = {}, !.todo = @ \ {name}]
  <2>1. new \in DeletionRecords /\ deletions' = [deletions EXCEPT ![d] = new]
    BY <1>1, <1>5 DEF ListTyped, DeletionRecords
  <2>2. /\ new.active = deletions[d].active /\ new.source = deletions[d].source
        /\ new.shown = deletions[d].shown /\ new.chosen = deletions[d].chosen
        /\ new.fresh = deletions[d].fresh /\ new.todo = deletions[d].todo \ {name}
        /\ new.half = {}
    BY <1>1 DEF DeletionRecords
  <2> HIDE DEF new
  <2> QED BY <1>2, <1>5, <2>1, <2>2
<1> QED BY <1>3, <1>4, <1>5 DEF requestDelete

-----------------------------------------------------------------------------
(* Every list is of its type. *)
LEMMA ListTypedInit == ListInit => ListTyped
<1> SUFFICES ASSUME ListInit
             PROVE  ListTyped
  OBVIOUS
<1>1. loads \in [1..MaxLoads -> LoadRecords]
  BY ConfigApiAssumption DEF ListInit, Load, NoLoad, Stages, LoadRecords
<1>2. deletions \in [1..MaxDeletions -> DeletionRecords]
  BY NoDeletionTyped DEF ListInit
<1>3. clusters \in ClusterStates
  BY DEF ListInit, ClusterStates
<1> QED BY <1>1, <1>2, <1>3, ConfigApiAssumption DEF ListInit, ListTyped

(* A load that begins, and what it does to the deletions. *)
LEMMA LoadBegins ==
    ASSUME ListTyped, NEW s \in Sources, fetchData(s)
    PROVE  /\ loads' \in [1..MaxLoads -> LoadRecords]
           /\ deletions' \in [1..MaxDeletions -> DeletionRecords]
           /\ \A k \in 1..MaxLoads : loads'[k] = loads[k] \/ loads'[k] = Load(s)
           /\ Load(s).source = s /\ Load(s).stage = "list"
<1>1. Load(s) \in LoadRecords /\ Load(s).source = s /\ Load(s).stage = "list"
  BY DEF Load, LoadRecords, Stages
<1>2. loads' = [loads EXCEPT ![Loaded + 1] = Load(s)] /\ deletions' = Stale
  BY DEF fetchData
<1> QED BY <1>1, <1>2, StaleDeletions DEF ListTyped

(* The rows a load leaves. *)
LEMMA NewRowsTyped ==
    ASSUME ListTyped, NEW n \in 1..MaxLoads
    PROVE  /\ NewRows(n) \subseteq Rows
           /\ \A r \in NewRows(n) : r.from = loads[n].source
           /\ \A r, q \in NewRows(n) : r.name = q.name => r = q
<1>1. loads[n].source \in Sources /\ loads[n].got \subseteq Names
  BY DEF ListTyped, LoadRecords
<1>2. \A r \in NewRows(n) : \E name \in loads[n].got : r = Row(name, loads[n].source, n)
  BY DEF NewRows
<1>3. \A name : /\ Row(name, loads[n].source, n).name = name
                /\ Row(name, loads[n].source, n).from = loads[n].source
  BY DEF Row
<1>4. NewRows(n) \subseteq Rows
  BY <1>1, <1>2 DEF Row, Rows
<1> QED BY <1>2, <1>3, <1>4

(* A load that has an end, or another stage, is still a load. *)
LEMMA EndedTyped == Ended \in LoadRecords /\ Ended.stage = "done"
  BY ConfigApiAssumption DEF Ended, NoLoad, LoadRecords, Stages

(* What a step does to a load that goes on, or ends: it keeps its source. *)
LoadOnly(n) ==
    \E new \in LoadRecords :
       /\ loads' = [loads EXCEPT ![n] = new]
       /\ new.stage = "done" \/ new.source = loads[n].source
       /\ new.stage = "settings" => panel = "tenants"
       /\ new.stage \notin {"none", "done"} => n \in InLoading

LEMMA LoadSteps ==
    ASSUME ListTyped, NEW n \in 1..MaxLoads,
           \/ listReceived(n) \/ rowsReceived(n) \/ tenantsReceived(n) \/ settingsReceived(n)
           \/ \E refused \in BOOLEAN : fetchFails(n, refused)
    PROVE  LoadOnly(n) /\ n \in InLoading
<1>1. n \in InLoading
  BY DEF InLoading, listReceived, rowsReceived, tenantsReceived, settingsReceived, fetchFails
<1>2. loads[n] \in LoadRecords
  BY DEF ListTyped
<1>3. CASE listReceived(n)
  <2>1. PICK got \in SUBSET Names :
           loads' = [loads EXCEPT ![n].stage = "rest", ![n].got = got]
    BY <1>3 DEF listReceived, Listed
  <2> DEFINE new == [loads[n] EXCEPT !.stage = "rest", !.got = got]
  <2>2. new \in LoadRecords /\ new.stage = "rest" /\ new.source = loads[n].source
    BY <1>2 DEF LoadRecords, Stages
  <2>3. loads' = [loads EXCEPT ![n] = new]
    BY <2>1 DEF ListTyped
  <2> HIDE DEF new
  <2> QED BY <1>1, <2>2, <2>3 DEF LoadOnly
<1>5. CASE tenantsReceived(n)
  <2>1. loads' = [loads EXCEPT ![n].stage = "settings", ![n].got = {}] /\ panel = "tenants"
    BY <1>5 DEF tenantsReceived
  <2> DEFINE new == [loads[n] EXCEPT !.stage = "settings", !.got = {}]
  <2>2. new \in LoadRecords /\ new.stage = "settings" /\ new.source = loads[n].source
    BY <1>2 DEF LoadRecords, Stages
  <2>3. loads' = [loads EXCEPT ![n] = new]
    BY <2>1 DEF ListTyped
  <2> HIDE DEF new
  <2> QED BY <1>1, <2>1, <2>2, <2>3 DEF LoadOnly
<1>4. CASE loads' = [loads EXCEPT ![n] = Ended]
  BY <1>1, <1>4, EndedTyped DEF LoadOnly
<1> QED
  BY <1>1, <1>3, <1>4, <1>5 DEF rowsReceived, settingsReceived, fetchFails

LEMMA ListTypedNext == ListTyped /\ [ListNext]_listVars => ListTyped'
<1> SUFFICES ASSUME ListTyped, [ListNext]_listVars
             PROVE  ListTyped'
  OBVIOUS
<1> USE DEF page, listHistory
<1>1. ASSUME NEW s \in Sources, setDataSource(s)
      PROVE  ListTyped'
  <2>1. fetchData(s)
    BY <1>1 DEF setDataSource
  <2> QED BY <1>1, <2>1, LoadBegins DEF setDataSource, ListTyped
<1>2. ASSUME NEW n \in 1..MaxLoads,
             \/ listReceived(n) \/ rowsReceived(n) \/ tenantsReceived(n) \/ settingsReceived(n)
             \/ \E refused \in BOOLEAN : fetchFails(n, refused)
      PROVE  ListTyped'
  <2>1. loads' \in [1..MaxLoads -> LoadRecords]
    BY <1>2, LoadSteps, LoadMoves DEF LoadOnly
  <2>2. rows' = rows \/ rows' = NewRows(n)
    BY <1>2 DEF listReceived, rowsReceived, tenantsReceived, settingsReceived, fetchFails
  <2>3. rows' \subseteq Rows
    BY <2>2, NewRowsTyped DEF ListTyped
  <2>4. UNCHANGED <<source, clusters, selection, modal, editing, deletions, saves, gone>>
    BY <1>2 DEF listReceived, rowsReceived, tenantsReceived, settingsReceived, fetchFails
  <2> QED BY <2>1, <2>3, <2>4 DEF ListTyped
<1>3. CASE \E chosen \in SUBSET rows : onSelectionChange(chosen)
  BY <1>3 DEF onSelectionChange, ListTyped
<1>4. CASE showDeleteConfirmModal \/ closeModal
  BY <1>4 DEF showDeleteConfirmModal, closeModal, ListTyped
<1>5. ASSUME NEW d \in 1..MaxDeletions, handleDelete(d)
      PROVE  ListTyped'
  <2>1. deletions' \in [1..MaxDeletions -> DeletionRecords]
    BY <1>5, DeletionBegins, DeletionMoves DEF handleDelete
  <2> QED BY <1>5, <2>1 DEF handleDelete, ListTyped
<1>6. ASSUME NEW d \in 1..MaxDeletions, NEW name \in Names, requestDelete(d, name)
      PROVE  ListTyped'
  <2>1. PICK kind \in {"entities", "rolesmapping"}, new \in DeletionRecords :
           /\ clusters' = [clusters EXCEPT ![deletions[d].source][kind][name] = Absent]
           /\ deletions' = [deletions EXCEPT ![d] = new]
    BY <1>6, CallDeletes
  <2>2. deletions' \in [1..MaxDeletions -> DeletionRecords]
    BY <2>1, DeletionMoves
  <2>3. clusters' \in ClusterStates
    BY <2>1 DEF ListTyped, ClusterStates
  <2> QED BY <1>6, <2>2, <2>3 DEF requestDelete, ListTyped
<1>7. ASSUME NEW d \in 1..MaxDeletions, deleted(d)
      PROVE  ListTyped'
  <2>1. deletions' \in [1..MaxDeletions -> DeletionRecords]
    BY <1>7, NoDeletionTyped, DeletionMoves DEF deleted
  <2>2. /\ deletions[d].shown \subseteq Rows /\ deletions[d].chosen \subseteq Rows
        /\ deletions[d].source \in Sources
    BY DEF ListTyped, DeletionRecords
  <2>3. {<<deletions[d].source, r.name>> : r \in deletions[d].chosen} \subseteq Sources \X Names
    BY <2>2 DEF Rows
  <2>4. gone' \subseteq Sources \X Names
    BY <1>7, <2>3 DEF deleted, ListTyped
  <2> QED BY <1>7, <2>1, <2>2, <2>4 DEF deleted, confirmCloses, ListTyped
<1>8. ASSUME NEW d \in 1..MaxDeletions, deleteFails(d)
      PROVE  ListTyped'
  <2>1. deletions' \in [1..MaxDeletions -> DeletionRecords]
    BY <1>8, NoDeletionTyped, DeletionMoves DEF deleteFails
  <2> QED BY <1>8, <2>1 DEF deleteFails, confirmCloses, ListTyped
<1>9. CASE \E name \in Names : showEditModal(name)
  BY <1>9 DEF showEditModal, ListTyped
<1>10. CASE handleSave
  BY <1>10 DEF handleSave, ListTyped
<1>11. ASSUME NEW s \in Sources, NEW name \in Names, saveEnded(s, name)
       PROVE  ListTyped'
  <2>1. fetchData(s) /\ clusters' = [clusters EXCEPT ![s]["entities"][name] = "there"]
    BY <1>11, OwnCluster DEF saveEnded, saveResource
  <2>2. clusters' \in ClusterStates
    BY <2>1 DEF ListTyped, ClusterStates
  <2> QED BY <1>11, <2>1, <2>2, LoadBegins DEF saveEnded, ListTyped
<1>12. ASSUME NEW s \in Sources, NEW name \in Names, handleSaveFails(s, name)
       PROVE  ListTyped'
  BY <1>12 DEF handleSaveFails, ListTyped
<1>13. ASSUME NEW s \in Sources, NEW name \in Names, OtherAdmin(s, name)
       PROVE  ListTyped'
  <2>1. clusters' \in ClusterStates
    BY <1>13 DEF OtherAdmin, ListTyped, ClusterStates
  <2> QED BY <1>13, <2>1, StaleDeletions DEF OtherAdmin, ListTyped
<1>14. CASE UNCHANGED listVars
  BY <1>14 DEF listVars, ListTyped
<1>15. ASSUME NEW d \in 1..MaxDeletions,
              \/ handleDelete(d) \/ deleted(d) \/ deleteFails(d)
              \/ \E name \in Names : requestDelete(d, name)
       PROVE  ListTyped'
  BY <1>5, <1>6, <1>7, <1>8, <1>15
<1>16. ASSUME NEW s \in Sources, NEW name \in Names,
              saveEnded(s, name) \/ handleSaveFails(s, name) \/ OtherAdmin(s, name)
       PROVE  ListTyped'
  BY <1>11, <1>12, <1>13, <1>16
<1>17. CASE ListNext
  BY <1>1, <1>2, <1>3, <1>4, <1>9, <1>10, <1>15, <1>16, <1>17 DEF ListNext
<1> QED BY <1>14, <1>17

THEOREM ListTypeCorrect == ListSpec => []ListTyped
  BY ListTypedInit, ListTypedNext, PTL DEF ListSpec

-----------------------------------------------------------------------------
(* Careful users.  Everything under way is of the data source chosen.  Where rows   *)
(* of another source may be in the page, the table is not shown and nothing is      *)
(* selected.                                                                 *)
FromSource(set) == \A r \in set : r.from = source

(* Only the tenants have settings to wait for. *)
LoadsFromSource ==
    \A n \in InLoading :
        /\ loads[n].source = source
        /\ loads[n].stage = "settings" => panel = "tenants"

CallsFromSource ==
    /\ \A d \in InDeletion :
          /\ deletions[d].source = source
          /\ FromSource(deletions[d].shown) /\ FromSource(deletions[d].chosen)
    /\ \A call \in saves : call[1] = source

RowsFromSource ==
    /\ FromSource(selection)
    /\ ~loading /\ ~errorFlag => FromSource(rows)
    /\ panel = "tenants" => FromSource(rows)
    /\ selection # {} => FromSource(rows)
    /\ modal = "confirm" => selection # {}

SourceInv == careful => LoadsFromSource /\ CallsFromSource /\ RowsFromSource

LEMMA SourceInvInit == ListInit => SourceInv
<1> SUFFICES ASSUME ListInit
             PROVE  SourceInv
  OBVIOUS
<1>1. LoadsFromSource
  BY DEF ListInit, LoadsFromSource, InLoading, Load, NoLoad
<1>2. CallsFromSource
  BY DEF ListInit, CallsFromSource, InDeletion, NoDeletion
<1>3. RowsFromSource
  BY DEF ListInit, RowsFromSource, FromSource
<1> QED BY <1>1, <1>2, <1>3 DEF SourceInv

(* Loads that begin are of the data source they are begun for. *)
LEMMA BegunFromSource ==
    ASSUME ListTyped, NEW s \in Sources, fetchData(s), source' = s, panel' = panel,
           InLoading = {} \/ (LoadsFromSource /\ source = s)
    PROVE  LoadsFromSource'
<1>1. /\ \A k \in 1..MaxLoads : loads'[k] = loads[k] \/ loads'[k] = Load(s)
      /\ Load(s).source = s /\ Load(s).stage = "list"
  BY LoadBegins
<1> SUFFICES ASSUME NEW k \in InLoading'
             PROVE  loads'[k].source = s /\ (loads'[k].stage = "settings" => panel = "tenants")
  BY DEF LoadsFromSource
<1>2. CASE loads'[k] = Load(s)
  BY <1>1, <1>2
<1>3. CASE loads'[k] = loads[k]
  <2>1. k \in InLoading
    BY <1>3 DEF InLoading
  <2> QED BY <1>3, <2>1 DEF LoadsFromSource
<1> QED BY <1>1, <1>2, <1>3 DEF InLoading

(* So are those that go on. *)
LEMMA GoesOnFromSource ==
    ASSUME ListTyped, LoadsFromSource, NEW n \in 1..MaxLoads, n \in InLoading, LoadOnly(n),
           UNCHANGED <<source, panel>>
    PROVE  LoadsFromSource'
<1>1. PICK new \in LoadRecords :
         /\ loads' = [loads EXCEPT ![n] = new]
         /\ new.stage = "done" \/ new.source = loads[n].source
         /\ new.stage = "settings" => panel = "tenants"
  BY DEF LoadOnly
<1>2. loads'[n] = new /\ \A k \in 1..MaxLoads : k # n => loads'[k] = loads[k]
  BY <1>1, LoadMoves
<1> SUFFICES ASSUME NEW k \in InLoading'
             PROVE  /\ loads'[k].source = source
                    /\ loads'[k].stage = "settings" => panel = "tenants"
  BY DEF LoadsFromSource
<1>3. CASE k = n
  BY <1>1, <1>2, <1>3 DEF InLoading, LoadsFromSource
<1>4. CASE k # n
  <2>1. k \in InLoading /\ loads'[k] = loads[k]
    BY <1>2, <1>4 DEF InLoading
  <2> QED BY <2>1 DEF LoadsFromSource
<1> QED BY <1>3, <1>4

(* Deletions that are stale, or as they were, are of the source they were of. *)
LEMMA StaleFromSource ==
    ASSUME ListTyped, CallsFromSource, deletions' = Stale \/ UNCHANGED deletions,
           saves' \subseteq saves, UNCHANGED source
    PROVE  CallsFromSource'
<1>1. CASE deletions' = Stale
  <2>1. /\ \A d \in 1..MaxDeletions :
              /\ deletions'[d].source = deletions[d].source
              /\ deletions'[d].shown = deletions[d].shown
              /\ deletions'[d].chosen = deletions[d].chosen
        /\ InDeletion' = InDeletion
    BY <1>1, StaleDeletions
  <2> QED BY <2>1 DEF CallsFromSource, FromSource, InDeletion
<1>2. CASE UNCHANGED deletions
  BY <1>2 DEF CallsFromSource, FromSource, InDeletion
<1> QED BY <1>1, <1>2

(* What one deletion becomes, with the others as they were. *)
LEMMA DeletionFromSource ==
    ASSUME ListTyped, CallsFromSource, NEW d \in 1..MaxDeletions, NEW new \in DeletionRecords,
           deletions' = [deletions EXCEPT ![d] = new], UNCHANGED <<saves, source>>,
           new.active => /\ new.source = source /\ FromSource(new.shown)
                         /\ FromSource(new.chosen)
    PROVE  CallsFromSource'
<1>1. deletions'[d] = new /\ \A e \in 1..MaxDeletions : e # d => deletions'[e] = deletions[e]
  BY DeletionMoves
<1>2. ASSUME NEW e \in InDeletion'
      PROVE  /\ deletions'[e].source = source
             /\ FromSource(deletions'[e].shown) /\ FromSource(deletions'[e].chosen)
  <2>1. CASE e = d
    BY <1>1, <1>2, <2>1 DEF InDeletion
  <2>2. CASE e # d
    <3>1. e \in InDeletion /\ deletions'[e] = deletions[e]
      BY <1>1, <1>2, <2>2 DEF InDeletion
    <3> QED BY <3>1 DEF CallsFromSource
  <2> QED BY <2>1, <2>2
<1> QED BY <1>2 DEF CallsFromSource, FromSource

LEMMA SourceInvNext ==
    ASSUME ListTyped, SourceInv, [ListNext]_listVars
    PROVE  SourceInv'
<1> USE DEF page, listHistory
<1>1. ASSUME NEW s \in Sources, setDataSource(s), careful'
      PROVE  LoadsFromSource' /\ CallsFromSource' /\ RowsFromSource'
  <2>1. /\ source' = s /\ panel' = panel /\ fetchData(s) /\ loading' = TRUE
        /\ deletions' = Stale
    BY <1>1 DEF setDataSource, fetchData
  <2>2. InLoading = {} /\ selection = {} /\ InDeletion = {} /\ saves = {} /\ careful
    BY <1>1 DEF setDataSource
  <2>3. LoadsFromSource'
    BY <2>1, <2>2, BegunFromSource
  <2>4. InDeletion' = {} /\ saves' = {}
    BY <1>1, <2>1, <2>2, StaleDeletions DEF setDataSource
  <2>5. RowsFromSource'
    BY <1>1, <2>1, <2>2 DEF setDataSource, SourceInv, RowsFromSource, FromSource
  <2> QED BY <2>3, <2>4, <2>5 DEF CallsFromSource
<1>2. ASSUME ~(\E s \in Sources : setDataSource(s))
      PROVE  source' = source /\ panel' = panel /\ careful' = careful
  BY <1>2 DEF ListNext, listReceived, rowsReceived, tenantsReceived, settingsReceived,
     fetchFails, onSelectionChange, showDeleteConfirmModal, closeModal, handleDelete,
     requestDelete, deleted, deleteFails, showEditModal, handleSave, saveEnded, handleSaveFails,
     OtherAdmin, listVars
<1> SUFFICES ASSUME ~(\E s \in Sources : setDataSource(s)), careful
             PROVE  LoadsFromSource' /\ CallsFromSource' /\ RowsFromSource'
  BY <1>1, <1>2 DEF SourceInv
<1>3. source' = source /\ panel' = panel
  BY <1>2
<1>4. LoadsFromSource /\ CallsFromSource /\ RowsFromSource
  BY DEF SourceInv
<1>5. ASSUME UNCHANGED loads
      PROVE  LoadsFromSource'
  BY <1>3, <1>4, <1>5 DEF LoadsFromSource, InLoading
<1>6. ASSUME UNCHANGED <<deletions, saves>>
      PROVE  CallsFromSource'
  BY <1>3, <1>4, <1>6 DEF CallsFromSource, FromSource, InDeletion
<1>7. ASSUME UNCHANGED <<loading, errorFlag, rows, selection>>, modal' \in {modal, "closed", "edit"}
      PROVE  RowsFromSource'
  BY <1>3, <1>4, <1>7 DEF RowsFromSource, FromSource
<1>8. ASSUME NEW n \in 1..MaxLoads,
             \/ listReceived(n) \/ rowsReceived(n) \/ tenantsReceived(n) \/ settingsReceived(n)
             \/ \E refused \in BOOLEAN : fetchFails(n, refused)
      PROVE  LoadsFromSource' /\ CallsFromSource' /\ RowsFromSource'
  <2>1. LoadOnly(n) /\ n \in InLoading
    BY <1>8, LoadSteps
  <2>2. LoadsFromSource' /\ loads[n].source = source
    BY <1>3, <1>4, <2>1, GoesOnFromSource DEF LoadsFromSource
  <2>3. CallsFromSource'
    BY <1>6, <1>8 DEF listReceived, rowsReceived, tenantsReceived, settingsReceived,
          fetchFails
  <2>4. FromSource(NewRows(n))
    BY <2>2, NewRowsTyped DEF FromSource
  <2>5. RowsFromSource'
    <3>1. CASE listReceived(n)
      BY <1>7, <3>1 DEF listReceived
    <3>2. CASE rowsReceived(n) \/ tenantsReceived(n)
      BY <1>3, <1>4, <2>4, <3>2 DEF rowsReceived, tenantsReceived, RowsFromSource, FromSource
    <3>3. CASE settingsReceived(n)
      <4>1. panel = "tenants"
        BY <1>4, <2>1, <3>3 DEF settingsReceived, LoadsFromSource
      <4> QED BY <1>3, <1>4, <3>3, <4>1 DEF settingsReceived, RowsFromSource, FromSource
    <3>4. CASE \E refused \in BOOLEAN : fetchFails(n, refused)
      BY <1>3, <1>4, <3>4 DEF fetchFails, RowsFromSource, FromSource
    <3> QED BY <1>8, <3>1, <3>2, <3>3, <3>4
  <2> QED BY <2>2, <2>3, <2>5
<1>9. CASE \E chosen \in SUBSET rows : onSelectionChange(chosen)
  <2>1. RowsFromSource'
    BY <1>3, <1>4, <1>9
       DEF onSelectionChange, TableShown, MenuShown, RowsFromSource, FromSource
  <2> QED BY <1>5, <1>6, <1>9, <2>1 DEF onSelectionChange
<1>10. CASE showDeleteConfirmModal \/ closeModal
  <2>1. RowsFromSource'
    BY <1>3, <1>4, <1>10
       DEF showDeleteConfirmModal, closeModal, deleteDisabled, RowsFromSource, FromSource
  <2> QED BY <1>5, <1>6, <1>10, <2>1 DEF showDeleteConfirmModal, closeModal
<1>11. ASSUME NEW d \in 1..MaxDeletions, handleDelete(d)
       PROVE  LoadsFromSource' /\ CallsFromSource' /\ RowsFromSource'
  <2>1. /\ Deletion \in DeletionRecords
        /\ Deletion.source = source /\ Deletion.shown = rows /\ Deletion.chosen = selection
    BY DeletionBegins
  <2>2. FromSource(rows) /\ FromSource(selection)
    BY <1>4, <1>11 DEF handleDelete, RowsFromSource
  <2>3. CallsFromSource'
    BY <1>3, <1>4, <1>11, <2>1, <2>2, DeletionFromSource DEF handleDelete
  <2> QED BY <1>5, <1>7, <1>11, <2>3 DEF handleDelete
<1>12. ASSUME NEW d \in 1..MaxDeletions, NEW name \in Names, requestDelete(d, name)
       PROVE  LoadsFromSource' /\ CallsFromSource' /\ RowsFromSource'
  <2>1. PICK new \in DeletionRecords :
           /\ deletions' = [deletions EXCEPT ![d] = new]
           /\ new.active = deletions[d].active /\ new.source = deletions[d].source
           /\ new.shown = deletions[d].shown /\ new.chosen = deletions[d].chosen
    BY <1>12, CallDeletes
  <2>2. new.active => /\ new.source = source /\ FromSource(new.shown)
                      /\ FromSource(new.chosen)
    BY <1>4, <2>1 DEF CallsFromSource, InDeletion
  <2>3. CallsFromSource'
    BY <1>3, <1>4, <1>12, <2>1, <2>2, DeletionFromSource DEF requestDelete
  <2> QED BY <1>5, <1>7, <1>12, <2>3 DEF requestDelete
<1>13. ASSUME NEW d \in 1..MaxDeletions, deleted(d) \/ deleteFails(d)
       PROVE  LoadsFromSource' /\ CallsFromSource' /\ RowsFromSource'
  <2>1. deletions' = [deletions EXCEPT ![d] = NoDeletion] /\ UNCHANGED <<loads, saves>>
    BY <1>13 DEF deleted, deleteFails
  <2>2. CallsFromSource'
    BY <1>3, <1>4, <2>1, NoDeletionTyped, DeletionFromSource
  <2>3. CASE deleted(d)
    <3>1. FromSource(deletions[d].shown)
      BY <1>4, <2>3 DEF deleted, CallsFromSource
    <3>2. /\ rows' \subseteq deletions[d].shown /\ selection' = {} /\ modal' # "confirm"
          /\ UNCHANGED <<loading, errorFlag>>
      BY <2>3 DEF deleted, confirmCloses
    <3>3. RowsFromSource'
      BY <1>3, <3>1, <3>2 DEF RowsFromSource, FromSource
    <3> QED BY <1>5, <2>1, <2>2, <3>3
  <2>4. CASE deleteFails(d)
    BY <1>5, <1>7, <2>1, <2>2, <2>4 DEF deleteFails, confirmCloses
  <2> QED BY <1>13, <2>3, <2>4
<1>14. CASE \E name \in Names : showEditModal(name)
  BY <1>5, <1>6, <1>7, <1>14 DEF showEditModal
<1>15. CASE handleSave
  <2>1. CallsFromSource'
    BY <1>3, <1>4, <1>15 DEF handleSave, CallsFromSource, FromSource, InDeletion
  <2> QED BY <1>5, <1>7, <1>15, <2>1 DEF handleSave
<1>16. ASSUME NEW s \in Sources, NEW name \in Names, saveEnded(s, name)
       PROVE  LoadsFromSource' /\ CallsFromSource' /\ RowsFromSource'
  <2>1. s = source /\ fetchData(s) /\ deletions' = Stale /\ saves' \subseteq saves
    BY <1>4, <1>16 DEF saveEnded, fetchData, CallsFromSource
  <2>2. LoadsFromSource'
    BY <1>3, <1>4, <2>1, BegunFromSource
  <2>3. CallsFromSource'
    BY <1>3, <1>4, <2>1, StaleFromSource
  <2>4. RowsFromSource'
    BY <1>3, <1>4, <1>16 DEF saveEnded, fetchData, RowsFromSource, FromSource
  <2> QED BY <2>2, <2>3, <2>4
<1>17. ASSUME NEW s \in Sources, NEW name \in Names,
              handleSaveFails(s, name) \/ OtherAdmin(s, name)
       PROVE  LoadsFromSource' /\ CallsFromSource' /\ RowsFromSource'
  <2>1. /\ deletions' = Stale \/ UNCHANGED deletions
        /\ saves' \subseteq saves /\ UNCHANGED <<loads, loading, errorFlag, rows, selection>>
        /\ modal' \in {modal, "closed"}
    BY <1>17 DEF handleSaveFails, OtherAdmin
  <2>2. CallsFromSource'
    BY <1>3, <1>4, <2>1, StaleFromSource
  <2> QED BY <1>5, <1>7, <2>1, <2>2
<1>18. CASE UNCHANGED listVars
  BY <1>5, <1>6, <1>7, <1>18 DEF listVars
<1>19. ASSUME NEW d \in 1..MaxDeletions,
              \/ handleDelete(d) \/ deleted(d) \/ deleteFails(d)
              \/ \E name \in Names : requestDelete(d, name)
       PROVE  LoadsFromSource' /\ CallsFromSource' /\ RowsFromSource'
  BY <1>11, <1>12, <1>13, <1>19
<1>20. ASSUME NEW s \in Sources, NEW name \in Names,
              saveEnded(s, name) \/ handleSaveFails(s, name) \/ OtherAdmin(s, name)
       PROVE  LoadsFromSource' /\ CallsFromSource' /\ RowsFromSource'
  BY <1>16, <1>17, <1>20
<1> QED BY <1>8, <1>9, <1>10, <1>14, <1>15, <1>18, <1>19, <1>20 DEF ListNext

(* The lists delete rows from the source they were selected from, however their    *)
(* loads, dialogs, deletions, saves and failures meet, while the source is changed  *)
(* with nothing selected or under way.                                         *)
THEOREM ListDeletesSelected == ListSpec => []DeletesWhatWasSelected
<1>1. ListTyped /\ SourceInv /\ [ListNext]_listVars => SourceInv'
  BY SourceInvNext
<1>2. SourceInv => DeletesWhatWasSelected
  BY DEF SourceInv, CallsFromSource, FromSource, DeletesWhatWasSelected
<1> QED BY <1>1, <1>2, SourceInvInit, ListTypeCorrect, PTL DEF ListSpec

-----------------------------------------------------------------------------
(* What a deletion claims is gone: the entity, for a role with its mapping, is      *)
(* absent, as every deletion that counts has left it so far.                    *)
IsGone(s, name) ==
    /\ clusters[s]["entities"][name] = Absent
    /\ panel = "roles" => clusters[s]["rolesmapping"][name] = Absent

Progress(d) ==
    deletions[d].active /\ deletions[d].fresh =>
        /\ \A r \in deletions[d].chosen :
              r.name \in deletions[d].todo \/ IsGone(deletions[d].source, r.name)
        /\ \A name \in deletions[d].half :
              clusters[deletions[d].source]["entities"][name] = Absent

GoneInv ==
    /\ \A g \in gone : IsGone(g[1], g[2])
    /\ \A d \in 1..MaxDeletions : Progress(d)

LEMMA GoneInvInit == ListInit => GoneInv
  BY DEF ListInit, GoneInv, Progress, NoDeletion

(* Steps that leave the clusters, what is gone and the deletions alone, or count   *)
(* fewer of them.                                                            *)
LEMMA GoneFrame ==
    ASSUME ListTyped, GoneInv, UNCHANGED <<panel, clusters, gone>>,
           deletions' = Stale \/ UNCHANGED deletions
    PROVE  GoneInv'
<1>1. \A s, name : IsGone(s, name)' <=> IsGone(s, name)
  BY DEF IsGone
<1>2. \A d \in 1..MaxDeletions : Progress(d)'
  <2>1. CASE deletions' = Stale
    BY <2>1, StaleDeletions DEF Progress
  <2>2. CASE UNCHANGED deletions
    BY <1>1, <2>2 DEF GoneInv, Progress
  <2> QED BY <2>1, <2>2
<1> QED BY <1>1, <1>2 DEF GoneInv

(* An entity or a mapping comes back, or is changed by somebody else: it is not      *)
(* counted as gone, and no deletion under way counts.                           *)
LEMMA SomebodyElse ==
    ASSUME ListTyped, GoneInv, UNCHANGED panel,
           NEW s \in Sources, NEW name \in Names, NEW kind \in {"entities", "rolesmapping"},
           NEW value, clusters' = [clusters EXCEPT ![s][kind][name] = value],
           gone' = gone \ {<<s, name>>}, deletions' = Stale
    PROVE  GoneInv'
<1>1. \A d \in 1..MaxDeletions : Progress(d)'
  BY StaleDeletions DEF Progress
<1> SUFFICES ASSUME NEW g \in gone'
             PROVE  IsGone(g[1], g[2])'
  BY <1>1 DEF GoneInv
<1>2. /\ g \in gone /\ g \in Sources \X Names /\ (g[1] # s \/ g[2] # name)
      /\ IsGone(g[1], g[2])
  BY DEF ListTyped, GoneInv
<1> QED BY <1>2 DEF ListTyped, ClusterStates, IsGone

LEMMA GoneInvNext ==
    ASSUME ListTyped, GoneInv, [ListNext]_listVars
    PROVE  GoneInv'
<1> USE DEF page, listHistory
<1>1. ASSUME NEW d \in 1..MaxDeletions, handleDelete(d)
      PROVE  GoneInv'
  <2>1. /\ deletions' = [deletions EXCEPT ![d] = Deletion]
        /\ UNCHANGED <<panel, clusters, gone>>
    BY <1>1 DEF handleDelete
  <2>2. /\ Deletion \in DeletionRecords /\ Deletion.chosen = selection
        /\ Deletion.todo = {r.name : r \in selection} /\ Deletion.half = {}
    BY DeletionBegins
  <2>3. deletions'[d] = Deletion /\ \A e \in 1..MaxDeletions : e # d => deletions'[e] = deletions[e]
    BY <2>1, <2>2, DeletionMoves
  <2>4. \A e \in 1..MaxDeletions : Progress(e)'
    BY <2>1, <2>2, <2>3 DEF GoneInv, Progress, IsGone
  <2> QED BY <2>1, <2>4 DEF GoneInv, IsGone
<1>2. ASSUME NEW d \in 1..MaxDeletions, NEW name \in Names, requestDelete(d, name)
      PROVE  GoneInv'
  <2>1. PICK kind \in {"entities", "rolesmapping"}, new \in DeletionRecords :
           /\ clusters' = [clusters EXCEPT ![deletions[d].source][kind][name] = Absent]
           /\ deletions' = [deletions EXCEPT ![d] = new]
           /\ new.active = deletions[d].active /\ new.source = deletions[d].source
           /\ new.shown = deletions[d].shown /\ new.chosen = deletions[d].chosen
           /\ new.fresh = deletions[d].fresh
           /\ \/ /\ kind = "entities"
                 /\ \/ /\ panel = "roles" /\ new.todo = deletions[d].todo
                       /\ new.half = {name}
                    \/ /\ panel # "roles" /\ new.todo = deletions[d].todo \ {name}
                       /\ new.half = deletions[d].half
              \/ /\ kind = "rolesmapping" /\ deletions[d].half = {name}
                 /\ new.todo = deletions[d].todo \ {name} /\ new.half = {}
    BY <1>2, CallDeletes
  <2>2. UNCHANGED <<panel, gone>>
    BY <1>2 DEF requestDelete
  <2>3. deletions'[d] = new /\ \A e \in 1..MaxDeletions : e # d => deletions'[e] = deletions[e]
    BY <2>1, DeletionMoves
  <2>4. \A e \in 1..MaxDeletions :
           deletions[e].source \in Sources /\ \A r \in deletions[e].chosen : r.name \in Names
    BY DEF ListTyped, DeletionRecords, Rows
  <2>5. \A s \in Sources, other \in Names :
           clusters[s]["entities"][other] = Absent => clusters'[s]["entities"][other] = Absent
    BY <2>1 DEF ListTyped, ClusterStates
  <2>6. \A s \in Sources, other \in Names : IsGone(s, other) => IsGone(s, other)'
    BY <2>1, <2>2 DEF ListTyped, ClusterStates, IsGone
  <2>7. \A g \in gone' : IsGone(g[1], g[2])'
    BY <2>2, <2>6 DEF GoneInv, ListTyped
  <2>8. ASSUME NEW e \in 1..MaxDeletions, e # d
        PROVE  Progress(e)'
    <3>1. deletions'[e] = deletions[e] /\ Progress(e) /\ deletions[e].half \subseteq Names
      BY <2>3, <2>8 DEF GoneInv, ListTyped, DeletionRecords
    <3> QED BY <2>4, <2>5, <2>6, <3>1 DEF Progress
  <2>9. Progress(d)'
    <3> SUFFICES ASSUME deletions[d].active, deletions[d].fresh
                 PROVE  /\ \A r \in new.chosen :
                              r.name \in new.todo \/ IsGone(new.source, r.name)'
                        /\ \A other \in new.half :
                              clusters'[new.source]["entities"][other] = Absent
      BY <2>1, <2>3 DEF Progress
    <3>1. /\ \A r \in new.chosen :
                r.name \in deletions[d].todo \/ IsGone(new.source, r.name)
          /\ \A other \in deletions[d].half :
                clusters[new.source]["entities"][other] = Absent
      BY <2>1 DEF GoneInv, Progress
    <3>2. clusters'[new.source][kind][name] = Absent
      BY <2>1, <2>4 DEF ListTyped, ClusterStates
    <3>3. deletions[d].half \subseteq Names
      BY DEF ListTyped, DeletionRecords
    <3>4. \A other \in new.half : clusters'[new.source]["entities"][other] = Absent
      BY <2>1, <2>4, <2>5, <3>1, <3>2, <3>3
    <3>5. new.todo = deletions[d].todo
             \/ (new.todo = deletions[d].todo \ {name} /\ IsGone(new.source, name)')
      <4>1. CASE kind = "entities"
        BY <2>1, <2>2, <3>2, <4>1 DEF IsGone
      <4>2. CASE kind = "rolesmapping"
        <5>1. new.todo = deletions[d].todo \ {name} /\ deletions[d].half = {name}
          BY <2>1, <4>2
        <5>2. clusters'[new.source]["entities"][name] = Absent
          BY <2>1, <2>4, <2>5, <3>1, <5>1
        <5> QED BY <3>2, <4>2, <5>1, <5>2 DEF IsGone
      <4> QED BY <4>1, <4>2
    <3>6. \A r \in new.chosen : r.name \in new.todo \/ IsGone(new.source, r.name)'
      BY <2>1, <2>4, <2>6, <3>1, <3>5
    <3> QED BY <3>4, <3>6
  <2> QED BY <2>7, <2>8, <2>9 DEF GoneInv
<1>3. ASSUME NEW d \in 1..MaxDeletions, deleted(d) \/ deleteFails(d)
      PROVE  GoneInv'
  <2>1. deletions' = [deletions EXCEPT ![d] = NoDeletion] /\ UNCHANGED <<panel, clusters>>
    BY <1>3 DEF deleted, deleteFails
  <2>2. \A s, name : IsGone(s, name)' <=> IsGone(s, name)
    BY <2>1 DEF IsGone
  <2>3. /\ ~deletions'[d].active
        /\ \A e \in 1..MaxDeletions : e # d => deletions'[e] = deletions[e]
    BY <2>1, NoDeletionTyped, DeletionMoves
  <2>4. \A e \in 1..MaxDeletions : Progress(e)'
    BY <2>1, <2>2, <2>3 DEF GoneInv, Progress
  <2>5. ASSUME NEW g \in gone'
        PROVE  IsGone(g[1], g[2])
    <3>1. CASE g \in gone
      BY <3>1 DEF GoneInv
    <3>2. CASE g \notin gone
      <4>1. /\ deletions[d].active /\ deletions[d].fresh /\ deletions[d].todo = {}
            /\ \E r \in deletions[d].chosen : g = <<deletions[d].source, r.name>>
        BY <1>3, <2>5, <3>2 DEF deleted, deleteFails, InDeletion
      <4> QED BY <4>1 DEF GoneInv, Progress
    <3> QED BY <3>1, <3>2
  <2> QED BY <2>2, <2>4, <2>5 DEF GoneInv
<1>4. ASSUME NEW s \in Sources, NEW name \in Names, saveEnded(s, name)
      PROVE  GoneInv'
  <2>1. /\ clusters' = [clusters EXCEPT ![s]["entities"][name] = "there"]
        /\ gone' = gone \ {<<s, name>>} /\ deletions' = Stale /\ UNCHANGED panel
    BY <1>4, OwnCluster DEF saveEnded, saveResource, fetchData
  <2> QED BY <2>1, SomebodyElse
<1>5. ASSUME NEW s \in Sources, NEW name \in Names, OtherAdmin(s, name)
      PROVE  GoneInv'
  <2>1. PICK kind \in {"entities", "rolesmapping"}, value \in {"there", Absent} :
           clusters' = [clusters EXCEPT ![s][kind][name] = value]
    BY <1>5 DEF OtherAdmin
  <2>2. gone' = gone \ {<<s, name>>} /\ deletions' = Stale /\ UNCHANGED panel
    BY <1>5 DEF OtherAdmin
  <2> QED BY <2>1, <2>2, SomebodyElse
<1>6. ASSUME UNCHANGED <<panel, clusters, gone>>, deletions' = Stale \/ UNCHANGED deletions
      PROVE  GoneInv'
  BY <1>6, GoneFrame
<1>7. ASSUME NEW s \in Sources, setDataSource(s)
      PROVE  GoneInv'
  BY <1>6, <1>7 DEF setDataSource, fetchData
<1>8. ASSUME NEW n \in 1..MaxLoads,
             \/ listReceived(n) \/ rowsReceived(n) \/ tenantsReceived(n) \/ settingsReceived(n)
             \/ \E refused \in BOOLEAN : fetchFails(n, refused)
      PROVE  GoneInv'
  BY <1>6, <1>8 DEF listReceived, rowsReceived, tenantsReceived, settingsReceived, fetchFails
<1>9. CASE \/ \E chosen \in SUBSET rows : onSelectionChange(chosen)
           \/ showDeleteConfirmModal \/ closeModal \/ handleSave
           \/ \E name \in Names : showEditModal(name)
  BY <1>6, <1>9
     DEF onSelectionChange, showDeleteConfirmModal, closeModal, handleSave, showEditModal
<1>10. ASSUME NEW s \in Sources, NEW name \in Names, handleSaveFails(s, name)
       PROVE  GoneInv'
  BY <1>6, <1>10 DEF handleSaveFails
<1>11. CASE UNCHANGED listVars
  BY <1>6, <1>11 DEF listVars
<1>12. ASSUME NEW d \in 1..MaxDeletions,
              \/ handleDelete(d) \/ deleted(d) \/ deleteFails(d)
              \/ \E name \in Names : requestDelete(d, name)
       PROVE  GoneInv'
  BY <1>1, <1>2, <1>3, <1>12
<1>13. ASSUME NEW s \in Sources, NEW name \in Names,
              saveEnded(s, name) \/ handleSaveFails(s, name) \/ OtherAdmin(s, name)
       PROVE  GoneInv'
  BY <1>4, <1>5, <1>10, <1>13
<1> QED BY <1>7, <1>8, <1>9, <1>11, <1>12, <1>13 DEF ListNext

-----------------------------------------------------------------------------
(* What the page has dropped.  Two rows of a page never have the same name, so      *)
(* dropping the rows that were selected drops every row of what was deleted; what   *)
(* was dropped counts until the next load begins; and with one deletion at a time   *)
(* the rows it goes back to are without it.                                     *)
OneRowEach(set) == \A r, q \in set : r.name = q.name => r = q
ShowsNoneDropped(set) == \A r \in set : <<r.from, r.name>> \notin dropped

DroppedInv ==
    /\ OneRowEach(rows) /\ \A d \in InDeletion : OneRowEach(deletions[d].shown)
    /\ dropped # {} => InLoading = {}
    /\ \A d \in InDeletion : deletions[d].fresh => InLoading = {}
                                /\ deletions[d].chosen \subseteq deletions[d].shown
    /\ single => /\ ShowsNoneDropped(rows)
                 /\ \A d \in InDeletion : ShowsNoneDropped(deletions[d].shown)
                 /\ \A d, e \in InDeletion : d = e

LEMMA DroppedInvInit == ListInit => DroppedInv
  BY DEF ListInit, DroppedInv, InDeletion, NoDeletion, OneRowEach, ShowsNoneDropped

(* A load begins: nothing counts. *)
LEMMA NothingCounts ==
    ASSUME ListTyped, DroppedInv, deletions' = Stale, dropped' = {}, UNCHANGED <<rows, single>>
    PROVE  DroppedInv'
<1>1. /\ InDeletion' = InDeletion
      /\ \A d \in 1..MaxDeletions :
            ~deletions'[d].fresh /\ deletions'[d].shown = deletions[d].shown
  BY StaleDeletions
<1>2. InDeletion \subseteq 1..MaxDeletions
  BY DEF InDeletion
<1> QED BY <1>1, <1>2 DEF DroppedInv, OneRowEach, ShowsNoneDropped

(* A load goes on or ends: nothing had been counted since it began. *)
LEMMA LoadDropsNone ==
    ASSUME ListTyped, DroppedInv, NEW n \in 1..MaxLoads, n \in InLoading, OneRowEach(rows'),
           UNCHANGED <<deletions, single, dropped>>
    PROVE  DroppedInv'
<1>1. dropped = {} /\ \A d \in InDeletion : ~deletions[d].fresh
  BY DEF DroppedInv
<1> QED BY <1>1 DEF DroppedInv, OneRowEach, ShowsNoneDropped, InDeletion

LEMMA DroppedInvNext ==
    ASSUME ListTyped, DroppedInv, [ListNext]_listVars
    PROVE  DroppedInv'
<1> USE DEF page, listHistory
<1>1. ASSUME UNCHANGED <<rows, loads, deletions, single, dropped>>
      PROVE  DroppedInv'
  BY <1>1 DEF DroppedInv, OneRowEach, ShowsNoneDropped, InDeletion, InLoading
<1>2. ASSUME NEW s \in Sources, setDataSource(s)
      PROVE  DroppedInv'
  BY <1>2, NothingCounts DEF setDataSource, fetchData
<1>3. ASSUME NEW n \in 1..MaxLoads,
             \/ listReceived(n) \/ rowsReceived(n) \/ tenantsReceived(n) \/ settingsReceived(n)
             \/ \E refused \in BOOLEAN : fetchFails(n, refused)
      PROVE  DroppedInv'
  <2>1. n \in InLoading
    BY <1>3, LoadSteps
  <2>2. (rows' = rows \/ rows' = NewRows(n)) /\ UNCHANGED <<deletions, single, dropped>>
    BY <1>3 DEF listReceived, rowsReceived, tenantsReceived, settingsReceived, fetchFails
  <2>3. OneRowEach(rows')
    BY <2>2, NewRowsTyped DEF DroppedInv, OneRowEach
  <2> QED BY <2>1, <2>2, <2>3, LoadDropsNone
<1>4. CASE \/ \E chosen \in SUBSET rows : onSelectionChange(chosen)
           \/ showDeleteConfirmModal \/ closeModal \/ handleSave
           \/ \E name \in Names : showEditModal(name)
  BY <1>1, <1>4
     DEF onSelectionChange, showDeleteConfirmModal, closeModal, handleSave, showEditModal
<1>5. ASSUME NEW d \in 1..MaxDeletions, handleDelete(d)
      PROVE  DroppedInv'
  <2>1. /\ deletions' = [deletions EXCEPT ![d] = Deletion]
        /\ UNCHANGED <<rows, loads, dropped>>
        /\ single' = (single /\ InDeletion = {})
    BY <1>5 DEF handleDelete
  <2>2. /\ Deletion \in DeletionRecords
        /\ Deletion.shown = rows /\ Deletion.chosen = selection
        /\ Deletion.fresh => selection \subseteq rows /\ InLoading = {}
    BY DeletionBegins
  <2>3. deletions'[d] = Deletion /\ \A e \in 1..MaxDeletions : e # d => deletions'[e] = deletions[e]
    BY <2>1, <2>2, DeletionMoves
  <2>4. InDeletion' \subseteq InDeletion \cup {d}
    BY <2>3 DEF InDeletion
  <2>5. InDeletion \subseteq 1..MaxDeletions /\ InLoading' = InLoading
    BY <2>1 DEF InDeletion, InLoading
  <2>6. ASSUME NEW e \in InDeletion'
        PROVE  /\ OneRowEach(deletions'[e].shown)
               /\ deletions'[e].fresh =>
                     InLoading' = {} /\ deletions'[e].chosen \subseteq deletions'[e].shown
               /\ single' => e = d /\ ShowsNoneDropped(deletions'[e].shown)
    <3>1. CASE e = d
      BY <2>1, <2>2, <2>3, <2>5, <3>1 DEF DroppedInv
    <3>2. CASE e # d
      <4>1. e \in InDeletion /\ deletions'[e] = deletions[e]
        BY <2>3, <2>4, <2>5, <2>6, <3>2
      <4> QED BY <2>1, <2>5, <4>1 DEF DroppedInv
    <3> QED BY <3>1, <3>2
  <2> QED BY <2>1, <2>5, <2>6 DEF DroppedInv, OneRowEach, ShowsNoneDropped
<1>6. ASSUME NEW d \in 1..MaxDeletions, NEW name \in Names, requestDelete(d, name)
      PROVE  DroppedInv'
  <2>1. PICK new \in DeletionRecords :
           /\ deletions' = [deletions EXCEPT ![d] = new]
           /\ new.active = deletions[d].active /\ new.shown = deletions[d].shown
           /\ new.chosen = deletions[d].chosen /\ new.fresh = deletions[d].fresh
    BY <1>6, CallDeletes
  <2>2. deletions'[d] = new /\ \A e \in 1..MaxDeletions : e # d => deletions'[e] = deletions[e]
    BY <2>1, DeletionMoves
  <2>3. \A e \in 1..MaxDeletions :
           /\ deletions'[e].active = deletions[e].active
           /\ deletions'[e].shown = deletions[e].shown
           /\ deletions'[e].chosen = deletions[e].chosen
           /\ deletions'[e].fresh = deletions[e].fresh
    BY <2>1, <2>2
  <2>4. InDeletion' = InDeletion /\ InDeletion \subseteq 1..MaxDeletions
    BY <2>3 DEF InDeletion
  <2>5. UNCHANGED <<rows, loads, single, dropped>> /\ InLoading' = InLoading
    BY <1>6 DEF requestDelete, InLoading
  <2> QED BY <2>3, <2>4, <2>5 DEF DroppedInv, OneRowEach, ShowsNoneDropped
<1>7. ASSUME NEW d \in 1..MaxDeletions, deleted(d) \/ deleteFails(d)
      PROVE  DroppedInv'
  <2>1. /\ deletions' = [deletions EXCEPT ![d] = NoDeletion]
        /\ UNCHANGED <<loads, single>>
    BY <1>7 DEF deleted, deleteFails
  <2>2. /\ ~deletions'[d].active
        /\ \A e \in 1..MaxDeletions : e # d => deletions'[e] = deletions[e]
    BY <2>1, NoDeletionTyped, DeletionMoves
  <2>3. InDeletion' = InDeletion \ {d} /\ \A e \in InDeletion' : deletions'[e] = deletions[e]
    BY <2>2 DEF InDeletion
  <2>4. InLoading' = InLoading
    BY <2>1 DEF InLoading
  <2>5. CASE deleteFails(d)
    BY <2>1, <2>3, <2>4, <2>5 DEF deleteFails, DroppedInv, OneRowEach, ShowsNoneDropped
  <2>6. CASE deleted(d)
    <3>1. d \in InDeletion /\ rows' = deletions[d].shown \ deletions[d].chosen
      BY <2>6 DEF deleted
    <3>2. OneRowEach(rows')
      BY <3>1 DEF DroppedInv, OneRowEach
    <3>3. ASSUME NEW g \in dropped'
          PROVE  \/ g \in dropped
                 \/ /\ deletions[d].fresh
                    /\ \E r \in deletions[d].chosen : g = <<deletions[d].source, r.name>>
      BY <2>6, <3>3 DEF deleted
    <3>4. dropped' # {} => InLoading = {}
      BY <3>1, <3>3 DEF DroppedInv
    <3>5. ASSUME single, NEW q \in rows', NEW g \in dropped', g = <<q.from, q.name>>
          PROVE  FALSE
      <4>1. q \in deletions[d].shown /\ q \notin deletions[d].chosen /\ g \notin dropped
        BY <3>1, <3>5 DEF DroppedInv, ShowsNoneDropped
      <4>2. PICK r \in deletions[d].chosen :
               deletions[d].fresh /\ g = <<deletions[d].source, r.name>>
        BY <3>3, <4>1
      <4>3. r \in deletions[d].shown /\ r.name = q.name
        BY <3>1, <3>5, <4>2 DEF DroppedInv
      <4> QED BY <3>1, <4>1, <4>2, <4>3 DEF DroppedInv, OneRowEach
    <3>6. single => InDeletion' = {}
      BY <2>3, <3>1 DEF DroppedInv
    <3> QED
      BY <2>1, <2>3, <2>4, <3>2, <3>4, <3>5, <3>6
         DEF DroppedInv, OneRowEach, ShowsNoneDropped
  <2> QED BY <1>7, <2>5, <2>6
<1>8. ASSUME NEW s \in Sources, NEW name \in Names, saveEnded(s, name)
      PROVE  DroppedInv'
  BY <1>8, NothingCounts DEF saveEnded, fetchData
<1>9. ASSUME NEW s \in Sources, NEW name \in Names, OtherAdmin(s, name)
      PROVE  DroppedInv'
  <2>1. deletions' = Stale /\ UNCHANGED <<rows, loads, single, dropped>>
    BY <1>9 DEF OtherAdmin
  <2>2. /\ InDeletion' = InDeletion
        /\ \A d \in 1..MaxDeletions :
              ~deletions'[d].fresh /\ deletions'[d].shown = deletions[d].shown
    BY <2>1, StaleDeletions
  <2>3. InDeletion \subseteq 1..MaxDeletions /\ InLoading' = InLoading
    BY <2>1 DEF InDeletion, InLoading
  <2> QED BY <2>1, <2>2, <2>3 DEF DroppedInv, OneRowEach, ShowsNoneDropped
<1>10. ASSUME NEW s \in Sources, NEW name \in Names, handleSaveFails(s, name)
       PROVE  DroppedInv'
  BY <1>1, <1>10 DEF handleSaveFails
<1>11. CASE UNCHANGED listVars
  BY <1>1, <1>11 DEF listVars
<1>12. ASSUME NEW d \in 1..MaxDeletions,
              \/ handleDelete(d) \/ deleted(d) \/ deleteFails(d)
              \/ \E name \in Names : requestDelete(d, name)
       PROVE  DroppedInv'
  BY <1>5, <1>6, <1>7, <1>12
<1>13. ASSUME NEW s \in Sources, NEW name \in Names,
              saveEnded(s, name) \/ handleSaveFails(s, name) \/ OtherAdmin(s, name)
       PROVE  DroppedInv'
  BY <1>8, <1>9, <1>10, <1>13
<1> QED BY <1>2, <1>3, <1>4, <1>11, <1>12, <1>13 DEF ListNext

(* What a list has deleted, from rows it showed, is gone from its data source with  *)
(* its mapping until somebody creates it again; and while deletions do not overlap   *)
(* no row comes back with it before the next load.                              *)
THEOREM ListDeletionFinal == ListSpec => []DoneMeansGone
<1>1. ListTyped /\ GoneInv /\ [ListNext]_listVars => GoneInv'
  BY GoneInvNext
<1>2. ListTyped /\ DroppedInv /\ [ListNext]_listVars => DroppedInv'
  BY DroppedInvNext
<1>3. ListTyped /\ GoneInv /\ DroppedInv => DoneMeansGone
  <2> SUFFICES ASSUME ListTyped, GoneInv, DroppedInv
               PROVE  DoneMeansGone
    OBVIOUS
  <2>1. \A g \in gone : g[1] \in Sources /\ IsGone(g[1], g[2])
    BY DEF GoneInv, ListTyped
  <2>2. single => \A g \in dropped : ~Showing(g)
    BY DEF DroppedInv, ShowsNoneDropped, Showing
  <2> QED BY <2>1, <2>2, OwnCluster DEF DoneMeansGone, IsGone, getResource, listResource
<1> QED
  BY <1>1, <1>2, <1>3, GoneInvInit, DroppedInvInit, ListTypeCorrect, PTL DEF ListSpec

-----------------------------------------------------------------------------
(***************************************************************************)
(* The audit pages.  What a page holds may come from a page that held nothing,  *)
(* so a group may be unset; the load begun last, if it is still under way, is    *)
(* of the data source chosen; while no page was left with a save under way, the   *)
(* saves are of the page and the data source shown; and a trusted page, and a      *)
(* trusted save, hold what the data source says of everything the page is not for.*)
(***************************************************************************)
Held == [enabled : BOOLEAN, general : Settings \cup {Unset}, compliance : Settings \cup {Unset}]
FetchRecords == [stage : {"none", "asked", "read", "done"}, source : Sources, read : Held]

AuditPages == {"view"} \cup Groups
SaveRecords == [stage : {"none", "asked", "written"}, page : AuditPages, source : Sources,
                config : Held, shown : BOOLEAN, trusted : BOOLEAN]

AuditTyped ==
    /\ audit \in [Sources -> Held] /\ configuration \in Held
    /\ auditPage \in AuditPages /\ dataSource \in Sources
    /\ fetches \in [1..MaxFetches -> FetchRecords]
    /\ auditSaves \in [1..MaxSaves -> SaveRecords]
    /\ trusted \in BOOLEAN /\ patient \in BOOLEAN

FetchesInOrder ==
    \E latest \in 1..MaxFetches :
        /\ \A n \in 1..MaxFetches : fetches[n].stage = "none" <=> n > latest
        /\ latest \in Pending => fetches[latest].source = dataSource

(* A save that is under way, and trusted. *)
SaveHolds(c) ==
    /\ auditSaves[c].shown /\ auditSaves[c].page = auditPage
    /\ auditSaves[c].source = dataSource
    /\ auditSaves[c].trusted => SameOthers(auditPage, auditSaves[c].config, audit[dataSource])

SavesOfPage == patient => \A c \in 1..MaxSaves : Saving(c) => SaveHolds(c)

HoldsOthers ==
    patient /\ trusted =>
        (auditPage = "view" /\ auditRefused)
        \/ SameOthers(auditPage, configuration, audit[dataSource])

AuditInv == AuditTyped /\ FetchesInOrder /\ SavesOfPage /\ HoldsOthers

LEMMA HeldRecords ==
    /\ Nothing \in Held
    /\ Configurations \subseteq Held
    /\ \A s \in Sources : Fetch(s) \in FetchRecords /\ Fetch(s).stage = "asked" /\ Fetch(s).source = s
    /\ NoFetch \in FetchRecords /\ NoFetch.stage = "none"
<1> USE ConfigApiAssumption
<1>1. Nothing \in Held /\ Configurations \subseteq Held
  BY DEF Nothing, Held, Configurations
<1>2. NoFetch \in FetchRecords /\ NoFetch.stage = "none"
  BY <1>1 DEF NoFetch, FetchRecords
<1>3. \A s \in Sources : Fetch(s) \in FetchRecords /\ Fetch(s).stage = "asked"
                         /\ Fetch(s).source = s
  BY <1>1 DEF NoFetch, FetchRecords, Fetch
<1> QED BY <1>1, <1>2, <1>3

(* The loads that were begun are the first ones, so that their number is the      *)
(* place of the latest.                                                     *)
LEMMA LatestFetch ==
    ASSUME FetchesInOrder
    PROVE  /\ Fetched \in 1..MaxFetches
           /\ \A n \in 1..MaxFetches : fetches[n].stage = "none" <=> n > Fetched
           /\ Fetched \in Pending => fetches[Fetched].source = dataSource
<1> USE AuditAssumption
<1>1. PICK latest \in 1..MaxFetches :
         /\ \A n \in 1..MaxFetches : fetches[n].stage = "none" <=> n > latest
         /\ latest \in Pending => fetches[latest].source = dataSource
  BY DEF FetchesInOrder
<1>2. {n \in 1..MaxFetches : fetches[n].stage # "none"} = 1..latest
  BY <1>1
<1>3. Cardinality(1..latest) = latest
  BY <1>1, FS_Interval
<1>4. Fetched = latest
  BY <1>2, <1>3 DEF Fetched
<1> QED BY <1>1, <1>4

(* A page that mounts has one load, of the data source chosen. *)
LEMMA MountedFetches ==
    ASSUME dataSource' \in Sources, fetches' = Mounted(dataSource')
    PROVE  fetches' \in [1..MaxFetches -> FetchRecords] /\ FetchesInOrder'
<1> USE AuditAssumption
<1>1. \A n \in 1..MaxFetches :
         fetches'[n] = IF n = 1 THEN Fetch(dataSource') ELSE NoFetch
  BY DEF Mounted
<1>2. fetches' \in [1..MaxFetches -> FetchRecords]
  BY HeldRecords DEF Mounted
<1>3. \A n \in 1..MaxFetches : fetches'[n].stage = "none" <=> n > 1
  BY <1>1, HeldRecords
<1>4. fetches'[1].source = dataSource'
  BY <1>1, HeldRecords
<1>5. FetchesInOrder'
  BY <1>3, <1>4 DEF FetchesInOrder
<1> QED BY <1>2, <1>5

(* A load moves on, or ends. *)
LEMMA FetchMovesOn ==
    ASSUME AuditTyped, FetchesInOrder, NEW n \in Pending, NEW new \in FetchRecords,
           new.stage \in {"read", "done"}, new.stage = "read" => new.source = fetches[n].source,
           fetches' = [fetches EXCEPT ![n] = new], dataSource' = dataSource
    PROVE  fetches' \in [1..MaxFetches -> FetchRecords] /\ FetchesInOrder'
<1>1. n \in 1..MaxFetches /\ fetches[n].stage \in {"asked", "read"}
  BY DEF Pending
<1>2. fetches' \in [1..MaxFetches -> FetchRecords]
  BY <1>1 DEF AuditTyped
<1>3. PICK latest \in 1..MaxFetches :
         /\ \A k \in 1..MaxFetches : fetches[k].stage = "none" <=> k > latest
         /\ latest \in Pending => fetches[latest].source = dataSource
  BY DEF FetchesInOrder
<1>4. \A k \in 1..MaxFetches : fetches'[k] = IF k = n THEN new ELSE fetches[k]
  BY DEF AuditTyped
<1>5. \A k \in 1..MaxFetches : fetches'[k].stage = "none" <=> k > latest
  BY <1>1, <1>3, <1>4
<1>6. ASSUME latest \in Pending'
      PROVE  fetches'[latest].source = dataSource'
  <2>1. CASE latest = n
    <3>1. new.stage = "read"
      BY <1>4, <1>6, <2>1 DEF Pending
    <3> QED BY <1>3, <1>4, <2>1, <3>1
  <2>2. CASE latest # n
    BY <1>3, <1>4, <1>6, <2>2 DEF Pending
  <2> QED BY <2>1, <2>2
<1> QED BY <1>2, <1>3, <1>5, <1>6 DEF FetchesInOrder

(* A load begins for the data source just chosen. *)
LEMMA FetchBegins ==
    ASSUME AuditTyped, FetchesInOrder, Fetched < MaxFetches, dataSource' \in Sources,
           fetches' = [fetches EXCEPT ![Fetched + 1] = Fetch(dataSource')]
    PROVE  fetches' \in [1..MaxFetches -> FetchRecords] /\ FetchesInOrder'
<1> USE AuditAssumption
<1> DEFINE latest == Fetched + 1
           new == Fetch(dataSource')
<1>1. Fetched \in 1..MaxFetches /\ latest \in 1..MaxFetches
  BY LatestFetch
<1>2. new \in FetchRecords /\ new.stage = "asked" /\ new.source = dataSource'
  BY HeldRecords
<1>3. \A n \in 1..MaxFetches : fetches[n].stage = "none" <=> n > Fetched
  BY LatestFetch
<1> HIDE DEF new
<1>4. fetches' = [fetches EXCEPT ![latest] = new]
  BY DEF new
<1>5. \A k \in 1..MaxFetches : fetches'[k] = IF k = latest THEN new ELSE fetches[k]
  BY <1>4 DEF AuditTyped
<1>6. fetches' \in [1..MaxFetches -> FetchRecords]
  BY <1>2, <1>4 DEF AuditTyped
<1>7. \A k \in 1..MaxFetches : fetches'[k].stage = "none" <=> k > latest
  <2> SUFFICES ASSUME NEW k \in 1..MaxFetches
               PROVE  fetches'[k].stage = "none" <=> k > latest
    OBVIOUS
  <2>1. CASE k = latest
    BY <1>2, <1>5, <2>1
  <2>2. CASE k # latest
    <3>1. fetches'[k].stage = "none" <=> k > Fetched
      BY <1>3, <1>5, <2>2
    <3> QED BY <1>1, <2>2, <3>1
  <2> QED BY <2>1, <2>2
<1>8. fetches'[latest].source = dataSource'
  BY <1>1, <1>2, <1>5
<1>9. FetchesInOrder'
  BY <1>1, <1>7, <1>8 DEF FetchesInOrder
<1> QED BY <1>6, <1>9

LEMMA SaveParts ==
    ASSUME AuditTyped, NEW c \in 1..MaxSaves
    PROVE  /\ auditSaves[c] \in SaveRecords /\ auditSaves[c].config \in Held
           /\ auditSaves[c].source \in Sources /\ auditSaves[c].page \in AuditPages
           /\ auditSaves[c].shown \in BOOLEAN /\ auditSaves[c].trusted \in BOOLEAN
           /\ NoSave \in SaveRecords /\ NoSave.stage = "none"
<1>1. auditSaves[c] \in SaveRecords
  BY DEF AuditTyped
<1>2. NoSave \in SaveRecords /\ NoSave.stage = "none"
  BY HeldRecords, ConfigApiAssumption DEF NoSave, SaveRecords, AuditPages
<1> QED BY <1>1, <1>2 DEF SaveRecords

(* What agrees with one configuration, and with another, ... *)
LEMMA SameOthersJoins ==
    ASSUME NEW which, NEW a, NEW b, NEW d, SameOthers(which, a, b), SameOthers(which, d, b)
    PROVE  SameOthers(which, a, d) /\ SameOthers(which, b, d)
BY DEF SameOthers

LEMMA SameOthersItself == ASSUME NEW which, NEW a PROVE SameOthers(which, a, a)
BY DEF SameOthers

(* Saves that nothing has been done to are of the page still, if it is still there. *)
LEMMA SavesStay ==
    ASSUME AuditInv, patient' => patient, UNCHANGED <<audit, auditPage, dataSource, auditSaves>>
    PROVE  SavesOfPage'
BY DEF AuditInv, SavesOfPage, SaveHolds, Saving

(* A page that is not left while a save is under way leaves none behind. *)
LEMMA NoSaveLeft ==
    ASSUME patient' => \A c \in 1..MaxSaves : ~Saving(c)'
    PROVE  SavesOfPage'
BY DEF SavesOfPage

LEMMA UnshownSaves ==
    ASSUME NEW all \in [1..MaxSaves -> SaveRecords]
    PROVE  /\ SavesUnshown(all) \in [1..MaxSaves -> SaveRecords]
           /\ \A c \in 1..MaxSaves : SavesUnshown(all)[c].stage = all[c].stage
<1> SUFFICES ASSUME NEW c \in 1..MaxSaves
             PROVE  /\ [all[c] EXCEPT !.shown = FALSE] \in SaveRecords
                    /\ [all[c] EXCEPT !.shown = FALSE].stage = all[c].stage
  BY DEF SavesUnshown
<1> all[c] \in SaveRecords
  OBVIOUS
<1> QED BY DEF SaveRecords

(* A page that mounts is not trusted, and keeps no save from before to itself. *)
LEMMA AuditMounts ==
    ASSUME AuditInv, NEW newPage \in AuditPages, mount(newPage), UNCHANGED <<audit, dataSource>>,
           auditSaves' \in [1..MaxSaves -> SaveRecords], patient' \in BOOLEAN,
           patient' => \A c \in 1..MaxSaves : ~Saving(c)'
    PROVE  AuditInv'
<1> USE DEF AuditInv
<1>1. fetches' \in [1..MaxFetches -> FetchRecords] /\ FetchesInOrder'
  BY MountedFetches DEF mount, AuditTyped
<1>2. AuditTyped'
  BY <1>1, HeldRecords DEF mount, AuditTyped
<1>3. HoldsOthers'
  BY DEF mount, HoldsOthers
<1> QED BY <1>1, <1>2, <1>3, NoSaveLeft

(* A page that has just mounted is not trusted yet. *)
LEMMA AuditInvInit == AuditInit => AuditInv
<1> SUFFICES ASSUME AuditInit
             PROVE  AuditInv
  OBVIOUS
<1> USE ConfigApiAssumption, AuditAssumption
<1>1. NoSave \in SaveRecords /\ NoSave.stage = "none"
  BY HeldRecords DEF NoSave, SaveRecords, AuditPages
<1>2. AuditTyped
  BY <1>1, HeldRecords DEF AuditInit, AuditTyped, Mounted, AuditPages
<1>3. FetchesInOrder
  <2>1. fetches[1] = Fetch(Local)
    BY DEF AuditInit, Mounted
  <2>2. \A n \in 1..MaxFetches : n # 1 => fetches[n] = NoFetch
    BY DEF AuditInit, Mounted
  <2>3. \A n \in 1..MaxFetches : fetches[n].stage = "none" <=> n > 1
    BY <2>1, <2>2, HeldRecords
  <2>4. fetches[1].source = dataSource
    BY <2>1, HeldRecords DEF AuditInit
  <2> QED BY <2>3, <2>4 DEF FetchesInOrder
<1>4. HoldsOthers /\ SavesOfPage
  BY <1>1 DEF AuditInit, HoldsOthers, SavesOfPage, Saving
<1> QED BY <1>2, <1>3, <1>4 DEF AuditInv

(* A load that moves on or ends leaves the saves alone. *)
LEMMA FetchStep ==
    ASSUME AuditInv, NEW n \in Pending, NEW new \in FetchRecords,
           new.stage \in {"read", "done"}, new.stage = "read" => new.source = fetches[n].source,
           fetches' = [fetches EXCEPT ![n] = new], configuration' \in Held, trusted' \in BOOLEAN,
           UNCHANGED <<audit, auditPage, dataSource, auditSaves, patient>>
    PROVE  AuditTyped' /\ FetchesInOrder' /\ SavesOfPage'
<1>1. fetches' \in [1..MaxFetches -> FetchRecords] /\ FetchesInOrder'
  BY FetchMovesOn DEF AuditInv
<1>2. AuditTyped'
  BY <1>1 DEF AuditInv, AuditTyped
<1> QED BY <1>1, <1>2, SavesStay

(* A save is asked for by the page, with what it holds. *)
LEMMA SaveAsked ==
    ASSUME AuditInv, NEW c \in 1..MaxSaves, NEW config \in Held, Asks(c, config),
           patient /\ trusted => SameOthers(auditPage, config, audit[dataSource])
    PROVE  AuditInv'
<1> USE DEF AuditInv
<1> DEFINE new == [stage |-> "asked", page |-> auditPage, source |-> dataSource,
                   config |-> config, shown |-> TRUE, trusted |-> trusted]
<1>1. new \in SaveRecords
  BY DEF AuditTyped, SaveRecords
<1>2. /\ new.shown /\ new.page = auditPage /\ new.source = dataSource /\ new.config = config
      /\ new.trusted = trusted
  OBVIOUS
<1>3. auditSaves' = [auditSaves EXCEPT ![c] = new]
      /\ UNCHANGED <<audit, auditPage, dataSource, configuration, auditRefused, fetches, trusted,
                     patient>>
  BY DEF Asks, auditState, auditHistory
<1> HIDE DEF new
<1>4. AuditTyped' /\ \A d \in 1..MaxSaves : auditSaves'[d] = IF d = c THEN new ELSE auditSaves[d]
  BY <1>1, <1>3 DEF AuditTyped
<1>5. SavesOfPage'
  <2> SUFFICES ASSUME patient', NEW d \in 1..MaxSaves, Saving(d)'
               PROVE  SaveHolds(d)'
    BY DEF SavesOfPage
  <2>1. CASE d = c
    BY <1>2, <1>3, <1>4, <2>1 DEF SaveHolds
  <2>2. CASE d # c
    BY <1>3, <1>4, <2>2 DEF SavesOfPage, SaveHolds, Saving
  <2> QED BY <2>1, <2>2
<1>6. FetchesInOrder' /\ HoldsOthers'
  BY <1>3 DEF FetchesInOrder, Pending, HoldsOthers
<1> QED BY <1>4, <1>5, <1>6

(* A save is written.  Trusted, it leaves what the others hold as it is. *)
LEMMA SaveWritten ==
    ASSUME AuditInv, NEW c \in 1..MaxSaves, updateAuditLogging(c)
    PROVE  /\ AuditInv'
           /\ auditSaves[c].trusted /\ patient =>
                 SameOthers(auditSaves[c].page, audit[auditSaves[c].source],
                            audit'[auditSaves[c].source])
<1> USE DEF AuditInv
<1> DEFINE s == auditSaves[c].source
           config == auditSaves[c].config
           new(d) == [auditSaves[d] EXCEPT !.stage = IF d = c THEN "written" ELSE @,
                                           !.trusted = @ /\ auditSaves[c].trusted]
<1>1. config \in Held /\ s \in Sources /\ auditSaves[c].trusted \in BOOLEAN
  BY SaveParts
<1>2. audit' = [audit EXCEPT ![s] = config] /\ trusted' = (trusted /\ auditSaves[c].trusted)
      /\ UNCHANGED <<auditPage, dataSource, configuration, auditRefused, fetches, patient>>
      /\ auditSaves' = [d \in 1..MaxSaves |-> new(d)] /\ Saving(c)
  BY <1>1, OwnCluster DEF updateAuditLogging, auditState, Saving
<1>3. ASSUME NEW d \in 1..MaxSaves
      PROVE  /\ new(d) \in SaveRecords
             /\ new(d).trusted = (auditSaves[d].trusted /\ auditSaves[c].trusted)
             /\ new(d).shown = auditSaves[d].shown /\ new(d).page = auditSaves[d].page
             /\ new(d).source = auditSaves[d].source /\ new(d).config = auditSaves[d].config
             /\ new(d).stage = IF d = c THEN "written" ELSE auditSaves[d].stage
  BY <1>1, SaveParts DEF SaveRecords
<1>4. ASSUME NEW d \in 1..MaxSaves
      PROVE  auditSaves'[d] = new(d)
  BY <1>2
<1>5. auditSaves' \in [1..MaxSaves -> SaveRecords]
  BY <1>2, <1>3
<1> HIDE DEF new
<1>6. AuditTyped' /\ audit'[s] = config
  BY <1>1, <1>2, <1>5 DEF AuditTyped
<1>7. FetchesInOrder'
  BY <1>2 DEF FetchesInOrder, Pending
<1>8. ASSUME patient
      PROVE  /\ s = dataSource /\ auditSaves[c].page = auditPage
             /\ auditSaves[c].trusted => SameOthers(auditPage, config, audit[dataSource])
  BY <1>2, <1>8 DEF SavesOfPage, SaveHolds
<1>9. SavesOfPage'
  <2> SUFFICES ASSUME patient', NEW d \in 1..MaxSaves, Saving(d)'
               PROVE  SaveHolds(d)'
    BY DEF SavesOfPage
  <2>1. Saving(d)
    BY <1>2, <1>3, <1>4 DEF Saving
  <2>2. SaveHolds(d)
    BY <1>2, <2>1 DEF SavesOfPage
  <2>3. auditSaves'[d].trusted => SameOthers(auditPage, auditSaves[d].config, audit'[dataSource])
    <3> SUFFICES ASSUME auditSaves'[d].trusted
                 PROVE  SameOthers(auditPage, auditSaves[d].config, audit'[dataSource])
      OBVIOUS
    <3>1. auditSaves[d].trusted /\ auditSaves[c].trusted
      BY <1>3, <1>4
    <3>2. SameOthers(auditPage, auditSaves[d].config, audit[dataSource])
      BY <2>2, <3>1 DEF SaveHolds
    <3>3. SameOthers(auditPage, config, audit[dataSource]) /\ audit'[dataSource] = config
      BY <1>2, <1>6, <1>8, <3>1
    <3> QED BY <3>2, <3>3, SameOthersJoins
  <2> QED BY <1>2, <1>3, <1>4, <2>2, <2>3 DEF SaveHolds
<1>10. HoldsOthers'
  <2> SUFFICES ASSUME patient, trusted, auditSaves[c].trusted,
                      ~(auditPage = "view" /\ auditRefused)
               PROVE  SameOthers(auditPage, configuration, audit'[dataSource])
    BY <1>2 DEF HoldsOthers
  <2>1. SameOthers(auditPage, configuration, audit[dataSource])
    BY DEF HoldsOthers
  <2>2. SameOthers(auditPage, config, audit[dataSource]) /\ audit'[dataSource] = config
    BY <1>6, <1>8
  <2> QED BY <2>1, <2>2, SameOthersJoins
<1>11. ASSUME auditSaves[c].trusted, patient
       PROVE  SameOthers(auditSaves[c].page, audit[s], audit'[s])
  <2>1. SameOthers(auditPage, config, audit[dataSource])
    BY <1>8, <1>11
  <2>2. SameOthers(auditPage, audit[dataSource], audit[dataSource])
    BY SameOthersItself
  <2>3. SameOthers(auditPage, audit[dataSource], config)
    BY <2>1, <2>2, SameOthersJoins
  <2> QED BY <1>6, <1>8, <1>11, <2>3
<1> QED BY <1>5, <1>6, <1>7, <1>9, <1>10, <1>11

(* A save that has ended; the others are as they were. *)
LEMMA SaveEnds ==
    ASSUME AuditInv, NEW c \in 1..MaxSaves, auditSaves' = [auditSaves EXCEPT ![c] = NoSave],
           configuration' \in Held, trusted' \in BOOLEAN,
           UNCHANGED <<audit, auditPage, dataSource, fetches, patient>>
    PROVE  AuditTyped' /\ FetchesInOrder' /\ SavesOfPage'
<1> USE DEF AuditInv
<1>1. NoSave \in SaveRecords /\ NoSave.stage = "none"
  BY SaveParts
<1>2. AuditTyped'
      /\ \A d \in 1..MaxSaves : auditSaves'[d] = IF d = c THEN NoSave ELSE auditSaves[d]
  BY <1>1 DEF AuditTyped
<1>3. SavesOfPage'
  BY <1>1, <1>2 DEF SavesOfPage, SaveHolds, Saving
<1>4. FetchesInOrder'
  BY DEF FetchesInOrder, Pending
<1> QED BY <1>2, <1>3, <1>4

(* Every step of the pages and of other administrators. *)
LEMMA AuditInvNext ==
    ASSUME AuditInv, [AuditNext]_auditVars
    PROVE  AuditInv'
<1> USE DEF AuditInv, auditState, auditHistory
<1>1. CASE \E s \in Sources : chooseDataSource(s)
  <2>1. PICK s \in Sources : chooseDataSource(s)
    BY <1>1
  <2>2. fetches' \in [1..MaxFetches -> FetchRecords] /\ FetchesInOrder'
    BY <2>1, FetchBegins DEF chooseDataSource
  <2>3. AuditTyped'
    BY <2>1, <2>2 DEF chooseDataSource, AuditTyped
  <2>4. trusted' = FALSE /\ (patient' => NoneSaving) /\ UNCHANGED auditSaves
    BY <2>1 DEF chooseDataSource
  <2>5. SavesOfPage'
    BY <2>4, NoSaveLeft DEF NoneSaving, Saving
  <2> QED BY <2>2, <2>3, <2>4, <2>5 DEF HoldsOthers
<1>2. ASSUME NEW n \in 1..MaxFetches, getAuditLogging(n)
      PROVE  AuditInv'
  <2>1. n \in Pending /\ fetches[n] \in FetchRecords
    BY <1>2 DEF getAuditLogging, Pending, AuditTyped
  <2> DEFINE config == audit[wrapRouteWithDataSource(fetches[n].source)]
             new == [fetches[n] EXCEPT !.stage = "read", !.read = config]
  <2>2. config \in Held
    BY <2>1, OwnCluster DEF AuditTyped, FetchRecords
  <2>3. new \in FetchRecords /\ new.stage = "read" /\ new.source = fetches[n].source
    BY <2>1, <2>2 DEF FetchRecords
  <2>4. fetches' = [fetches EXCEPT ![n] = new]
    BY <1>2, <2>1 DEF getAuditLogging, AuditTyped
  <2> HIDE DEF new
  <2>5. UNCHANGED <<audit, auditPage, dataSource, configuration, auditRefused, auditSaves,
                    trusted, patient>>
    BY <1>2 DEF getAuditLogging
  <2>6. AuditTyped' /\ FetchesInOrder' /\ SavesOfPage'
    BY <2>1, <2>3, <2>4, <2>5, FetchStep DEF AuditTyped
  <2> QED BY <2>5, <2>6 DEF HoldsOthers
<1>3. ASSUME NEW n \in 1..MaxFetches, auditReceived(n)
      PROVE  AuditInv'
  <2>1. n \in Pending /\ fetches[n] \in FetchRecords /\ fetches[n].read \in Held
    BY <1>3 DEF auditReceived, Pending, AuditTyped, FetchRecords
  <2> DEFINE new == [NoFetch EXCEPT !.stage = "done"]
  <2>2. new \in FetchRecords /\ new.stage = "done"
    BY HeldRecords DEF FetchRecords
  <2>3. fetches' = [fetches EXCEPT ![n] = new]
    BY <1>3 DEF auditReceived
  <2> HIDE DEF new
  <2>4. configuration' \in Held /\ trusted' \in BOOLEAN
        /\ UNCHANGED <<audit, auditPage, dataSource, auditSaves, patient>>
    BY <1>3, <2>1 DEF auditReceived
  <2>5. AuditTyped' /\ FetchesInOrder' /\ SavesOfPage'
    BY <2>1, <2>2, <2>3, <2>4, FetchStep
  <2>6. trusted' => configuration' = audit'[dataSource']
    BY <1>3, <2>1, LatestFetch DEF auditReceived
  <2> QED BY <2>5, <2>6, SameOthersItself DEF HoldsOthers
<1>4. ASSUME NEW n \in 1..MaxFetches, NEW refused \in BOOLEAN, auditFetchFails(n, refused)
      PROVE  AuditInv'
  <2>1. n \in Pending /\ fetches[n] \in FetchRecords
    BY <1>4 DEF auditFetchFails, Pending, AuditTyped
  <2> DEFINE new == [NoFetch EXCEPT !.stage = "done"]
  <2>2. new \in FetchRecords /\ new.stage = "done"
    BY HeldRecords DEF FetchRecords
  <2>3. fetches' = [fetches EXCEPT ![n] = new]
    BY <1>4 DEF auditFetchFails
  <2> HIDE DEF new
  <2>4. configuration' \in Held /\ trusted' \in BOOLEAN
        /\ UNCHANGED <<audit, auditPage, dataSource, auditSaves, patient>>
    BY <1>4 DEF auditFetchFails, AuditTyped
  <2>5. AuditTyped' /\ FetchesInOrder' /\ SavesOfPage'
    BY <2>1, <2>2, <2>3, <2>4, FetchStep
  <2>6. trusted' => auditPage' = "view" /\ auditRefused'
    BY <1>4 DEF auditFetchFails
  <2> QED BY <2>5, <2>6 DEF HoldsOthers
<1>5. ASSUME NEW c \in 1..MaxSaves, onSwitchChange(c)
      PROVE  AuditInv'
  <2> DEFINE updated == [configuration EXCEPT !.enabled = ~@]
  <2>1. updated \in Held /\ \A group \in Groups : updated[group] = configuration[group]
    BY DEF AuditTyped, Held, Groups
  <2>2. Asks(c, updated) /\ auditPage = "view" /\ ~auditRefused
    BY <1>5 DEF onSwitchChange, Usable
  <2> HIDE DEF updated
  <2>3. patient /\ trusted => SameOthers(auditPage, configuration, audit[dataSource])
    BY <2>2 DEF HoldsOthers
  <2>4. patient /\ trusted => SameOthers(auditPage, updated, audit[dataSource])
    BY <2>1, <2>2, <2>3 DEF SameOthers
  <2> QED BY <2>1, <2>2, <2>4, SaveAsked
<1>6. ASSUME NEW c \in 1..MaxSaves, saveConfig(c)
      PROVE  AuditInv'
  <2>1. auditPage # "view" /\ configuration \in Held /\ Asks(c, configuration)
    BY <1>6 DEF saveConfig, Groups, AuditTyped
  <2>2. patient /\ trusted => SameOthers(auditPage, configuration, audit[dataSource])
    BY <2>1 DEF HoldsOthers
  <2> QED BY <2>1, <2>2, SaveAsked
<1>7. ASSUME NEW c \in 1..MaxSaves, updateAuditLogging(c)
      PROVE  AuditInv'
  BY <1>7, SaveWritten
<1>8. ASSUME NEW c \in 1..MaxSaves, switched(c)
      PROVE  AuditInv'
  <2>1. auditSaves[c].config \in Held /\ auditSaves[c].trusted \in BOOLEAN
        /\ auditSaves[c].shown \in BOOLEAN
    BY SaveParts
  <2>2. /\ Saving(c) /\ auditSaves[c].page = "view"
        /\ configuration' = IF auditSaves[c].shown THEN auditSaves[c].config ELSE configuration
        /\ auditSaves' = [auditSaves EXCEPT ![c] = NoSave]
        /\ trusted' = (trusted /\ (auditSaves[c].shown => auditSaves[c].trusted))
        /\ UNCHANGED <<audit, auditPage, dataSource, auditRefused, fetches, patient>>
    BY <1>8 DEF switched, Saving
  <2>3. configuration' \in Held /\ trusted' \in BOOLEAN
    BY <2>1, <2>2 DEF AuditTyped
  <2>4. AuditTyped' /\ FetchesInOrder' /\ SavesOfPage'
    BY <2>2, <2>3, SaveEnds
  <2>5. patient => SaveHolds(c)
    BY <2>2 DEF SavesOfPage
  <2>6. HoldsOthers'
    BY <2>2, <2>5 DEF HoldsOthers, SaveHolds
  <2> QED BY <2>4, <2>6
<1>9. ASSUME NEW c \in 1..MaxSaves, settingsSaved(c)
      PROVE  AuditInv'
  <2> DEFINE others == [auditSaves EXCEPT ![c] = NoSave]
  <2>1. others \in [1..MaxSaves -> SaveRecords] /\ others[c].stage = "none"
        /\ \A d \in (1..MaxSaves) \ {c} : others[d] = auditSaves[d]
    BY SaveParts DEF AuditTyped
  <2>2. CASE auditPage = "view"
    <3>1. auditSaves' = others
          /\ UNCHANGED <<audit, dataSource, auditPage, configuration, auditRefused, fetches,
                         trusted, patient>>
      BY <1>9, <2>2 DEF settingsSaved
    <3>2. configuration' \in Held /\ trusted' \in BOOLEAN
      BY <3>1 DEF AuditTyped
    <3>3. AuditTyped' /\ FetchesInOrder' /\ SavesOfPage'
      BY <3>1, <3>2, SaveEnds
    <3> QED BY <3>1, <3>3 DEF HoldsOthers
  <2>3. CASE auditPage # "view"
    <3>1. auditSaves' = SavesUnshown(others) /\ mount("view") /\ UNCHANGED <<audit, dataSource>>
          /\ patient' = (patient /\ \A d \in (1..MaxSaves) \ {c} : ~Saving(d))
      BY <1>9, <2>3 DEF settingsSaved
    <3> HIDE DEF others
    <3>2. auditSaves' \in [1..MaxSaves -> SaveRecords]
          /\ \A d \in 1..MaxSaves : auditSaves'[d].stage = others[d].stage
      BY <2>1, <3>1, UnshownSaves
    <3>3. patient' => \A d \in 1..MaxSaves : ~Saving(d)'
      BY <2>1, <3>1, <3>2 DEF Saving
    <3>4. patient' \in BOOLEAN /\ "view" \in AuditPages
      BY <3>1 DEF AuditTyped, AuditPages
    <3> QED BY <3>1, <3>2, <3>3, <3>4, AuditMounts
  <2> QED BY <2>2, <2>3
<1>10. ASSUME NEW c \in 1..MaxSaves, saveFails(c)
       PROVE  AuditInv'
  <2>1. auditSaves' = [auditSaves EXCEPT ![c] = NoSave]
        /\ UNCHANGED <<audit, auditPage, dataSource, configuration, auditRefused, fetches,
                       trusted, patient>>
    BY <1>10 DEF saveFails
  <2>2. AuditTyped' /\ FetchesInOrder' /\ SavesOfPage'
    BY <2>1, SaveEnds DEF AuditTyped
  <2> QED BY <2>1, <2>2 DEF HoldsOthers
<1>11. ASSUME NEW newPage \in AuditPages, Leaves(newPage)
       PROVE  AuditInv'
  <2>1. mount(newPage) /\ auditSaves' = SavesUnshown(auditSaves) /\ UNCHANGED <<audit, dataSource>>
        /\ patient' = (patient /\ NoneSaving)
    BY <1>11 DEF Leaves
  <2>2. auditSaves' \in [1..MaxSaves -> SaveRecords]
        /\ \A d \in 1..MaxSaves : auditSaves'[d].stage = auditSaves[d].stage
    BY <2>1, UnshownSaves DEF AuditTyped
  <2>3. patient' => \A d \in 1..MaxSaves : ~Saving(d)'
    BY <2>1, <2>2 DEF NoneSaving, Saving
  <2>4. patient' \in BOOLEAN
    BY <2>1 DEF AuditTyped
  <2> QED BY <2>1, <2>2, <2>3, <2>4, AuditMounts
<1>12. CASE leave \/ \E group \in Groups : configure(group)
  BY <1>11, <1>12 DEF leave, configure, AuditPages
<1>13. CASE \E value \in Settings : handleChange(value)
  <2>1. PICK value \in Settings : handleChange(value)
    BY <1>13
  <2> DEFINE edited == [configuration EXCEPT ![auditPage] = value]
  <2>2. /\ configuration' = edited /\ auditPage \in Groups
        /\ UNCHANGED <<audit, auditPage, dataSource, auditRefused, fetches, auditSaves, trusted,
                       patient>>
    BY <2>1 DEF handleChange
  <2>3. edited \in Held /\ edited.enabled = configuration.enabled
        /\ \A group \in Groups \ {auditPage} : edited[group] = configuration[group]
    <3>1. CASE auditPage = "general"
      BY <3>1 DEF AuditTyped, Held, Groups
    <3>2. CASE auditPage = "compliance"
      BY <3>2 DEF AuditTyped, Held, Groups
    <3> QED BY <2>2, <3>1, <3>2 DEF Groups
  <2> HIDE DEF edited
  <2>4. AuditTyped' /\ FetchesInOrder'
    BY <2>2, <2>3 DEF AuditTyped, FetchesInOrder, Pending
  <2>5. SavesOfPage'
    BY <2>2, SavesStay
  <2>6. HoldsOthers'
    BY <2>2, <2>3 DEF HoldsOthers, SameOthers
  <2> QED BY <2>4, <2>5, <2>6
<1>14. ASSUME NEW s \in Sources, NEW config \in Configurations, OtherAuditor(s, config)
       PROVE  AuditInv'
  <2>1. \A c \in 1..MaxSaves : auditSaves'[c] = [auditSaves[c] EXCEPT !.trusted = FALSE]
    BY <1>14 DEF OtherAuditor
  <2>2. \A c \in 1..MaxSaves :
           /\ auditSaves'[c] \in SaveRecords /\ ~auditSaves'[c].trusted
           /\ auditSaves'[c].stage = auditSaves[c].stage
           /\ auditSaves'[c].shown = auditSaves[c].shown
           /\ auditSaves'[c].page = auditSaves[c].page
           /\ auditSaves'[c].source = auditSaves[c].source
    BY <2>1, SaveParts DEF SaveRecords
  <2>3. auditSaves' \in [1..MaxSaves -> SaveRecords]
    BY <1>14, <2>2 DEF OtherAuditor
  <2>4. audit' \in [Sources -> Held] /\ ~trusted'
        /\ UNCHANGED <<auditPage, dataSource, configuration, fetches, patient>>
    BY <1>14, HeldRecords DEF OtherAuditor, AuditTyped
  <2>5. AuditTyped' /\ FetchesInOrder' /\ HoldsOthers'
    BY <2>3, <2>4, <1>14
       DEF AuditTyped, FetchesInOrder, Pending, HoldsOthers, OtherAuditor
  <2>6. SavesOfPage'
    BY <2>2, <2>4 DEF SavesOfPage, SaveHolds, Saving
  <2> QED BY <2>5, <2>6
<1>15. CASE UNCHANGED auditVars
  BY <1>15, SavesStay DEF auditVars, AuditTyped, FetchesInOrder, Pending, HoldsOthers
<1>16. CASE \E c \in 1..MaxSaves : \/ onSwitchChange(c) \/ saveConfig(c) \/ updateAuditLogging(c)
                                   \/ switched(c) \/ settingsSaved(c) \/ saveFails(c)
  BY <1>5, <1>6, <1>7, <1>8, <1>9, <1>10, <1>16
<1>17. CASE \E n \in 1..MaxFetches :
               \/ getAuditLogging(n) \/ auditReceived(n)
               \/ \E refused \in BOOLEAN : auditFetchFails(n, refused)
  BY <1>2, <1>3, <1>4, <1>17
<1>18. CASE \E s \in Sources, config \in Configurations : OtherAuditor(s, config)
  BY <1>14, <1>18
<1> QED BY <1>1, <1>12, <1>13, <1>15, <1>16, <1>17, <1>18 DEF AuditNext

(* Only the call that saves writes. *)
LEMMA OnlySavesWrite ==
    ASSUME AuditInv, [AuditNext]_auditVars, NEW c \in 1..MaxSaves, Writes(c)
    PROVE  updateAuditLogging(c)
<1> USE DEF AuditInv, Writes
<1>1. auditSaves' # auditSaves
  OBVIOUS
<1>2. ASSUME NEW d \in 1..MaxSaves, auditSaves' = [auditSaves EXCEPT ![d] = NoSave]
      PROVE  FALSE
  BY <1>2, SaveParts DEF AuditTyped
<1>3. ASSUME auditSaves' = SavesUnshown(auditSaves)
      PROVE  FALSE
  BY <1>3, UnshownSaves DEF AuditTyped
<1>4. ASSUME NEW d \in 1..MaxSaves, auditSaves' = SavesUnshown([auditSaves EXCEPT ![d] = NoSave])
      PROVE  FALSE
  <2> DEFINE others == [auditSaves EXCEPT ![d] = NoSave]
  <2>1. others \in [1..MaxSaves -> SaveRecords] /\ others[c].stage # "written"
    BY SaveParts DEF AuditTyped
  <2> HIDE DEF others
  <2>2. auditSaves' = SavesUnshown(others)
    BY <1>4 DEF others
  <2> QED BY <2>1, <2>2, UnshownSaves
<1>5. ASSUME NEW d \in 1..MaxSaves, NEW config, Asks(d, config)
      PROVE  FALSE
  <2>1. CASE d = c
    BY <1>5, <2>1 DEF Asks, Saving
  <2>2. CASE d # c
    BY <1>5, <2>2 DEF Asks, AuditTyped
  <2> QED BY <2>1, <2>2
<1>6. ASSUME NEW d \in 1..MaxSaves, updateAuditLogging(d), d # c
      PROVE  FALSE
  <2>1. auditSaves'[c] = [auditSaves[c] EXCEPT !.stage = @,
                                               !.trusted = @ /\ auditSaves[d].trusted]
    BY <1>6 DEF updateAuditLogging
  <2> QED BY <2>1, SaveParts DEF SaveRecords
<1>7. ASSUME NEW s \in Sources, NEW config, OtherAuditor(s, config)
      PROVE  FALSE
  <2>1. auditSaves'[c] = [auditSaves[c] EXCEPT !.trusted = FALSE]
    BY <1>7 DEF OtherAuditor
  <2> QED BY <2>1, SaveParts DEF SaveRecords
<1>8. ASSUME NEW d \in 1..MaxSaves,
             \/ onSwitchChange(d) \/ saveConfig(d) \/ updateAuditLogging(d)
             \/ switched(d) \/ settingsSaved(d) \/ saveFails(d)
      PROVE  updateAuditLogging(c)
  <2>1. CASE onSwitchChange(d) \/ saveConfig(d)
    BY <1>5, <2>1 DEF onSwitchChange, saveConfig
  <2>2. CASE switched(d) \/ saveFails(d)
    BY <1>2, <2>2 DEF switched, saveFails
  <2>3. CASE settingsSaved(d)
    BY <1>2, <1>4, <2>3 DEF settingsSaved
  <2>4. CASE updateAuditLogging(d)
    BY <1>6, <2>4
  <2> QED BY <1>8, <2>1, <2>2, <2>3, <2>4
<1>9. CASE leave \/ \E group \in Groups : configure(group)
  BY <1>3, <1>9 DEF leave, configure, Leaves
<1>10. CASE \/ \E s \in Sources : chooseDataSource(s)
            \/ \E n \in 1..MaxFetches :
                  \/ getAuditLogging(n) \/ auditReceived(n)
                  \/ \E refused \in BOOLEAN : auditFetchFails(n, refused)
            \/ \E value \in Settings : handleChange(value)
            \/ UNCHANGED auditVars
  BY <1>1, <1>10
     DEF chooseDataSource, getAuditLogging, auditReceived, auditFetchFails, handleChange, auditVars
<1>11. CASE \E s \in Sources, config \in Configurations : OtherAuditor(s, config)
  BY <1>7, <1>11
<1> QED BY <1>8, <1>9, <1>10, <1>11 DEF AuditNext

(* A save of an audit page changes only what the page is for, of any number of    *)
(* data sources and after any number of loads, edits and failures, other saves of    *)
(* the page being under way or not (panels/audit-logging).                      *)
THEOREM AuditSavesOwn == AuditSpec => SavesOnlyItsOwn
<1>1. AuditInit => AuditInv
  BY AuditInvInit
<1>2. AuditInv /\ [AuditNext]_auditVars => AuditInv'
  BY AuditInvNext
<1> DEFINE Own == \A c \in 1..MaxSaves :
              Writes(c) /\ auditSaves[c].trusted /\ patient =>
                  SameOthers(auditSaves[c].page, audit[auditSaves[c].source],
                             audit'[auditSaves[c].source])
<1>3. AuditInv /\ [AuditNext]_auditVars => Own
  BY OnlySavesWrite, SaveWritten
<1> HIDE DEF Own
<1>4. AuditInv /\ [AuditNext]_auditVars => [Own]_auditVars
  BY <1>3
<1>5. AuditSpec => [][Own]_auditVars
  BY <1>1, <1>2, <1>4, PTL DEF AuditSpec
<1> QED BY <1>5 DEF SavesOnlyItsOwn, Own

-----------------------------------------------------------------------------
(***************************************************************************)
(* The resource sharing page.  While no two loads were under way at once, and the  *)
(* page was not turned during a submission, the load that is belongs to the data     *)
(* source and the type of the page, and so do the rows, the row of the dialog and    *)
(* what was submitted.                                                       *)
(***************************************************************************)
Listings == [stage : {"none", "types", "first records", "records", "done"}, source : Sources,
             type : Types \cup {NoType}]

SharingTyped ==
    /\ api \in Sources /\ selectedType \in Types \cup {NoType}
    /\ listings \in [1..MaxListings -> Listings]
    /\ mode = "closed" <=> resource = {}
    /\ isSubmitting # "no" =>
          request.api \in Sources /\ request.type \in Types \cup {NoType}

(* While types are loaded there are no rows, and so no dialog. *)
OneListing ==
    /\ \A m, n \in UnderWay : m = n
    /\ \A n \in UnderWay :
          /\ listings[n].source = api
          /\ IF listings[n].stage = "types" THEN sharingRows = {} /\ resource = {}
             ELSE listings[n].type = selectedType

RowsOfPage == \A row \in sharingRows \cup resource : row.source = api /\ row.type = selectedType

(* A submission is of a row of the page, and no types are loaded until it is over. *)
RequestOfPage ==
    isSubmitting # "no" =>
        /\ request.api = api /\ request.row.source = api
        /\ request.type = selectedType /\ request.row.type = selectedType
        /\ \A n \in UnderWay : listings[n].stage # "types"

Quiet == tidy /\ awaited
TidyPage == SharingTyped /\ (Quiet => OneListing /\ RowsOfPage /\ RequestOfPage)
SharingInv == TidyPage /\ SharesTheRow /\ UpdatesTheDifference

(* A share says of each access whether it is given. *)
LEMMA GrantsAt ==
    ASSUME NEW share, NEW l, NEW r
    PROVE  <<l, r>> \in Grants(share) <=> r \in At(share, l)
BY DEF Grants, At

LEMMA MinusAt ==
    ASSUME NEW a, NEW b, NEW levels, NEW l, NEW r, DOMAIN a \subseteq levels
    PROVE  <<l, r>> \in Minus(a, b, levels) <=> r \in At(a, l) /\ r \notin At(b, l)
<1>1. r \in At(a, l) => l \in levels
  BY DEF At
<1>2. <<l, r>> \in Minus(a, b, levels) <=> l \in levels /\ r \in At(a, l) \ At(b, l)
  BY DEF Minus
<1> QED BY <1>1, <1>2

(* A share made of pairs gives those pairs. *)
LEMMA SharedAsGrants ==
    ASSUME NEW grants, \A g \in grants : g = <<g[1], g[2]>>, NEW l, NEW r
    PROVE  <<l, r>> \in Grants(SharedAs(grants)) <=> <<l, r>> \in grants
<1> DEFINE share == SharedAs(grants)
<1>1. DOMAIN share = {g[1] : g \in grants}
  BY DEF SharedAs
<1>2. ASSUME l \in DOMAIN share
      PROVE  share[l] = {g[2] : g \in {h \in grants : h[1] = l}}
  BY <1>2 DEF SharedAs
<1> HIDE DEF share
<1>3. ASSUME <<l, r>> \in grants
      PROVE  r \in At(share, l)
  <2>1. l \in DOMAIN share
    BY <1>1, <1>3
  <2> QED BY <1>2, <1>3, <2>1 DEF At
<1>4. ASSUME r \in At(share, l)
      PROVE  <<l, r>> \in grants
  <2>1. l \in DOMAIN share /\ r \in share[l]
    BY <1>4 DEF At
  <2>2. PICK g \in grants : g[1] = l /\ g[2] = r
    BY <1>2, <2>1
  <2> QED BY <2>2
<1>5. <<l, r>> \in Grants(share) <=> r \in At(share, l)
  BY GrantsAt
<1> QED BY <1>3, <1>4, <1>5 DEF share

LEMMA GrantsArePairs ==
    ASSUME NEW a, NEW b, NEW levels
    PROVE  /\ \A g \in Grants(a) : g = <<g[1], g[2]>>
           /\ \A g \in Minus(a, b, levels) : g = <<g[1], g[2]>>
BY DEF Grants, Minus

(* What an update sends does to each access what the dialog did to the row. *)
LEMMA AppliedDifference ==
    ASSUME NEW sent, NEW now, sent.mode = "edit", NEW l, NEW r
    PROVE  <<l, r>> \in Grants(Applied(sent, now)) <=>
               IF <<l, r>> \in Grants(sent.working) <=> <<l, r>> \in Grants(sent.row.share_with)
               THEN <<l, r>> \in Grants(now)
               ELSE <<l, r>> \in Grants(sent.working)
<1> DEFINE prev == sent.row.share_with
           next == sent.working
           levels == DOMAIN prev \cup DOMAIN next
           add == Minus(next, prev, levels)
           revoke == Minus(prev, next, levels)
           grants == (Grants(now) \cup add) \ revoke
<1>1. Applied(sent, now) = SharedAs(grants)
  BY DEF Applied, diffShareWith
<1>2. \A g \in grants : g = <<g[1], g[2]>>
  BY GrantsArePairs
<1>3. <<l, r>> \in add <=> r \in At(next, l) /\ r \notin At(prev, l)
  BY MinusAt
<1>4. <<l, r>> \in revoke <=> r \in At(prev, l) /\ r \notin At(next, l)
  BY MinusAt
<1>5. <<l, r>> \in Grants(SharedAs(grants)) <=> <<l, r>> \in grants
  BY <1>2, SharedAsGrants
<1> HIDE DEF add, revoke
<1>6. <<l, r>> \in grants <=> (<<l, r>> \in Grants(now) \/ <<l, r>> \in add) /\ <<l, r>> \notin revoke
  OBVIOUS
<1>7. /\ <<l, r>> \in Grants(next) <=> r \in At(next, l)
      /\ <<l, r>> \in Grants(prev) <=> r \in At(prev, l)
  BY GrantsAt
<1> QED BY <1>1, <1>3, <1>4, <1>5, <1>6, <1>7

(* A call is about the row it was submitted for. *)
LEMMA SendHonest ==
    ASSUME TidyPage, carriedOut
    PROVE  SharesTheRow' /\ UpdatesTheDifference'
<1> DEFINE now == shares[wrapRouteWithDataSource(request.api)][request.type]
<1>1. last' = [mode |-> request.mode, row |-> request.row, api |-> request.api,
               type |-> request.type, working |-> request.working, before |-> now,
               after |-> Applied(request, now)]
      /\ UNCHANGED <<tidy, awaited>> /\ isSubmitting # "no"
  BY DEF carriedOut
<1>2. tidy /\ awaited => request.row.source = request.api /\ request.row.type = request.type
  BY <1>1 DEF TidyPage, Quiet, RequestOfPage
<1> HIDE DEF now
<1>3. SharesTheRow'
  BY <1>1, <1>2 DEF SharesTheRow
<1>4. ASSUME request.mode = "edit", NEW access \in Levels \X Recipients
      PROVE  access \in Grants(Applied(request, now)) <=>
                 IF access \in Grants(request.working)
                    <=> access \in Grants(request.row.share_with)
                 THEN access \in Grants(now) ELSE access \in Grants(request.working)
  <2>1. PICK l \in Levels, r \in Recipients : access = <<l, r>>
    OBVIOUS
  <2> QED BY <1>4, <2>1, AppliedDifference
<1>5. UpdatesTheDifference'
  BY <1>1, <1>4 DEF UpdatesTheDifference
<1> QED BY <1>3, <1>5

(* Where the last call is the one before, it stays right. *)
LEMMA LastFrame ==
    ASSUME SharesTheRow, UpdatesTheDifference, last' = last \/ last' = NotSent,
           tidy' => tidy, awaited' => awaited
    PROVE  SharesTheRow' /\ UpdatesTheDifference'
BY DEF SharesTheRow, UpdatesTheDifference, NotSent

(* A load begins when no other is under way, or the page is no longer tidy. *)
LEMMA ListingBegins ==
    ASSUME listings \in [1..MaxListings -> Listings], NEW stage \in {"types", "records"},
           NEW s \in Sources, NEW type \in Types \cup {NoType}, begin(stage, s, type)
    PROVE  /\ listings' \in [1..MaxListings -> Listings] /\ (tidy' => tidy)
           /\ tidy' => \A n \in UnderWay' : /\ n = Begun + 1 /\ listings'[n].stage = stage
                                           /\ listings'[n].source = s
                                           /\ listings'[n].type = type
<1> DEFINE new == [stage |-> stage, source |-> s, type |-> type]
           place == Begun + 1
<1>1. new \in Listings /\ new.stage = stage /\ new.source = s /\ new.type = type
  BY DEF Listings
<1>2. listings' = [listings EXCEPT ![place] = new] /\ tidy' = (tidy /\ UnderWay = {})
  BY DEF begin
<1> HIDE DEF new
<1>3. listings' \in [1..MaxListings -> Listings]
  BY <1>1, <1>2
<1>4. ASSUME tidy', NEW n \in UnderWay'
      PROVE  n = place /\ listings'[n] = new
  BY <1>2, <1>4 DEF UnderWay
<1> QED BY <1>1, <1>2, <1>3, <1>4

(* A load goes on to the records, or ends. *)
LEMMA ListingMovesOn ==
    ASSUME listings \in [1..MaxListings -> Listings], NEW n \in UnderWay, NEW new \in Listings,
           listings' = [listings EXCEPT ![n] = new], api' = api,
           OneListing,
           \/ new.stage = "done"
           \/ new.stage = "first records" /\ new.source = listings[n].source
              /\ new.type = selectedType'
    PROVE  OneListing' /\ \A k \in UnderWay' : listings'[k].stage # "types"
<1>1. n \in 1..MaxListings /\ \A k \in 1..MaxListings : listings'[k] = IF k = n THEN new ELSE listings[k]
  BY DEF UnderWay
<1>2. \A k \in UnderWay' : k = n
  <2> SUFFICES ASSUME NEW k \in UnderWay', k # n
               PROVE  FALSE
    OBVIOUS
  <2>1. k \in UnderWay
    BY <1>1 DEF UnderWay
  <2> QED BY <2>1 DEF OneListing
<1>3. ASSUME NEW k \in UnderWay'
      PROVE  /\ new.stage = "first records" /\ listings'[k] = new
  BY <1>1, <1>2, <1>3 DEF UnderWay
<1> QED BY <1>2, <1>3 DEF OneListing

(* An empty dialog on a page whose first load has just begun. *)
LEMMA SharingInvInit == SharingInit => SharingInv
<1> SUFFICES ASSUME SharingInit
             PROVE  SharingInv
  OBVIOUS
<1> USE ConfigApiAssumption, SharingAssumption
<1> DEFINE first == [NoListing EXCEPT !.stage = "types"]
<1>1. /\ first \in Listings
      /\ NoListing \in Listings
      /\ first.source = Local
      /\ first.stage = "types"
      /\ NoListing.stage = "none"
  BY DEF NoListing, Listings
<1>2. listings = [n \in 1..MaxListings |-> IF n = 1 THEN first ELSE NoListing]
  BY DEF SharingInit
<1> HIDE DEF first
<1>3. SharingTyped
  BY <1>1, <1>2 DEF SharingInit, SharingTyped
<1>4. \A n \in UnderWay : n = 1 /\ listings[n] = first
  BY <1>1, <1>2 DEF UnderWay
<1>5. OneListing
  BY <1>1, <1>4 DEF OneListing, SharingInit
<1>6. RowsOfPage /\ RequestOfPage
  BY DEF RowsOfPage, RequestOfPage, SharingInit
<1>7. SharesTheRow /\ UpdatesTheDifference
  BY DEF SharesTheRow, UpdatesTheDifference, SharingInit
<1> QED BY <1>3, <1>5, <1>6, <1>7 DEF SharingInv, TidyPage

(* Every step of the page, of its dialog and of other users. *)
LEMMA SharingInvNext ==
    ASSUME SharingInv, [SharingNext]_sharingVars
    PROVE  SharingInv'
<1> USE DEF SharingInv, TidyPage, Quiet, sharingPage, shareModal, submission, shareCounts
<1>1. CASE \E s \in Sources : changeApi(s)
  <2>1. PICK s \in Sources : changeApi(s)
    BY <1>1
  <2>2. /\ begin("types", s, NoType) /\ api' = s /\ sharingRows' = {} /\ resource = {}
        /\ UNCHANGED <<selectedType, mode, resource, isSubmitting, request, last>>
        /\ awaited' = (awaited /\ isSubmitting = "no")
    BY <2>1 DEF changeApi, SharingTyped, Turns
  <2>3. /\ listings' \in [1..MaxListings -> Listings] /\ (tidy' => tidy)
        /\ tidy' => \A n \in UnderWay' : /\ n = Begun + 1 /\ listings'[n].stage = "types"
                                        /\ listings'[n].source = s
    BY <2>2, ListingBegins DEF SharingTyped
  <2>4. SharingTyped'
    BY <2>2, <2>3 DEF SharingTyped
  <2>5. Quiet' => OneListing' /\ RowsOfPage' /\ RequestOfPage'
    BY <2>2, <2>3 DEF OneListing, RowsOfPage, RequestOfPage
  <2> QED BY <2>2, <2>3, <2>4, <2>5, LastFrame
<1>2. ASSUME NEW n \in 1..MaxListings, typesReceived(n)
      PROVE  SharingInv'
  <2> DEFINE known == TypesOf[wrapRouteWithDataSource(listings[n].source)]
             found == [listings[n] EXCEPT !.stage = "first records", !.type = selectedType]
             ended == [listings[n] EXCEPT !.stage = "done"]
  <2>1. n \in UnderWay /\ listings[n] \in Listings /\ listings[n].stage = "types"
    BY <1>2 DEF typesReceived, UnderWay, SharingTyped
  <2>2. found \in Listings /\ found.stage = "first records" /\ found.type = selectedType
        /\ found.source = listings[n].source
    BY <2>1 DEF SharingTyped, Listings
  <2>3. ended \in Listings /\ ended.stage = "done"
    BY <2>1 DEF Listings
  <2>4. UNCHANGED <<api, sharingRows, mode, resource, isSubmitting, request, tidy, awaited, last>>
    BY <1>2 DEF typesReceived
  <2>5. Quiet => sharingRows = {} /\ resource = {} /\ isSubmitting = "no"
    BY <2>1 DEF OneListing, RequestOfPage
  <2>6. CASE selectedType \in known
    <3>1. listings' = [listings EXCEPT ![n] = found] /\ selectedType' = selectedType
      BY <1>2, <2>1, <2>6 DEF typesReceived, SharingTyped
    <3> HIDE DEF found
    <3>2. SharingTyped' /\ (Quiet' => OneListing')
      BY <2>1, <2>2, <2>4, <3>1, ListingMovesOn DEF SharingTyped
    <3> QED BY <2>4, <2>5, <3>2, LastFrame DEF RowsOfPage, RequestOfPage
  <2>7. CASE selectedType \notin known
    <3>1. listings' = [listings EXCEPT ![n] = ended] /\ selectedType' = NoType
      BY <1>2, <2>1, <2>7 DEF typesReceived, SharingTyped
    <3> HIDE DEF ended
    <3>2. SharingTyped' /\ (Quiet' => OneListing')
      BY <2>1, <2>3, <2>4, <3>1, ListingMovesOn DEF SharingTyped
    <3> QED BY <2>4, <2>5, <3>2, LastFrame DEF RowsOfPage, RequestOfPage
  <2> QED BY <2>6, <2>7
<1>3. ASSUME NEW n \in 1..MaxListings, recordsReceived(n) \/ listingFails(n)
      PROVE  SharingInv'
  <2> DEFINE ended == [listings[n] EXCEPT !.stage = "done"]
             row == RowOf(listings[n].source, listings[n].type)
  <2>1. n \in UnderWay /\ listings[n] \in Listings
    BY <1>3 DEF recordsReceived, listingFails, UnderWay, SharingTyped
  <2>2. ended \in Listings /\ ended.stage = "done"
    BY <2>1 DEF Listings
  <2>3. /\ listings' = [listings EXCEPT ![n] = ended]
        /\ UNCHANGED <<api, selectedType, tidy, awaited, last>>
    BY <1>3, <2>1 DEF recordsReceived, listingFails, Answered, SharingTyped
  <2>4. \/ UNCHANGED <<mode, resource, isSubmitting, request>>
        \/ mode' = "closed" /\ resource' = {} /\ isSubmitting' = "no"
    BY <1>3 DEF recordsReceived, listingFails, Answered, Closed
  <2> HIDE DEF ended
  <2>5. listings' \in [1..MaxListings -> Listings]
        /\ (Quiet => OneListing' /\ \A k \in UnderWay' : listings'[k].stage # "types")
    <3>1. listings' \in [1..MaxListings -> Listings]
      BY <2>2, <2>3 DEF SharingTyped
    <3>2. Quiet => OneListing' /\ \A k \in UnderWay' : listings'[k].stage # "types"
      BY <2>1, <2>2, <2>3, ListingMovesOn DEF SharingTyped
    <3> QED BY <3>1, <3>2
  <2>6. SharingTyped'
    BY <2>3, <2>4, <2>5 DEF SharingTyped
  <2>7. row.source = listings[n].source /\ row.type = listings[n].type
    BY DEF RowOf
  <2>8. recordsReceived(n) => sharingRows' = {row} /\ listings[n].stage # "types"
    BY DEF recordsReceived
  <2>9. listingFails(n) => sharingRows' \subseteq sharingRows
    BY DEF listingFails
  <2> HIDE DEF row
  <2>10. Quiet => listings[n].stage = "types" \/ (listings[n].source = api
                                                 /\ listings[n].type = selectedType)
    BY <2>1 DEF OneListing
  <2>11. Quiet' => RowsOfPage'
    BY <1>3, <2>3, <2>4, <2>7, <2>8, <2>9, <2>10 DEF RowsOfPage
  <2>12. Quiet' => RequestOfPage'
    BY <2>3, <2>4, <2>5 DEF RequestOfPage
  <2> QED BY <2>3, <2>5, <2>6, <2>11, <2>12, LastFrame
<1>4. CASE \E type \in Types : selectType(type)
  <2>1. PICK type \in Types : selectType(type)
    BY <1>4
  <2>2. /\ begin("records", api, type) /\ sharingRows' = {} /\ resource = {}
        /\ selectedType' = type
        /\ UNCHANGED <<api, mode, resource, isSubmitting, request, last>>
        /\ awaited' = (awaited /\ isSubmitting = "no")
    BY <2>1 DEF selectType, SharingTyped, Turns
  <2>3. /\ listings' \in [1..MaxListings -> Listings] /\ (tidy' => tidy)
        /\ tidy' => \A n \in UnderWay' : /\ n = Begun + 1 /\ listings'[n].stage = "records"
                                        /\ listings'[n].source = api
                                        /\ listings'[n].type = type
    BY <2>2, ListingBegins DEF SharingTyped
  <2>4. SharingTyped'
    BY <2>2, <2>3 DEF SharingTyped
  <2>5. Quiet' => OneListing' /\ RowsOfPage' /\ RequestOfPage'
    BY <2>2, <2>3 DEF OneListing, RowsOfPage, RequestOfPage
  <2> QED BY <2>2, <2>3, <2>4, <2>5, LastFrame
<1>5. CASE \E row \in sharingRows : openModal(row)
  <2>1. PICK row \in sharingRows : openModal(row)
    BY <1>5
  <2>2. /\ resource' = {row} /\ mode' # "closed" /\ last' = NotSent
        /\ UNCHANGED <<api, selectedType, sharingRows, listings, isSubmitting, request, tidy,
                       awaited>>
    BY <2>1 DEF openModal
  <2>3. SharingTyped'
    BY <2>2 DEF SharingTyped
  <2>4. Quiet' => OneListing' /\ RowsOfPage' /\ RequestOfPage'
    BY <2>2 DEF OneListing, RowsOfPage, RequestOfPage, UnderWay
  <2> QED BY <2>2, <2>3, <2>4, LastFrame
<1>6. ASSUME UNCHANGED <<api, selectedType, sharingRows, listings, mode, resource, request, tidy,
                         awaited>>,
             isSubmitting' = isSubmitting \/ isSubmitting' = "no" \/ isSubmitting # "no"
      PROVE  TidyPage'
  <2>1. isSubmitting' # "no" => isSubmitting # "no"
    BY <1>6
  <2> QED BY <1>6, <2>1 DEF SharingTyped, OneListing, RowsOfPage, RequestOfPage, UnderWay
<1>7. CASE closeShareModal
  <2>1. /\ mode' = "closed" /\ resource' = {}
        /\ UNCHANGED <<api, selectedType, sharingRows, listings, isSubmitting, request, tidy,
                       awaited, last>>
    BY <1>7 DEF closeShareModal, Closed
  <2> QED
    BY <2>1, LastFrame DEF SharingTyped, OneListing, RowsOfPage, RequestOfPage, UnderWay
<1>8. CASE handleSubmit
  <2> DEFINE sent == [mode |-> mode, row |-> RowOpen, api |-> api, type |-> selectedType,
                      working |-> working]
  <2>1. /\ request' = sent /\ mode # "closed"
        /\ UNCHANGED <<api, selectedType, sharingRows, listings, mode, resource, tidy, awaited,
                       last>>
    BY <1>8 DEF handleSubmit
  <2>2. request'.api = api /\ request'.type = selectedType /\ request'.row = RowOpen
    BY <2>1
  <2>3. RowOpen \in resource
    BY <2>1 DEF SharingTyped, RowOpen
  <2>4. SharingTyped'
    BY <2>1, <2>2 DEF SharingTyped
  <2>5. Quiet' => OneListing' /\ RowsOfPage'
    BY <2>1 DEF OneListing, RowsOfPage, UnderWay
  <2>6. Quiet' => RequestOfPage'
    BY <2>1, <2>2, <2>3 DEF OneListing, RowsOfPage, RequestOfPage, UnderWay
  <2> QED BY <2>1, <2>4, <2>5, <2>6, LastFrame
<1>9. CASE carriedOut
  <2>1. UNCHANGED <<api, selectedType, sharingRows, listings, mode, resource, request, tidy,
                    awaited>> /\ isSubmitting # "no"
    BY <1>9 DEF carriedOut
  <2> QED BY <1>6, <1>9, <2>1, SendHonest
<1>10. CASE fetchSharingRecords
  <2>1. /\ begin("records", request.api, request.type) /\ isSubmitting # "no"
        /\ UNCHANGED <<api, selectedType, sharingRows, mode, resource, request, awaited, last>>
    BY <1>10 DEF fetchSharingRecords
  <2>2. request.api \in Sources /\ request.type \in Types \cup {NoType}
    BY <2>1 DEF SharingTyped
  <2>3. /\ listings' \in [1..MaxListings -> Listings] /\ (tidy' => tidy)
        /\ tidy' => \A n \in UnderWay' : /\ n = Begun + 1 /\ listings'[n].stage = "records"
                                        /\ listings'[n].source = request.api
                                        /\ listings'[n].type = request.type
    BY <2>1, <2>2, ListingBegins DEF SharingTyped
  <2>4. SharingTyped'
    BY <2>1, <2>2, <2>3 DEF SharingTyped
  <2>5. Quiet' => OneListing' /\ RowsOfPage' /\ RequestOfPage'
    BY <2>1, <2>3 DEF OneListing, RowsOfPage, RequestOfPage
  <2> QED BY <2>1, <2>3, <2>4, <2>5, LastFrame
<1>11. CASE submitFails
  <2>1. /\ UNCHANGED <<api, selectedType, sharingRows, listings, mode, resource, tidy, awaited,
                       last>>
        /\ isSubmitting' = "no"
    BY <1>11 DEF submitFails
  <2> QED
    BY <2>1, LastFrame DEF SharingTyped, OneListing, RowsOfPage, RequestOfPage, UnderWay
<1>12. ASSUME NEW share, change(share)
       PROVE  SharingInv'
  BY <1>6, <1>12, LastFrame DEF change
<1>13. CASE \E level \in Levels : addLevel(level) \/ removeLevel(level)
  BY <1>12, <1>13 DEF addLevel, removeLevel
<1>14. CASE \E level \in Levels, who \in SUBSET Recipients : setRecipients(level, who)
  BY <1>12, <1>14 DEF setRecipients
<1>15. CASE \E level, newName \in Levels : setLevelName(level, newName)
  BY <1>12, <1>15 DEF setLevelName
<1>16. CASE \E s \in Sources, type \in Types, grants \in SUBSET (Levels \X Recipients) :
               OtherSharer(s, type, grants)
  BY <1>6, <1>16, LastFrame DEF OtherSharer
<1>17. CASE UNCHANGED sharingVars
  BY <1>6, <1>17, LastFrame DEF sharingVars
<1> QED
  BY <1>1, <1>2, <1>3, <1>4, <1>5, <1>7, <1>8, <1>9, <1>10, <1>11, <1>13, <1>14, <1>15, <1>16,
     <1>17
     DEF SharingNext

(* The invariant of every behaviour of the page. *)
THEOREM SharingInvariant == SharingSpec => []SharingInv
BY SharingInvInit, SharingInvNext, PTL DEF SharingSpec

(* A share is sent for the resource of the row it was made for, whatever was       *)
(* loaded, chosen and left, as long as loads did not overlap and the page was not     *)
(* turned during a submission (public/apps/resource-sharing).                    *)
THEOREM SharesItsRow == SharingSpec => []SharesTheRow
<1>1. SharingInv => SharesTheRow
  BY DEF SharingInv
<1> QED BY <1>1, SharingInvariant, PTL

(* An update changes just the accesses its dialog changed, for any levels and      *)
(* recipients (share_access_modal.tsx, diffShareWith).                        *)
THEOREM UpdateIsTheDifference == SharingSpec => []UpdatesTheDifference
<1>1. SharingInv => UpdatesTheDifference
  BY DEF SharingInv
<1> QED BY <1>1, SharingInvariant, PTL
=============================================================================
