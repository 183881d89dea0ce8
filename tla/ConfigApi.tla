------------------------------ MODULE ConfigApi ------------------------------
(***************************************************************************)
(* server/routes/index.ts: the REST routes the configuration pages call.      *)
(* They keep no state: a route checks its parameters, picks the cluster the    *)
(* request is for, and passes the call on.  What the clusters hold is a        *)
(* function of the cluster, the resource and the entity's name.               *)
(***************************************************************************)
CONSTANTS
    Sources, Local,          \* data sources, with the local cluster
    dataSourceEnabled,       \* the data source plugin is there
    Absent                   \* no entity of that name

(* Without the plugin the pages offer no other cluster to choose. *)
ASSUME ConfigApiAssumption ==
    /\ Local \in Sources /\ dataSourceEnabled \in BOOLEAN
    /\ dataSourceEnabled \/ Sources = {Local}

(* Fault: the data source is only looked at when listing. *)
wrapRouteWithDataSource_Local(dataSourceId) == Local

(* The local cluster's id is empty, and so is that of a page that sends none. *)
wrapRouteWithDataSource(dataSourceId) ==
    IF dataSourceEnabled THEN dataSourceId ELSE Local

(* GET, POST and DELETE of an entity.  A save gives the whole body: what it does *)
(* not mention is gone.                                                     *)
listResource(clusters, dataSourceId, resource) ==
    clusters[wrapRouteWithDataSource(dataSourceId)][resource]

getResource(clusters, dataSourceId, resource, id) ==
    listResource(clusters, dataSourceId, resource)[id]

saveResource(clusters, dataSourceId, resource, id, body) ==
    [clusters EXCEPT ![wrapRouteWithDataSource(dataSourceId)][resource][id] = body]

deleteResource(clusters, dataSourceId, resource, id) ==
    [clusters EXCEPT ![wrapRouteWithDataSource(dataSourceId)][resource][id] = Absent]
=============================================================================
