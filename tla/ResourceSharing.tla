---------------------------- MODULE ResourceSharing ----------------------------
(***************************************************************************)
(* public/apps/resource-sharing: the page that shows the resources of one type  *)
(* and with whom they are shared, and shares them or changes how.  Types and    *)
(* resources are loaded from the data source chosen; a dialog changes a copy of  *)
(* what a row says, and sends the difference.  It waits for the answer and for    *)
(* the records to be loaded again, and can be closed meanwhile.                *)
(*                                                                         *)
(* There is one resource id: the same in every type and data source.  A share    *)
(* gives access levels, each to a set of users, roles and backend roles.      *)
(***************************************************************************)
EXTENDS Naturals, FiniteSets, ConfigApi

CONSTANTS
    Types, NoType,       \* resource types
    TypesOf,             \* the types a data source knows
    CanShare,            \* the types whose resource the user may share
    Levels, Recipients,
    MaxListings,         \* bound: loads
    MaxShareEdits,       \* bound: changes in a dialog
    MaxShareTroubles     \* bound: calls that fail, changes by others

ASSUME SharingAssumption ==
    /\ TypesOf \in [Sources -> SUBSET Types] /\ CanShare \subseteq Types /\ NoType \notin Types
    /\ MaxListings \in Nat \ {0} /\ MaxShareEdits \in Nat
    /\ MaxShareTroubles \in Nat

VARIABLES
    shares,                              \* per data source and type: who has access
    api,                                 \* the data source chosen
    typeOptions, selectedType, sharingRows, typesLoading,  \* page state
    listings,                            \* the loads: stage, source, type
    mode, resource, working,             \* the dialog
    isSubmitting, request, reload,       \* what was submitted, and the load that follows
    shareEdits, shareTroubles,
    tidy, awaited, last                  \* history: see the properties
sharingPage == <<typeOptions, selectedType, sharingRows, typesLoading>>
shareModal == <<mode, resource, working>>
submission == <<isSubmitting, request, reload>>
shareCounts == <<shareEdits, shareTroubles>>
sharingVars == <<shares, api, sharingPage, listings, shareModal, submission, shareCounts,
                 tidy, awaited, last>>

(* A level that is in the share may have no recipient yet. *)
Shares == UNION {[levels -> SUBSET Recipients] : levels \in SUBSET Levels}
NotShared == [level \in {} |-> {}]
Grants(share) == UNION {{level} \X share[level] : level \in DOMAIN share}
SharedAs(grants) == [level \in {g[1] : g \in grants} |-> {g[2] : g \in {h \in grants : h[1] = level}}]

NoListing == [stage |-> "none", source |-> Local, type |-> NoType]
Begun == Cardinality({n \in 1..MaxListings : listings[n].stage # "none"})
UnderWay == {n \in 1..MaxListings : listings[n].stage \in {"types", "first records", "records"}}
NotSent == [mode |-> "closed"]

SharingInit ==
    /\ \E grants \in SUBSET (Levels \X Recipients) :
          shares = [s \in Sources |-> [t \in Types |-> SharedAs(grants)]]
    /\ api = Local
    /\ typeOptions = {} /\ selectedType \in Types \cup {NoType}
    /\ sharingRows = {} /\ typesLoading = TRUE
    /\ listings = [n \in 1..MaxListings |->
                      IF n = 1 THEN [NoListing EXCEPT !.stage = "types"] ELSE NoListing]
    /\ mode = "closed" /\ resource = {} /\ working = NotShared
    /\ isSubmitting = "no" /\ request = NotSent /\ reload = 0
    /\ shareEdits = 0 /\ shareTroubles = 0
    /\ tidy = TRUE /\ awaited = TRUE /\ last = NotSent

begin(stage, source, type) ==
    /\ Begun < MaxListings
    /\ listings' = [listings EXCEPT ![Begun + 1] =
                       [stage |-> stage, source |-> source, type |-> type]]
    /\ tidy' = (tidy /\ UnderWay = {})

Turns == awaited' = (awaited /\ isSubmitting = "no")

(* Another data source: its types are loaded, and the rows are gone. *)
changeApi(s) ==
    /\ mode = "closed" /\ s # api
    /\ api' = s
    /\ typesLoading' = TRUE /\ sharingRows' = {}
    /\ begin("types", s, NoType) /\ Turns
    /\ UNCHANGED <<shares, typeOptions, selectedType, shareModal, submission, shareCounts, last>>

(* The type chosen, also in an earlier visit, stays if the data source knows it. *)
typesReceived(n) ==
    /\ listings[n].stage = "types"
    /\ LET known == TypesOf[wrapRouteWithDataSource(listings[n].source)]
       IN  /\ typeOptions' = known
           /\ IF selectedType \in known
              THEN /\ listings' = [listings EXCEPT ![n].stage = "first records",
                                                   ![n].type = selectedType]
                   /\ UNCHANGED <<selectedType, typesLoading>>
              ELSE /\ listings' = [listings EXCEPT ![n].stage = "done"]
                   /\ selectedType' = NoType /\ typesLoading' = FALSE
    /\ UNCHANGED <<shares, api, sharingRows, shareModal, submission, shareCounts, tidy, awaited,
                   last>>

RowOf(source, type) ==
    [source |-> source, type |-> type, share_with |-> shares[wrapRouteWithDataSource(source)][type]]

Closed == mode' = "closed" /\ resource' = {} /\ working' = NotShared

(* The load that follows a submission closes the dialog that is open by now. *)
Answered(n) ==
    /\ listings' = [listings EXCEPT ![n].stage = "done"]
    /\ IF isSubmitting = "reloading" /\ reload = n
       THEN Closed /\ isSubmitting' = "no" /\ request' = NotSent /\ reload' = 0
       ELSE UNCHANGED <<shareModal, submission>>

recordsReceived(n) ==
    /\ listings[n].stage \in {"first records", "records"}
    /\ Answered(n)
    /\ sharingRows' = {RowOf(listings[n].source, listings[n].type)}
    /\ typesLoading' = (typesLoading /\ listings[n].stage = "records")
    /\ UNCHANGED <<shares, api, typeOptions, selectedType, shareCounts, tidy, awaited, last>>

(* Without types the page keeps those it had; without records it has no rows. *)
listingFails(n) ==
    /\ n \in UnderWay /\ shareTroubles < MaxShareTroubles
    /\ shareTroubles' = shareTroubles + 1
    /\ Answered(n)
    /\ sharingRows' = IF listings[n].stage = "types" THEN sharingRows ELSE {}
    /\ typesLoading' = (typesLoading /\ listings[n].stage = "records")
    /\ UNCHANGED <<shares, api, typeOptions, selectedType, shareEdits, tidy, awaited, last>>

(* Fault: the rows stay until those of the other type have come. *)
selectType_KeepsRows(type) ==
    /\ mode = "closed" /\ ~typesLoading /\ type \in typeOptions
    /\ selectedType' = type
    /\ begin("records", api, type) /\ Turns
    /\ UNCHANGED <<shares, api, typeOptions, sharingRows, typesLoading, shareModal, submission,
                   shareCounts, last>>

selectType(type) ==
    /\ mode = "closed" /\ ~typesLoading /\ type \in typeOptions
    /\ selectedType' = type /\ sharingRows' = {}
    /\ begin("records", api, type) /\ Turns
    /\ UNCHANGED <<shares, api, typeOptions, typesLoading, shareModal, submission, shareCounts,
                   last>>

-----------------------------------------------------------------------------
hasSharingInfo(share) == \E level \in DOMAIN share : share[level] # {}

openModal(row) ==
    /\ mode = "closed" /\ selectedType # NoType /\ row.type \in CanShare
    /\ resource' = {row}
    /\ mode' = IF hasSharingInfo(row.share_with) THEN "edit" ELSE "create"
    /\ working' = IF hasSharingInfo(row.share_with) THEN row.share_with ELSE NotShared
    /\ last' = NotSent
    /\ UNCHANGED <<shares, api, sharingPage, listings, submission, shareCounts, tidy, awaited>>

RowOpen == CHOOSE row \in resource : TRUE
original == RowOpen.share_with

change(share) ==
    /\ mode # "closed" /\ shareEdits < MaxShareEdits
    /\ working' = share /\ shareEdits' = shareEdits + 1
    /\ UNCHANGED <<shares, api, sharingPage, listings, mode, resource, submission, shareTroubles,
                   tidy, awaited, last>>

With(share, level, who) ==
    [l \in DOMAIN share \cup {level} |-> IF l = level THEN who ELSE share[l]]
Without(share, level) == [l \in DOMAIN share \ {level} |-> share[l]]

addLevel(level) == level \notin DOMAIN working /\ change(With(working, level, {}))
removeLevel(level) == level \in DOMAIN working /\ change(Without(working, level))
setRecipients(level, who) ==
    level \in DOMAIN working /\ working[level] # who /\ change(With(working, level, who))

(* A level that is there already is not overwritten. *)
setLevelName(level, newName) ==
    /\ level \in DOMAIN working /\ newName \notin DOMAIN working
    /\ change(With(Without(working, level), newName, working[level]))

(* Cancel waits for a submission; the cross and the Escape key do not. *)
closeShareModal ==
    /\ mode # "closed"
    /\ Closed
    /\ UNCHANGED <<shares, api, sharingPage, listings, submission, shareCounts, tidy, awaited,
                   last>>

At(share, level) == IF level \in DOMAIN share THEN share[level] ELSE {}
Minus(a, b, levels) == UNION {{l} \X (At(a, l) \ At(b, l)) : l \in levels}

(* Fault: a level that was removed is not looked at. *)
diffShareWith_NextLevels(prev, next) ==
    [add |-> Minus(next, prev, DOMAIN next), revoke |-> Minus(prev, next, DOMAIN next)]

diffShareWith(prev, next) ==
    LET allLevels == DOMAIN prev \cup DOMAIN next
    IN  [add |-> Minus(next, prev, allLevels), revoke |-> Minus(prev, next, allLevels)]

hasChanges ==
    LET diff == diffShareWith(original, working)
    IN  IF mode = "create" THEN hasSharingInfo(working) ELSE diff.add # {} \/ diff.revoke # {}
isInvalid == \E level \in DOMAIN working : working[level] = {}

(* One submission at a time, also of dialogs opened since.  The type and the data  *)
(* source are those of the page, whatever the row's.                           *)
handleSubmit ==
    /\ mode # "closed" /\ hasChanges /\ ~isInvalid /\ isSubmitting = "no"
    /\ isSubmitting' = "sent"
    /\ request' = [mode |-> mode, row |-> RowOpen, api |-> api, type |-> selectedType,
                   working |-> working]
    /\ UNCHANGED <<shares, api, sharingPage, listings, shareModal, reload, shareCounts, tidy,
                   awaited, last>>

(* The backend: a share replaces what there was, an update adds and revokes. *)
Applied(sent, now) ==
    LET diff == diffShareWith(sent.row.share_with, sent.working)
    IN  IF sent.mode = "create" THEN sent.working
        ELSE SharedAs((Grants(now) \cup diff.add) \ diff.revoke)

(* A type that is empty is refused. *)
carriedOut ==
    /\ isSubmitting = "sent" /\ request.type # NoType
    /\ isSubmitting' = "applied"
    /\ LET s == wrapRouteWithDataSource(request.api)
           now == shares[s][request.type]
       IN  /\ shares' = [shares EXCEPT ![s][request.type] = Applied(request, now)]
           /\ last' = [mode |-> request.mode, row |-> request.row, api |-> request.api,
                       type |-> request.type, working |-> request.working, before |-> now,
                       after |-> Applied(request, now)]
    /\ UNCHANGED <<api, sharingPage, listings, shareModal, request, reload, shareCounts, tidy,
                   awaited>>

(* Answered, the records of the data source and the type submitted are loaded again. *)
fetchSharingRecords ==
    /\ isSubmitting = "applied"
    /\ isSubmitting' = "reloading" /\ reload' = Begun + 1
    /\ begin("records", request.api, request.type)
    /\ UNCHANGED <<shares, api, sharingPage, shareModal, request, shareCounts, awaited, last>>

(* The dialog that is open by now stays as it is, though the call may have been     *)
(* carried out.                                                             *)
submitFails ==
    /\ isSubmitting \in {"sent", "applied"}
    /\ IF isSubmitting = "sent" /\ request.type = NoType THEN UNCHANGED shareTroubles
       ELSE shareTroubles < MaxShareTroubles /\ shareTroubles' = shareTroubles + 1
    /\ isSubmitting' = "no" /\ request' = NotSent
    /\ UNCHANGED <<shares, api, sharingPage, listings, shareModal, reload, shareEdits, tidy,
                   awaited, last>>

OtherSharer(s, type, grants) ==
    /\ shareTroubles < MaxShareTroubles
    /\ shareTroubles' = shareTroubles + 1
    /\ shares' = [shares EXCEPT ![s][type] = SharedAs(grants)]
    /\ UNCHANGED <<api, sharingPage, listings, shareModal, submission, shareEdits, tidy, awaited,
                   last>>

SharingNext ==
    \/ \E s \in Sources : changeApi(s)
    \/ \E n \in 1..MaxListings : typesReceived(n) \/ recordsReceived(n) \/ listingFails(n)
    \/ \E type \in Types : selectType(type)
    \/ \E row \in sharingRows : openModal(row)
    \/ \E level \in Levels : addLevel(level) \/ removeLevel(level)
    \/ \E level \in Levels, who \in SUBSET Recipients : setRecipients(level, who)
    \/ \E level, newName \in Levels : setLevelName(level, newName)
    \/ closeShareModal
    \/ handleSubmit \/ carriedOut \/ fetchSharingRecords \/ submitFails
    \/ \E s \in Sources, type \in Types, grants \in SUBSET (Levels \X Recipients) :
          OtherSharer(s, type, grants)

SharingSpec == SharingInit /\ [][SharingNext]_sharingVars

-----------------------------------------------------------------------------
(* What is sent is about the resource of the row the dialog was opened for, in     *)
(* its type and its data source, though it takes both from the page; so it is     *)
(* unless two loads were under way at once, or the page was turned to another type   *)
(* or data source while a submission was under way.                           *)
SharesTheRow ==
    tidy /\ awaited /\ last # NotSent =>
        last.api = last.row.source /\ last.type = last.row.type

(* An update does to every access what its dialog did to the row, and leaves the   *)
(* others as they are in the cluster, though somebody may have changed them, and   *)
(* the same update may have been carried out before.                           *)
UpdatesTheDifference ==
    last # NotSent /\ last.mode = "edit" =>
        \A access \in Levels \X Recipients :
            access \in Grants(last.after) <=>
                IF access \in Grants(last.working) <=> access \in Grants(last.row.share_with)
                THEN access \in Grants(last.before)
                ELSE access \in Grants(last.working)
=============================================================================
