------------------------------ MODULE MCPanels ------------------------------
(***************************************************************************)
(* The pages that show and change what the data source chosen holds: lists,       *)
(* audit settings and resource sharing, in one run, each from its mount as in       *)
(* MCPages.                                                                *)
(***************************************************************************)
EXTENDS ListPanel, AuditPage, ResourceSharing, TLC

CONSTANTS here, there, t1, t2

(* One of two data sources knows one type less. *)
SharableTypes == here :> {t1, t2} @@ there :> {t1}

(* Which of two values an audit setting has makes no difference. *)
SettingSymmetry == Permutations(Settings)

(* Little is claimed of a list once rows of two data sources and two deletions have  *)
(* met, and nothing of the audit settings once a page or a data source was left with  *)
(* a save under way: TLC stops there, the proofs do not.                       *)
WhilePatient == (careful \/ single) /\ patient

VARIABLE panel_shown

NoList == ListInit /\ panel = "roles"
NoAudit == AuditInit /\ audit = [s \in Sources |-> CHOOSE c \in Configurations : TRUE]
NoSharing == SharingInit /\ selectedType = NoType /\ shares[Local] = [t \in Types |-> NotShared]

PanelsInit ==
    \/ panel_shown = "list" /\ ListInit /\ NoAudit /\ NoSharing
    \/ panel_shown = "audit" /\ NoList /\ AuditInit /\ NoSharing
    \/ panel_shown = "sharing" /\ NoList /\ NoAudit /\ SharingInit

PanelsVars == <<panel_shown, listVars, auditVars, sharingVars>>

PanelsNext ==
    /\ UNCHANGED panel_shown
    /\ IF panel_shown = "list" THEN ListNext ELSE UNCHANGED listVars
    /\ IF panel_shown = "audit" THEN AuditNext ELSE UNCHANGED auditVars
    /\ IF panel_shown = "sharing" THEN SharingNext ELSE UNCHANGED sharingVars

PanelsSpec == PanelsInit /\ [][PanelsNext]_PanelsVars

(* The panel shown is all that tells two states apart. *)
PanelView ==
    CASE panel_shown = "list" -> <<panel_shown, listVars>>
      [] panel_shown = "audit" -> <<panel_shown, auditVars>>
      [] panel_shown = "sharing" -> <<panel_shown, sharingVars>>
=============================================================================
