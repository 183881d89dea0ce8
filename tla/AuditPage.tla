------------------------------ MODULE AuditPage ------------------------------
(***************************************************************************)
(* public/apps/configuration/panels/audit-logging: the page that shows the     *)
(* audit settings of a data source and switches them on and off, and the pages  *)
(* that edit its general and its compliance settings.  Each saves the whole     *)
(* configuration it holds to the data source chosen when it saves, and nothing    *)
(* on the page waits for the answer.                                         *)
(***************************************************************************)
EXTENDS Naturals, FiniteSets, ConfigApi

CONSTANTS
    Settings,         \* values of a group of settings
    Unset,            \* a group the page does not hold
    MaxFetches,       \* bound: loads of one page
    MaxSaves,         \* bound: saves under way at once
    MaxAuditFailures, \* bound: calls that fail
    MaxChanges        \* bound: edits of a page, and changes by other administrators

ASSUME AuditAssumption ==
    /\ MaxFetches \in Nat \ {0} /\ MaxSaves \in Nat /\ MaxAuditFailures \in Nat
    /\ MaxChanges \in Nat

VARIABLES
    audit,                                 \* per data source: the configuration
    auditPage, dataSource,                 \* view, general or compliance; data source chosen
    configuration,                         \* what the page holds
    auditLoading, auditRefused, invalid,   \* page state
    fetches,                               \* the loads: stage, source, what was read
    auditSaves,                            \* the saves: stage, page, source, what is written
    auditFailures, changes,
    trusted, patient                       \* history: see the properties
auditState == <<configuration, auditLoading, auditRefused, invalid>>
auditHistory == <<trusted, patient>>
auditVars == <<audit, auditPage, dataSource, auditState, fetches, auditSaves, auditFailures,
               changes, auditHistory>>

Groups == {"general", "compliance"}
Configurations == [enabled : BOOLEAN, general : Settings, compliance : Settings]
Nothing == [enabled |-> FALSE, general |-> Unset, compliance |-> Unset]
NoFetch == [stage |-> "none", source |-> Local, read |-> Nothing]
Fetch(s) == [NoFetch EXCEPT !.stage = "asked", !.source = s]
Fetched == Cardinality({n \in 1..MaxFetches : fetches[n].stage # "none"})
Pending == {n \in 1..MaxFetches : fetches[n].stage \in {"asked", "read"}}

NoSave == [stage |-> "none", page |-> "view", source |-> Local, config |-> Nothing,
           shown |-> FALSE, trusted |-> FALSE]
Saving(c) == auditSaves[c].stage \in {"asked", "written"}
NoneSaving == \A c \in 1..MaxSaves : ~Saving(c)

(* A page mounts with nothing, and loads. *)
Mounted(s) == [n \in 1..MaxFetches |-> IF n = 1 THEN Fetch(s) ELSE NoFetch]

AuditInit ==
    /\ audit \in [Sources -> Configurations]
    /\ auditPage = "view" /\ dataSource = Local
    /\ configuration = Nothing /\ auditLoading = TRUE /\ auditRefused = FALSE /\ invalid = FALSE
    /\ fetches = Mounted(Local)
    /\ auditSaves = [c \in 1..MaxSaves |-> NoSave]
    /\ auditFailures = 0 /\ changes = 0
    /\ trusted = FALSE /\ patient = TRUE

(* The page there was is gone, and with it what its saves would do to it. *)
mount(newPage) ==
    /\ auditPage' = newPage
    /\ configuration' = Nothing /\ auditLoading' = (newPage = "view")
    /\ auditRefused' = FALSE /\ invalid' = FALSE
    /\ fetches' = Mounted(dataSource)
    /\ trusted' = FALSE

SavesUnshown(all) == [c \in 1..MaxSaves |-> [all[c] EXCEPT !.shown = FALSE]]

(* The data source can be changed on the first page only; a load or a save under  *)
(* way goes on.                                                              *)
chooseDataSource(s) ==
    /\ auditPage = "view" /\ s # dataSource /\ Fetched < MaxFetches
    /\ dataSource' = s
    /\ fetches' = [fetches EXCEPT ![Fetched + 1] = Fetch(s)]
    /\ auditLoading' = TRUE
    /\ trusted' = FALSE /\ patient' = (patient /\ NoneSaving)
    /\ UNCHANGED <<audit, auditPage, configuration, auditRefused, invalid, auditSaves, auditFailures,
                   changes>>

getAuditLogging(n) ==
    /\ fetches[n].stage = "asked"
    /\ fetches' = [fetches EXCEPT ![n].stage = "read",
                                  ![n].read = audit[wrapRouteWithDataSource(fetches[n].source)]]
    /\ UNCHANGED <<audit, auditPage, dataSource, auditState, auditSaves, auditFailures, changes,
                   auditHistory>>

(* What has been edited so far is overwritten. *)
auditReceived(n) ==
    /\ fetches[n].stage = "read"
    /\ fetches' = [fetches EXCEPT ![n] = [NoFetch EXCEPT !.stage = "done"]]
    /\ configuration' = fetches[n].read
    /\ auditLoading' = FALSE /\ auditRefused' = FALSE
    /\ trusted' = (Pending = {n} /\ n = Fetched /\ fetches[n].read = audit[fetches[n].source])
    /\ UNCHANGED <<audit, auditPage, dataSource, invalid, auditSaves, auditFailures, changes, patient>>

(* Fault: a refusal is forgotten like any other failure. *)
auditFetchFails_NoFlag(n, refused) ==
    /\ fetches[n].stage = "asked" /\ auditFailures < MaxAuditFailures
    /\ fetches' = [fetches EXCEPT ![n] = [NoFetch EXCEPT !.stage = "done"]]
    /\ auditFailures' = auditFailures + 1
    /\ auditLoading' = FALSE
    /\ trusted' = (refused /\ Pending = {n} /\ n = Fetched)
    /\ UNCHANGED <<audit, auditPage, dataSource, configuration, auditRefused, invalid, auditSaves,
                   changes, patient>>

(* On the first page a refusal (400, 403) hides the settings.  After another      *)
(* failure, and on the pages that edit, they stay as they are.                *)
auditFetchFails(n, refused) ==
    /\ fetches[n].stage = "asked" /\ auditFailures < MaxAuditFailures
    /\ fetches' = [fetches EXCEPT ![n] = [NoFetch EXCEPT !.stage = "done"]]
    /\ auditFailures' = auditFailures + 1
    /\ auditLoading' = FALSE
    /\ auditRefused' = (auditRefused \/ (refused /\ auditPage = "view"))
    /\ trusted' = (refused /\ auditPage = "view" /\ Pending = {n} /\ n = Fetched)
    /\ UNCHANGED <<audit, auditPage, dataSource, configuration, invalid, auditSaves, changes, patient>>

-----------------------------------------------------------------------------
Usable == auditPage # "view" \/ (~auditLoading /\ ~auditRefused)

Asks(c, config) ==
    /\ ~Saving(c) /\ \A d \in 1..(c - 1) : Saving(d)
    /\ auditSaves' = [auditSaves EXCEPT ![c] = [stage |-> "asked", page |-> auditPage,
                                      source |-> dataSource, config |-> config, shown |-> TRUE,
                                      trusted |-> trusted]]
    /\ UNCHANGED <<audit, auditPage, dataSource, auditState, fetches, auditFailures, changes,
                   auditHistory>>

onSwitchChange(c) ==
    /\ auditPage = "view" /\ Usable
    /\ Asks(c, [configuration EXCEPT !.enabled = ~@])

saveConfig(c) == auditPage \in Groups /\ ~invalid /\ Asks(c, configuration)

(* A save of an untrusted page leaves nothing known of what it wrote to. *)
updateAuditLogging(c) ==
    /\ auditSaves[c].stage = "asked"
    /\ audit' = [audit EXCEPT ![wrapRouteWithDataSource(auditSaves[c].source)] = auditSaves[c].config]
    /\ auditSaves' = [d \in 1..MaxSaves |->
                    [auditSaves[d] EXCEPT !.stage = IF d = c THEN "written" ELSE @,
                                     !.trusted = @ /\ auditSaves[c].trusted]]
    /\ trusted' = (trusted /\ auditSaves[c].trusted)
    /\ UNCHANGED <<auditPage, dataSource, auditState, fetches, auditFailures, changes, patient>>

(* The switch is shown as it was set when it was clicked, with the settings the   *)
(* page had then, whatever data source the page shows by now.                 *)
switched(c) ==
    /\ auditSaves[c].stage = "written" /\ auditSaves[c].page = "view"
    /\ configuration' = IF auditSaves[c].shown THEN auditSaves[c].config ELSE configuration
    /\ auditSaves' = [auditSaves EXCEPT ![c] = NoSave]
    /\ trusted' = (trusted /\ (auditSaves[c].shown => auditSaves[c].trusted))
    /\ UNCHANGED <<audit, auditPage, dataSource, auditLoading, auditRefused, invalid, fetches,
                   auditFailures, changes, patient>>

(* Saved, the settings are shown by the first page, whichever page is shown by    *)
(* now: only the first page itself has nowhere to go.                         *)
settingsSaved(c) ==
    /\ auditSaves[c].stage = "written" /\ auditSaves[c].page \in Groups
    /\ LET others == [auditSaves EXCEPT ![c] = NoSave]
       IN  IF auditPage = "view"
           THEN auditSaves' = others /\ UNCHANGED <<auditPage, auditState, fetches, trusted, patient>>
           ELSE /\ auditSaves' = SavesUnshown(others) /\ mount("view")
                /\ patient' = (patient /\ \A d \in (1..MaxSaves) \ {c} : ~Saving(d))
    /\ UNCHANGED <<audit, dataSource, auditFailures, changes>>

(* A save that fails, or whose answer is lost after it was written, changes nothing *)
(* on the page.                                                              *)
saveFails(c) ==
    /\ Saving(c) /\ auditFailures < MaxAuditFailures
    /\ auditSaves' = [auditSaves EXCEPT ![c] = NoSave]
    /\ auditFailures' = auditFailures + 1
    /\ UNCHANGED <<audit, auditPage, dataSource, auditState, fetches, changes, auditHistory>>

-----------------------------------------------------------------------------
Leaves(newPage) ==
    /\ mount(newPage)
    /\ auditSaves' = SavesUnshown(auditSaves) /\ patient' = (patient /\ NoneSaving)
    /\ UNCHANGED <<audit, dataSource, auditFailures, changes>>

configure(group) ==
    /\ auditPage = "view" /\ Usable /\ configuration.enabled
    /\ Leaves(group)

leave == auditPage \in Groups /\ Leaves("view")

(* A page edits its own group, and may find what was typed invalid. *)
handleChange(value) ==
    /\ auditPage \in Groups /\ changes < MaxChanges
    /\ configuration' = [configuration EXCEPT ![auditPage] = value]
    /\ invalid' \in BOOLEAN
    /\ changes' = changes + 1
    /\ UNCHANGED <<audit, auditPage, dataSource, auditLoading, auditRefused, fetches, auditSaves,
                   auditFailures, auditHistory>>

OtherAuditor(s, config) ==
    /\ changes < MaxChanges
    /\ audit' = [audit EXCEPT ![s] = config]
    /\ changes' = changes + 1
    /\ auditSaves' = [c \in 1..MaxSaves |-> [auditSaves[c] EXCEPT !.trusted = FALSE]]
    /\ trusted' = FALSE
    /\ UNCHANGED <<auditPage, dataSource, auditState, fetches, auditFailures, patient>>

AuditNext ==
    \/ \E s \in Sources : chooseDataSource(s)
    \/ \E n \in 1..MaxFetches :
          \/ getAuditLogging(n) \/ auditReceived(n)
          \/ \E refused \in BOOLEAN : auditFetchFails(n, refused)
    \/ \E c \in 1..MaxSaves :
          \/ onSwitchChange(c) \/ saveConfig(c) \/ updateAuditLogging(c)
          \/ switched(c) \/ settingsSaved(c) \/ saveFails(c)
    \/ leave
    \/ \E group \in Groups : configure(group)
    \/ \E value \in Settings : handleChange(value)
    \/ \E s \in Sources, config \in Configurations : OtherAuditor(s, config)

AuditSpec == AuditInit /\ [][AuditNext]_auditVars

-----------------------------------------------------------------------------
(* What a page is not for. *)
SameOthers(page, a, b) ==
    /\ page # "view" => a.enabled = b.enabled
    /\ \A group \in Groups \ {page} : a[group] = b[group]

Writes(c) == auditSaves[c].stage = "asked" /\ auditSaves'[c].stage = "written"

(* Saving the whole configuration changes no more of a data source than the page *)
(* is for: the switch or one group of settings.  It is so of a save asked for      *)
(* once the load begun last had answered alone, with the settings or with a         *)
(* refusal, as long as nobody else changes them and no page or data source was      *)
(* left while a save was under way; in particular no settings of the data source     *)
(* chosen before are saved to one that refuses to be read, and of two saves under      *)
(* way the later one undoes nothing but what the earlier one was for.             *)
SavesOnlyItsOwn ==
    [][\A c \in 1..MaxSaves :
          Writes(c) /\ auditSaves[c].trusted /\ patient =>
              SameOthers(auditSaves[c].page, audit[auditSaves[c].source], audit'[auditSaves[c].source])]_auditVars
=============================================================================
