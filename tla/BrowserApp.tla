------------------------------ MODULE BrowserApp ------------------------------
(***************************************************************************)
(* public/plugin.ts, public/apps/account, public/apps/login: what the plugin    *)
(* does in the browser.  Tabs share the session cookie and the tenant saved in  *)
(* local storage; each has its own session storage and its own start of the     *)
(* account menu, which switches to the saved tenant and loads the page again.   *)
(* The server resolves the tenant of every page it serves (TenantResolver).   *)
(***************************************************************************)
EXTENDS Naturals, FiniteSets

CONSTANTS
    Tabs, Users, Nobody,
    TenantNames, Global,     \* the global tenant is the one that always is
    NoTenantName,            \* no tenant: none saved, none in the URL, none known
    encode,                  \* the tenant route answers with HTML entities
    Entitled,                \* the tenants of a user
    multitenancyEnabled,
    defaultTenant,           \* what the administrator has set, or no tenant
    keepalive,               \* every answer renews the cookie it was asked with
    MaxEvents                \* bound: pages the user opens, switches in the list of tenants,
                             \* sessions that end, calls that fail, answers that come late

ASSUME BrowserAssumption ==
    /\ Global \in TenantNames /\ NoTenantName \notin TenantNames /\ Nobody \notin Users
    /\ DOMAIN encode = TenantNames /\ Entitled \in [Users -> SUBSET TenantNames]
    /\ multitenancyEnabled \in BOOLEAN /\ keepalive \in BOOLEAN
    /\ defaultTenant \in TenantNames \cup {NoTenantName}
    /\ MaxEvents \in Nat

VARIABLES
    session, cookieTenant,   \* the session cookie
    savedTenant,             \* local storage
    popup,                   \* session storage: asked already
    tabs,                    \* the page of each tab: see Tab
    underWay,                \* a request whose answer comes late, with the cookie it carries
    events,
    pending,                 \* history: the switch confirmed in the menu, the only one under way
    chosen,                  \* history: the switch confirmed last, if it was carried out
    strayed,                 \* history: the session was taken to another tenant since
    opened,                  \* history: the session has come to the page its login opens
    calm, reloads            \* history: see the properties
cookies == <<session, cookieTenant>>
storage == <<savedTenant, popup>>
choice == <<pending, chosen, strayed, opened>>
browserVars == <<cookies, storage, tabs, underWay, events, choice, calm, reloads>>

(* stage: where the start of the menu is, or where the page goes.  want: the      *)
(* tenant saved that the menu goes back to.  switching: the tenants confirmed in  *)
(* the menu whose answers are awaited.                                          *)
Tab(stage, url) ==
    [stage |-> stage, url |-> url, user |-> Nobody, tenant |-> NoTenantName,
     link |-> NoTenantName, want |-> NoTenantName, switching |-> {}]
OnPage == {"account", "tenant", "info", "select", "ready"}

NothingUnderWay == [user |-> Nobody, tenant |-> NoTenantName]

BrowserInit ==
    /\ session = Nobody /\ cookieTenant = NoTenantName
    /\ savedTenant = NoTenantName
    /\ popup = [t \in Tabs |-> "unset"]
    /\ tabs = [t \in Tabs |-> Tab("blank", NoTenantName)]
    /\ underWay = NothingUnderWay
    /\ events = 0
    /\ pending = NoTenantName /\ chosen = NoTenantName /\ strayed = FALSE /\ opened = FALSE
    /\ calm = [t \in Tabs |-> FALSE] /\ reloads = [t \in Tabs |-> 0]

(* No tenant is preferred by the configuration, and the global one is enabled. *)
Resolve(user, requested) ==
    LET asked == IF requested = NoTenantName THEN defaultTenant ELSE requested
    IN  IF multitenancyEnabled /\ asked \in Entitled[user] THEN asked ELSE Global

Counted == events < MaxEvents /\ events' = events + 1

(* A page is asked for: the server sends it or the login page, whose URL keeps    *)
(* that of the page.                                                         *)
load(t, url) ==
    IF session = Nobody
    THEN /\ tabs' = [tabs EXCEPT ![t] = Tab("login", url)]
         /\ UNCHANGED cookieTenant
    ELSE /\ tabs' = [tabs EXCEPT ![t] = Tab("account", url)]
         /\ cookieTenant' = Resolve(session, IF url # NoTenantName THEN url ELSE cookieTenant)

(* A tab is calm as long as the others leave the cookie as it is. *)
Undisturbed(t) ==
    IF cookies' = cookies THEN calm ELSE [u \in Tabs |-> u = t /\ calm[u]]

Opens(t, url) ==
    /\ load(t, url)
    /\ strayed' = (strayed \/ (session # Nobody /\ url # NoTenantName))
    /\ UNCHANGED <<session, savedTenant, popup, underWay, pending, chosen, opened>>
    /\ calm' = [Undisturbed(t) EXCEPT ![t] = TRUE]

navigate(t, url) ==
    /\ Counted
    /\ Opens(t, url)
    /\ reloads' = [reloads EXCEPT ![t] = 0]

(* After the menu went back to the saved tenant by itself. *)
reload(t) ==
    /\ tabs[t].stage = "reload"
    /\ Opens(t, tabs[t].url)
    /\ reloads' = [reloads EXCEPT ![t] = @ + 1]
    /\ UNCHANGED events

(* After the user switched. *)
reopen(t) ==
    /\ tabs[t].stage = "reopen"
    /\ Opens(t, tabs[t].url)
    /\ reloads' = [reloads EXCEPT ![t] = 0]
    /\ UNCHANGED events

(* Any other request of a page carries the cookie it finds when it is sent, and its *)
(* answer sets the cookie again, with the tenant resolved, or with another end of  *)
(* the session, whatever the cookie has become.                                *)
sendRequest(t) ==
    /\ tabs[t].stage \in OnPage /\ session # Nobody
    /\ underWay = NothingUnderWay /\ Counted
    /\ underWay' = [user |-> session, tenant |-> cookieTenant]
    /\ UNCHANGED <<cookies, storage, tabs, choice, calm, reloads>>

answerArrives ==
    /\ underWay # NothingUnderWay
    /\ LET tenant == Resolve(underWay.user, underWay.tenant)
       IN  IF keepalive \/ tenant # underWay.tenant
           THEN session' = underWay.user /\ cookieTenant' = tenant
           ELSE UNCHANGED cookies
    /\ underWay' = NothingUnderWay
    /\ calm' = IF cookies' = cookies THEN calm ELSE [t \in Tabs |-> FALSE]
    /\ strayed' = (strayed \/ cookies' # cookies)
    /\ UNCHANGED <<storage, tabs, events, pending, chosen, opened, reloads>>

-----------------------------------------------------------------------------
(* setupTopNavButton: the account, the tenant, the settings; each is a request.   *)
fetchAccountInfoSafe(t) ==
    /\ tabs[t].stage = "account" /\ session # Nobody
    /\ tabs' = [tabs EXCEPT ![t].user = session, ![t].stage = "tenant"]
    /\ UNCHANGED <<cookies, storage, underWay, events, choice, calm, reloads>>

fetchCurrentTenant(t) ==
    /\ tabs[t].stage = "tenant" /\ session # Nobody
    /\ tabs' = [tabs EXCEPT ![t].tenant = encode[cookieTenant], ![t].stage = "info"]
    /\ UNCHANGED <<cookies, storage, underWay, events, choice, calm, reloads>>

(* The menu goes on without a tenant, and then says Global. *)
fetchCurrentTenantFails(t) ==
    /\ tabs[t].stage = "tenant" /\ Counted
    /\ tabs' = [tabs EXCEPT ![t].stage = "info"]
    /\ UNCHANGED <<cookies, storage, underWay, choice, calm, reloads>>

(* addTenantToShareURL asks for the tenant too, at its own time. *)
addTenantToShareURL(t) ==
    /\ tabs[t].stage \in OnPage /\ tabs[t].link = NoTenantName /\ session # Nobody
    /\ tabs' = [tabs EXCEPT ![t].link = encode[cookieTenant]]
    /\ UNCHANGED <<cookies, storage, underWay, events, choice, calm, reloads>>

(* Fault: nothing remembers that the tab has asked. *)
settle_AsksAgain(t) == UNCHANGED popup

settle(t) == popup' = [popup EXCEPT ![t] = "no"]

AsksForSaved(t) ==
    /\ tabs[t].url = NoTenantName /\ popup[t] # "no"
    /\ multitenancyEnabled /\ defaultTenant = NoTenantName
    /\ savedTenant \notin {NoTenantName, tabs[t].tenant}

decide(t) ==
    /\ tabs[t].stage = "info" /\ session # Nobody
    /\ IF AsksForSaved(t)
       THEN /\ tabs' = [tabs EXCEPT ![t].stage = "select", ![t].want = savedTenant]
            /\ UNCHANGED popup
       ELSE /\ tabs' = [tabs EXCEPT ![t].stage = "ready"]
            /\ settle(t)
    /\ UNCHANGED <<cookies, savedTenant, underWay, events, choice, calm, reloads>>

(* Without the settings multitenancy counts as disabled. *)
getDashboardsInfoFails(t) ==
    /\ tabs[t].stage = "info" /\ Counted
    /\ tabs' = [tabs EXCEPT ![t].stage = "ready"]
    /\ settle(t)
    /\ UNCHANGED <<cookies, savedTenant, underWay, choice, calm, reloads>>

(* Back to the tenant saved, so not strayed, unless another has been saved since. *)
GoesBack(t) ==
    /\ tabs[t].stage = "select" /\ session # Nobody
    /\ cookieTenant' = tabs[t].want
    /\ settle(t)
    /\ strayed' = (tabs[t].want # savedTenant) /\ opened' = TRUE
    /\ UNCHANGED <<session, savedTenant, underWay, events, pending, chosen, reloads>>
    /\ calm' = Undisturbed(t)

(* Fault: the page is not loaded again. *)
selectSaved_NoReload(t) ==
    /\ GoesBack(t)
    /\ tabs' = [tabs EXCEPT ![t].stage = "ready", ![t].tenant = tabs[t].want]

(* The tenant is put into the session whether or not the user has it. *)
selectSaved(t) ==
    /\ GoesBack(t)
    /\ tabs' = [tabs EXCEPT ![t].stage = "reload", ![t].tenant = tabs[t].want]

selectSavedFails(t) ==
    /\ tabs[t].stage = "select" /\ Counted
    /\ tabs' = [tabs EXCEPT ![t].stage = "ready"]
    /\ settle(t)
    /\ UNCHANGED <<cookies, savedTenant, underWay, choice, calm, reloads>>

-----------------------------------------------------------------------------
(* The tenants the switch panel offers. *)
Choosable(t) == IF multitenancyEnabled THEN Entitled[tabs[t].user] ELSE {}

Confirms(t, tenant) ==
    /\ tabs[t].stage = "ready" /\ tenant \in Choosable(t)
    /\ tabs' = [tabs EXCEPT ![t].switching = @ \cup {tenant}]
    /\ pending' = IF \A u \in Tabs : tabs[u].switching = {} THEN tenant ELSE NoTenantName
    /\ chosen' = NoTenantName
    /\ UNCHANGED <<cookies, popup, underWay, events, strayed, opened, calm, reloads>>

(* Fault: the choice is not saved. *)
handleTenantConfirmation_NotSaved(t, tenant) == Confirms(t, tenant) /\ UNCHANGED savedTenant

(* The choice is saved before the server has it.  Confirm stays live until it has, *)
(* and so do Cancel and the page behind it.                                     *)
handleTenantConfirmation(t, tenant) == Confirms(t, tenant) /\ savedTenant' = tenant

(* reloadAfterTenantSwitch: the tenant in the URL goes. *)
changeTenant(t, tenant) ==
    /\ tabs[t].stage = "ready" /\ tenant \in tabs[t].switching /\ session # Nobody
    /\ cookieTenant' = tenant
    /\ tabs' = [tabs EXCEPT ![t].stage = "reopen", ![t].url = NoTenantName, ![t].switching = {}]
    /\ chosen' = pending /\ pending' = NoTenantName
    /\ strayed' = FALSE /\ opened' = TRUE
    /\ UNCHANGED <<session, storage, underWay, events, reloads>>
    /\ calm' = Undisturbed(t)

changeTenantFails(t, tenant) ==
    /\ tabs[t].stage = "ready" /\ tenant \in tabs[t].switching /\ Counted
    /\ tabs' = [tabs EXCEPT ![t].switching = @ \ {tenant}]
    /\ pending' = NoTenantName
    /\ UNCHANGED <<cookies, storage, underWay, chosen, strayed, opened, calm, reloads>>

(* What the list of tenants does, which need not wait for the menu. *)
Switches(t, tenant, url) ==
    /\ tabs[t].stage \in OnPage /\ session # Nobody
    /\ Counted
    /\ cookieTenant' = tenant
    /\ tabs' = [tabs EXCEPT ![t].stage = "reopen", ![t].url = url, ![t].switching = {}]
    /\ strayed' = TRUE
    /\ UNCHANGED <<session, storage, underWay, pending, chosen, opened, reloads>>
    /\ calm' = Undisturbed(t)

(* It switches without saving the choice, to any tenant it lists; the page is     *)
(* loaded again as it is, so a tenant in its URL comes back.                     *)
switchToSelectedTenant(t, tenant) == Switches(t, tenant, tabs[t].url)

(* To the dashboards of that tenant: another page, without one in its URL. *)
viewOrCreateDashboard(t, tenant) == Switches(t, tenant, NoTenantName)

clearSessionStorage(t) == popup' = [popup EXCEPT ![t] = "unset"]

(* The session ends, then the storage is cleared. *)
logout(t) ==
    /\ tabs[t].stage = "ready" /\ session # Nobody
    /\ session' = Nobody /\ cookieTenant' = NoTenantName
    /\ clearSessionStorage(t)
    /\ tabs' = [tabs EXCEPT ![t] = Tab("login", NoTenantName)]
    /\ UNCHANGED <<savedTenant, underWay, events, choice, reloads>>
    /\ calm' = Undisturbed(t)

(* The page and its storage stay as they are. *)
logoutFails(t) ==
    /\ tabs[t].stage = "ready" /\ Counted
    /\ UNCHANGED <<cookies, storage, tabs, underWay, choice, calm, reloads>>

(* interceptError: a request finds that the session is gone. *)
interceptError(t) ==
    /\ tabs[t].stage \in OnPage /\ session = Nobody
    /\ clearSessionStorage(t)
    /\ tabs' = [tabs EXCEPT ![t] = Tab("login", tabs[t].url)]
    /\ UNCHANGED <<cookies, savedTenant, underWay, events, choice, calm, reloads>>

(* POST /auth/login: a new cookie, in the tenant of a user who asks for none. *)
SignsIn(t, user) ==
    /\ tabs[t].stage = "login"
    /\ session' = user /\ cookieTenant' = Resolve(user, NoTenantName)
    /\ strayed' = FALSE /\ opened' = FALSE
    /\ UNCHANGED <<storage, underWay, pending, chosen, reloads>>
    /\ calm' = Undisturbed(t)

login(t, user) ==
    /\ SignsIn(t, user)
    /\ tabs' = [tabs EXCEPT ![t].stage = "signedIn"]
    /\ UNCHANGED events

(* The login page has the cookie and says that the password is wrong. *)
loginAnswerLost(t, user) == SignsIn(t, user) /\ Counted /\ UNCHANGED tabs

(* getNextPath: the page asked for, with the tenant saved unless it names one;    *)
(* the global tenant's name is empty and is not added.                       *)
redirect(t) ==
    /\ tabs[t].stage = "signedIn"
    /\ LET asked == tabs[t].url
           saved == savedTenant \notin {NoTenantName, Global}
       IN  /\ load(t, IF asked = NoTenantName /\ saved THEN savedTenant ELSE asked)
           /\ strayed' = (asked # NoTenantName \/ (strayed /\ ~saved))
    /\ opened' = TRUE
    /\ UNCHANGED <<session, storage, underWay, events, pending, chosen>>
    /\ calm' = [Undisturbed(t) EXCEPT ![t] = TRUE] /\ reloads' = [reloads EXCEPT ![t] = 0]

expire ==
    /\ session # Nobody /\ Counted
    /\ session' = Nobody /\ cookieTenant' = NoTenantName
    /\ calm' = [t \in Tabs |-> FALSE]
    /\ UNCHANGED <<storage, tabs, underWay, choice, reloads>>

BrowserNext ==
    \/ \E t \in Tabs :
          \/ \E url \in TenantNames \cup {NoTenantName} : navigate(t, url)
          \/ reload(t) \/ reopen(t) \/ sendRequest(t)
          \/ fetchAccountInfoSafe(t) \/ fetchCurrentTenant(t) \/ fetchCurrentTenantFails(t)
          \/ addTenantToShareURL(t) \/ decide(t) \/ getDashboardsInfoFails(t)
          \/ selectSaved(t) \/ selectSavedFails(t)
          \/ \E tenant \in TenantNames :
                \/ handleTenantConfirmation(t, tenant)
                \/ changeTenant(t, tenant) \/ changeTenantFails(t, tenant)
                \/ switchToSelectedTenant(t, tenant) \/ viewOrCreateDashboard(t, tenant)
          \/ logout(t) \/ logoutFails(t) \/ interceptError(t)
          \/ \E user \in Users : login(t, user) \/ loginAnswerLost(t, user)
          \/ redirect(t)
    \/ answerArrives \/ expire

BrowserSpec == BrowserInit /\ [][BrowserNext]_browserVars

-----------------------------------------------------------------------------
(* A page that the user opens loads itself again at most once, though the tenant   *)
(* saved in the browser may be one that the server takes from this user, or one    *)
(* whose name comes back changed.                                           *)
ReloadsOnce == \A t \in Tabs : reloads[t] <= 1

(* When the menu is there, it and the links the page shares name the tenant of     *)
(* the session, unless another tab or a late answer has changed the session since   *)
(* the page was loaded, or the request for the name failed: without one the menu   *)
(* says Global and no link is changed.  A name is shown as the server encodes it. *)
PageNamesItsTenant ==
    \A t \in Tabs : calm[t] /\ tabs[t].stage = "ready" /\ session # Nobody =>
        {tabs[t].tenant, tabs[t].link} \subseteq {NoTenantName, encode[cookieTenant]}

(* Once it has come to the page its login opens, or the menu has gone back by       *)
(* itself, a session is in the tenant of the switch confirmed last in the menu of   *)
(* this browser, if that switch was carried out and no other was under way with it, *)
(* the user has that tenant and the administrator has set no default.  It is not    *)
(* when since then a URL, or the list of tenants, has named another one, a tab that *)
(* was starting has gone back to the one saved earlier, or a late answer has set    *)
(* the cookie it was asked with.                                             *)
ReturnsToLastTenant ==
    /\ session # Nobody /\ opened /\ ~strayed
    /\ chosen \in Entitled[session] /\ multitenancyEnabled /\ defaultTenant = NoTenantName
    => cookieTenant = chosen
=============================================================================
