# Verification of the security dashboards plugin

TLA+ modules that model the server side of the security plugin and the parts of
its browser side that keep state, TLC runs that check them on small instances,
and TLAPS proofs of what matters most for every instance.
Paths below are relative to the repository.

## 1. The system

The plugin sits between browsers and the OpenSearch security backend. It keeps
no sessions of its own: everything the server remembers of a user is in an
encrypted cookie that the browser sends with each request and that many
handlers rewrite. Node runs handlers concurrently, switching between them only
at an `await`; each `await` is a call to the backend (or an identity provider),
which may change its mind, fail or be slow. The hard behaviours follow:

* *stale cookies*: every request works on the copy of the cookie it was sent
  with, and its answer replaces the whole cookie, so answers undo one another;
* *stale answers*: the backend is asked several times in one request, and users,
  roles and tenancy settings change between the calls;
* *partial failure*: any call may fail after a cookie has been set;
* *time*: cookies and tokens expire separately, and cookies are kept alive;
* *delivery*: an answer, and the cookie in it, may be late or lost.

In the browser every page keeps copies of what it loaded: rows, forms, the
settings before and after an edit. Loads, saves and deletions are calls that end
in any order, fail, or are carried out though they fail, while the data source
chosen, other administrators and other tabs move on; what is then saved or
deleted is worked out from those copies.

| component | state | operations | what makes it correct |
|---|---|---|---|
| authentication handler (`server/auth/types/authentication_type.ts`) | `authState`, cookie object, `authInfo`, per request | `authHandler`, `resolveTenant`, `getKeepAliveExpiry` | lets in only users the backend vouches for now; gives only tenants they hold; always answers |
| session cookie (`server/session/security_cookie.ts`) | user, credential, type, expiry, tenant, login-flow fields | `validate`, read, set, clear | one session at a time, never mixed with another, never past its end |
| tenant resolver (`server/multitenancy/tenant_resolver.ts`) | none | `resolveTenant`, `resolve`, short-link parameter | only entitled tenants, no drift, refusal only when nothing is left |
| basic, JWT, SAML, proxy, multiple authentication (`server/auth/types/*`) | none of their own | `getCookie`, `isValidCookie`, `buildAuthHeaderFromCookie`, `handleUnauthedRequest`, routes | each type recognises, checks and renews its own cookies only |
| OpenID Connect (`server/auth/types/openid`) | `oidc` field of the cookie; refresh token | login, callback, refresh in `isValidCookie`, logout | a callback opens a session only for the nonce this browser was given; a rotated refresh token is not lost |
| cookie splitter (`server/session/cookie_splitter.ts`) | up to n piece cookies | split, join, clear | joining gives the last value split, never a mixture |
| tenant routes (`server/multitenancy/routes.ts`) | the cookie's tenant | get, switch, configure | an acknowledged switch holds |
| tenant index migration (`server/multitenancy/tenant_index.ts`) | indices | template, migrate | restartable |
| read-only mode, saved-objects wrapper | per-request namespace | capability switch, find, get, create | the tenant used is the tenant resolved |
| configuration and resource routes (`server/routes`) | none | forwarded calls | the cluster asked for; saves that replace the whole entity |
| plugin lifecycle (`server/plugin.ts`, `server/index.ts`) | registered services | setup, start | order |
| browser plugin, account menu, login page (`public/plugin.ts`, `public/apps/account`, `public/apps/login`) | local storage (saved tenant), session storage (popup shown), URL | start, switch, reload, log in and out, 401 | no reload loop; the tenant on the page is the session's |
| configuration panels (`public/apps/configuration`) | rows, selections, forms, dialogs | load, edit, save, delete | what is saved or deleted is what was shown and chosen |
| resource sharing panel (`public/apps/resource-sharing`) | type, rows, dialog | list, share, update | the difference made is the difference sent, to the resource shown |

Interactions: `authHandler` calls the resolver, the configured authentication
type, the backend client and the cookie storage; the routes call the backend
and the cookie storage; read-only mode and the saved-objects wrapper read what
`authHandler` left; the browser side talks to the routes and shares nothing
with the server but the cookie; tabs share the cookies and local storage.

`PROJECT.json` lists every component with its status, every hazard at its line
with the properties that cover it or the reason none does yet, and, under
`map`, the source lines each definition stands for.

## 2. Modules

| module | models |
|---|---|
| `TenantResolver` | the resolver, as operators; `Entitled` is the independent reference: the set of tenants a user may be given |
| `TenantChoice` | a user's sequence of requests, with the answer fed back through the cookie, over `TenantResolver` |
| `SessionCookie` | the cookie record and what each authentication type puts in it, accepts and renews |
| `AuthHandler` | `authHandler` and the routes that write the cookie, for any number of requests at a time, with the browser, the clock and the administrators |
| `BrowserSession` | the abstract promise: what can happen to the one cookie of a browser |
| `MCAuthHandler` | users, credentials, backends and request sets for TLC |
| `CookieSplitter` | the cookies a token is split over, written and read by requests that overlap |
| `OpenIdFlow` | logging in at an OpenID provider, refreshing and logging out, in several tabs of one browser |
| `SamlFlow`, `MCLoginFlows` | logging in by SAML assertions and logging out, with the fragment of the page kept aside, over the browser of `OpenIdFlow`; both flows, and the cookies their tokens are split over, in one run |
| `PluginLifecycle` | what setup and start do for a configuration, and the migration of the tenants' indices |
| `TenantStorage` | a running server with tenants, over `PluginLifecycle` and `TenantResolver`: saved objects wrapper, read-only mode, tenancy routes |
| `MCTenants` | the choice of a tenant under every small configuration, and a server with tenants, in one run |
| `ConfigApi` | the REST routes: which cluster, resource and entity a call is about |
| `ListPanel` | the lists of roles, users, permissions and tenants, over `ConfigApi` |
| `EntityEdit` | the pages that create, edit and duplicate a role, a mapping or a user |
| `RoleView` | the page of one role |
| `TenancyConfig` | the form of the tenancy settings and its dialog |
| `AuditPage` | the audit settings |
| `ResourceSharing` | the resource sharing panel and its routes |
| `BrowserApp` | the account menu, the switch panel, the login page and the interceptor, in several tabs |
| `MCPanels` | lists, audit settings and resource sharing in one run |
| `MCPages` | the pages of entities and of a role, the tenancy settings and the account menu in one run |
| `TenantResolverProofs`, `TenantChoiceProofs` | the theorems on the resolver, and on a user's requests |
| `AuthHandlerProofs` | those on `AuthHandler`, with the refinement of `BrowserSession` |
| `SplitterProofs` | those on `CookieSplitter` |
| `LoginFlowProofs` | those on `OpenIdFlow` and `SamlFlow` |
| `TenantStorageProofs` | those on `PluginLifecycle` and `TenantStorage` |
| `PanelProofs` | those on `ListPanel`, `AuditPage` and `ResourceSharing` |
| `PageProofs` | those on `RoleView`, `TenancyConfig`, `EntityEdit` and `BrowserApp` |

### AuthHandler and the code

A request is a slot `r` with a program counter; one action is the code from one
`await` to the next.

| pc | the code is | actions |
|---|---|---|
| `sent` | about to enter `authHandler` or a route | `PassPublic`, `TakeCredential`, `RejectCookie`, `AcceptCookie`, `Login*`, `AnonymousRefused`, `Logout`, `LoginPage` |
| `credential` | in `authinfo` with the request's own credential (line 115) | `CredentialAccepted`, `CredentialRefused` |
| `bare` | the same, but with several types and a readable cookie of another one: the token in the URL is not sent on (`AddsUrlToken`, `multi_auth.ts:147-163`) | the same two, as whoever a request without credential is (`AskedOf`) |
| `resolve` | in the `authinfo` of `resolveTenant` (257) | `ResolveAuthinfo`, `ResolveUnauthenticated` |
| `dashboardsinfo` | in `dashboardsinfo` (263) | `ResolveDashboardsinfo`, `NoTenant`, `DashboardsinfoFails` |
| `authinfo` | in the last `authinfo` (214) | `FinalAuthinfo`, `FinalAuthinfoFails` |
| `handler` | admitted, in the tenant switch | `SwitchTenant` |
| `answered` | answered, the Set-Cookie in `out[r]` on its way | `Deliver`, `Lose` |

`stored[r]` is the cookie the request arrived with, `cookie[r]` the object the
handler changes, `out[r]` the last `set` or `clear` on it, `info[r]` and
`tenant[r]` are `authInfo` and `authState.selectedTenant`. `jar` is the cookie
in the browser. Reading the cookie storage does not yield to anything that
changes this state, so it is no step of its own.

External, modelled from how the code uses it: the browser (`Send`, `Deliver`,
`Lose`), the clock (`Tick`), the backend (`Accepts`, `AuthInfo`) and its
administrators (`Administer`). The cookie storage returns null for a cookie
`validate` rejects, and clears it.

`told`, `expect` and `seen` are history variables: what the user was last told
(logged out, switched), what they had been told when a request was sent, and the
backend states since then. No guard reads them.

Abstractions: a credential is a model value with an owner and an expiry (a
password's lies beyond the clock), and stands both for a header value in the
cookie and for one in the split storage, whose pieces are `CookieSplitter`'s
business; the request's two headers and three query parameters that can name a
tenant are one sequence in the order the code reads them; `availableTenants` is
the sequence of its keys, because the last fallback takes the first; property
names inherited by every JavaScript object are not tenants; redirect targets and
bodies are left out. OpenID sessions are not in `AuthHandler`, since their
`isValidCookie` itself calls out and changes the cookie.

### The other server modules

`CookieSplitter`: a value is a sequence of characters, cut as
`splitValueIntoCookies` cuts it (length rounded up, pieces clipped as `substring`
clips); a request holds the pieces it came with and those it has set, and reads
with the code's rule of which to prefer. Inflating a joined value takes the value
it begins with. A cookie longer than the browser allows is refused by it.

`OpenIdFlow`: a tab is at a place (`at`), its request at a step (`pc`), each step
the code between two calls. The nonce of a login is the tab that began it, since
a tab presents only the last it was given. The split cookies are one field
(`pieces`), `CookieSplitter` having their detail. The provider gives out refresh
tokens in order and exchanges each once, the strictest provider the code can
meet. External: the provider, the browser, the clock.

The logout's route is behind `authHandler`: it may renew the session and spend its
refresh token, be refused, or be sent to the login without logging out, before it
clears the cookie and the pieces the request came with. A renewed token that is cut
into more pieces than those leaves the end of it (`Remnant`), which is read as none.

`SamlFlow` extends it: the same browser, cookies and times of arrival, with the SAML
routes for the server's part. The request id the backend gives a login is its tab.
A page may have a fragment (`fragment`), which its capture script puts into local
storage (`samlHash`) and the script of `redirectUrlFragment` takes out when the
session is open (`landed`). The two scripts' pages are requests like the others, and
a user may go back from the provider, which leaves the cookie and the fragment of
a login that was given up. The logout's route is behind `authHandler` and asks
`authinfo` again: two calls, either of which may find the token dead.

`TenantStorage`: a request takes its tenant, works in the namespace the wrapper
computes and answers with what it reached (`result`), beside what the user meant
it to reach (`meant`), computed from the tenant alone. A call brings options or
leaves them out, and only for some operations do these have a default. Sessions
log in, switch and change the tenancy settings meanwhile; the process is
`PluginLifecycle`'s.

### The pages

Each page module has its page's state as variables, one action per handler and
per call that ends, and what the cluster holds. A load is a call under way with
the data source it was begun for: loads overlap, and the last to end leaves its
rows, as in the code. Rows are objects: two loads give two different rows for the
same entity. A failed call may have been carried out where the page does not
notice the difference (`saveFailed`, `saveFails`, `submitFails`). Other
administrators change the cluster at any time within the bound. History variables
(`careful`, `single`, `trusted`, `patient`, `tidy`, `awaited`, `sure`, `settled`,
`waited`, `calm`, `strayed` and the like) say for how long what the page shows can
be trusted; only properties read them.

A save, a deletion or a submission is a call under way as well, while the page is as
live as the code leaves it, and carries what its closure does:

* `ListPanel`: `deletions` hold the data source, the rows and the selection of the
  click. Their dialog stays open and can be cancelled, or confirmed again. Roles and
  mappings are deleted one after another; once all are, the rows become those of the
  click less those selected. A save of the dialogs of permissions and tenants goes to
  the data source of the click, which is then loaded; what it does and its answer are
  one step.
* `TenancyConfig`: `tenancySaves` are asked for, written, and answered or failed,
  with the settings the dialog was opened with. The dialog can be cancelled and
  confirmed again, and the form edited, before that.
* `AuditPage`: `auditSaves` likewise; nothing on the page waits for one. An answer
  puts its settings into the first page, unless that page was left meanwhile
  (`shown`), and those of the pages that edit lead to the first page.
* `ResourceSharing`: a submission is sent, applied, and followed by a load; the
  Cancel button waits for it, the cross and the Escape key do not.

`EntityEdit` keeps an entity as parts and a part as a value, and models the
conversion to the rows, options and method of the form and back (`build`,
`unbuild`) by what survives it. `BrowserApp` takes the tenant the server gives a
page as `Resolve`, `TenantResolver` for a user without preferred tenants in a
configuration with the global one. Each tab is a record: where its menu is (`stage`),
the URL's tenant, what it was told, what it goes back to and which switches of it are
under way. One request at a time (`underWay`) is answered late and sets the cookie it
was sent with; the others are one step, at the arrival of their answer, and an
answer to a page that is gone is not modelled. A login is the call that opens the
session and then the page it redirects to, and its answer may be lost.

## 3. Runs

| run | instance | shows |
|---|---|---|
| `tenants` | one user, 8 grants, 8 x 12 settings, 10 tenant names, any sequence of requests and changes of grants; a server in every configuration, two users, one request at a time, one object beside the settings, one change, one end of the process | `OnlyEntitled`, `RefusedOnlyWithoutTenant`, `AskedAndHeld`, `StaysPut`, `TenantHolds`, `SettingsOfOwnTenant`, `ReadonlyIsRight`, `NoneLeftOut` |
| `auth_tenant` | basic authentication, two requests at a time out of six kinds, two named users, backends that withdraw a tenant or a user, failing calls | `Justified`, `TenantWasEntitled`, `SwitchHonoured`, `LogoutHolds` |
| `auth_expiry` | basic and JWT together, anonymous sessions, a token that dies at 2, a ttl of 2, a clock to 3, users removed | `TypeOK`, `ExpiryWithinToken`, `AdmittedWasVouched`, `ImplementsBrowserSession` |
| `auth_live` | one request, all ten kinds, global tenant off, multitenancy switched off in the backend or a user removed, failing calls, a forbidden user, a cookie that expires | `EveryRequestEnds` |
| `login_flows` | two tabs, two users, three requests of the user's own (two with SAML), two refresh tokens, a clock to 3, a call or an answer lost, a browser without a session or with one; two requests on two cookies of two characters, values that need one, fill both, fall one short, and one too long | `ReturnsToOwnPage`, `RefreshNotWasted`, `LoginHolds`, `LoggedOutClean`, `FragmentIsOwn`, `OwnWriteRead`, `LeftWhole` |
| `openid_live` | two tabs, one user, three requests of its own, a clock to 2, a call or an answer lost | `LoginCompletes` |
| `panels` | lists, audit settings, resource sharing, each from its mount (below) | `DeletesWhatWasSelected`, `DoneMeansGone`, `SavesOnlyItsOwn`, `SharesTheRow`, `UpdatesTheDifference` |
| `pages` | pages of entities and of a role, tenancy settings, account menu, each from its mount (below) | `UntouchedKept`, `PasswordKept`, `OthersKeepTheirMapping`, `FormIsTrue`, `ChangesWereReviewed`, `ReloadsOnce`, `PageNamesItsTenant`, `ReturnsToLastTenant` |
| `auth_jwt_header` | JWT under a header of its own | violates `ExpiryWithinToken` |
| `auth_url_token` | basic and JWT together, a token in the URL beside a session | violates `CredentialDecides` |
| `role_view` | a role mapped to a user and a backend role | violates `DeletesOnlySelected` |
| `tenancy_config` | the form of the tenancy settings | violates `UnsavedCounted` |

The last four are the findings of section 6. `tenants`, `login_flows`, `panels` and
`pages` each take parts that do not know of one another: every part is explored with
the others at their start, and none meets another's steps. Two states of `panels`
and `pages` are told apart by the part that is explored (`VIEW`).

Bounds. Two concurrent requests are what it takes for one answer to undo
another; a third adds no new kind of conflict, because requests meet only in the
jar, which the last answer wins, and the proofs below hold for any number. One
change of the backend separates any two calls of a request in every place it can
fall; the proofs again have no bound. A clock to 3 covers a token that expires
before, at and after the end of a session and a cookie at and past its expiry.
`auth_tenant` runs without time, since no property of it depends on expiry, and
`auth_expiry` without tenants. Request slots are interchangeable, so both use
symmetry; `auth_live` has one slot and none.

Two requests on the split cookies are needed for one to come with pieces the other
replaces; values go from empty to longer than the cookies together hold, so that a
value shrinks, grows and overflows. In `login_flows` three requests of the user's
own are a login in each tab and a third that meets either, or a renewal in one tab
and two logouts; redirects do not count. A second refresh token is what tells a
renewal that keeps the old one. With SAML two are enough, since nothing is
renewed: a login in each tab, a login given up and another, or a login beside an
assertion sent unasked or a logout. In the server of `tenants` one request at a
time is enough, for requests share nothing but the cookie of their session, and a
switch or a login by the same browser can fall between any two steps of one. One
change and one end of the process fall in every place they can; `NoneLeftOut` has
one index, which is migrated, failed, or left by a crash, and the next start
begins at.

`panels` and `pages`: the router shows one page at a time and a page that is left
keeps nothing, so each is explored from its mount while the others are absent. The
bounds per page are in `MCPanels.cfg` and `MCPages.cfg`: two data sources, two names
or types, three loads (one answered, one late, one new; two of audit settings), two
deletions or saves under way at a time, one failing call or other administrator (of
some pages one of each), one to three edits. A stale copy takes a load, a change and
a save, or two saves and an edit, all within them. `BrowserApp` has two tabs, two
users and three events (visits, switches in the list of tenants, failures, late
answers, sessions that end), with keepalive on; its states are symmetric in the tabs,
those of `AuditPage` in the values of a setting. TLC stops where a page is past what
its properties speak of (`WhileWaited`, `WhilePatient`): after a save of the tenancy
settings that was not waited for, after a page or data source of the audit settings
left with a save under way, and in a list once it had two deletions under way and
the source was changed carelessly. The proofs go on: the first half of
`DoneMeansGone` holds there too.

Deadlock is checked in `AuthHandler`'s runs. Elsewhere the system may stop, so it is
not: the user does nothing more once the bounds on what they do are used up, and a
server that may not end again, or whose plugin cannot be set up, stays as it is.

What the promises leave out. `SwitchHonoured` and `LogoutHolds` count an
acknowledgement only when it arrives while the browser has nothing else under
way. Without that condition both are false, and TLC says how: a page request
sent before the logout (or the switch) renews the cookie it carried and its
answer arrives last, bringing the session (or the earlier tenant) back. That is
what the code does, since `authHandler` sends back the whole cookie on every
request; no line of the repository claims otherwise, so it is stated here and
in `BrowserSession` (a request may bring back the session it left with), not as
a finding.

`ImplementsBrowserSession` is the refinement: with each request's carried cookie
and presented credentials as the abstract state, every step of `AuthHandler` is a
step of `BrowserSession` or leaves it unchanged. What it excludes is a mixture of
two sessions, a session for somebody who never presented its credential (the
anonymous user's is opened for a request whose token was not sent on), and a
renewal beyond `now + ttl`, of a SAML session, or with keepalive off.

`RefreshNotWasted` holds with keepalive on only: without it a renewed cookie is
not sent back, and the next request presents a refresh token that is spent. It
excuses requests under way together, which do spend the same token (the loser
clears the session), and an answer that was lost with the new one.
`LoginCompletes` is about what follows once nothing fails any more, a bounded number of
failures having come in any place: as long as the callback keeps failing, it redirects
to the login each time (`openid/routes.ts:238`), and need not come to an end. An
answer that says unauthorized, or is lost, is such a failure and no end of a login. It
excludes another tab that is logging in too: two tabs overwrite
each other's nonce, and each callback sends its tab back to the login, for as
long as they meet. `ReturnsToOwnPage` allows the start page, where a login
that had to begin again ends.

`FragmentIsOwn` is about one tab at a time: a fragment that a login given up has left
never comes back with another login. Local storage has one place for all tabs, so
the property excludes tabs that another has met between capture and return.

`TenantHolds` is about calls with options. `create`, `bulkCreate` and `bulkUpdate`
have no default for their options (`saved_objects_wrapper.ts:65-73`, `:157-164`,
`:166-173`): without any they put the namespace nowhere, the object is made or
looked for in the default one, and the model keeps such answers apart
(`elsewhere`). The other operations default to an empty object. And `find` does
not look at `enable_private` (`getNamespaceValue` does), so the property asks that
the plugin's configuration allow private tenants. `ReadonlyIsRight` asks that the
cookie name the tenant of the request: read-only mode reads the cookie the request
came with, so a request whose URL switches the tenant gets the answer for the
earlier one. A failing call makes a tenant writable on the page; the backend still
refuses the write.

`NoneLeftOut` speaks of a migration that has ended. A `tenantinfo` that fails is
logged, and the server runs with its tenants' indices not migrated, until its next
start; requests are served before and during the migration in any case.

The pages' promises hold while the user waits for what they asked, and the code does
not make them wait. What happens otherwise, in the model as in the code:

* `DeletesWhatWasSelected` is about a data source that is changed with nothing
  selected and no load, deletion or save under way. Otherwise an earlier load may end
  last, a late deletion may put the earlier source's rows back, or the selection,
  which a change of source does not clear, be deleted by name in the other source
  (`role-list.tsx:165`).
* `DoneMeansGone` has no row shown again only while each deletion is waited for: a
  second one, begun after Cancel, ends with the rows of its click, those of the first
  among them (`role-list.tsx:172`, against the comment at 171). Nor is it claimed of
  the next load, as the server may still list what was just deleted (169-171). That
  the entities are gone holds in any case.
* `FormIsTrue` and `ChangesWereReviewed` stop at a dialog cancelled, or confirmed
  again, while its save is under way: the answer then drops the count of later
  edits, and a failure puts back what the dialog was opened with
  (`configure_tab1.tsx:104-131`).
* `SavesOnlyItsOwn` stops where the page or the data source is left with a save under
  way: the answer puts the settings of the source left into the page of the other
  (`audit-logging.tsx:159-161`), whose next switch saves them there.
* `SharesTheRow` stops where two loads were under way at once, or the page was turned
  to another type or source during a submission: the load that follows is of the type
  submitted (`resource-sharing-panel.tsx:758`), its rows stand under the other, and
  the next dialog sends them as of that one.

`FormIsTrue` leaves out a load
that failed other than by a refusal, which leaves a form with everything off that
can be saved. `OthersKeepTheirMapping`, `UntouchedKept` and `SavesOnlyItsOwn`
leave out another administrator's change between load and save, which the save
of a whole entity undoes. Sharing a resource anew replaces what others shared
it with, since it puts the whole; an update sends the difference, and
`UpdatesTheDifference` needs no such condition.

`ReturnsToLastTenant` counts switches made in the menu, carried out, and alone. It
begins at the page the login opens: between the call that opens the session and the
load that carries the saved tenant the session is in the tenant of a user who asks
for none (`login-page.tsx:134-137`), and stays there if the answer is lost. The list of
tenants switches the session without saving the choice, and a URL that names a
tenant does too: the session stays there on the next plain visit, as long as it
lasts. A tab that starts while another switches may still send the earlier tenant,
and a request answered late sets the cookie it was sent with, either of which undoes
the switch. A switch that fails stays saved (`tenant-switch-panel.tsx:231`), and the
next tab that starts goes to it, so that `chosen` is empty until another succeeds.

`PageNamesItsTenant` takes the name as the server encodes it, and allows none: when
the request for it fails, the menu goes on without and says Global
(`account-app.tsx:65-70`), whatever the session is in. It is not claimed after
another tab, a late answer or the end of the session has changed the cookie.

Fairness (`auth_live`, `openid_live`): weak fairness of each request's server
steps, since the event loop resumes a handler once its call has been answered or
has failed, and of the end of its answer's journey (received or lost). In
`openid_live` also of a browser following a redirect and of a user sent to the
provider coming back from it; without the last nobody would log in. None for what
users begin, the clock or the administrators.

Each property has a mutant: the same module with one definition replaced by a
plausible mistake (the operators commented as "Fault"), under which the run must
fail.

## 4. Proofs

`TenantResolverProofs`, from the assumptions on names alone:

* `ResolveTenantEntitled`: the answer is `Undefined` or in `Entitled`, for every
  request, cookie, preference list, set of tenants and setting. By cases over
  the order in which `resolve` tries things; the lemmas say what each choice can
  return (`RequestedChoice`, `PreferredChoice`, `FallbackChoice`), on top of
  `FirstInMember`, the fact about the first matching element that all share.
* `ResolveStable`: resolving a resolved tenant again gives it back.

`AuthHandlerProofs`, from the assumptions on cookies and the handler, for any
number of requests, users, tenants, changes and any configuration:

* `TypeCorrect` (`Spec => []TypeOK`). `TypeOK` is not inductive: an action that
  changes a field of `cookie[r]` needs it to be a session. `Typed` adds that a
  request between its first step and its answer works on one, and that a request
  taken by its credential has one some type recognises.
* `AdmissionJustified` (`Spec => []Justified`), and from it `AdmittedVouched` and
  `TenantEntitled`. The invariant has one `Sound(r)` per request, because the
  final claim relates answers of different calls: the state of the backend is
  watched from the moment the request is sent (`Watching`); an authinfo answer
  not yet used was true of one of the states seen, and is about the cookie's user
  (`InfoJustified`); the tenant resolved from it is one that user was entitled to
  (`ChoiceJustified`, by `ResolveTenantEntitled`); nothing is admitted before that
  (`Unanswered`). Without the clause that both answers are about the owner of the
  cookie's credential the last step fails: user and tenant would come from two
  unrelated answers. `seen` only grows while a request is under way, so what a
  state justified stays justified; one lemma per action, under one step for the
  other requests.

and on top of `Typed`, about the cookie:

* `Refinement` (`Spec => ImplementsBrowserSession`). `Carried` says that the
  cookie a handler works on, and the one its answer will set, are a renewal of the
  cookie the request came with or a session opened by what it presented (`Kept`),
  the anonymous user's if the backend was asked without it. It stays so because
  renewing, retenanting and opening each give such a cookie (`KeptStored`,
  `KeptRetenanted`, `KeptNew`, `KeptLogin`) and the clock only makes a bound of
  `now + ttl` easier. A step of the server is then a stutter, sending is `Begin`,
  and the end of an answer, delivered or lost, is `End`.
* `LogoutFinal` (`Spec => []LogoutHolds`). After the acknowledgement the jar is
  empty and everything under way was sent by a user who had been told so
  (`SignedOut`): it carries no cookie and presents no credential, so the server
  can only pass it as public or reject it. `Clears` is what makes the premise:
  an answered logout has the clearing in its answer.
* `JwtSessionEnds` (`JwtHeader = "authorization" => (Spec => []ExpiryWithinToken)`):
  every copy of a JWT cookie, in the browser, stored, at work or going out, ends
  no later than its token. The assumption is used in `RenewedWithin` only, and
  cannot be dropped: `auth_jwt_header` is the counterexample (section 6).
* `SwitchFinal` (`Spec => []SwitchHonoured`). From the acknowledgement on the
  cookie in the browser, and the one each request sent since then carries, works on
  and answers with, has a tenant that resolves as the one switched to does
  (`Leads`, `Switched`). A cookie that comes back with the resolved tenant is as good
  as the one with the tenant asked for, by `ResolveStable`: without it the second
  request after a switch could not be accounted for.

`TenantChoiceProofs`, from `ChoiceAssumption` (no user has the name of the symbol
that stands for the global or the private tenant, and no tenant the empty name):
`SessionEntitled`, `SessionRefusal`, `SessionAsked` and `SessionStays`. The
invariant (`ChoiceInv`) is that an answer is what the resolver gives for the
request, some cookie and the settings in force, and is in the cookie now if it is a
tenant (`AnswerResolved`); the first three
are then facts about the resolver, and the last, an action property, is
`ResolveStable` once more.

`SplitterProofs`, from the assumption that values are sequences that differ in their
first character: `OwnTokenRead` and `TokenLeftWhole`. `SplitThenJoined` is the
arithmetic: pieces begin where the one before ends, or are empty behind the end
of the value (`CutsInOrder`), they reach its end though the length of a piece was
rounded (`CutEnough`), and so the first `i` of them join to its beginning, up to
where the `i`-th ends (`PieceProperties`). The join is a recursive function; that
it is the function of these beginnings is shown from its equation, by looking at the
least place where the two could differ (`JoinedPieces`). The invariant: what a
request has set is all the pieces of the value it stored last, or the clearing of
just those it came with (`SetOrCleared`), and a request that has met no other came
with what the browser still holds (`AloneUpToDate`).

`LoginFlowProofs`, from the assumptions of its modules and the one that is named:

* `LoginReturnsToOwnPage` and `SamlReturnsToOwnPage`. Every cookie of a login, in
  the browser, in a request or going out, is to return to the page of the tab its
  nonce names or to the start page (`Returning`), and a callback past its check
  holds the cookie of its own tab until it answers (`ReturnOf`); without the latter
  the page read after two calls could be another's. One lemma for each way a step
  can end: a request sent, an answer given, a call awaited, an answer settled.
* `OpenIdLoginHolds`, `OpenIdLoggedOutClean` and the two of the same kind for
  SAML, from one invariant for both flows (`CookieInv`). An answer to somebody who
  has presented something opens a session and sets its token beside it, or
  neither, and that of a logout clears both, the pieces but for what may remain of
  a token renewed on the way, or, if `authHandler` let it not through, neither
  (`Consistent`). Whoever was under way when the user was told is over by then, so
  every request since carries the cookies of that time and, presenting nothing
  new, answers with nothing that goes against it (`Own`, `Faithful`).
* `RefreshTokenNotWasted` (`Keepalive = TRUE => ...`). `RefreshInv`: a token that
  was exchanged, and is not excused, is carried only by the request that exchanged
  it, alone and past the exchange (`Exchanger`), and is in the browser only while
  the answer of that request is about to replace it (`Replaced`). The hypothesis
  cannot be dropped (section 3).
* `SamlFragmentIsOwn`. `FragmentInv` says that from its capture until it is taken a
  tab's fragment is the one in local storage, as long as no other tab has met it
  (`Remembers`), and that only a cookie that says so sends the tab to the page that
  takes it (`Marked`).

`TenantStorageProofs`:

* `MigrationComplete`, from no assumption: while a migration runs, what it
  has taken off its list is up to date (`Migrating`), so an empty list means that all
  indices are.
* `TenantsHold` and `OwnSettings`, with the hypothesis that no tenant is called
  `default` (`NoneCalledDefault`): such a tenant would have for its namespace the one
  that objects made without options go to. The invariant is that everywhere else an
  object is where it was made (`Kept`), and that a request under way has one of its
  user's tenants, the global or the private one (`WellFormed`); the lemmas on the
  resolver give the latter.
* `ReadonlyWhereNotWritable`, without that hypothesis.

`PanelProofs`, from the assumptions of its modules. That without a data source plug-in
there is one source (`ConfigApiAssumption`) is what `top-nav-menu.tsx:54` and
`app-router.tsx:132` make so.

* `ListDeletesSelected`. Rows of another source are in the page after a load that
  failed; what keeps them from being selected is that the table is hidden and that a
  load under way is of the source chosen (`LoadsFromSource`, `RowsFromSource`). The
  invariant says so of rows and selection, and of those each deletion under way will
  take up again (`CallsFromSource`).
* `ListDeletionFinal`. `GoneInv`: what is gone stays so, and what a deletion that
  counts has selected is still to be deleted by it or gone, a role with its mapping
  (`Progress`, `IsGone`), for any number of deletions at a time. `DroppedInv`: rows in
  the page, and those a deletion will take up, are never two of a name (`OneRowEach`),
  or dropping those selected would leave one; and while deletions are waited for they
  have no dropped one among them (`ShowsNoneDropped`).
* `AuditSavesOwn`. `AuditInv` has the load begun last, while it is under way, ask the
  data source chosen (`FetchesInOrder`), a page that is to be trusted hold, beside the
  user's changes, its source's settings (`HoldsOthers`), and a save under way write,
  beside its own, those its source has now (`SaveHolds`): of two under way each is
  for the same page, so what one writes the other had or is for.
* `SharesItsRow` and `UpdateIsTheDifference`. Rows, and what a submission under
  way holds, are of the type and source of their page while at most one load is
  under way and no submission is turned away from (`OneListing`, `RowsOfPage`,
  `RequestOfPage`); the second is a fact about the two maps compared and the one
  updated, over any levels and recipients, with empty levels dropped or not.

`PageProofs`, from the assumptions of its modules:

* `RoleViewKeepsOthers`. The invariant (`CopyComplete`) is that the page's copy, with
  the hosts it does not show, holds all of the cluster's mapping while nobody else
  changes it, after deletions as well as before. `UpdateObject` says what is sent
  back: exactly the rows without a selected name. It rests on rows being pairs of a
  type and a name (`EntriesTyped`, `NamedRow`).
* `TenancyFormTrue` and `TenancyChangesReviewed`. Neither property is inductive: the
  form and the settings loaded follow from what the history claims of them
  (`FormOfCluster`), and the review of a save is only worth something when the
  dialog's list was worked out from the cluster's settings (`ReviewFollowsLoad`), which
  is why they are one invariant. While saves are waited for there is one at most, the
  one of the dialog that is open (`SaveOfDialog`).
* `UntouchedPartsKept` and `UserKeepsPassword`. `RoundTrip` is the core: for a value
  the form can show, `unbuild` after `build` gives it back, for each kind of part,
  the rows of attributes (any number of them, in any order, with the empty row the
  form adds) among them. `EditInv` says that a part not touched is in the form as
  it was built from what was loaded (`FormOfOrigin`), and in what order the page
  loads, is edited and saves (`PageOrder`).
* `BrowserReloadsOnce`, `BrowserNamesTenant` and `BrowserReturns`, one invariant for
  the three: `AskedOnce`, that the flag in session storage is set from the moment
  the page asks to the reload that follows; `ToldTenant`, that a tab nobody has
  disturbed names the tenant it was told; `SavedFirst` and `SessionTenant`, that the
  choice that counts is the one saved before it was sent. The first attempt failed,
  and TLC showed why at one event more than the run has: a page that reloads itself
  keeps a tenant that its URL names, and moves the session there as the first load
  did. `reload` now counts it among what strays from the choice.

Every safety invariant and every action property of the passing runs is stated by a
theorem. Only model-checked are the liveness properties `EveryRequestEnds` and
`LoginCompletes`, since the proof system does not reason about fairness and
enabledness, and the four properties that the code violates, which have
counterexamples.

## 5. Plan

1. Proofs: the facts on sets and sequences that several proof modules need
   (`LeastIndex`, joining) kept in one place; the routes of `ConfigApi`, whose
   operators the page proofs expand, given lemmas of their own.
2. The dialogs that are left: password reset, roles, the default tenant's menu in
   the list of tenants, cache purging.

## 6. Findings

`auth_jwt_header`: with `opensearch_security.jwt.header` set to a name of its own,
`JwtAuthentication.buildAuthHeaderFromCookie` puts the token of the split storage
under `authorization` (`server/auth/types/jwt/jwt_auth.ts:223`), while
`getKeepAliveExpiry` looks for it under the configured name (line 187), finds
nothing, and takes the default, `now + ttl`. Every request then moves the cookie's
expiry past the token's `exp`, against the test in `jwt_helper.test.ts:384`
("getKeepAliveExpiry takes on the value of the exp claim * 1000, since it is less
than the ttl"), which only uses the default header. The backend still refuses the
dead token, so nobody is let in (`AdmittedWasVouched`); the session merely stays
in the browser and fails later than it should.

`auth_url_token`: with several authentication types, the headers a credential is
sent to the backend with are those of the type of the cookie the browser has
(`multi_auth.ts:155`). A token in the URL, beside a session of any type but `jwt`, is
therefore not sent on: the request is let in as whoever the backend takes a request
without it for, here the anonymous user, under a cookie labelled `jwt`, or is refused,
against the handler's own comment that such a token is to be used to authenticate
(`authentication_type.ts:109`).

`role_view`: the page of a role deletes mappings by name. The names selected are
taken from the users and from the backend roles alike
(`role-view.tsx:172`), so deleting the mapping of a user also deletes that of a
backend role with the same name, against the dialog's question
(`delete-confirm-modal-utils.tsx:55`).

`tenancy_config`: the bar of the tenancy form says "n Unsaved change(s)"
(`configure_tab1.tsx:151`). A choice of a default tenant is counted by comparing
the settings loaded with those before the choice (line 276), so the first choice
counts whatever it is and the second takes the count back though the default still
differs; at none the bar goes, and with it the buttons that save and discard.

## 7. Not modelled

* Whether a SAML assertion is genuine and answers the request id it is sent with:
  the backend decides, and is modelled as taking those that do. Proxy
  authentication is in `AuthHandler`'s definitions but in no run: its cookies are
  never valid, and its logout button clears the popup flag on rendering. Logging
  out at an external provider is a redirect away.
* In the account menu: the password and roles dialogs, and the session storage's
  list of URLs last seen. `getShouldShowTenantPopup` never gives true, so the branch of
  `account-nav-button.tsx:95` that shows the popup unasked cannot run.
* In the list of tenants: "Set as default", which writes the settings back as they
  were when the page loaded, and the wording of the dialogs. "Switch to selected
  tenant" is modelled with the page loaded as it is, so that a tenant in its URL
  comes back, though the comment at `manage_tab.tsx:165` expects otherwise.
* OpenID's capture page keeps the URL's fragment in local storage as SAML's does, in
  `SamlFlow`. With either, tabs that log in together may exchange fragments, and one
  whose fragment another tab took is sent to a URL that ends in "null"
  (`saml/routes.ts:374`): `FragmentIsOwn` promises no more than the code gives.
* Routes that forward one call and keep no state (cache, indices, account details,
  body schemas); the authentication view and the get started page, which only show;
  `next_url.ts`, a pure check on a URL with a table of tests; encryption of cookies,
  TLS and certificates, discovery of the provider, logging, rendering.

`PROJECT.json` has the status of each component, and for the hazards no property
covers the reason.
