SPECIFICATION PagesSpec
CONSTANTS
    Items = {"i"}
    Ids = {"x", "x_copy"}
    CopyOf <- DuplicateNames
    BadName = "%"
    NoName = ""
    Passwords = {"p", "q"}
    NoPassword = ""
    Missing = Missing
    MaxEdits = 2
    MaxOpens = 1
    MaxFaults = 1
    People = {p, q}
    Gone = Gone
    MaxViewFailures = 1
    MaxMappers = 1
    Tenants = {"Private", "Global", "t"}
    Private = "Private"
    NoTenant = ""
    MaxTenancyEdits = 3
    MaxTenancySaves = 2
    MaxTenancyFailures = 1
    MaxTenancyOthers = 1
    alice = alice
    bob = bob
    Tabs = {x, y}
    Users = {alice, bob}
    Nobody = Nobody
    TenantNames = {"", "r&d"}
    Global = ""
    NoTenantName = NoTenantName
    encode <- HtmlEntities
    Entitled <- BrowserTenants
    multitenancyEnabled = TRUE
    defaultTenant = NoTenantName
    keepalive = TRUE
    MaxEvents = 3
VIEW PageView
SYMMETRY TabSymmetry
CONSTRAINT WhileWaited
INVARIANTS
    UntouchedKept PasswordKept 
    FormIsTrue ChangesWereReviewed
    ReloadsOnce PageNamesItsTenant ReturnsToLastTenant
CHECK_DEADLOCK FALSE
