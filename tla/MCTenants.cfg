SPECIFICATION TenantsSpec
CONSTANTS
    Names <- TenantNames
    LowerCase <- Lower
    Undefined = Undefined
    User = "ann"
    ConfChoices <- MCConfs
    TenancyChoices <- MCTenancies
    Availables <- MCAvailables
    Queries <- MCQueries
    NoneYet = NoneYet
    Indices = {i1}
    MaxDown = 1
    Users = {"ann", "bob"}
    Requests = {r1}
    Objects <- Kinds
    available <- Available
    writable <- Writable
    Asked = {"team", "private"}
    Tenancies <- Settings
    MaxObjects = 1
    MaxChanges = 1
INVARIANTS
    OnlyEntitled RefusedOnlyWithoutTenant AskedAndHeld
    TenantHolds SettingsOfOwnTenant ReadonlyIsRight NoneLeftOut
PROPERTY StaysPut
CHECK_DEADLOCK FALSE
