SPECIFICATION TenancySpec
CONSTANTS
    Tenants = {"Private", "Global", "t"}
    Private = "Private"
    NoTenant = ""
    MaxTenancyEdits = 3
    MaxTenancySaves = 2
    MaxTenancyFailures = 1
    MaxTenancyOthers = 1
INVARIANT UnsavedCounted
CHECK_DEADLOCK FALSE
