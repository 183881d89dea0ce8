SPECIFICATION FlowsSpec
CONSTANTS
    Tabs = {t1, t2}
    Users = {u1, u2}
    None = None
    Base = Base
    NoHash = NoHash
    NullHash = NullHash
    Keepalive = TRUE
    Ttl = 1
    TokenLife = 1
    MaxTime = 3
    MaxRefresh = 2
    MaxAsks = 3
    MaxSamlAsks = 2
    MaxFaults = 1
    Values <- SplitTokens
    additionalCookies = 2
    maxLengthPerCookie = 2
    Requests = {t1, t2}
SYMMETRY Symmetric
INVARIANTS
    ReturnsToOwnPage RefreshNotWasted LoginHolds LoggedOutClean FragmentIsOwn
    OwnWriteRead LeftWhole
CHECK_DEADLOCK FALSE
