SPECIFICATION FairSpec
CONSTANTS
    Tabs = {t1, t2}
    Users = {u1}
    None = None
    Base = Base
    Keepalive = TRUE
    Ttl = 1
    TokenLife = 1
    MaxTime = 2
    MaxRefresh = 1
    MaxAsks = 3
    MaxFaults = 1
CHECK_DEADLOCK FALSE
PROPERTIES LoginCompletes
