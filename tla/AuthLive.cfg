CONSTANTS
    Undefined = Undefined
    Denied = Denied
    NoUser = NoUser
    annCred = annCred
    bobCred = bobCred
    anonCred = anonCred
    Names <- MCNames
    LowerCase <- MCLowerCase
    Creds <- MCCreds
    Anonymous <- anonCred
    TokenExp <- Passwords
    Users <- MCUsers
    AnonymousUser = "nobody"
    AuthTypes <- Basic
    AnonymousEnabled = FALSE
    JwtHeader = "authorization"
    Ttl = 1
    Reqs = {r1}
    Requests <- PathRequests
    CredUser <- MCCredUser
    Forbidden = {"bob"}
    Backends <- FullClosedOrNoAnn
    BackendErrors = TRUE
    Keepalive = TRUE
    Multitenancy = TRUE
    Config <- PrivateFirst
    ProxyLogin = FALSE
    MaxTime = 2
    MaxChanges = 1
SPECIFICATION FairSpec
PROPERTY EveryRequestEnds
