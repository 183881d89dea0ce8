CONSTANTS
    Undefined = Undefined
    Denied = Denied
    NoUser = NoUser
    annCred = annCred
    bobCred = bobCred
    anonCred = anonCred
    Names <- MCNames
    LowerCase <- MCLowerCase
    Creds <- MCCreds
    Anonymous <- anonCred
    TokenExp <- Passwords
    Users <- MCUsers
    AnonymousUser = "nobody"
    AuthTypes <- Basic
    AnonymousEnabled = FALSE
    JwtHeader = "authorization"
    Ttl = 1
    Reqs = {r1, r2}
    Requests <- TenantRequests
    CredUser <- MCCredUser
    Forbidden = {}
    Backends <- FullOrLess
    BackendErrors = TRUE
    Keepalive = TRUE
    Multitenancy = TRUE
    Config <- GlobalFirst
    ProxyLogin = FALSE
    MaxTime = 0
    MaxChanges = 1
SPECIFICATION Spec
INVARIANTS Justified TenantWasEntitled SwitchHonoured LogoutHolds
SYMMETRY Symmetric
