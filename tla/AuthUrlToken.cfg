CONSTANTS
    Undefined = Undefined
    Denied = Denied
    NoUser = NoUser
    annCred = annCred
    bobCred = bobCred
    anonCred = anonCred
    Names <- MCNames
    LowerCase <- MCLowerCase
    Creds <- MCCreds
    Anonymous <- anonCred
    TokenExp <- ShortTokens
    Users <- MCUsers
    AnonymousUser = "nobody"
    AuthTypes <- BasicJwt
    AnonymousEnabled = TRUE
    JwtHeader = "authorization"
    Ttl = 2
    Reqs = {r1, r2}
    Requests <- ExpiryRequests
    CredUser <- MCCredUser
    Forbidden = {}
    Backends <- FullOrGone
    BackendErrors = FALSE
    Keepalive = TRUE
    Multitenancy = FALSE
    Config <- GlobalFirst
    ProxyLogin = FALSE
    MaxTime = 1
    MaxChanges = 1
SPECIFICATION Spec
INVARIANT CredentialDecides
