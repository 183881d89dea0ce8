CONSTANTS
    Undefined = Undefined
    Denied = Denied
    NoUser = NoUser
    annCred = annCred
    bobCred = bobCred
    anonCred = anonCred
    Names <- MCNames
    LowerCase <- MCLowerCase
    Creds <- MCCreds
    Anonymous <- anonCred
    TokenExp <- ShortTokens
    Users <- MCUsers
    AnonymousUser = "nobody"
    AuthTypes <- Jwt
    AnonymousEnabled = FALSE
    JwtHeader = "jwtheader"
    Ttl = 2
    Reqs = {r1, r2}
    Requests <- JwtRequests
    CredUser <- MCCredUser
    Forbidden = {}
    Backends <- FullOrLess
    BackendErrors = FALSE
    Keepalive = TRUE
    Multitenancy = FALSE
    Config <- GlobalFirst
    ProxyLogin = FALSE
    MaxTime = 3
    MaxChanges = 0
SPECIFICATION Spec
INVARIANT ExpiryWithinToken
