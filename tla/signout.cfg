SPECIFICATION FairSpec
CONSTANTS
    c1 = c1
    c2 = c2
    s1 = s1
    s2 = s2
    Tabs = {t1, t2}
    Subjects = {alice}
    Clients = {c1, c2}
    Scopes = {s1}
    Sids = {1, 2, 3, 4, 5}
    Nonces = {}
    Asks <- SessionAsks
    WithNonce = {}
    RequireConsent = {}
    AllowRememberConsent = {}
    ConsentLifetime <- ForEver
    UserSsoLifetime <- SecondAtOnce
    AlwaysAsked = {}
    RequiredScopes = {}
    MessageThreshold = 2
    Deletable = {alice}
    SignOuts = TRUE
    MaxTime = 1
    MaxRequests = 2
    None = None
    Keep = Keep
INVARIANT SignOutReachesClients
CHECK_DEADLOCK FALSE
 
