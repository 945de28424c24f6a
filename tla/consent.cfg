SPECIFICATION Spec
CONSTANTS
    c1 = c1
    c2 = c2
    s1 = s1
    s2 = s2
    Tabs = {t1, t2}
    Subjects = {alice, bob}
    Clients = {c1}
    Scopes = {s1, s2}
    Sids = {1, 2, 3, 4, 5}
    Nonces = {1, 2, 3, 4}
    Asks <- ConsentAsks
    WithNonce = {c1}
    RequireConsent = {c1}
    AllowRememberConsent = {c1}
    ConsentLifetime <- AtOnce
    UserSsoLifetime <- ForEver
    AlwaysAsked = {}
    RequiredScopes = {}
    MessageThreshold = 2
    Deletable = {}
    SignOuts = FALSE
    MaxTime = 1
    MaxRequests = 2
    None = None
    Keep = Keep
SYMMETRY Symmetry
INVARIANT TypeOK
PROPERTIES ConsentRespected PromptIsHonoured
CHECK_DEADLOCK FALSE
