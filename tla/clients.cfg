SPECIFICATION Spec
CONSTANTS
    c = c
    a = a
    b = b
    pw = pw
    key = key
    path = path
    held = held
    j = j
    Clients <- MCClients
    Apis <- MCApis
    Values <- MCValues
    Secrets <- MCSecrets
    Vault <- MCVault
    Edits <- MCEdits
    Logins <- MCLogins
    Jtis = {j}
    ClockSkew = 1
    Requests = {r1, r2}
    Crashes = TRUE
    MaxTime = 1
    None = None
    Broken = Broken
    Unknown = Unknown
SYMMETRY Symmetry
CONSTRAINT Apart
INVARIANTS TypeOK   UndisturbedAreAnswered AssertionOnce
