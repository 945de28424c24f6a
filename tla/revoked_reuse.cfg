SPECIFICATION Spec
CONSTANTS
    c1 = c1
    c2 = c2
    Clients = {c2}
    Users = {u1}
    Sessions = {s1}
    Keys = {k1, k2}
    Requests = {r1, r2}
    Config <- RotatingConfig
    SessionUser <- OneUser
    MaxTime = 1
    SignIns = 1
    Arrivals = {"code_get", "refresh_get", "revoke_get"}
    Lockable = {}
    Edits = {}
    None = None
SYMMETRY Symmetry
INVARIANTS RevokedStaysRevoked
CHECK_DEADLOCK FALSE
