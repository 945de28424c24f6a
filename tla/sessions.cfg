SPECIFICATION Spec
CONSTANTS
    c1 = c1
    c2 = c2
    Clients = {c1}
    Users = {u1}
    Sessions = {s1}
    Keys = {k1, k2, k3}
    Requests = {r1, r2}
    Config <- ReferenceConfig
    SessionUser <- OneUser
    MaxTime = 1
    SignIns = 1
    Arrivals = {"code_get", "refresh_get", "revoke_get", "use_get", "sweep_take"}
    Lockable = {u1}
    Edits = {"disabled"}
    None = None
SYMMETRY Symmetry
INVARIANTS TypeOK SpentNeverAccepted SessionCleared
CHECK_DEADLOCK FALSE
