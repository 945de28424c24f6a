SPECIFICATION Spec
CONSTANTS
    DeviceCodes = {d1, d2}
    UserCodes = {n1}
    Clients = {c1, c2}
    Users = {u1}
    Consents = {all}
    Requests = {r1, r2}
    Arrivals = {"start_find", "show", "poll_find"}
    Interval = 0
    Lifetime = 0
    RetryLimit = 1
    None = None
SYMMETRY Symmetry
INVARIANTS TypeOK  RemovedStaysRemoved
CHECK_DEADLOCK FALSE
