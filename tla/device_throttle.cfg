SPECIFICATION Spec
CONSTANTS
    DeviceCodes = {d1}
    UserCodes = {n1}
    Clients = {c1}
    Users = {u1}
    Consents = {all}
    Requests = {r1, r2}
    Arrivals = {"start_find", "show", "poll_find"}
    Interval = 3
    Lifetime = 4
    RetryLimit = 2
    None = None
SYMMETRY Symmetry
INVARIANT PoliteNeverSlowed
PROPERTY SpacedUnlessConcurrent
CHECK_DEADLOCK FALSE
