SPECIFICATION Spec
CONSTANTS
    Lockers = {l}
    Secrets = {s}
    Meta = Meta
    MaxStamp = 2
    Requests = {r1, r2}
    Crashes = TRUE
    None = None
SYMMETRY Symmetry
INVARIANTS TypeOK NewestIsServed RemovedIsNotServed 
 
