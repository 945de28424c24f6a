SPECIFICATION FairSpec
CONSTANTS
    Users = {u1}
    Requests = {r1, r2}
    Codes = {x1, x2}
    MaxFailCount = 1
    Remember = 1
    BlockSeconds = 1
    Renderer = FALSE
    Typing = {"none"}
    None = None
INVARIANT BlocksAreHeld
PROPERTY BlocksEnd
CHECK_DEADLOCK FALSE
