SPECIFICATION Spec
CONSTANTS
    Users = {u1, u2}
    Requests = {r1}
    Codes = {x1, x2, x3, x4}
    MaxFailCount = 3
    Remember = 3
    BlockSeconds = 1
    Renderer = TRUE
    Typing = {"none", "shown", "used"}
    None = None
SYMMETRY Symmetry
INVARIANTS TypeOK UnguardedBounded CaptchaOnce
CHECK_DEADLOCK FALSE
