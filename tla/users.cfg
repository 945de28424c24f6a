SPECIFICATION Spec
CONSTANTS
    Users = {u1, u2, u3}
    Roles = {a}
    Stamps = {s1, s2}
    Requests = {r1, r2}
    Exclusive = {u1, u2}
    Crashes = TRUE
    None = None
    Damaged = Damaged
SYMMETRY Symmetry
INVARIANT TypeOK
PROPERTIES ImplementsUserStore 
