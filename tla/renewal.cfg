CONSTANTS
    Browsers = {b1}
    Subjects = {s1}
    Logins = {l1, l2}
    SessionIDs = {i1, i2}
    Requests = {r1, r2}
    Rotate = FALSE
    Faults = {"net"}
    TokenTTL = 1
    LoginTimeout = 2
    SessionTimeout = 3
    MaxTime = 4
    MaxGen = 3
    Second = 1
    None = None
SPECIFICATION Spec
SYMMETRY Symmetry
INVARIANT LiveSessionServed
