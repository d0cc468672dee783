CONSTANTS
    Browsers = {b1}
    Subjects = {s1}
    Logins = {l1}
    SessionIDs = {i1}
    Requests = {r1, r2, r3}
    Rotate = TRUE
    Faults = {"cookie", "net", "backend"}
    TokenTTL = 1
    LoginTimeout = 2
    SessionTimeout = 4
    MaxTime = 5
    MaxGen = 3
    Second = 1
    None = None
SPECIFICATION Spec
SYMMETRY Symmetry
INVARIANT NewestTokenKept
PROPERTIES
    NoStaleUpdate
