CONSTANTS
    Browsers = {b1}
    Subjects = {s1}
    Logins = {l1, l2}
    SessionIDs = {i1, i2}
    Requests = {r1}
    Rotate = FALSE
    Faults = {}
    TokenTTL = 1
    LoginTimeout = 2
    SessionTimeout = 4
    MaxTime = 4
    MaxGen = 2
    Second = 1
    None = None
SPECIFICATION Spec
INVARIANT StateMeansNoSession
