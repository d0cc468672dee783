CONSTANTS
    Browsers = {b1, b2}
    Subjects = {s1}
    Logins = {l1, l2}
    SessionIDs = {i1, i2}
    Requests = {r1, r2}
    Rotate = FALSE
    Faults = {"query"}
    TokenTTL = 0
    LoginTimeout = 2
    SessionTimeout = 3
    MaxTime = 1
    MaxGen = 1
    Second = 1
    None = None
SPECIFICATION Spec
SYMMETRY Symmetry
INVARIANTS
    OwnershipInv
    ForwardsOnlyOwnLogin
    OwnLoginFirst
