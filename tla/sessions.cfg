CONSTANTS
    Browsers = {b1}
    Subjects = {s1, s2}
    Logins = {l1}
    SessionIDs = {i1}
    Requests = {r1, r2}
    Rotate = FALSE
    Faults = {"cookie", "db", "idp", "lost", "idtoken", "subject", "backend", "net", "query", "crash"}
    TokenTTL = 1
    LoginTimeout = 3
    SessionTimeout = 3
    MaxTime = 4
    MaxGen = 2
    Second = 2
    None = None
SPECIFICATION Spec
SYMMETRY Symmetry
INVARIANTS
    TypeOK
    ForwardsOnlyOwnUser
PROPERTIES
    KeepsLifecycle
    RemovesOnlyExpired
