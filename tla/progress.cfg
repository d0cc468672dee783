CONSTANTS
    Browsers = {b1}
    Subjects = {s1}
    Logins = {l1}
    SessionIDs = {i1}
    Requests = {r1, r2}
    Rotate = TRUE
    Faults = {"lost","net"}
    TokenTTL = 1
    LoginTimeout = 2
    SessionTimeout = 3
    MaxTime = 4
    MaxGen = 2
    Second = 1
    None = None
SPECIFICATION FairSpec
PROPERTY
    EveryRequestAnswered
