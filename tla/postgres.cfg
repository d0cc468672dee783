CONSTANTS
    SessionIDs = {i1, i2}
    Subjects = {s1, s2}
    Logins = {l1}
    Handlers = {h1, h2}
    Cleaner = cleaner
    Inputs <- SomeData
    Cancellable = {h1, h2, cleaner}
    MaxTime = 1
    Second = 1
    None = None
SPECIFICATION Spec
SYMMETRY Symmetry
INVARIANTS
    TypeOK
    FailedCallsLeaveNoTrace
    SubjectsStay
PROPERTY DeletedStaysDeleted
