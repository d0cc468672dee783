SPECIFICATION Spec
CONSTANTS
    Requests = {r1, r2}
    Kinds = {"served", "failed", "notfound", "late", "closed", "gateway", "abort", "mux", "main"}
    None = None
CHECK_DEADLOCK FALSE
SYMMETRY Symmetry
INVARIANTS
    TypeOK
    ErrorsAreCurrent
    AloneIsRight
