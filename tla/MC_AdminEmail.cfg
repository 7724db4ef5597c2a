\* three requests on two keys, each set at most twice
CONSTANTS
    Keys = {k1, k2}
    Reqs = {r1, r2, r3}
    MaxAttempts = 3
    MaxClaims = 2
    None = None
SPECIFICATION Spec
SYMMETRY Symmetry
CHECK_DEADLOCK FALSE
INVARIANTS
    TypeOK
    JobsPaced
    MailsForCause
