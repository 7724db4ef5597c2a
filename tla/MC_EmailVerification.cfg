\* two overlapping requests; two users who may share a fingerprint
CONSTANTS
    Users = {u1, u2}
    Fingerprints = {f1}
    Reqs = {r1, r2}
    MaxActive = 1
    MaxIds = 2
    MaxSpans = 3
    None = None
SPECIFICATION Spec
SYMMETRY Symmetry
CHECK_DEADLOCK FALSE
INVARIANTS
    TypeOK
    MailsPaced
    LockoutEnds
