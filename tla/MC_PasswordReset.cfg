\* two workers for request and mail tasks, two confirm requests
CONSTANTS
    Users = {u1}
    Creators = {c1, c2}
    Reqs = {r1, r2}
    MaxIds = 4
    MaxLapses = 1
    MaxActive = 1
    MaxRetries = 1
    MailRetries = 1
    None = None
SPECIFICATION Spec
SYMMETRY Symmetry
CHECK_DEADLOCK FALSE
INVARIANTS
    TypeOK
    SingleUse
    SuccessMeansChanged
    ActiveBounded
    TableBounded
PROPERTIES
    RevokedIsDead
    ImplementsLifecycle
