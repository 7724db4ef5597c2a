\* the queued endpoint: two workers, one retry, one HTTP request at a time
CONSTANTS
    Users = {u1}
    Agents = {a1, a2}
    Tokens = {k1, k2, k3}
    None = None
    Reqs = {r1}
    Tasks = {t1, t2}
    Workers = 2
    MaxRetries = 1
    LeaseLapses = TRUE
    MaxLogins = 1
    Routes <- TaskRoutes
SPECIFICATION Spec
SYMMETRY Symmetry
CHECK_DEADLOCK FALSE
INVARIANTS
    TypeOK
    ReportedMeansRotated
PROPERTIES
    ImplementsLifecycle
