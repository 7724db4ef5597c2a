\* one worker, two messages, liveness
CONSTANTS
    Users = {u1}
    Agents = {a1}
    Tokens = {k1, k2, k3}
    None = None
    Reqs = {r1}
    Tasks = {t1, t2}
    Workers = 1
    MaxRetries = 2
    LeaseLapses = FALSE
    MaxLogins = 1
    Routes <- TaskRoutes
SPECIFICATION FairSpec
CHECK_DEADLOCK FALSE
INVARIANTS
    SuccessorsBounded
PROPERTIES
    TasksSettle
    LocksComeFree
