\* two workers, tasks faster than their lock's TTL
CONSTANTS
    Users = {u1}
    Agents = {a1}
    Tokens = {k1, k2, k3}
    None = None
    Reqs = {r1}
    Tasks = {t1, t2}
    Workers = 2
    MaxRetries = 0
    LeaseLapses = FALSE
    MaxLogins = 1
    Routes <- TaskRoutes
SPECIFICATION Spec
CHECK_DEADLOCK FALSE
INVARIANTS
    MutualExclusion
