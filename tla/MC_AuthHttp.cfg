\* HTTP handlers only: two overlapping requests beside a sweep
CONSTANTS
    Users = {u1}
    Agents = {a1, a2}
    k1 = k1
    k2 = k2
    k3 = k3
    Tokens <- MCTokens
    Matches <- MCMatches
    None = None
    Reqs = {r1, r2}
    Tasks = {}
    Workers = 1
    MaxRetries = 0
    LeaseLapses = TRUE
    MaxLogins = 2
    Routes <- HttpRoutes
SPECIFICATION SweepSpec
SYMMETRY Symmetry
CHECK_DEADLOCK FALSE
INVARIANTS
    SweepTypeOK
    SessionsComeFromLogin
    PredecessorIsDead
    SweptStaysDead
PROPERTIES
    ImplementsLifecycle
