\* three events, two retries
CONSTANTS
    e1 = e1
    e2 = e2
    e3 = e3
    shared = shared
    other = other
    Events <- MCEvents
    Prints <- MCPrints
    Fits <- MCFits
    fingerprint <- MCFingerprint
    MaxRetries = 2
SPECIFICATION FairSpec
CHECK_DEADLOCK FALSE
INVARIANTS
    TypeOK
    OutcomesAreTrue
PROPERTIES
    EventsSettle
