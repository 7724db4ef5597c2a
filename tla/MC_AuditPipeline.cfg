\* two API processes, batches of two, two well-formed entries and one without its columns
CONSTANTS
    Plain = {e1, e2}
    Bare = {b1}
    Workers = {w1, w2}
    BatchSize = 2
    QueueMax = 2
    DeadMax = 2
    MaxFaults = 2
    None = None
SPECIFICATION FairSpec
CHECK_DEADLOCK FALSE
INVARIANTS
    TypeOK
    LossBounded
    DuplicatesBounded
    DeadForCause
PROPERTIES
    QueueDrains
