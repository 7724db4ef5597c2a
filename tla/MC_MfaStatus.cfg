\* the same instance: what SUCCESS says of the code
CONSTANTS
    Devices = {d1, d2}
    Keys = {k1, k2}
    Reqs = {r1, r2}
    Threshold = 2
    MaxDevices = 1
    MaxAttempts = 1
    MaxRetries = 1
    MaxEpochs = 1
    None = None
SPECIFICATION Spec
SYMMETRY Symmetry
CHECK_DEADLOCK FALSE
INVARIANTS
    SuccessMeansRightCode
