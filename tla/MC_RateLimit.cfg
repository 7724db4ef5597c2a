\* one key of each form, four overlapping requests
CONSTANTS
    Renewed = {kr}
    Fixed = {kf}
    Reqs = {r1, r2, r3, r4}
    Limit = 2
    None = None
SPECIFICATION Spec
SYMMETRY Symmetry
CHECK_DEADLOCK FALSE
INVARIANTS
    TypeOK
    WindowCapped
    RefusalEnds
    EndlessOnlyByFault
