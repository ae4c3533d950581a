SPECIFICATION Spec
CHECK_DEADLOCK FALSE
CONSTANTS
    r1 = r1
    r2 = r2
    r3 = r3
    k1 = k1
    Request <- Requests
    Key = {k1}
    NoKey = NoKey
    NoJob = NoJob
    Body = {"explicit", "default"}
    Defaulted = {"default"}
    Value = {"pro", "lite"}
    Limit = 2
SYMMETRY RequestSymmetry
INVARIANTS
    EditKeepsReplay
