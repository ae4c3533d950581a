SPECIFICATION Spec
CHECK_DEADLOCK FALSE
CONSTANTS
    g1 = g1
    p1 = p1
    Request = {g1, p1}
    Page = {p1}
    MaxSockets = 3
INVARIANTS
    TypeOK
PROPERTIES
    KeepsCall
