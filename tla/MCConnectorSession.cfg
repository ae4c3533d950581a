SPECIFICATION FairSpec
CHECK_DEADLOCK FALSE
CONSTANTS
    c1 = c1
    Call = {c1}
    MaxSockets = 3
INVARIANTS
    TypeOK
    RegistryAgrees
    PendingReachable
PROPERTIES
    OnlyOwnerLeaves
    DeadIsDropped
