SPECIFICATION Spec
CHECK_DEADLOCK FALSE
CONSTANTS
    v1 = v1
    v2 = v2
    i1 = i1
    p1 = p1
    Images <- TheImages
    Videos <- TheVideos
    Polls <- ThePolls
    Cost <- TheCost
    Amounts = {2}
    ImageSlots = 1
    VideoSlots = 2
    Slots = 3
    MaxObjects = 2
    MaxGen = 2
    MaxReads = 2
    MaxPaid = 1
INVARIANTS
    TypeOK
    BalanceOfThisIdentity
    RefreshPending
    CountersExact
PROPERTIES
    KeepsLedger
