SPECIFICATION FairSpec
CONSTANTS
    MaxJobs = 2
    Video <- MCVideo
    Locked <- MCLocked
    Key = {k1}
    NoKey = NoKey
    ImageTimeout = 2
    QueueTimeout = 2
    RunTimeout = 2
    DispatchLease = 2
    PollLease = 1
    ReleaseDelay = 1
    PollBase = 1
    PollMax = 2
    MaxPollErrors = 1
    Retention = 2
    WorkerConcurrency = 2
    PollConcurrency = 2
    RpcTimeout = 1
    MaxPrepare = 2
    MaxCrashes = 1
    Horizon = 2
INVARIANTS
    TypeOK
    PaidAtMostOnce
    HonestFailure
    DispatchOwned
    IInv
PROPERTIES
    SettledIsFinal
    KeepsContract
    EveryJobSettles
