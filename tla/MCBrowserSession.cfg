SPECIFICATION FairSpec
CONSTANTS
    a1 = a1
    a2 = a2
    r1 = r1
    f1 = f1
    None = None
    Attempt = {a1, a2}
    Rpc = {r1}
    Frame = {f1}
    MaxAccounts = 2
    MaxLosses = 1
    MaxFailures = 1
INVARIANTS
    TypeOK
    OneSocket
PROPERTIES
    NewestKept
    CapturedWins
    IdentityCatchesUp
