SPECIFICATION Spec
CHECK_DEADLOCK FALSE
CONSTANTS
    c1 = c1
    c2 = c2
    a1 = a1
    a2 = a2
    j1 = j1
    j2 = j2
    i1 = i1
    Conn = {c1, c2}
    Account = {a1, a2}
    NoAccount = NoAccount
    Job = {j1, j2}
    Image = {i1}
    Bytes <- TheBytes
    FirstAccount <- Accounts
    Restless = {c1}
    NoKey = NoKey
    NoRow = NoRow
    MaxProjects = 2
    MaxPages = 2
    MaxEvents = 1
PROPERTIES
    OwnershipKept
