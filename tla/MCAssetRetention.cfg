SPECIFICATION FairSpec
CONSTANTS
    c1 = c1
    j1 = j1
    Images = 2
    Character = {c1}
    Job = {j1}
    Retention = 1
    BatchSize = 1
    MaxFaults = 1
INVARIANTS
    TypeOK
    InlineInputsKept
PROPERTIES
    SweepSparesReferenced
    OrphansSwept
