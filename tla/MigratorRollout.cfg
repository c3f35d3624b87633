SPECIFICATION FairSpec
CONSTANTS
    Instances = {i1, i2, i3}
    Versions = {1, 2, 3}
    Binaries <- GrowingBinaries
    Destructive = {1}
    MaxFaults = 1
INVARIANTS
    TypeOK
    AppliedOnce
    RanksContiguous
    UpMeansMigrated
    BeatenByAnother
    AppliedInOrder
PROPERTIES
    UsersSurvive
    AllUp
CHECK_DEADLOCK FALSE
