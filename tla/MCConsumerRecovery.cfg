SPECIFICATION FairSpec
CONSTANTS
    MaxReloads = 2
    Window = 5
    Cooldown = 2
    Confirm = 1
    MaxGap = 2
    WallSteps <- Back
    MaxNow = 7
    MaxOffset = 2
    MaxQueue = 2
INVARIANTS
    TypeOK
    ReloadBudget
    CooldownHolds
    Consistent
PROPERTIES
    TwoProofs
    RecoveryEnds
CHECK_DEADLOCK FALSE
