SPECIFICATION FairSpec
CONSTANT
    Attempts = 6
INVARIANTS
    TypeOK
    StopIsClean
PROPERTIES
    OneAttempt
    TruthfulExit
    LossEndsIt
    StartupEnds
