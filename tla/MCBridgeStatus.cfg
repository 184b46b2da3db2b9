SPECIFICATION Spec
CONSTANTS
    Heartbeat = 1
    Stale = 2
    Grace = 1
    Memory = 2
    MaxProcs = 2
    MaxSeq = 4
    MaxWire = 1
INVARIANTS
    TypeOK
    Founded
    HealsInTime
    NewestCounts
PROPERTY
    NeverAgain
