SPECIFICATION FairSpec
CONSTANTS
    Units = {u1, u2}
    NoUnit = NoUnit
    MaxState = 2
    MaxWire = 1
PROPERTY
    WaitingIsPublished
