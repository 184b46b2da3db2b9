SPECIFICATION Spec
CONSTANTS
    StatusInterval = 6
    ConsumerInterval = 10
    Deadline = 2
    Grace = 2
    Confirm = 6
    VerifyTime = 12
    Spacing = 4
    MaxLate = 7
INVARIANTS
    TypeOK
    NeitherStarves
    DetectedInTime
