SPECIFICATION FairSpec
CONSTANTS
    FailuresToReset = 2
    FailureWindow = 2
    MaxResetsShort = 1
    ShortWindow = 1
    MaxResetsLong = 2
    LongWindow = 2
    PlainWindow = 2
    MaxPlainStreak = 1
    MaxStartupStreak = 3
    StuckTime = 0
    HealthyTime = 2
    ReadFaults = FALSE
    MaxNow = 1
    MaxRuns = 2
PROPERTIES
    PendingUntilVerified
    TerminalStopHappens
