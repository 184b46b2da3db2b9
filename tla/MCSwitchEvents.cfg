SPECIFICATION Spec
CONSTANTS
    Inputs <- MCInputs
    Slots = 1
    Window = 2
    Dedup = 1
    Spread = 1
    Pause = 2
    MaxActions = 2
    MaxSessions = 2
INVARIANTS
    TypeOK
    OncePerAction
    EveryPressCounts
