SPECIFICATION Spec
CONSTANTS
    Units = {u1, u2}
    NoUnit = NoUnit
    MaxState = 3
    MaxWire = 2
SYMMETRY Symmetric
INVARIANTS
    NoUnitLost
    IdleMeansDrained
PROPERTIES
    OkSnapshotIsComplete
    Refinement
