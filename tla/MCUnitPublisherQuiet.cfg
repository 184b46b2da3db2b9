SPECIFICATION Spec
CONSTANTS
    Units = {u1, u2}
    NoUnit = NoUnit
    MaxState = 2
    MaxWire = 2
SYMMETRY Symmetric
INVARIANT
    QuietMeansCurrent
