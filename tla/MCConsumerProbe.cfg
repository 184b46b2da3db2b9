SPECIFICATION Spec
CONSTANTS
    Units = {u1, u2}
    Deadline = 1
    MaxProcs = 2
    MaxReq = 2
    MaxRaw = 2
    MaxBacklog = 2
SYMMETRY UnitSymmetry
INVARIANTS
    TypeOK
    CertifiesSnapshot
    NoFalseAlarm
    OneProcess
