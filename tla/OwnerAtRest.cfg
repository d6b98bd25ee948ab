CONSTANTS
    User = {u1, u2}
    Superuser = {}
    NoUser = nobody
    Worker = {w1, w2}
    MaxRecords = 4
    MaxCrashes = 0
SPECIFICATION StepsSpec
SYMMETRY MCSymmetry
INVARIANT
    OwnerAtRest
