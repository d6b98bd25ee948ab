CONSTANTS
    User = {u1, u2}
    Superuser = {}
    NoUser = nobody
    Worker = {w1, w2}
    MaxRecords = 4
    MaxCrashes = 1
SPECIFICATION StepsSpec
SYMMETRY MCSymmetry
INVARIANTS
    MatchUnlessOverlapped
    OwnerUnlessRaced
    RowIsRecorded
