CONSTANTS
    User = {u1, u2}
    Superuser = {}
    NoUser = nobody
    MaxRecords = 5
    MaxRequests = 2
SPECIFICATION MembershipSpec
SYMMETRY MCSymmetry
INVARIANTS
    OnePending
PROPERTIES
    ImplementsGroupSharing
    JoinsAtView
