\* Two ordinary users and an administrator; four requests after the creation
\* of the group.
CONSTANTS
    User = {u1, u2, admin}
    Superuser = {admin}
    NoUser = nobody
    MaxRecords = 5
SPECIFICATION Spec
SYMMETRY MCSymmetry
INVARIANTS
    TypeOK
    LedgerMatch
    OwnerRemains
    RollbackFaithful
    NullGrantorHoldsNothing
    UnshareListSound
PROPERTIES
    ChangesAuthorised
    ImplementsOwnedThing
