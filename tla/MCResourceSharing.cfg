\* Three ordinary users, one of whom may have access through groups, and an
\* administrator; two requests after the creation of the resource.
CONSTANTS
    User = {u1, u2, u3, admin}
    Superuser = {admin}
    GroupMember = {u3}
    NoUser = nobody
    MaxRecords = 3
SPECIFICATION Spec
SYMMETRY MCSymmetry
INVARIANTS
    OwnerRemains
    HolderOnceOwned
PROPERTIES
    ImplementsOwnedThing
    HolderKeepsOwnership
    ChangesAuthorised
