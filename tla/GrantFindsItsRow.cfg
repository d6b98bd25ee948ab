CONSTANTS
    Person = {1, 2}
    Team = {2}
    Self = 1
    Outside = {1, 2}
    Nested = {2}
    Level = {"view", "owner"}
    Object = {1, 2, 3, 4, 5, 6}
    NoObject = 0
    Call = {c1, c2}
    MaxAsked = 4
SPECIFICATION Spec
CHECK_DEADLOCK FALSE
INVARIANT
    GrantFindsItsRow
