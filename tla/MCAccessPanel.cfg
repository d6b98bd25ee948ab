CONSTANTS
    Person = {1, 2}
    Team = {1}
    Self = 1
    Outside = {1, 2}
    Nested = {1}
    Level = {"view", "owner"}
    Object = {1, 2, 3, 4, 5, 6, 7}
    NoObject = 0
    Call = {c1, c2, c3}
    MaxAsked = 3
SPECIFICATION FairSpec
CHECK_DEADLOCK FALSE
INVARIANTS
    PanelTypeOK
    
    BlockedOnlyWhileAsked
PROPERTY
    PanelFreed
