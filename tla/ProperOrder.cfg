CONSTANTS
    Author = {a1, a2, a3}
    NoAuthor = none
SPECIFICATION Spec
CHECK_DEADLOCK FALSE
INVARIANT
    ProperOrder
