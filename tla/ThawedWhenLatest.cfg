CONSTANTS
    Resource = {r1, r2, r3}
    NoResource = none
    Process = {p1, p2}
    MaxAbandoned = 1
SPECIFICATION Spec
PROPERTY ThawedWhenLatest
CHECK_DEADLOCK FALSE
