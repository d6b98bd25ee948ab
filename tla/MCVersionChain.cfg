\* Three resources and two processes that may fail; copies are made.  No
\* symmetry, because one of the properties is a liveness property.
CONSTANTS
    Resource = {r1, r2, r3}
    NoResource = none
    Process = {p1, p2}
    MaxAbandoned = 1
SPECIFICATION FairSpec
INVARIANTS
    TypeOK
    AtMostOneOrigin
    Acyclic
    PublishedFrozen
    
    LinearHistory
    FrozenIffReplaced

    
\* identifiers are used up
CHECK_DEADLOCK FALSE
