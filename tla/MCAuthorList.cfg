CONSTANTS
    Author = {a1, a2, a3}
    NoAuthor = none
SPECIFICATION FairSpec
CHECK_DEADLOCK FALSE
INVARIANTS
    AuthorsTypeOK
    OrderedUnlessInner
    ListTrueAtRest
PROPERTY
    UpdatesEnd
