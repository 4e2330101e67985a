CONSTANTS
    Requests = {1, 2, 3}
    t1 = t1
    t2 = t2
    Terms = {t1, t2}
    Flags <- MCFlags
    Present = {1}
    TermOf <- MCTermOf
SPECIFICATION Spec
INVARIANTS
    TypeOK
    NoneLeftPending
    DecisionsStand
    FailsOnlyOnConflict
PROPERTIES
    EveryRequestEnds
CHECK_DEADLOCK FALSE
