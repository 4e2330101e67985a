SPECIFICATION Spec
CONSTANTS
    Line <- Lines
    TargetChars = 4
    Passthrough = {"quranic_verse"}
    LineBound = 5
    LastPage = 1
INVARIANTS
    VersesPassThrough
CHECK_DEADLOCK FALSE
