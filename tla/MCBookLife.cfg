SPECIFICATION Spec
CONSTANTS
    Run = {r1, r2}
    JobBound = 3
    MaxAttempts = 2
    CliBound = 1
    RequestBound = 2
    FaultBound = 1
SYMMETRY Symmetry
INVARIANTS
    TypeOK
    OneActiveJob
    ExtractionAttended
PROPERTIES
    TranslationsOutliveExtraction
CHECK_DEADLOCK FALSE
