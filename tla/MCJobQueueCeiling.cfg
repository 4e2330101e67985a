SPECIFICATION Spec
CONSTANTS
    Job = {j1}
    Worker = {w1}
    NoJob = NoJob
    NoWorker = NoWorker
    MaxAttempts = 3
    FaultBound = 3
    OverrunBound = 0
INVARIANTS
    RetryCeiling
CHECK_DEADLOCK FALSE
