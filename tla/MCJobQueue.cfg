SPECIFICATION FairSpec
CONSTANTS
    Job = {j1, j2}
    Worker = {w1, w2}
    NoJob = NoJob
    NoWorker = NoWorker
    MaxAttempts = 2
    FaultBound = 1
    OverrunBound = 1
INVARIANTS
    TypeOK
    ExclusiveExecution
    AttemptsWithinBudget
PROPERTIES
    ImplementsContract
    EveryJobSettles
CHECK_DEADLOCK FALSE
