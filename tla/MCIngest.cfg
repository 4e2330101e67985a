CONSTANTS
    Books = {b1, b2}
    BookIds = {b1, b2}
    Names = {n1, n2}
    Callers = {worker, task}
    Ocr = worker
    MaxRetries = 2
    MaxCalls = 1
    MaxRuns = 2
    Pages <- MCPages
    SettingsInUse <- MCSettings
SPECIFICATION IngestSpec
INVARIANTS
    TypeOK
    FileKept
    FilesCleaned
    OneRowPerInvocation
    SecondAskOnlyUnread
    DroppedPagesAreOnRecord
PROPERTIES
    WorkEnds
CHECK_DEADLOCK FALSE
