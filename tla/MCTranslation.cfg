SPECIFICATION FairSpec
CONSTANTS
    c1 = c1
    c2 = c2
    Chunk = {c1, c2}
    Runner = {r1, r2}
    Reviewer = {u1}
    Payload <- Payloads
    Concurrency = 2
    MaxAttempts = {1, 2}
    NoPayload = NoPayload
    NoRequest = NoRequest
    NoView = NoView
    JobBound = 1
    FaultBound = 1
    ReviewBound = 1
INVARIANTS
    TypeOK
    NothingSkipped
PROPERTIES
    ApprovalsAtRestSurvive
    EditsAtRestSurvive
    BookSettles
CHECK_DEADLOCK FALSE
