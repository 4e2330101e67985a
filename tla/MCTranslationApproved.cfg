SPECIFICATION Spec
CONSTANTS
    c1 = c1
    c2 = c2
    Chunk = {c1, c2}
    Runner = {r1, r2}
    Reviewer = {u1}
    Payload <- Payloads
    Concurrency = 2
    MaxAttempts = {3}
    NoPayload = NoPayload
    NoRequest = NoRequest
    NoView = NoView
    JobBound = 2
    FaultBound = 0
    ReviewBound = 2
PROPERTIES
    ApprovedSurvives
CHECK_DEADLOCK FALSE
