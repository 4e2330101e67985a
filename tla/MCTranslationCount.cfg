SPECIFICATION Spec
CONSTANTS
    c1 = c1
    c2 = c2
    Chunk = {c1, c2}
    Runner = {r1}
    Reviewer = {u1, u2}
    Payload <- Payloads
    Concurrency = 2
    MaxAttempts = {3}
    NoPayload = NoPayload
    NoRequest = NoRequest
    NoView = NoView
    JobBound = 1
    FaultBound = 0
    ReviewBound = 2
INVARIANTS
    CompletedCountsApproved
CHECK_DEADLOCK FALSE
