SPECIFICATION Spec
CONSTANTS
    w1 = w1
    w2 = w2
    r1 = r1
    Workers = {w1}
    Requests = {r1}
    Modes = {"tasks", "http", "inline"}
    Handlers = {"create", "reprocess", "retry"}
    FromJobs <- FromAny
    Faults = {"artifact", "enqueue", "crash", "duplicate"}
    Structured = FALSE
    Candidates = 1
    Reads = {{"total", "ready", "failed"}, {"queued"}, {"processing"}}
    MaxChecks = 4
    MaxRequests = 3
    MaxRedeliveries = 1
CHECK_DEADLOCK FALSE
INVARIANTS
    TypeOK
    NoDuplicates
