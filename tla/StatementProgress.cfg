SPECIFICATION Spec
CONSTANTS
    w1 = w1
    w2 = w2
    r1 = r1
    Workers = {w1}
    Requests = {r1}
    Modes = {"tasks", "http", "inline"}
    Handlers = {"reprocess", "retry"}
    FromJobs <- FromSpawnOrInline
    Faults = {"artifact"}
    Structured = TRUE
    Candidates = 2
    Reads = {{"total", "ready", "failed"}, {"queued"}, {"processing"}}
    MaxChecks = 4
    MaxRequests = 2
    MaxRedeliveries = 0
CHECK_DEADLOCK FALSE
INVARIANTS
    ProgressAgrees
    InlineIsDone
