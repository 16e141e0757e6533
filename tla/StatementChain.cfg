SPECIFICATION Spec
CONSTANTS
    w1 = w1
    w2 = w2
    r1 = r1
    Workers = {w1}
    Requests = {r1}
    Modes = {"tasks"}
    Handlers = {"create"}
    FromJobs = {}
    Faults = {}
    Structured = FALSE
    Candidates = 2
    Reads = {{"total", "ready", "failed"}, {"queued"}, {"processing"}}
    MaxChecks = 2
    MaxRequests = 1
    MaxRedeliveries = 0
CHECK_DEADLOCK FALSE
INVARIANTS
    QuietIsDone
