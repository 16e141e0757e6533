SPECIFICATION Spec
CONSTANTS
    w1 = w1
    w2 = w2
    r1 = r1
    Workers = {w1, w2}
    Requests = {r1}
    Modes = {"tasks"}
    Handlers = {"reprocess"}
    FromJobs <- FromSpawn
    Faults = {"artifact", "enqueue"}
    Structured = TRUE
    Candidates = 3
    Reads = {{"total", "ready", "failed"}, {"queued"}, {"processing"}}
    MaxChecks = 3
    MaxRequests = 1
    MaxRedeliveries = 0
CHECK_DEADLOCK FALSE
SYMMETRY Symmetry
INVARIANTS
    NoLostFinish
    TroubleIsReported
