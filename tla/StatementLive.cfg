SPECIFICATION FairSpec
CONSTANTS
    w1 = w1
    w2 = w2
    r1 = r1
    Workers = {w1, w2}
    Requests = {r1}
    Modes = {"tasks"}
    Handlers = {"reprocess", "retry"}
    FromJobs <- FromSpawn
    Faults = {}
    Structured = TRUE
    Candidates = 1
    Reads = {{"total", "ready", "failed"}, {"queued"}, {"processing"}}
    MaxChecks = 2
    MaxRequests = 2
    MaxRedeliveries = 0
CHECK_DEADLOCK FALSE
PROPERTIES
    ChecksFinish
