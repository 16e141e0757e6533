SPECIFICATION Spec
CONSTANTS
    matched = matched
    legacy = legacy
    full = full
    Contents = {matched, full}
    Untyped = {}
    Complete = {full}
    Matched = {matched}
    Initial = {full}
    Lines = {l1}
    Workers = {w1, w2}
    Requests = {r1}
    Handlers = {"refresh", "bulk"}
    Faults = {"lostReply", "dbWrite", "crash"}
    MaxCreates = 1
    MaxDeliveries = 2
    MaxRebuilds = 1
CHECK_DEADLOCK FALSE
SYMMETRY Symmetry
INVARIANTS
    PostedIsBacked
    MirrorFollowsRow
PROPERTIES
    RecordedForGood
