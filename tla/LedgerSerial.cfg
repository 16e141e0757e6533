SPECIFICATION Spec
CONSTANTS
    matched = matched
    legacy = legacy
    full = full
    Contents = {matched, legacy, full}
    Untyped = {legacy}
    Complete = {full}
    Matched = {matched}
    Initial = {matched, legacy}
    Lines = {l1}
    Workers = {w1}
    Requests = {r1}
    Handlers = {"update", "approve", "exclude", "match"}
    Faults = {}
    MaxCreates = 1
    MaxDeliveries = 3
    MaxRebuilds = 0
CHECK_DEADLOCK FALSE
INVARIANTS
    TypeOK
    AtMostOnce
    OnlyApprovedPosted
    SuccessMeansPosted
    MirrorAgrees
PROPERTIES
    KeepsThePromise
