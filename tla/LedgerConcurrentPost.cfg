SPECIFICATION Spec
CONSTANTS
    matched = matched
    legacy = legacy
    full = full
    Contents = {matched, full}
    Untyped = {}
    Complete = {full}
    Matched = {matched}
    Initial = {full}
    Lines = {l1}
    Workers = {w1, w2}
    Requests = {r1}
    Handlers = {"approve"}
    Faults = {}
    MaxCreates = 1
    MaxDeliveries = 2
    MaxRebuilds = 0
CHECK_DEADLOCK FALSE
INVARIANTS
    AtMostOnce
