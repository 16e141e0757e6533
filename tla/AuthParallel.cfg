SPECIFICATION Spec
CONSTANTS
    Tabs = {t1}
    Calls = {c1, c2}
    Handlers = {}
    Faults = {}
    MaxTokens = 3
    MaxEvents = 2
CHECK_DEADLOCK FALSE
INVARIANTS
    ValidCookieRecovers
