SPECIFICATION FairSpec
CONSTANTS
    Tabs = {t1, t2}
    Calls = {c1, c2}
    Handlers = {"logout", "signIn"}
    Faults = {"database", "lostReply"}
    MaxTokens = 6
    MaxEvents = 5
CHECK_DEADLOCK FALSE
INVARIANTS
    TypeOK
    CookieIsLive
    ReuseIsRefused
PROPERTIES
    EveryCallEnds
