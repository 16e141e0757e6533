SPECIFICATION FairSpec
CONSTANTS
    c1 = c1
    c2 = c2
    j1 = j1
    u1 = u1
    Companies = {c1, c2}
    Healthy = {c1}
    Schedule <- WeeklyAndHourly
    Jobs = {j1}
    Users = {u1}
    CronTimes = {1, 3}
    HourLen = 2
    DayLen = 4
    WeekLen = 2
    LockTTL = 2
    MaxRun = 2
    Days = {1, 2, 3}
    History <- OneEdit
    MaxRequests = 1
    MaxCrashes = 1
CHECK_DEADLOCK FALSE
INVARIANTS
    TypeOK
    OncePerPeriod
PROPERTIES
    EndsWithNoneOwed
    BecomesCurrent
