SPECIFICATION FairSpec
CONSTANTS
    Procs = {p1, p2}
    Mortal = {p1}
    Aging = TRUE
    IOErrors = TRUE
    PidReuse = TRUE
    MaxCalls = 2
    NoToken = NoToken
    HostOf <- MCHostOf
CHECK_DEADLOCK FALSE
PROPERTIES CallReturns AbandonedLockRemoved
