SPECIFICATION Spec
CONSTANTS
    Procs = {p1, p2, p3}
    Mortal = {p1, p2, p3}
    Aging = FALSE
    IOErrors = TRUE
    PidReuse = TRUE
    MaxCalls = 2
    NoToken = NoToken
    HostOf <- MCHostOf
CHECK_DEADLOCK FALSE
INVARIANTS TypeOK MutualExclusion
PROPERTIES RemovedByOwner ImplementsMutex
