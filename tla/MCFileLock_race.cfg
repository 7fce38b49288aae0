SPECIFICATION Spec
CONSTANTS
    Procs = {p1, p2, p3}
    Mortal = {p1}
    Aging = TRUE
    IOErrors = FALSE
    PidReuse = FALSE
    MaxCalls = 1
    NoToken = NoToken
    HostOf <- MCHostOf
CHECK_DEADLOCK FALSE
PROPERTY StaleRemovalSparesNewOwner
