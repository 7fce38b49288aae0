SPECIFICATION Spec
CONSTANTS
    Requests = {r1}
    IdOf <- MCIdOf
    Profiled = {r1}
    Idempotent = {}
    MaxCrashes = 0
    LiveReconcile = TRUE
    Orphans = FALSE
    IOErrors = FALSE
    NoReq = NoReq
INVARIANT ForwardedIsRecorded
