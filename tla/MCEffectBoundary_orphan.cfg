SPECIFICATION Spec
CONSTANTS
    Requests = {r1}
    IdOf <- MCIdOf
    Profiled = {r1}
    Idempotent = {}
    MaxCrashes = 1
    LiveReconcile = FALSE
    Orphans = TRUE
    IOErrors = FALSE
    NoReq = NoReq
INVARIANT ResolvedFailureMeansNoEffect
