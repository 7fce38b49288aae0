SPECIFICATION FairSpec
CONSTANTS
    Requests = {r1, r2}
    IdOf <- MCIdOf
    Profiled = {r1}
    Idempotent = {r1}
    MaxCrashes = 2
    LiveReconcile = FALSE
    Orphans = FALSE
    IOErrors = TRUE
    NoReq = NoReq
INVARIANTS TypeOK ForwardedIsRecorded NoDuplicateEffect
PROPERTY ForwardedIsSettled
