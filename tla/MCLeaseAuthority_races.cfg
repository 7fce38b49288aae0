SPECIFICATION MCSpec
CONSTANTS
    l1 = l1
    l2 = l2
    l3 = l3
    a1 = a1
    grant = grant
    root = root
    Procs = {p1, p2, p3}
    Leases = {l1, l2, l3}
    Approvals = {a1}
    Bases = {grant}
    Direct <- MCDirect
    Above <- MCAbove
    From <- MCFrom
    Until <- MCUntil
    Revocations <- MCRevocations
    Ttl = 2
    MaxTime = 2
    MaxRecords = 2
    OpenErrors = {l1}
    WriteErrors = TRUE
    Unregistered = TRUE
    NoProc = NoProc
    NoKey = NoKey
    NoData = NoData
SYMMETRY Symmetry
INVARIANTS TypeOK LeaseUsedOnce RevocationNotOvertaken UsedWhileAuthorityActive
PROPERTIES RevocationsKept ImplementsOneUse
CHECK_DEADLOCK FALSE
