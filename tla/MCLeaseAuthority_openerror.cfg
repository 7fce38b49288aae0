SPECIFICATION MCSpec
CONSTANTS
    l1 = l1
    l2 = l2
    l3 = l3
    a1 = a1
    grant = grant
    root = root
    Procs = {p1, p2}
    Leases = {l1, l2, l3, l4}
    Approvals = {a1}
    Bases = {grant}
    Direct <- MCDirect
    Above <- MCAbove
    From <- MCFrom
    Until <- MCUntil
    Revocations = {}
    Ttl = 2
    MaxTime = 0
    MaxRecords = 1
    OpenErrors = {a1}
    WriteErrors = FALSE
    Unregistered = FALSE
    NoProc = NoProc
    NoKey = NoKey
    NoData = NoData
SYMMETRY Symmetry
INVARIANT OneLeasePerApproval
CHECK_DEADLOCK FALSE
