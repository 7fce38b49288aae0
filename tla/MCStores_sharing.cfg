SPECIFICATION Spec
CONSTANTS
    Stores = {"marker", "log", "grants", "history", "queue", "receipts", "git"}
    p1 = p1
    p2 = p2
    Procs = {p1, p2, p3}
    Keys = {k1, k2}
    Data = {d1}
    NoProc = NoProc
    NoKey = NoKey
    NoData = NoData
    OpenErrors = {k2}
    WriteErrors = TRUE
    Writers = {p1, p2}
    MaxEvents = 3
    MaxDraws = 4
    AppendErrors = TRUE
    ShortWrites = TRUE
    root = root
    g1 = g1
    g2 = g2
    g3 = g3
    x = x
    y = y
    f = f
    Delegators = {p1, p2}
    Ids = {root, g1, g2, g3}
    Root = root
    RootGrants <- MCRootGrants
    Things = {x, y}
    Fields = {f}
    Specs <- MCSpecs
    Revocations <- MCRevocations
    MaxTime = 1
    MaxRecords = 2
    StoreErrors = TRUE
    NoGrant = NoGrant
    Unlimited = Unlimited
    Observers = {p1, p2}
    Manifests <- MCManifests
    MaxObservations = 3
    MaxClock = 3
    Calls = {c1}
    Deciders = {p1, p2}
    GateProc = gate
    Slots = {1}
    ApprovalModes = {"tui", "none"}
    ChoicesMade = {"allow_once", "allow_session", "always_ask", "always_allow"}
    MaxRequests = 2
    MaxEdits = 1
    NoRequest = NoRequest
    Executors = {p1, p2}
    Jobs = {"read", "write"}
    Rulebooks <- MCRulebooks
    IssueOptions <- MCIssueOptions
    ExecOptions <- MCExecOptions
    Ttl = 2
    MaxReceipts = 1
    LastHour = 2
    GitExecutors = {p1, p2}
    GitLeases = {"l1", "l2"}
    MaxOthers = 1
SYMMETRY Symmetry
CHECK_DEADLOCK FALSE
INVARIANTS
    CreatedOnce
    CreatedStays
    LogIsSound
    GrantsAreSound
    HistoryIsSound
    PermissionsAreGiven
    RequestSettledOnce
    ReceiptIsHonoured
    GitIsAccountable
