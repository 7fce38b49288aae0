SPECIFICATION Spec
CONSTANTS
    OraclesOf <- MCOraclesOf
    AllowedPaths = {"source"}
    MaxChanges = 2
    Calls <- MCCalls
    Paths <- MCPaths
    MaxDepth = 2
    Horizon = 4
    Contents <- MCContents
    Hashable = 2
    ToolIds = {1}
    Scenarios <- MCScenarios
    Unkeyed = Unkeyed
    Posts = {r1, r2}
    Batches <- MCBatches
    MaxBatchItems = 3
    Refresh = 2
    MaxTicks = 3
    ga = ga
    gb = gb
    Guards = {ga, gb}
    Automatic = {gb}
    PolicySays <- MCPolicySays
    LegacyProvider = TRUE
    MaxAttempts = 2
    JsonTexts <- MCJsonTexts
    ItemsOf <- MCItemsOf
    Denials <- MCDenials
    Notices <- MCNotices
SYMMETRY Symmetry
CHECK_DEADLOCK FALSE
INVARIANTS
    GuardsCannotBeOverridden
    PolicyHasOneMeaning
    NarrowedIsNarrower
    VerdictsAreProven
    ReleaseIsEarned
    LabIsHonest
    EffectsAreAllowedAndRecorded
    CallsAreAllowedAndRecorded
    RewritesDoNotLoosen
    RoutesAgree
    FramingIsInvisible
    ExportsAreFaithful
    TracesAreComplete
    PassIsBound
PROPERTY
    PinIsRecent
