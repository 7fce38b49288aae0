SPECIFICATION LearnAgain
CONSTANTS
    Calls <- MCCalls
    Paths <- MCPaths
    MaxDepth = 2
    Horizon = 4
    Contents <- MCContents
    Hashable = 2
    ToolIds = {1}
    JsonTexts <- MCJsonTexts
    ItemsOf <- MCItemsOf
    Denials <- MCDenials
    Notices <- MCNotices
CHECK_DEADLOCK FALSE
INVARIANT LearningDoesNotLoosen
