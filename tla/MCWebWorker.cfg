SPECIFICATION FairSpec
CONSTANTS
    p1 = p1
    p2 = p2
    r1 = r1
    r2 = r2
    Open = Open
    Break = Break
    Posts <- MCPosts
    Replies <- MCReplies
    MaxBreaks = 2
INVARIANTS
    TakenBeforeBreak
    ThreadEndsFirst
    FaultsExplained
PROPERTIES
    TwoStreams
    DestructionEnds
    Delivered
CHECK_DEADLOCK FALSE
