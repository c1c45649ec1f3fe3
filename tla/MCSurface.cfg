SPECIFICATION FairSpec
CONSTANTS
    MaxContexts = 2
    MaxCalls = 2
INVARIANTS
    FaultsExplained
    CurrentContext
PROPERTIES
    Redrawn
CHECK_DEADLOCK FALSE
