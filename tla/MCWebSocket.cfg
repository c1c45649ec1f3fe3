SPECIFICATION Spec
CONSTANTS
    Frames <- MCFrames
    Answers <- MCAnswers
    MaxFrames = 3
INVARIANTS
    WholeMessages
    FaultsExplained
PROPERTIES
    LastWord
CHECK_DEADLOCK FALSE
