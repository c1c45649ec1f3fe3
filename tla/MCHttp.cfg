SPECIFICATION FairSpec
CONSTANTS
    t1 = t1
    t2 = t2
    f1 = f1
    f2 = f2
    f3 = f3
    k1 = k1
    k2 = k2
    Nil = Nil
    Tasks <- MCTasks
    Fns <- MCFns
    Keys <- MCKeys
    KeyOf <- MCKeyOf
    Json <- MCJson
INVARIANTS
    Accounted
    FaultsExplained
PROPERTIES
    Answered
CHECK_DEADLOCK FALSE
