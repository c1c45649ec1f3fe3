SPECIFICATION FairSpec
CONSTANTS
    o = o
    c = c
    w = w
    t1 = t1
    t2 = t2
    t3 = t3
    t4 = t4
    NoTask = NoTask
    Clients <- MCClients
    Owner = o
    Loop = w
    Creator = w
    Attached = TRUE
    Tasks <- MCTasks3
PROPERTIES
    EverythingRuns
    SyncReturns
CHECK_DEADLOCK FALSE
