SPECIFICATION Spec
CONSTANTS
    o = o
    c = c
    w = w
    t1 = t1
    t2 = t2
    t3 = t3
    t4 = t4
    NoTask = NoTask
    Clients <- MCClients
    Owner = o
    Loop = w
    Creator = o
    Attached = TRUE
    Tasks <- MCTasks4
PROPERTIES
    ForeignBreakSpins
SYMMETRY MCSymmetry
CHECK_DEADLOCK FALSE
