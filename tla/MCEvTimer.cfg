SPECIFICATION Spec
CONSTANTS
    t1 = t1
    t2 = t2
    t3 = t3
    t4 = t4
    a1 = a1
    a2 = a2
    a3 = a3
    k1 = k1
    k2 = k2
    Nil = Nil
    Timers <- MCTimers4
    Addrs <- MCAddrs
    Keys <- MCKeys
    KeyOf <- MCKeyOf
INVARIANTS
    Owned
    PendingFindsItself
    NeverIdle
    OnlyOwnFunctionFrees
PROPERTIES
    ClearedStaysSilent
SYMMETRY MCSymmetry
CHECK_DEADLOCK FALSE
