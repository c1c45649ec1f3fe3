SPECIFICATION FairSpec
CONSTANTS
    th1 = th1
    th2 = th2
    o1 = o1
    o2 = o2
    o3 = o3
    s1 = s1
    s2 = s2
    w1 = w1
    Nil = Nil
    Threads <- MCThreads
    Objects <- MCObjects2
    Slots <- MCSlots
    Weaks <- MCWeaks
PROPERTIES
    Collected
