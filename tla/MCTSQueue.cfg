CONSTANTS
    e1 = e1
    e2 = e2
    d1 = d1
    d2 = d2
    a = a
    b = b
    Enqueuers <- MCEnqueuers
    Dequeuers <- MCDequeuers
    Items <- MCItems
    NoItem = NoItem
    NoThread = NoThread
    Capacity = 2
    Spurious = TRUE

SPECIFICATION FairSpec

INVARIANTS
    TypeOK
    MutualExclusion
    RingConsistent
    NoLostWakeup

PROPERTIES
    ImplementsFifo
    DequeueProgress
    EnqueueProgress
