SPECIFICATION Spec
CONSTANTS
    main = main
    t1 = t1
    t2 = t2
    t3 = t3
    Threads <- MCWideThreads
    Main = main
    NoThread = NoThread
    Priorities <- MCWidePriorities
    LevelWidth = 3
    AgingStep = 2
    AgingPeriod = 2
    Quantum = 1
    TimerDelays <- MCWideDelays
    MaxBurst = 1
    Grain = 2
SYMMETRY MCWideSymmetry
INVARIANTS
    ReadyListsExact
    ListsSorted
    TypeOK
    LayerOfCurrent
    PreemptedAtNextTimer
    CarcassHandedOver
PROPERTIES
    PreemptionNeverLowers
    ShorterFirst
