SPECIFICATION Spec
CONSTANTS
    main = main
    t1 = t1
    t2 = t2
    t3 = t3
    Threads <- MCThreads
    Main = main
    NoThread = NoThread
    Priorities <- MCPriorities
    LevelWidth = 3
    AgingStep = 2
    AgingPeriod = 3
    Quantum = 2
    TimerDelays <- MCFixedDelay
    MaxBurst = 2
    Grain = 2
PROPERTIES
    ChargedOnce
