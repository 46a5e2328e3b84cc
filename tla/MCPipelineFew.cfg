CONSTANTS
    p1 = p1
    p2 = p2
    c1 = c1
    c2 = c2
    Producers <- MCProducers
    Consumers <- MCConsumers
    NoItem = NoItem
    ExpectedLines = 1
    ReaderQueueSize = 1
    WorkerQueueSize = 2
    WriterQueueSize = 1
    LowThreshold = 1
    HighThreshold = 1

SPECIFICATION FairSpec

PROPERTY WriterFinishes
