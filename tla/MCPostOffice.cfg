CONSTANTS
    u1 = u1
    u2 = u2
    r1 = r1
    r2 = r2
    x = x
    n1 = n1
    n2 = n2
    a1 = a1
    a2 = a2
    a3 = a3
    m1 = m1
    m2 = m2
    Users <- MCUsers
    Receivers <- MCReceivers
    Worker = Worker
    KernelThreads <- MCKernelThreads
    Boxes <- MCBoxes
    Numbers <- MCNumbers
    Digits = 2
    Accesses <- MCAccesses
    Mail <- MCMail
    Reads <- MCReads
    BoxOf <- MCBoxOf
    Workloads <- MCWorkloads
    NoMail = NoMail
    NoJob = NoJob
    Semaphores <- MCSemaphores
    Initially <- MCInitially
SPECIFICATION FairSpec
INVARIANTS
    OneRequestAtATime
    NumbersUnbroken
    MailInOrder
    WorkerToldOnce
PROPERTIES
    CallsReturn
    MailReceived
