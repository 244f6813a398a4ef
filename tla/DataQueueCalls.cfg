SPECIFICATION FairSpec
CONSTANTS
    t1 = t1
    t2 = t2
    socketq = socketq
    freeq = freeq
    Threads <- TwoThreads
    Queues <- TwoQueues
    AppendPairs <- FreeFromSocket
    Nobody = Nobody
    NoQueue = NoQueue
    MaxPushes = 2
    AllocFails = TRUE
    Spurious = TRUE
CHECK_DEADLOCK FALSE
INVARIANTS
    TypeOK
    FIFO
    SleeperWillBeWoken
PROPERTIES
    Linearizable
    TimedCallsReturn
