\* Two overlapping stop() calls, four main loops, three receipt workers.
SPECIFICATION FairSpec
CONSTANTS
    l1 = l1
    l2 = l2
    l3 = l3
    l4 = l4
    w1 = w1
    w2 = w2
    w3 = w3
    r1 = r1
    r2 = r2
    Loops <- MCLoops
    Workers <- MCWorkers
    Requests <- MCRequests
    None = None
    MayCrash = TRUE
INVARIANTS
    SingleReceiptWorker
    SingleMainLoop
    RunningHasReceiptWorker
    StopStops
    RunningIsProbed
PROPERTIES
    EveryStopReturns
