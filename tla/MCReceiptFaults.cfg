\* Three submissions, a queue of two, every fault, one midnight.
SPECIFICATION FairSpec
CONSTANTS
    t1 = t1
    t2 = t2
    t3 = t3
    Txs <- ThreeTxs
    NoTx = NoTx
    QCap = 2
    RetryLimit = 3
    GasEst <- MCGasEst
    GasReal <- MCGasReal
    MaxDay = 1
    RecordExec = "bound"
    Faults = {"crash", "cancel", "no_read_url", "db_error", "lost_answer", "unsafe"}
INVARIANTS
    FinalizedOnce
    NothingForgotten
    GasReservation
PROPERTIES
    ImplementsOutcome
    EveryTrackedResolves
