\* The runtime as it is assembled: nothing defines _record_exec.
SPECIFICATION Spec
CONSTANTS
    t1 = t1
    t2 = t2
    t3 = t3
    Txs <- ThreeTxs
    NoTx = NoTx
    QCap = 3
    RetryLimit = 3
    GasEst <- MCGasEst
    GasReal <- MCGasReal
    MaxDay = 0
    RecordExec = "missing"
    Faults = {}
INVARIANTS
    EverySubmissionWatched
CHECK_DEADLOCK FALSE
