\* Every request is resumed and the screen keeps polling; finitely many faults.
SPECIFICATION FairSpec
CONSTANTS
    c1 = c1
    c2 = c2
    t1 = t1
    t2 = t2
    d1 = d1
    Calls <- MCCalls
    Tokens <- OneToken
    Destinations <- OneDestination
    Allowlist = {}
    None = None
    Backend = TRUE
    MaxPreviews = 1
    MaxBalance = 1
    MaxTxs = 1
    MaxChanges = 3
    Faults = {"save", "torn", "crash", "abort", "lookup", "ledger"}
CHECK_DEADLOCK FALSE
PROPERTIES
    SubmittedResolves
