\* Two overlapping requests, every fault; one preview of two tokens.
SPECIFICATION Spec
CONSTANTS
    c1 = c1
    c2 = c2
    t1 = t1
    t2 = t2
    d1 = d1
    Calls <- MCCalls
    Tokens <- TwoTokens
    Destinations <- OneDestination
    Allowlist = {}
    None = None
    Backend = TRUE
    MaxPreviews = 1
    MaxBalance = 1
    MaxTxs = 2
    MaxChanges = 2
    Faults = {"save", "torn", "crash", "abort", "truth", "owner", "reject", "lost", "lookup", "expire", "ledger"}
SYMMETRY Requests
CHECK_DEADLOCK FALSE
INVARIANTS
    SentAsPreviewed
    CompletedIsMined
    ConfigurationKept
    PausedAfterWipe
PROPERTIES
    ProofsGrow
    ImplementsWipe
