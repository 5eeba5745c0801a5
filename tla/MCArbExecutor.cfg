\* Two tokens, routes of up to two legs, a measured venue and another, every misbehaviour,
\* up to two callbacks nested in legs.
SPECIFICATION Spec
CONSTANTS
    a = a
    b = b
    router = router
    camelot = camelot
    aave = aave
    vault = vault
    d = d
    None = None
    Tokens <- TwoTokens
    Venues <- TwoVenues
    Measured = {camelot}
    Router = router
    Aave = aave
    Vault = vault
    Destinations = {d}
    MaxAmount = 2
    MaxLoan = 1
    MaxIdle = 1
    MaxMinimum = 0
    MaxFee = 1
    MaxLegs = 2
    MaxNested = 2
    Togglable = {camelot}
    StablePairs <- NoneOrBoth
    Faults = {"skim", "misreport", "twice", "silent", "nested"}
SYMMETRY TokenSymmetry
INVARIANTS
    ExecuteSettles
PROPERTIES
    IdleFundsKept
