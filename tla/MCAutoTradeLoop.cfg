\* Three block numbers in any order, two routes, a cap of one.
SPECIFICATION Spec
CONSTANTS
    r1 = r1
    r2 = r2
    s1 = s1
    s2 = s2
    Blocks = {1, 2, 3}
    Routes <- MCRoutes
    Slots <- MCSlots
    NoRoute = NoRoute
    NoSlot = NoSlot
    MaxPending = 1
    Cooldown = 1
    TripAt = 2
    RecordMayRaise = TRUE
INVARIANTS
    PendingOvershootsByOne
    DryRunStopsSubmissions
PROPERTIES
    TripIsSticky
    OneTxPerBlock
    RouteCooldown
