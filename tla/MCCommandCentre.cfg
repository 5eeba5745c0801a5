\* Patches of up to two fields, two records, every fault.
SPECIFICATION Spec
CONSTANTS
    AutoAtStart = FALSE
    Threshold = 2
    MaxRecords = 2
    MaxFields = 2
    Patchable = {"paused", "governance", "mutation"}
    Faults = {"persist", "append", "torn", "restart", "controls_unreadable", "audit_unreadable"}
INVARIANTS
    PauseHolds
    GovernanceOffIsPaused
    AuditChain
CHECK_DEADLOCK FALSE
