\* With and without a capital writer; crashes at any point, every write may fail.
SPECIFICATION PrimeSpec
CONSTANTS
    l1 = l1
    l2 = l2
    l3 = l3
    f1 = f1
    f2 = f2
    Untracked = Untracked
    Absent = Absent
    Torn = Torn
    NoLoan = NoLoan
    Loans <- MCLoans
    Families <- MCFamilies
    FamilyOf <- MCFamilyOf
    Notional <- MCNotional
    Collateral <- MCCollateral
    Capacity = 4
    FamilyCap = 3
    Stock = 6
    MaxRestarts = 1
    MaxFailures = 1
    PrimeFaults = {"inventory", "state", "torn", "journal", "keeprow", "snapshot", "dberror", "crash", "untrack"}
INVARIANTS
    BooksBalanced
    CollateralConserved
    GrantedRemembered
    JournalReconciles
CHECK_DEADLOCK FALSE
