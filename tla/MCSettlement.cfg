\* Three receipts, two of them with a loan, every fault.
SPECIFICATION Spec
CONSTANTS
    r1 = r1
    r2 = r2
    r3 = r3
    Receipts <- MCReceipts
    Loaned <- MCLoaned
    NoReceipt = NoReceipt
    Lineage = {"present", "absent"}
    Faults = {"truth", "build", "prime", "commit", "escape", "mirror", "crash", "unreadable"}
SYMMETRY Loans
INVARIANTS
    LedgerOnce
    CopiesAgree
    SettledLoanHasRow
    FailClosed
PROPERTIES
    ImplementsAccount
    LoanStaysSettled
