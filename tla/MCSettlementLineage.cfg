\* The production entry: nobody sets the lineage, and no fault occurs.
SPECIFICATION Spec
CONSTANTS
    r1 = r1
    r2 = r2
    r3 = r3
    Receipts <- MCReceipts
    Loaned <- MCLoaned
    NoReceipt = NoReceipt
    Lineage = {"absent"}
    Faults = {}
INVARIANTS
    VerifiedReceiptSettles
