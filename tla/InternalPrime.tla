---------------------------- MODULE InternalPrime ----------------------------
(***************************************************************************)
(* The internal prime: InternalPrimeAllocator lends from a collateral      *)
(* inventory to the strategies.  An open loan raises the borrowed total    *)
(* and its family's exposure and reserves collateral; settling it undoes   *)
(* the three.  Both operations make four durable writes, one after the     *)
(* other: the inventory file, the state file, the journal (database row,   *)
(* then ledger file) and a snapshot in the database with a capital event.  *)
(* A write that fails makes the operation restore what it changed; but an  *)
(* error of the database itself (sqlite3.Error) is none of the exceptions  *)
(* that the operation contains, and leaves everything as it then is.       *)
(*                                                                         *)
(* With a capital writer the journal row and the snapshot are committed    *)
(* first, in one transaction, and the book and its files follow; an error  *)
(* there, contained or not, changes nothing.                               *)
(*                                                                         *)
(* There is one collateral asset.  Amounts are whole; a request that is    *)
(* denied leaves an audit row and changes nothing, and is not an action.   *)
(* Request ids are not used again once their loan was granted.  What the   *)
(* writer does with a settlement that carries no book is in Settlement.    *)
(***************************************************************************)
EXTENDS Integers, FiniteSets, FiniteSetsExt

CONSTANTS
    Loans,        \* request ids, which are the loan ids
    Families,
    FamilyOf,     \* the strategy family of each loan
    Notional,
    Collateral,   \* requiredCollateralUsd: notional, efficiency and haircut
    Capacity,     \* prime_capacity_usd of the stage policy
    FamilyCap,    \* the smallest of capacity, deployable share and family share
    Stock,        \* collateral seeded before the first request
    Untracked,    \* the asset is not a key of the inventory
    Absent, Torn, NoLoan,
    MaxRestarts,  \* bound: how often the process restarts
    MaxFailures,  \* bound: how many operations fail
    PrimeFaults   \* which failures the environment may inject

ASSUME InternalPrimeAssumption ==
    /\ IsFiniteSet(Loans) /\ NoLoan \notin Loans
    /\ FamilyOf \in [Loans -> Families]
    /\ Notional \in [Loans -> Nat \ {0}]
    /\ Collateral \in [Loans -> Nat] /\ \A l \in Loans : Collateral[l] >= Notional[l]
    /\ Capacity \in Nat \ {0} /\ FamilyCap \in 0..Capacity /\ Stock \in Nat
    /\ MaxRestarts \in Nat /\ MaxFailures \in Nat
    /\ PrimeFaults \subseteq {"inventory", "state", "torn", "journal", "keeprow",
                              "snapshot", "dberror", "crash", "untrack"}

VARIABLES
    book,      \* _borrowed_usd, _family_exposure, _loans
    stock,     \* inventory._assets
    ready,     \* _state_ready
    stateFile, \* the state file: a book with its stock, absent or torn
    stockFile, \* the inventory file
    snapshot,  \* database: the latest "prime_state" snapshot
    journal,   \* database: prime_loan_open and prime_loan_settlement rows of each loan
    call,      \* the operation in progress
    coordinated, \* whether a capital writer is wired
    granted,   \* history: loans a caller was given and has not asked to settle
    total,     \* history: collateral the inventory has been entrusted with
    struck,    \* history: failures that left one of the copies behind
    astray,    \* history: loans whose journal rows could not follow the book
    restarts, failures \* history: counts for the bounds

memVars == <<book, stock, ready>>
diskVars == <<stateFile, stockFile, snapshot, journal>>
primeVars == <<book, stock, ready, stateFile, stockFile, snapshot, journal, call,
               coordinated, granted, total, struck, astray, restarts, failures>>
bounds == <<coordinated, restarts, failures>>

Statuses == {"none", "open", "disputed", "settled"}
EmptyBook == [borrowed |-> 0, exposure |-> [f \in Families |-> 0],
              loans |-> [l \in Loans |-> "none"]]
NoCall == [op |-> "none", loan |-> NoLoan, at |-> "idle", before |-> EmptyBook, moved |-> FALSE]

Idle == call.at = "idle"
Active(b) == {l \in Loans : b.loans[l] \in {"open", "disputed"}}
Payload(b, s) == [book |-> b, stock |-> s]

(* A new allocator whose inventory has been seeded. *)
PrimeInit ==
    /\ book = EmptyBook
    /\ stock = Stock
    /\ ready = TRUE
    /\ stateFile = Absent
    /\ stockFile = Stock
    /\ snapshot = Absent
    /\ journal = [l \in Loans |-> [opened |-> 0, settled |-> 0]]
    /\ call = NoCall
    /\ coordinated \in BOOLEAN
    /\ granted = {}
    /\ total = Stock
    /\ struck = {} /\ astray = {}
    /\ restarts = 0 /\ failures = 0

-----------------------------------------------------------------------------
(* The decision and the change of the book.                                *)

(* Mutant: the capacity is compared with what is already lent. *)
ApproveLate(l) ==
    /\ book.exposure[FamilyOf[l]] + Notional[l] <= FamilyCap
    /\ book.borrowed <= Capacity
    /\ stock # Untracked /\ stock >= Collateral[l]

(* _approve: family cap, capacity, a tracked asset and enough of it.  The  *)
(* confidence of the request is taken to be enough.                        *)
Approve(l) ==
    /\ book.exposure[FamilyOf[l]] + Notional[l] <= FamilyCap
    /\ book.borrowed + Notional[l] <= Capacity
    /\ stock # Untracked /\ stock >= Collateral[l]

(* prepare_open_transition, and allocate without a writer. *)
WithLoan(b, l) ==
    [b EXCEPT !.borrowed = @ + Notional[l],
              !.exposure[FamilyOf[l]] = @ + Notional[l],
              !.loans[l] = "open"]

(* Mutant: the exposure of the family is not reduced. *)
WithoutLoanExposed(b, l) ==
    [b EXCEPT !.borrowed = Max({0, @ - Notional[l]}), !.loans[l] = "settled"]

(* prepare_settlement_transition, and settle without a writer. *)
WithoutLoan(b, l) ==
    [b EXCEPT !.borrowed = Max({0, @ - Notional[l]}),
              !.exposure[FamilyOf[l]] = Max({0, @ - Notional[l]}),
              !.loans[l] = "settled"]

Changed(b, op, l) ==
    CASE op = "open" -> WithLoan(b, l)
      [] op = "settle" -> WithoutLoan(b, l)
      [] op = "dispute" -> [b EXCEPT !.loans[l] = "disputed"]

Journaled(op, l) ==
    CASE op = "open" -> [journal EXCEPT ![l].opened = @ + 1]
      [] op = "settle" -> [journal EXCEPT ![l].settled = @ + 1]
      [] op = "dispute" -> journal

StockAfter(op, l) ==
    CASE op = "open" -> stock - Collateral[l]
      [] op = "settle" -> stock + Collateral[l]
      [] op = "dispute" -> stock

(* The caller is told of its loan when the operation is over, and does not *)
(* count on it any more once it asks for the settlement.                   *)
GrantedAfter(op, l) == IF op = "open" THEN granted \cup {l} ELSE granted

-----------------------------------------------------------------------------
(* The operations without a capital writer.                                *)

Begin(op, l) ==
    /\ Idle /\ ready /\ failures <= MaxFailures
    /\ call' = [op |-> op, loan |-> l, at |-> "inventory", before |-> book, moved |-> FALSE]
    /\ granted' = granted \ {l}
    /\ UNCHANGED <<memVars, diskVars, total, struck, astray, bounds>>

(* allocate, up to its first write. *)
BeginOpen(l) == book.loans[l] = "none" /\ Approve(l) /\ Begin("open", l)

(* settle of an open or disputed loan. *)
BeginSettle(l) == l \in Active(book) /\ stock # Untracked /\ Begin("settle", l)

(* settle of a loan whose asset is not tracked any more: it is disputed. *)
BeginDispute(l) == l \in Active(book) /\ stock = Untracked /\ Begin("dispute", l)

(* inventory.reserve or release changes the stock and saves the inventory  *)
(* file; the flag that makes a rollback undo it is set only afterwards.    *)
(* allocate changes the book after the stock, settle before it; the two    *)
(* orders differ in what a failure finds, and the rollback restores both.  *)
MoveInventory(ok) ==
    /\ call.at = "inventory" /\ ~coordinated
    /\ ok \/ ("inventory" \in PrimeFaults /\ call.op # "dispute")
    /\ stock' = StockAfter(call.op, call.loan)
    /\ book' = Changed(book, call.op, call.loan)
    /\ IF ok
         THEN /\ stockFile' = stock'
              /\ call' = [call EXCEPT !.at = "state", !.moved = call.op # "dispute"]
         ELSE /\ call' = [call EXCEPT !.at = "rollback"]
              /\ UNCHANGED stockFile
    /\ struck' = IF ok THEN struck ELSE struck \cup {"inventory"}
    /\ UNCHANGED <<ready, stateFile, snapshot, journal, granted, total, astray, bounds>>

(* What _save_state may leave: the new payload, the old file, or, since it *)
(* opens the file for writing, a torn one.                                 *)
MaySave(o) ==
    \/ o = "saved"
    \/ o = "kept" /\ "state" \in PrimeFaults
    \/ o = "torn" /\ "torn" \in PrimeFaults

FileAfter(o, p) ==
    CASE o = "saved" -> p [] o = "kept" -> stateFile [] o = "torn" -> Torn

SaveState(o) ==
    /\ call.at = "state"
    /\ MaySave(o)
    /\ stateFile' = FileAfter(o, Payload(book, stock))
    /\ call' = [call EXCEPT !.at = IF o = "saved" THEN "journal" ELSE "rollback"]
    /\ UNCHANGED <<memVars, stockFile, snapshot, journal, granted, total, struck, astray, bounds>>

(* What writing a row and its line may leave: both; none; the row; none or *)
(* the row, and then a database error ends the operation.                  *)
MayWriteRow(o) ==
    \/ o = "ok"
    \/ o = "gone" /\ "journal" \in PrimeFaults
    \/ o = "kept" /\ "keeprow" \in PrimeFaults
    \/ o \in {"raised", "rowraised"} /\ "dberror" \in PrimeFaults

(* A database error is contained by nobody: no rollback, and the caller    *)
(* gets an exception.                                                      *)
Raises(o) == o \in {"raised", "rowraised", "eventraised"}

(* Where a write with outcome o leads; next is where it leads if it works. *)
CallAfter(o, next) ==
    IF Raises(o) THEN NoCall ELSE IF o = "ok" THEN next ELSE [call EXCEPT !.at = "rollback"]

FailuresAfter(o) == IF Raises(o) THEN failures + 1 ELSE failures

(* The loan of an operation that is journaled. *)
JournaledLoan == IF call.op = "dispute" THEN {} ELSE {call.loan}

(* Mutant: a row whose line could not be written stays. *)
WriteJournalKeepingRow(o) ==
    /\ call.at = "journal"
    /\ MayWriteRow(o)
    /\ journal' = IF o = "raised" THEN journal ELSE Journaled(call.op, call.loan)
    /\ call' = CallAfter(o, [call EXCEPT !.at = "snapshot"])
    /\ failures' = FailuresAfter(o)
    /\ astray' = IF o \in {"kept", "raised"} THEN astray \cup JournaledLoan ELSE astray
    /\ UNCHANGED <<memVars, stateFile, stockFile, snapshot, granted, total, struck,
                   coordinated, restarts>>

(* _write_ledger_transaction: the row, then the line of the ledger file;   *)
(* without the line the row is deleted again, if that works.               *)
WriteJournal(o) ==
    /\ call.at = "journal"
    /\ MayWriteRow(o)
    /\ journal' = IF o \in {"gone", "raised"} THEN journal
                  ELSE Journaled(call.op, call.loan)
    /\ call' = CallAfter(o, [call EXCEPT !.at = "snapshot"])
    /\ failures' = FailuresAfter(o)
    /\ astray' = IF o \in {"kept", "raised"} THEN astray \cup JournaledLoan ELSE astray
    /\ UNCHANGED <<memVars, stateFile, stockFile, snapshot, granted, total, struck,
                   coordinated, restarts>>

MayRecord(o) ==
    \/ o = "ok"
    \/ o \in {"none", "noevent"} /\ "snapshot" \in PrimeFaults
    \/ o \in {"raised", "eventraised"} /\ "dberror" \in PrimeFaults

(* _record_state_snapshot: the snapshot, then the capital event; either    *)
(* may fail.  With both the operation is over and the caller is told.      *)
RecordSnapshot(o) ==
    /\ call.at = "snapshot"
    /\ MayRecord(o)
    /\ snapshot' = IF o \in {"none", "raised"} THEN snapshot ELSE Payload(book, stock)
    /\ granted' = IF o = "ok" THEN GrantedAfter(call.op, call.loan) ELSE granted
    /\ call' = CallAfter(o, NoCall)
    /\ failures' = FailuresAfter(o)
    /\ astray' = IF o \in {"none", "noevent"} THEN astray \cup JournaledLoan ELSE astray
    /\ UNCHANGED <<memVars, stateFile, stockFile, journal, total, struck, coordinated,
                   restarts>>

(* Mutant: the stock is left as the failed operation made it. *)
RollbackBookOnly(ok, o) ==
    /\ call.at = "rollback"
    /\ ok /\ MaySave(o)
    /\ book' = call.before
    /\ stateFile' = FileAfter(o, Payload(book', stock))
    /\ call' = NoCall
    /\ failures' = failures + 1
    /\ UNCHANGED <<coordinated, stock, ready, stockFile, snapshot, journal, granted, total, struck, astray, restarts>>

(* _rollback_release_reserved_inventory, _rollback_reserve_released_inventory. *)
StockBefore ==
    IF call.op = "open" THEN stock + Collateral[call.loan] ELSE stock - Collateral[call.loan]

(* The exception handler: the book as it was; the stock moved back if the  *)
(* flag says it was moved; the state file saved, whatever that gives.  A   *)
(* stock whose file cannot be saved makes the prime unavailable.           *)
Rollback(ok, o) ==
    /\ call.at = "rollback"
    /\ ok \/ (call.moved /\ "inventory" \in PrimeFaults)
    /\ MaySave(o)
    /\ book' = call.before
    /\ stock' = IF call.moved THEN StockBefore ELSE stock
    /\ stockFile' = IF call.moved /\ ok THEN stock' ELSE stockFile
    /\ stateFile' = FileAfter(o, Payload(book', stock'))
    /\ ready' = ok
    /\ call' = NoCall
    /\ failures' = failures + 1
    /\ struck' = IF ok THEN struck ELSE struck \cup {"inventory"}
    /\ UNCHANGED <<coordinated, snapshot, journal, granted, total, astray, restarts>>

-----------------------------------------------------------------------------
(* The operations with a capital writer.                                   *)

(* The row and the snapshot in one transaction; an error there ends the    *)
(* call with nothing changed.                                              *)
Commit ==
    /\ call.at = "inventory" /\ coordinated
    /\ journal' = Journaled(call.op, call.loan)
    /\ snapshot' = Payload(Changed(book, call.op, call.loan), StockAfter(call.op, call.loan))
    /\ call' = [call EXCEPT !.at = "adopt"]
    /\ UNCHANGED <<memVars, stateFile, stockFile, granted, total, struck, astray, bounds>>

(* adopt_state_payload: memory, then the state file, then the inventory    *)
(* file.  A failed save is not reported: the caller gets its loan.         *)
Adopt(o) ==
    /\ call.at = "adopt"
    /\ MaySave(o)
    /\ book' = snapshot.book
    /\ stock' = snapshot.stock
    /\ stateFile' = FileAfter(o, snapshot)
    /\ stockFile' = IF o = "saved" THEN stock' ELSE stockFile
    /\ granted' = GrantedAfter(call.op, call.loan)
    /\ call' = NoCall
    /\ struck' = IF o = "kept" THEN struck \cup {"state"} ELSE struck
    /\ UNCHANGED <<ready, snapshot, journal, total, astray, bounds>>

-----------------------------------------------------------------------------
(* The process and the inventory.                                          *)

(* A payload whose inventory is empty leaves the one of the inventory file. *)
WithStock(p) == Payload(p.book, IF p.stock = Untracked THEN stockFile ELSE p.stock)

(* Mutant: a torn file is an empty book. *)
LoadedBlindly ==
    IF stateFile = Torn THEN Payload(EmptyBook, stockFile)
    ELSE IF stateFile # Absent THEN WithStock(stateFile)
    ELSE IF snapshot # Absent THEN WithStock(snapshot)
    ELSE Payload(EmptyBook, stockFile)

(* What _load_state finds: the file, else the snapshot, else nothing. *)
Loaded ==
    IF stateFile \notin {Absent, Torn} THEN WithStock(stateFile)
    ELSE IF snapshot # Absent THEN WithStock(snapshot)
    ELSE Payload(EmptyBook, stockFile)

(* The process ends, at any point, and starts again.  Only an unreadable   *)
(* file with no snapshot in the database makes the prime unavailable.      *)
RestartPrime ==
    /\ "crash" \in PrimeFaults /\ restarts < MaxRestarts
    /\ restarts' = restarts + 1
    /\ book' = Loaded.book
    /\ stock' = Loaded.stock
    /\ ready' = (stateFile # Torn \/ snapshot # Absent)
    /\ call' = NoCall
    /\ UNCHANGED <<diskVars, coordinated, granted, total, struck, astray, failures>>

(* The asset disappears from the inventory, and is seeded again with 0. *)
Untrack ==
    /\ "untrack" \in PrimeFaults /\ Idle /\ stock # Untracked
    /\ stock' = Untracked /\ stockFile' = Untracked
    /\ total' = total - stock
    /\ UNCHANGED <<book, ready, stateFile, snapshot, journal, call, granted, struck, astray, bounds>>

Seed ==
    /\ Idle /\ stock = Untracked
    /\ stock' = 0 /\ stockFile' = 0
    /\ UNCHANGED <<book, ready, stateFile, snapshot, journal, call, granted, total, struck, astray, bounds>>

-----------------------------------------------------------------------------
PrimeNext ==
    \/ \E l \in Loans : BeginOpen(l) \/ BeginSettle(l) \/ BeginDispute(l)
    \/ \E ok \in BOOLEAN : MoveInventory(ok)
    \/ \E o \in {"saved", "kept", "torn"} :
          SaveState(o) \/ Adopt(o) \/ \E ok \in BOOLEAN : Rollback(ok, o)
    \/ \E o \in {"ok", "gone", "kept", "raised", "rowraised"} : WriteJournal(o)
    \/ \E o \in {"ok", "none", "noevent", "raised", "eventraised"} : RecordSnapshot(o)
    \/ Commit
    \/ RestartPrime \/ Untrack \/ Seed

PrimeSpec == PrimeInit /\ [][PrimeNext]_primeVars

-----------------------------------------------------------------------------
Books == [borrowed : Nat, exposure : [Families -> Nat], loans : [Loans -> Statuses]]
Payloads == [book : Books, stock : Int \cup {Untracked}]

(* An asset that is not tracked and a missing file differ from any other. *)
ASSUME MarkerAssumption == Untracked \notin Int /\ Absent \notin Payloads

(* Every variable has its type. *)
PrimeTypeOK ==
    /\ book \in Books
    /\ stock \in Int \cup {Untracked} /\ stockFile \in Int \cup {Untracked}
    /\ ready \in BOOLEAN
    /\ stateFile \in Payloads \cup {Absent, Torn}
    /\ snapshot \in Payloads \cup {Absent}
    /\ journal \in [Loans -> [opened : Nat, settled : Nat]]
    /\ call \in [op : {"none", "open", "settle", "dispute"}, loan : Loans \cup {NoLoan},
                 at : {"idle", "inventory", "state", "journal", "snapshot", "rollback", "adopt"},
                 before : Books, moved : BOOLEAN]
    /\ granted \subseteq Loans
    /\ total \in Int /\ coordinated \in BOOLEAN
    /\ struck \subseteq {"inventory", "state"} /\ astray \subseteq Loans
    /\ restarts \in 0..MaxRestarts /\ failures \in 0..MaxFailures + 1

Balanced(b) ==
    /\ b.borrowed = MapThenSumSet(LAMBDA l : Notional[l], Active(b))
    /\ \A f \in Families :
          b.exposure[f] = MapThenSumSet(LAMBDA l : Notional[l],
                                        {l \in Active(b) : FamilyOf[l] = f})
    /\ b.borrowed <= Capacity
    /\ \A f \in Families : b.exposure[f] <= FamilyCap

ReservedCollateral(b) == MapThenSumSet(LAMBDA l : Collateral[l], Active(b))

(* Every copy of the book, in memory, in the file and in the database, is  *)
(* one that could have been reached without a failure: the totals are      *)
(* those of its active loans and within the limits.                        *)
BooksBalanced ==
    /\ Balanced(book)
    /\ stateFile \notin {Absent, Torn} => Balanced(stateFile.book)
    /\ snapshot # Absent => Balanced(snapshot.book)

(* Between two operations the stock and the collateral of the active loans *)
(* add up to what the inventory was given, whatever was rolled back; only  *)
(* an inventory file that could not be saved, after which the rollback     *)
(* does not know that the stock was moved, and a crash put them apart.     *)
CollateralConserved ==
    (Idle /\ stock # Untracked /\ restarts = 0 /\ "inventory" \notin struck)
        => stock + ReservedCollateral(book) = total

(* A loan a caller was given is active in the book until the caller asks   *)
(* for its settlement: no rollback of another operation and no restart     *)
(* forgets it, even one that finds no readable state.  Only with a writer, *)
(* which does not report a state file that stayed as it was, a restart may *)
(* read that older file.                                                   *)
GrantedRemembered ==
    Idle =>
        \/ granted \subseteq Active(book)
        \/ coordinated /\ "state" \in struck /\ restarts > 0

(* Between two operations the journal has one opening row more than        *)
(* settlement rows exactly for the active loans (the reconciliation of     *)
(* the prime's journal), loan by loan; as long as the process runs, only a *)
(* loan is excepted whose row could not be taken back (its line or the     *)
(* snapshot after it failed) or could not be written to the database       *)
(* although the book had moved.                                            *)
JournalReconciles ==
    (Idle /\ restarts = 0) =>
        \A l \in Loans \ astray :
            journal[l].opened - journal[l].settled = IF l \in Active(book) THEN 1 ELSE 0
=============================================================================
