----------------------------- MODULE Settlement -----------------------------
(***************************************************************************)
(* The settlement of a finalized receipt:                                  *)
(* ReceiptService.synchronize_settlement_accounting and the capital writer *)
(* it calls.  The writer commits the ledger row, the new bankroll state    *)
(* and the new internal-prime state in one database transaction, and then  *)
(* copies them, one after the other, to the ledger file, the bankroll file *)
(* and the prime file.  Every copy may fail without anybody noticing, and  *)
(* the process may end between any two of these writes.  A restart reads   *)
(* the files first and the database only if a file cannot be read.         *)
(*                                                                         *)
(* The call runs without an await, so one receipt is settled at a time; an *)
(* action ends where a durable write has been made.  A receipt may be      *)
(* handed to the service again: the service answers duplicates itself.     *)
(* The state of the bankroll is the bag of receipts whose profit it        *)
(* includes.  The rolling counters of the treasury are left out.           *)
(***************************************************************************)
EXTENDS Naturals, FiniteSets

CONSTANTS
    Receipts,
    Loaned,       \* the receipts whose trade was financed by a prime loan
    NoReceipt,
    Lineage,      \* whether a call may find _canonical_settlement_lineage set
                  \* on the runtime ("present"), or not ("absent")
    Faults        \* which failures the environment may inject

ASSUME SettlementAssumption ==
    /\ Loaned \subseteq Receipts
    /\ NoReceipt \notin Receipts
    /\ Lineage \subseteq {"present", "absent"}
    /\ Faults \subseteq {"truth", "build", "prime", "commit", "escape",
                         "mirror", "crash", "unreadable"}

VARIABLES
    rows,       \* database: receipt_settlement rows of each receipt
    bankDb,     \* database: the latest bankroll event
    loanDb,     \* database: the latest "prime_state" snapshot
    file,       \* ledger file: receipt_settlement lines of each receipt
    bankFile,   \* the bankroll file
    loanFile,   \* the prime file
    bankroll,   \* _bankroll.state
    loans,      \* _internal_prime._loans: the status of each receipt's loan
    settled,    \* _settled_receipts
    disabled,   \* _auto_trading is off and dry_run on, by _disable_runtime
    call,       \* the call in progress
    delivered,  \* history: receipts with verified truth that were prepared
    cut,        \* history: receipts one of whose copies was not made
    unsettled   \* history: failed calls since trading was last enabled

dbVars == <<rows, bankDb, loanDb>>
fileVars == <<file, bankFile, loanFile>>
memVars == <<bankroll, loans, settled>>
vars == <<rows, bankDb, loanDb, file, bankFile, loanFile, bankroll, loans,
          settled, disabled, call, delivered, cut, unsettled>>

LoanStates == {"none", "open", "disputed", "settled"}

NoCall == [at |-> "idle", receipt |-> NoReceipt, prime |-> "none"]

Idle == call.at = "idle"

Init ==
    /\ rows = [r \in Receipts |-> 0]
    /\ bankDb = rows
    /\ file = rows
    /\ bankFile = rows
    /\ bankroll = rows
    /\ loans = [r \in Receipts |-> IF r \in Loaned THEN "open" ELSE "none"]
    /\ loanDb = loans
    /\ loanFile = loans
    /\ settled = {}
    /\ disabled = FALSE
    /\ call = NoCall
    /\ delivered = {}
    /\ cut = {}
    /\ unsettled = {}

-----------------------------------------------------------------------------
(* Before the commit.                                                      *)

(* Mutant: only the memory of this process is asked. *)
KnownInMemory(r) == r \in settled

(* The duplicate test: memory, then the database, then the ledger file.    *)
(* (A database error in it escapes and leaves everything as it was.)       *)
Known(r) == r \in settled \/ rows[r] > 0 \/ file[r] > 0

AnswerDuplicate(r) ==
    /\ Idle
    /\ Known(r)
    /\ settled' = settled \cup {r}
    /\ UNCHANGED <<dbVars, fileVars, bankroll, loans, disabled, call, delivered,
                   cut, unsettled>>

(* Mutant: the failure is reported and trading goes on. *)
FailWithoutDisabling(r) ==
    /\ call' = NoCall
    /\ unsettled' = unsettled \cup {r}
    /\ UNCHANGED <<dbVars, fileVars, memVars, disabled, cut>>

(* A call that ends with ok = False and disables the runtime, nothing      *)
(* having been written for the receipt.                                    *)
FailAndDisable(r) ==
    /\ disabled' = TRUE
    /\ call' = NoCall
    /\ unsettled' = unsettled \cup {r}
    /\ UNCHANGED <<dbVars, fileVars, memVars, cut>>

(* A successful receipt without its profit in USD: record_outcome_truth_gap. *)
TruthGap(r) ==
    /\ "truth" \in Faults
    /\ Idle
    /\ FailAndDisable(r)
    /\ UNCHANGED delivered

(* The ledger is missing or building the transaction raised. *)
LedgerSyncFails(r) ==
    /\ "build" \in Faults
    /\ Idle
    /\ ~Known(r)
    /\ FailAndDisable(r)
    /\ UNCHANGED delivered

(* What prepare_settlement_transition may answer.  A loan that is open or  *)
(* disputed is settled; it is disputed if its asset is not tracked in the  *)
(* inventory, and rejected, or the call raises, when the prime's state or  *)
(* capacity is unavailable.  Any other loan is rejected.                   *)
PrimeAnswers(r) ==
    (IF r \notin Loaned THEN {"none"}
     ELSE IF loans[r] \in {"open", "disputed"} THEN {"settle"} ELSE {"reject"})
    \cup (IF r \in Loaned /\ "prime" \in Faults
          THEN {"reject", "raise"}
               \cup (IF loans[r] \in {"open", "disputed"} THEN {"dispute"} ELSE {})
          ELSE {})

(* Mutant: the loan is settled in memory before the commit. *)
PrepareSettlementAtOnce(r, p) ==
    /\ Idle
    /\ ~Known(r)
    /\ p \in PrimeAnswers(r)
    /\ loans' = IF p = "settle" THEN [loans EXCEPT ![r] = "settled"] ELSE loans
    /\ call' = [at |-> "commit", receipt |-> r, prime |-> p]
    /\ delivered' = delivered \cup {r}
    /\ UNCHANGED <<dbVars, fileVars, bankroll, settled, disabled, cut, unsettled>>

(* The transaction is built and the prime prepares, without changing, the  *)
(* state it will adopt; an answer that is not ok does not stop the commit. *)
PrepareSettlement(r, p) ==
    /\ Idle
    /\ ~Known(r)
    /\ p \in PrimeAnswers(r)
    /\ call' = [at |-> "commit", receipt |-> r, prime |-> p]
    /\ delivered' = delivered \cup {r}
    /\ UNCHANGED <<dbVars, fileVars, memVars, disabled, cut, unsettled>>

-----------------------------------------------------------------------------
(* The commit.                                                             *)

(* The canonical writer refuses a verified receipt without its lineage. *)
LineageIncomplete ==
    /\ call.at = "commit"
    /\ "absent" \in Lineage
    /\ FailAndDisable(call.receipt)
    /\ UNCHANGED delivered

(* Mutant: the bankroll event was committed in a transaction of its own. *)
CommitFailsHalfway ==
    /\ "commit" \in Faults
    /\ call.at = "commit"
    /\ bankDb' = [bankroll EXCEPT ![call.receipt] = @ + 1]
    /\ disabled' = TRUE
    /\ call' = NoCall
    /\ unsettled' = unsettled \cup {call.receipt}
    /\ UNCHANGED <<rows, loanDb, fileVars, memVars, delivered, cut>>

(* A contained exception in the writer; the transaction is rolled back. *)
CommitFails ==
    /\ "commit" \in Faults
    /\ "present" \in Lineage
    /\ call.at = "commit"
    /\ FailAndDisable(call.receipt)
    /\ UNCHANGED delivered

(* A database error is not contained: it leaves the service, rolls back    *)
(* and ends the receipt worker, and nothing disables the runtime.          *)
CommitEscapes ==
    /\ "escape" \in Faults
    /\ "present" \in Lineage
    /\ call.at = "commit"
    /\ call' = NoCall
    /\ UNCHANGED <<dbVars, fileVars, memVars, disabled, delivered, cut, unsettled>>

(* The prime's book once the writer is through with it.  A transition      *)
(* carries the book it prepared.  Without a transition, or with one that   *)
(* was rejected, the writer's annotation of the missing book makes a       *)
(* payload with the commit's id and nothing else: it is stored and adopted *)
(* like any other, and a book read from it has no loan.                    *)
AfterPrime ==
    CASE call.prime = "settle" -> [loans EXCEPT ![call.receipt] = "settled"]
      [] call.prime = "dispute" -> [loans EXCEPT ![call.receipt] = "disputed"]
      [] OTHER -> [r \in Receipts |-> "none"]

(* One transaction: the ledger row, the bankroll event and the book.       *)
CommitReceiptSettlement ==
    /\ call.at = "commit"
    /\ "present" \in Lineage
    /\ rows' = [rows EXCEPT ![call.receipt] = @ + 1]
    /\ bankDb' = [bankroll EXCEPT ![call.receipt] = @ + 1]
    /\ loanDb' = AfterPrime
    /\ call' = [call EXCEPT !.at = "ledger"]
    /\ UNCHANGED <<fileVars, memVars, disabled, delivered, cut, unsettled>>

-----------------------------------------------------------------------------
(* The copies.  "ok" says whether the file could be written.               *)

CutIfNot(ok) == cut' = IF ok THEN cut ELSE cut \cup {call.receipt}

MirrorLedger(ok) ==
    /\ call.at = "ledger"
    /\ ok \/ "mirror" \in Faults
    /\ file' = IF ok THEN [file EXCEPT ![call.receipt] = @ + 1] ELSE file
    /\ CutIfNot(ok)
    /\ call' = [call EXCEPT !.at = "bankroll"]
    /\ UNCHANGED <<dbVars, bankFile, loanFile, memVars, disabled, delivered,
                   unsettled>>

(* Mutant: the running bankroll keeps its old state. *)
MirrorBankrollFileOnly(ok) ==
    /\ call.at = "bankroll"
    /\ ok \/ "mirror" \in Faults
    /\ bankFile' = IF ok THEN bankDb ELSE bankFile
    /\ CutIfNot(ok)
    /\ call' = [call EXCEPT !.at = "prime"]
    /\ UNCHANGED <<dbVars, file, loanFile, memVars, disabled, delivered, unsettled>>

(* apply_state_payload: memory first, then the file. *)
MirrorBankroll(ok) ==
    /\ call.at = "bankroll"
    /\ ok \/ "mirror" \in Faults
    /\ bankroll' = bankDb
    /\ bankFile' = IF ok THEN bankDb ELSE bankFile
    /\ CutIfNot(ok)
    /\ call' = [call EXCEPT !.at = "prime"]
    /\ UNCHANGED <<dbVars, file, loanFile, loans, settled, disabled, delivered,
                   unsettled>>

(* Mutant: the running prime keeps its old loans. *)
AdoptNothing == loans

(* adopt_state_payload in memory. *)
Adopted == AfterPrime

(* adopt_state_payload, memory first, and the end of the call.             *)
(* Without the prime's consent the answer is ok = False with               *)
(* "settlementCommitted": the runtime is disabled and the receipt is not   *)
(* entered in _settled_receipts.                                           *)
MirrorPrimeAndReturn(ok) ==
    /\ call.at = "prime"
    /\ ok \/ "mirror" \in Faults
    /\ loans' = Adopted
    /\ loanFile' = IF ok THEN AfterPrime ELSE loanFile
    /\ CutIfNot(ok)
    /\ IF call.prime \in {"none", "settle"}
         THEN settled' = settled \cup {call.receipt} /\ UNCHANGED <<disabled, unsettled>>
         ELSE /\ disabled' = TRUE
              /\ unsettled' = unsettled \cup {call.receipt}
              /\ UNCHANGED settled
    /\ call' = NoCall
    /\ UNCHANGED <<dbVars, file, bankFile, bankroll, delivered>>

-----------------------------------------------------------------------------
(* The process and the operator.                                           *)

(* The process ends and starts again: memory comes from the files, or from *)
(* the database where a file is unreadable.  The bankroll writes what it   *)
(* read back to the file.  Its bootstrap event has the time of the state   *)
(* it read, and the one read from the database is the one of the latest    *)
(* time: an older file does not hide a newer event.  The prime's bootstrap *)
(* snapshot has a type of its own and is never read.                       *)
(* The disabling of the runtime was in memory only.                        *)
Restart(bankReadable, primeReadable) ==
    /\ "crash" \in Faults
    /\ (bankReadable /\ primeReadable) \/ "unreadable" \in Faults
    /\ bankroll' = IF bankReadable THEN bankFile ELSE bankDb
    /\ bankFile' = bankroll'
    /\ loans' = IF primeReadable THEN loanFile ELSE loanDb
    /\ settled' = {}
    /\ disabled' = FALSE
    /\ unsettled' = {}
    /\ call' = NoCall
    /\ cut' = IF call.at \in {"ledger", "bankroll", "prime"}
              THEN cut \cup {call.receipt} ELSE cut
    /\ UNCHANGED <<dbVars, file, loanFile, delivered>>

(* The operator turns trading on again. *)
Enable ==
    /\ disabled
    /\ Idle
    /\ disabled' = FALSE
    /\ unsettled' = {}
    /\ UNCHANGED <<dbVars, fileVars, memVars, call, delivered, cut>>

-----------------------------------------------------------------------------
Next ==
    \/ \E r \in Receipts :
          \/ AnswerDuplicate(r) \/ TruthGap(r) \/ LedgerSyncFails(r)
          \/ \E p \in {"none", "settle", "dispute", "reject", "raise"} :
                PrepareSettlement(r, p)
    \/ LineageIncomplete \/ CommitFails \/ CommitEscapes
    \/ CommitReceiptSettlement
    \/ \E ok \in BOOLEAN :
          MirrorLedger(ok) \/ MirrorBankroll(ok) \/ MirrorPrimeAndReturn(ok)
    \/ \E b, p \in BOOLEAN : Restart(b, p)
    \/ Enable

Spec == Init /\ [][Next]_vars

-----------------------------------------------------------------------------
(* Every variable has its type, and a call past its start has a receipt. *)
TypeOK ==
    /\ rows \in [Receipts -> Nat] /\ bankDb \in [Receipts -> Nat]
    /\ file \in [Receipts -> Nat] /\ bankFile \in [Receipts -> Nat]
    /\ bankroll \in [Receipts -> Nat]
    /\ loans \in [Receipts -> LoanStates]
    /\ loanDb \in [Receipts -> LoanStates]
    /\ loanFile \in [Receipts -> LoanStates]
    /\ settled \subseteq Receipts
    /\ disabled \in BOOLEAN
    /\ call \in [at : {"idle", "commit", "ledger", "bankroll", "prime"},
                 receipt : Receipts \cup {NoReceipt},
                 prime : {"none", "settle", "dispute", "reject", "raise"}]
    /\ ~Idle => call.receipt \in Receipts
    /\ delivered \subseteq Receipts
    /\ cut \subseteq Receipts
    /\ unsettled \subseteq Receipts

(* A receipt has at most one settlement row and at most one line in the    *)
(* ledger file, and a line only if it has a row, however often it is       *)
(* delivered, wherever the process stops and whichever copy fails.         *)
LedgerOnce == \A r \in Receipts : file[r] <= rows[r] /\ rows[r] <= 1

(* The bankroll includes the profit of a receipt at most once, and never   *)
(* without a ledger row for it: in memory, in its file and in its history. *)
BankrollNeverAhead ==
    \A r \in Receipts :
        bankroll[r] <= rows[r] /\ bankFile[r] <= rows[r] /\ bankDb[r] <= rows[r]

(* Between two calls the bankroll and the ledger file agree with the       *)
(* database about every receipt whose copies were all made, whatever       *)
(* happened to the copies of others; the prime's book is one payload, and  *)
(* all of it agrees while no copy has been missed.                         *)
CopiesAgree ==
    Idle => /\ \A r \in Receipts \ cut :
                  file[r] = rows[r] /\ bankroll[r] = rows[r] /\ bankFile[r] = rows[r]
            /\ cut = {} => loans = loanDb /\ loanFile = loanDb

(* A loan is settled, anywhere, only with the ledger row of its receipt. *)
SettledLoanHasRow ==
    \A r \in Receipts :
        "settled" \in {loans[r], loanDb[r], loanFile[r]} => rows[r] = 1

(* A settled loan is never open or disputed again, unless a copy of its    *)
(* settlement was cut off: a restart then reads the older prime file, and  *)
(* the next settlement writes that older status back to the database.      *)
LoanStaysSettled ==
    [][\A r \in Receipts \ cut' :
          loanDb[r] = "settled" => loanDb'[r] \notin {"open", "disputed"}]_vars

(* The service fails closed: after a call that did not settle its receipt  *)
(* trading stays off until the operator enables it or the process starts   *)
(* again.  An escaping database error is the exception.                    *)
FailClosed == unsettled # {} => disabled

(* "This facade only carries the already-established canonical lineage     *)
(* into the existing capital writer" (omar_receipt_facade.py): without a   *)
(* fault every verified receipt that reached the writer is settled.  Not   *)
(* so where nobody sets the lineage, which is what the receipt loop does.  *)
VerifiedReceiptSettles ==
    (Idle /\ Faults = {}) => \A r \in delivered : rows[r] = 1

(* The stage of a receipt, as the abstract specification has it; "wrong"   *)
(* if a copy includes the receipt twice or without its row.                *)
StageOf(r) ==
    LET copies == {file[r], bankroll[r], bankFile[r], bankDb[r]} IN
    IF rows[r] = 0 /\ copies = {0} THEN "unsettled"
    ELSE IF rows[r] = 1 /\ copies = {1} THEN "complete"
    ELSE IF rows[r] = 1 /\ copies \subseteq {0, 1} THEN "recorded"
    ELSE "wrong"

Account == INSTANCE ReceiptAccount WITH account <- [r \in Receipts |-> StageOf(r)]

(* The settlement, with its copies, failures and restarts, implements the  *)
(* account of a receipt that ReceiptAccount describes: a profit counts     *)
(* once, with its row, and one that is in every copy is never lost again,  *)
(* although each settlement writes back the whole state of the bankroll.   *)
ImplementsAccount == Account!Spec
=============================================================================
