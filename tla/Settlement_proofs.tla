-------------------------- MODULE Settlement_proofs --------------------------
(***************************************************************************)
(* Proofs about the settlement of receipts: however often a receipt is     *)
(* delivered, whichever copy fails and wherever the process stops, it has  *)
(* one ledger row, its profit is counted once and never without the row,   *)
(* its loan is settled only with the row, and a failed call leaves the     *)
(* runtime disabled.                                                       *)
(***************************************************************************)
EXTENDS Settlement, TLAPS

(* The values of "call". *)
Calls == [at : {"idle", "commit", "ledger", "bankroll", "prime"},
          receipt : Receipts \cup {NoReceipt},
          prime : {"none", "settle", "dispute", "reject", "raise"}]

LEMMA NoCallIsCall == NoCall \in Calls /\ NoCall.at = "idle"
  BY DEF NoCall, Calls

(* The loans after a transition are loans, and only the receipt's own      *)
(* entry can have become settled.                                          *)
LEMMA AfterPrimeFacts ==
  ASSUME TypeOK, call.receipt \in Receipts
  PROVE  /\ AfterPrime \in [Receipts -> LoanStates]
         /\ \A r \in Receipts : AfterPrime[r] = "settled" =>
               loans[r] = "settled" \/ r = call.receipt
<1> USE DEF TypeOK, LoanStates
<1>1. CASE call.prime = "settle"
  BY <1>1 DEF AfterPrime
<1>2. CASE call.prime = "dispute"
  BY <1>2 DEF AfterPrime
<1>3. CASE call.prime # "settle" /\ call.prime # "dispute"
  <2>1. AfterPrime = [r \in Receipts |-> "none"]
    BY <1>3 DEF AfterPrime
  <2> QED BY <2>1
<1> QED BY <1>1, <1>2, <1>3

(* A call goes on with its next part, on the same receipt. *)
LEMMA CallMoves ==
  ASSUME TypeOK, NEW a \in {"ledger", "bankroll", "prime"},
         call' = [call EXCEPT !.at = a]
  PROVE  /\ call' \in Calls /\ call'.at = a
         /\ call'.receipt = call.receipt /\ call'.prime = call.prime
  BY DEF TypeOK, Calls

LEMMA TypeInit == Init => TypeOK
<1> SUFFICES ASSUME Init PROVE TypeOK
  OBVIOUS
<1>1. rows \in [Receipts -> Nat] /\ loans \in [Receipts -> LoanStates]
  BY DEF Init, LoanStates
<1>2. call \in Calls /\ Idle
  BY NoCallIsCall DEF Init, Idle
<1> QED BY <1>1, <1>2 DEF Init, TypeOK, Calls

LEMMA TypeStep == TypeOK /\ [Next]_vars => TypeOK'
<1> SUFFICES ASSUME TypeOK, [Next]_vars PROVE TypeOK'
  OBVIOUS
<1> USE DEF dbVars, fileVars, memVars
<1>0. /\ call' \in Calls <=> call' \in [at : {"idle", "commit", "ledger", "bankroll", "prime"},
                 receipt : Receipts \cup {NoReceipt},
                 prime : {"none", "settle", "dispute", "reject", "raise"}]
      /\ call' = NoCall => Idle' /\ call' \in Calls
  BY NoCallIsCall DEF Calls, Idle
<1>1. ASSUME NEW r \in Receipts, AnswerDuplicate(r) PROVE TypeOK'
  BY <1>1 DEF TypeOK, Idle, AnswerDuplicate
<1>2. ASSUME NEW r \in Receipts, FailAndDisable(r), UNCHANGED delivered PROVE TypeOK'
  BY <1>0, <1>2 DEF TypeOK, FailAndDisable
<1>3. ASSUME NEW r \in Receipts, TruthGap(r) \/ LedgerSyncFails(r) PROVE TypeOK'
  BY <1>2, <1>3 DEF TruthGap, LedgerSyncFails
<1>4. ASSUME NEW r \in Receipts, NEW p \in {"none", "settle", "dispute", "reject", "raise"},
             PrepareSettlement(r, p)
      PROVE  TypeOK'
  <2>1. call' \in Calls /\ call'.receipt = r
    BY <1>4 DEF PrepareSettlement, Calls
  <2> QED BY <1>0, <1>4, <2>1 DEF TypeOK, PrepareSettlement
<1>5. CASE LineageIncomplete \/ CommitFails
  BY <1>2, <1>5 DEF LineageIncomplete, CommitFails, TypeOK, Idle
<1>6. CASE CommitEscapes
  BY <1>0, <1>6 DEF CommitEscapes, TypeOK, Idle
<1>7. CASE CommitReceiptSettlement
  <2>1. call.receipt \in Receipts
    BY <1>7 DEF CommitReceiptSettlement, TypeOK, Idle
  <2>2. call' \in Calls /\ call'.receipt \in Receipts
    BY <1>7, <2>1, CallMoves DEF CommitReceiptSettlement
  <2>3. loanDb' \in [Receipts -> LoanStates]
    BY <1>7, <2>1, AfterPrimeFacts DEF CommitReceiptSettlement, TypeOK
  <2>4. rows' \in [Receipts -> Nat] /\ bankDb' \in [Receipts -> Nat]
    BY <1>7, <2>1 DEF CommitReceiptSettlement, TypeOK
  <2> QED BY <1>0, <1>7, <2>2, <2>3, <2>4 DEF CommitReceiptSettlement, TypeOK
<1>8. ASSUME NEW ok \in BOOLEAN, MirrorLedger(ok) PROVE TypeOK'
  <2>1. call.receipt \in Receipts
    BY <1>8 DEF MirrorLedger, TypeOK, Idle
  <2>2. call' \in Calls /\ call'.receipt \in Receipts
    BY <1>8, <2>1, CallMoves DEF MirrorLedger
  <2>3. file' \in [Receipts -> Nat] /\ cut' \subseteq Receipts
    BY <1>8, <2>1 DEF MirrorLedger, CutIfNot, TypeOK
  <2> QED BY <1>0, <1>8, <2>2, <2>3 DEF MirrorLedger, TypeOK
<1>9. ASSUME NEW ok \in BOOLEAN, MirrorBankroll(ok) PROVE TypeOK'
  <2>1. call.receipt \in Receipts
    BY <1>9 DEF MirrorBankroll, TypeOK, Idle
  <2>2. call' \in Calls /\ call'.receipt \in Receipts
    BY <1>9, <2>1, CallMoves DEF MirrorBankroll
  <2> QED BY <1>0, <1>9, <2>1, <2>2 DEF MirrorBankroll, CutIfNot, TypeOK
<1>10. ASSUME NEW ok \in BOOLEAN, MirrorPrimeAndReturn(ok) PROVE TypeOK'
  <2>1. call.receipt \in Receipts
    BY <1>10 DEF MirrorPrimeAndReturn, TypeOK, Idle
  <2>2. loans' \in [Receipts -> LoanStates] /\ loanFile' \in [Receipts -> LoanStates]
    BY <1>10, <2>1, AfterPrimeFacts DEF MirrorPrimeAndReturn, Adopted, TypeOK
  <2>3. /\ settled' \subseteq Receipts /\ unsettled' \subseteq Receipts
        /\ disabled' \in BOOLEAN /\ cut' \subseteq Receipts
    BY <1>10, <2>1 DEF MirrorPrimeAndReturn, CutIfNot, TypeOK
  <2> QED BY <1>0, <1>10, <2>2, <2>3 DEF MirrorPrimeAndReturn, TypeOK
<1>11. ASSUME NEW b \in BOOLEAN, NEW p \in BOOLEAN, Restart(b, p) PROVE TypeOK'
  <2>1. cut' \subseteq Receipts
    BY <1>11 DEF Restart, TypeOK, Idle
  <2> QED BY <1>0, <1>11, <2>1 DEF Restart, TypeOK
<1>12. CASE Enable
  BY <1>12 DEF Enable, TypeOK, Idle
<1>13. CASE UNCHANGED vars
  BY <1>13 DEF vars, TypeOK, Idle
<1> QED
  BY <1>1, <1>3, <1>4, <1>5, <1>6, <1>7, <1>8, <1>9, <1>10, <1>11, <1>12, <1>13 DEF Next

(* Every variable keeps its type, whatever fails. *)
THEOREM TypeCorrect == Spec => []TypeOK
  BY TypeInit, TypeStep, PTL DEF Spec

-----------------------------------------------------------------------------
(* Where a call is determines whether its receipt has a row, and before    *)
(* the ledger copy no line has been written.                               *)
CallInv ==
    /\ call.at = "commit" => rows[call.receipt] = 0
    /\ call.at \in {"ledger", "bankroll", "prime"} => rows[call.receipt] = 1
    /\ call.at = "ledger" => file[call.receipt] = 0

AccountInv == LedgerOnce /\ BankrollNeverAhead /\ SettledLoanHasRow /\ CallInv

LEMMA AccountInit == Init => AccountInv
<1> SUFFICES ASSUME Init PROVE AccountInv
  OBVIOUS
<1>1. call.at = "idle"
  BY NoCallIsCall DEF Init
<1>2. \A r \in Receipts : rows[r] = 0 /\ loans[r] # "settled"
  BY DEF Init
<1> QED BY <1>1, <1>2
        DEF Init, AccountInv, LedgerOnce, BankrollNeverAhead, SettledLoanHasRow, CallInv

LEMMA AccountStep == TypeOK /\ AccountInv /\ [Next]_vars => AccountInv'
<1> SUFFICES ASSUME TypeOK, AccountInv, [Next]_vars PROVE AccountInv'
  OBVIOUS
<1> USE DEF AccountInv, LedgerOnce, BankrollNeverAhead, SettledLoanHasRow, CallInv,
            dbVars, fileVars, memVars
<1>1. ASSUME NEW r \in Receipts, AnswerDuplicate(r) PROVE AccountInv'
  BY <1>1 DEF AnswerDuplicate
<1>2. ASSUME call' = NoCall, UNCHANGED <<dbVars, fileVars, bankroll, loans>>
      PROVE  AccountInv'
  BY <1>2, NoCallIsCall
<1>3. ASSUME NEW r \in Receipts, TruthGap(r) \/ LedgerSyncFails(r) PROVE AccountInv'
  BY <1>2, <1>3 DEF TruthGap, LedgerSyncFails, FailAndDisable
<1>4. ASSUME NEW r \in Receipts, NEW p \in {"none", "settle", "dispute", "reject", "raise"},
             PrepareSettlement(r, p)
      PROVE  AccountInv'
  <2>1. rows[r] = 0
    BY <1>4 DEF PrepareSettlement, Known, TypeOK
  <2>2. call'.at = "commit" /\ call'.receipt = r
    BY <1>4 DEF PrepareSettlement
  <2> QED BY <1>4, <2>1, <2>2 DEF PrepareSettlement
<1>5. CASE LineageIncomplete \/ CommitFails \/ CommitEscapes
  BY <1>2, <1>5 DEF LineageIncomplete, CommitFails, CommitEscapes, FailAndDisable
<1>6. CASE CommitReceiptSettlement
  <2>1. call.receipt \in Receipts /\ rows[call.receipt] = 0
    BY <1>6 DEF CommitReceiptSettlement, TypeOK, Idle
  <2>2. call'.at = "ledger" /\ call'.receipt = call.receipt
    BY <1>6, CallMoves DEF CommitReceiptSettlement
  <2>3. /\ rows'[call.receipt] = 1 /\ bankDb'[call.receipt] = bankroll[call.receipt] + 1
        /\ \A r \in Receipts \ {call.receipt} : rows'[r] = rows[r] /\ bankDb'[r] = bankroll[r]
        /\ UNCHANGED <<file, bankFile, bankroll, loans, loanFile>>
    BY <1>6, <2>1 DEF CommitReceiptSettlement, TypeOK
  <2>4. file[call.receipt] = 0 /\ bankroll[call.receipt] = 0 /\ bankFile[call.receipt] = 0
    BY <2>1 DEF TypeOK
  <2>5. \A r \in Receipts : loanDb'[r] = "settled" =>
            loans[r] = "settled" \/ loanDb[r] = "settled" \/ r = call.receipt
    BY <1>6, <2>1, AfterPrimeFacts DEF CommitReceiptSettlement
  <2>6. SettledLoanHasRow'
    BY <2>1, <2>3, <2>5 DEF TypeOK
  <2>7. LedgerOnce' /\ BankrollNeverAhead'
    BY <2>1, <2>3, <2>4 DEF TypeOK
  <2>8. CallInv'
    BY <2>1, <2>2, <2>3, <2>4
  <2> QED BY <2>6, <2>7, <2>8
<1>7. ASSUME NEW ok \in BOOLEAN, MirrorLedger(ok) PROVE AccountInv'
  <2>1. call.receipt \in Receipts /\ rows[call.receipt] = 1 /\ file[call.receipt] = 0
    BY <1>7 DEF MirrorLedger, TypeOK, Idle
  <2>2. call'.at = "bankroll" /\ call'.receipt = call.receipt
    BY <1>7, CallMoves DEF MirrorLedger
  <2>3. \A r \in Receipts : file'[r] <= rows[r]
    BY <1>7, <2>1 DEF MirrorLedger, TypeOK
  <2> QED BY <1>7, <2>1, <2>2, <2>3 DEF MirrorLedger
<1>8. ASSUME NEW ok \in BOOLEAN, MirrorBankroll(ok) PROVE AccountInv'
  <2>1. rows[call.receipt] = 1
    BY <1>8 DEF MirrorBankroll
  <2>2. call'.at = "prime" /\ call'.receipt = call.receipt
    BY <1>8, CallMoves DEF MirrorBankroll
  <2> QED BY <1>8, <2>1, <2>2 DEF MirrorBankroll
<1>9. ASSUME NEW ok \in BOOLEAN, MirrorPrimeAndReturn(ok) PROVE AccountInv'
  <2>1. call.receipt \in Receipts /\ rows[call.receipt] = 1
    BY <1>9 DEF MirrorPrimeAndReturn, TypeOK, Idle
  <2>2. \A r \in Receipts : "settled" \in {loans'[r], loanFile'[r]} =>
            loans[r] = "settled" \/ loanFile[r] = "settled" \/ r = call.receipt
    BY <1>9, <2>1, AfterPrimeFacts DEF MirrorPrimeAndReturn, Adopted
  <2>3. call'.at = "idle"
    BY <1>9, NoCallIsCall DEF MirrorPrimeAndReturn
  <2> QED BY <1>9, <2>1, <2>2, <2>3 DEF MirrorPrimeAndReturn
<1>10. ASSUME NEW b \in BOOLEAN, NEW p \in BOOLEAN, Restart(b, p) PROVE AccountInv'
  <2>1. call'.at = "idle"
    BY <1>10, NoCallIsCall DEF Restart
  <2> QED BY <1>10, <2>1 DEF Restart
<1>11. CASE Enable
  BY <1>11 DEF Enable
<1>12. CASE UNCHANGED vars
  BY <1>12 DEF vars
<1> QED
  BY <1>1, <1>3, <1>4, <1>5, <1>6, <1>7, <1>8, <1>9, <1>10, <1>11, <1>12 DEF Next

LEMMA Accounting == Spec => [](TypeOK /\ AccountInv)
<1>1. Init => TypeOK /\ AccountInv
  BY TypeInit, AccountInit
<1>2. (TypeOK /\ AccountInv) /\ [Next]_vars => (TypeOK /\ AccountInv)'
  BY TypeStep, AccountStep
<1> QED BY <1>1, <1>2, PTL DEF Spec

(* A receipt has at most one settlement row, and a line in the ledger file *)
(* only with its row.                                                      *)
THEOREM LedgerOnceHolds == Spec => []LedgerOnce
<1>1. TypeOK /\ AccountInv => LedgerOnce
  BY DEF AccountInv
<1> QED BY <1>1, Accounting, PTL

(* No copy of the bankroll includes a profit twice or without its row. *)
THEOREM BankrollNeverAheadHolds == Spec => []BankrollNeverAhead
<1>1. TypeOK /\ AccountInv => BankrollNeverAhead
  BY DEF AccountInv
<1> QED BY <1>1, Accounting, PTL

(* No copy of the loans shows a loan settled without its row. *)
THEOREM SettledLoanHasRowHolds == Spec => []SettledLoanHasRow
<1>1. TypeOK /\ AccountInv => SettledLoanHasRow
  BY DEF AccountInv
<1> QED BY <1>1, Accounting, PTL

(* After a call that did not settle its receipt trading stays off until    *)
(* the operator enables it or the process starts again.                    *)
THEOREM FailClosedHolds == Spec => []FailClosed
<1>1. Init => FailClosed
  BY DEF Init, FailClosed
<1>2. FailClosed /\ [Next]_vars => FailClosed'
  BY DEF FailClosed, Next, vars, AnswerDuplicate, TruthGap, LedgerSyncFails,
         PrepareSettlement, LineageIncomplete, CommitFails, CommitEscapes,
         CommitReceiptSettlement, MirrorLedger, MirrorBankroll,
         MirrorPrimeAndReturn, Restart, Enable, FailAndDisable
<1> QED BY <1>1, <1>2, PTL DEF Spec

-----------------------------------------------------------------------------
(* The copies.  A receipt is due while its call has committed and is still *)
(* writing its copies.                                                     *)
Copying == call.at \in {"ledger", "bankroll", "prime"}
Due(r) == Copying /\ r = call.receipt
Active == {"open", "disputed"}

(* What the bankroll and the ledger file know of a receipt that is not     *)
(* cut, by how far its call is.                                            *)
AccountCopies ==
    \A r \in Receipts \ cut :
        /\ bankDb[r] = rows[r]
        /\ ~Due(r) \/ call.at # "ledger" => file[r] = rows[r]
        /\ ~Due(r) \/ call.at = "prime" => bankroll[r] = rows[r] /\ bankFile[r] = rows[r]

(* The three copies of the prime's book.  A loan that one of them has      *)
(* settled is not active in an older one.                                  *)
LoanCopies ==
    /\ Copying => loanDb = AfterPrime
    /\ cut = {} => loans = loanFile /\ (Copying \/ loanDb = loans)
    /\ \A r \in Receipts \ cut :
          /\ ~Due(r) /\ loanDb[r] = "settled" => loans[r] \notin Active
          /\ ~Due(r) /\ loanDb[r] = "settled" => loanFile[r] \notin Active
          /\ loans[r] = "settled" => loanFile[r] \notin Active

LEMMA CopiesInit == Init => AccountCopies /\ LoanCopies
<1> SUFFICES ASSUME Init PROVE AccountCopies /\ LoanCopies
  OBVIOUS
<1>1. ~Copying
  BY NoCallIsCall DEF Init, Copying
<1>2. \A r \in Receipts : loans[r] # "settled"
  BY DEF Init
<1> QED BY <1>1, <1>2 DEF Init, AccountCopies, LoanCopies, Due

(* A call that ends before its commit, or does not begin one. *)
LEMMA CopiesKept ==
  ASSUME AccountCopies, LoanCopies, ~Copying, ~Copying',
         UNCHANGED <<dbVars, fileVars, bankroll, loans, cut>>
  PROVE  AccountCopies' /\ LoanCopies'
  BY DEF AccountCopies, LoanCopies, Due, dbVars, fileVars

(* The book a call is about to adopt does not change while it copies. *)
LEMMA AfterPrimeKept ==
  ASSUME UNCHANGED loans, call'.prime = call.prime, call'.receipt = call.receipt
  PROVE  AfterPrime' = AfterPrime
  BY DEF AfterPrime

(* The commit: the receipt is due, everybody else is as before. *)
LEMMA CommitCopies ==
  ASSUME TypeOK, AccountInv, AccountCopies, LoanCopies, CommitReceiptSettlement
  PROVE  AccountCopies' /\ LoanCopies'
<1>1. /\ call.at = "commit" /\ call.receipt \in Receipts /\ rows[call.receipt] = 0
      /\ bankroll[call.receipt] = 0
      /\ ~Copying
  BY DEF CommitReceiptSettlement, TypeOK, Idle, AccountInv, CallInv, BankrollNeverAhead, Copying
<1>2. /\ call'.at = "ledger" /\ call'.receipt = call.receipt /\ call'.prime = call.prime
      /\ Copying'
  BY CallMoves DEF CommitReceiptSettlement, Copying
<1>3. /\ UNCHANGED <<file, bankFile, loanFile, bankroll, loans, cut>>
      /\ loanDb' = AfterPrime
      /\ rows'[call.receipt] = 1 /\ bankDb'[call.receipt] = 1
      /\ \A r \in Receipts \ {call.receipt} : rows'[r] = rows[r] /\ bankDb'[r] = bankroll[r]
  BY <1>1 DEF CommitReceiptSettlement, fileVars, memVars, TypeOK
<1>4. AccountCopies'
  BY <1>1, <1>2, <1>3 DEF AccountCopies, Due
<1>5. loanDb' = AfterPrime'
  BY <1>2, <1>3, AfterPrimeKept
<1>6. \A r \in Receipts \ {call.receipt} : loanDb'[r] = "settled" => loans[r] = "settled"
  <2>1. CASE call.prime \in {"settle", "dispute"}
    BY <1>1, <1>3, <2>1 DEF AfterPrime, TypeOK
  <2>2. CASE call.prime \notin {"settle", "dispute"}
    <3>1. AfterPrime = [r \in Receipts |-> "none"]
      BY <2>2 DEF AfterPrime
    <3> QED BY <1>3, <3>1
  <2> QED BY <2>1, <2>2
<1>7. LoanCopies'
  BY <1>1, <1>2, <1>3, <1>5, <1>6 DEF LoanCopies, Due, Active
<1> QED BY <1>4, <1>7

(* The copies themselves. *)
LEMMA MirrorCopies ==
  ASSUME TypeOK, AccountInv, AccountCopies, LoanCopies, NEW ok \in BOOLEAN,
         MirrorLedger(ok) \/ MirrorBankroll(ok) \/ MirrorPrimeAndReturn(ok)
  PROVE  AccountCopies' /\ LoanCopies'
<1>1. CASE MirrorLedger(ok)
  <2>1. /\ call.at = "ledger" /\ call.receipt \in Receipts /\ Copying
        /\ rows[call.receipt] = 1 /\ file[call.receipt] = 0
    BY <1>1 DEF MirrorLedger, TypeOK, Idle, AccountInv, CallInv, Copying
  <2>2. /\ call'.at = "bankroll" /\ call'.receipt = call.receipt /\ call'.prime = call.prime
        /\ Copying'
    BY <1>1, CallMoves DEF MirrorLedger, Copying
  <2>3. /\ UNCHANGED <<rows, bankDb, loanDb, bankFile, loanFile, bankroll, loans>>
        /\ cut' = IF ok THEN cut ELSE cut \cup {call.receipt}
        /\ ok => file'[call.receipt] = 1
        /\ \A r \in Receipts \ {call.receipt} : file'[r] = file[r]
    BY <1>1, <2>1 DEF MirrorLedger, CutIfNot, dbVars, memVars, TypeOK
  <2>4. AccountCopies'
    BY <2>1, <2>2, <2>3 DEF AccountCopies, Due
  <2>5. LoanCopies'
    BY <2>1, <2>2, <2>3, AfterPrimeKept DEF LoanCopies, Due
  <2> QED BY <2>4, <2>5
<1>2. CASE MirrorBankroll(ok)
  <2>1. call.at = "bankroll" /\ call.receipt \in Receipts /\ Copying
    BY <1>2 DEF MirrorBankroll, TypeOK, Idle, Copying
  <2>2. /\ call'.at = "prime" /\ call'.receipt = call.receipt /\ call'.prime = call.prime
        /\ Copying'
    BY <1>2, CallMoves DEF MirrorBankroll, Copying
  <2>3. /\ UNCHANGED <<rows, bankDb, loanDb, file, loanFile, loans>>
        /\ cut' = IF ok THEN cut ELSE cut \cup {call.receipt}
        /\ bankroll' = bankDb /\ bankFile' = IF ok THEN bankDb ELSE bankFile
    BY <1>2 DEF MirrorBankroll, CutIfNot, dbVars
  <2>4. AccountCopies'
    BY <2>1, <2>2, <2>3 DEF AccountCopies, Due
  <2>5. LoanCopies'
    BY <2>1, <2>2, <2>3, AfterPrimeKept DEF LoanCopies, Due
  <2> QED BY <2>4, <2>5
<1>3. CASE MirrorPrimeAndReturn(ok)
  <2>1. call.at = "prime" /\ call.receipt \in Receipts /\ Copying
    BY <1>3 DEF MirrorPrimeAndReturn, TypeOK, Idle, Copying
  <2>2. ~Copying'
    BY <1>3, NoCallIsCall DEF MirrorPrimeAndReturn, Copying
  <2>3. /\ UNCHANGED <<rows, bankDb, loanDb, file, bankFile, bankroll>>
        /\ cut' = IF ok THEN cut ELSE cut \cup {call.receipt}
        /\ loans' = loanDb /\ loanFile' = IF ok THEN loanDb ELSE loanFile
    BY <1>3, <2>1 DEF MirrorPrimeAndReturn, CutIfNot, dbVars, Adopted, LoanCopies
  <2>4. AccountCopies'
    BY <2>1, <2>2, <2>3 DEF AccountCopies, Due
  <2>5. LoanCopies'
    BY <2>1, <2>2, <2>3 DEF LoanCopies, Due, Active
  <2> QED BY <2>4, <2>5
<1> QED BY <1>1, <1>2, <1>3

(* A restart reads copies that agree about every receipt that is not cut,  *)
(* and cuts the receipt whose copies it interrupts.                        *)
LEMMA RestartCopies ==
  ASSUME TypeOK, AccountCopies, LoanCopies, NEW b \in BOOLEAN, NEW p \in BOOLEAN,
         Restart(b, p)
  PROVE  AccountCopies' /\ LoanCopies'
<1>1. ~Copying'
  BY NoCallIsCall DEF Restart, Copying
<1>2. /\ UNCHANGED <<rows, bankDb, loanDb, file, loanFile>>
      /\ cut' = IF Copying THEN cut \cup {call.receipt} ELSE cut
      /\ bankroll' = (IF b THEN bankFile ELSE bankDb)
      /\ bankFile' = bankroll'
      /\ loans' = IF p THEN loanFile ELSE loanDb
  BY DEF Restart, Copying, dbVars
<1>3. \A r \in Receipts \ cut' : r \notin cut /\ ~Due(r)
  BY <1>2 DEF Due
<1>4. AccountCopies'
  BY <1>1, <1>2, <1>3 DEF AccountCopies, Due
<1>5. LoanCopies'
  BY <1>1, <1>2, <1>3 DEF LoanCopies, Due, Active
<1> QED BY <1>4, <1>5

LEMMA CopiesStep ==
  ASSUME TypeOK, AccountInv, AccountCopies, LoanCopies, [Next]_vars
  PROVE  AccountCopies' /\ LoanCopies'
<1>1. ASSUME NEW r \in Receipts, AnswerDuplicate(r) PROVE AccountCopies' /\ LoanCopies'
  BY <1>1, CopiesKept DEF AnswerDuplicate, Copying, Idle
<1>2. ASSUME NEW r \in Receipts, TruthGap(r) \/ LedgerSyncFails(r)
      PROVE  AccountCopies' /\ LoanCopies'
  BY <1>2, CopiesKept, NoCallIsCall
  DEF TruthGap, LedgerSyncFails, FailAndDisable, Copying, Idle, memVars
<1>3. ASSUME NEW r \in Receipts, NEW p \in {"none", "settle", "dispute", "reject", "raise"},
             PrepareSettlement(r, p)
      PROVE  AccountCopies' /\ LoanCopies'
  BY <1>3, CopiesKept DEF PrepareSettlement, Copying, Idle, memVars
<1>4. CASE LineageIncomplete \/ CommitFails \/ CommitEscapes
  BY <1>4, CopiesKept, NoCallIsCall
  DEF LineageIncomplete, CommitFails, CommitEscapes, FailAndDisable, Copying, memVars
<1>5. CASE Enable
  BY <1>5, CopiesKept DEF Enable, Copying, Idle, memVars
<1>6. CASE UNCHANGED vars
  BY <1>6 DEF vars, AccountCopies, LoanCopies, Due, Copying, AfterPrime
<1> QED
  BY <1>1, <1>2, <1>3, <1>4, <1>5, <1>6, CommitCopies, MirrorCopies, RestartCopies DEF Next

LEMMA Copies == Spec => [](TypeOK /\ AccountInv /\ AccountCopies /\ LoanCopies)
<1>1. (AccountCopies /\ LoanCopies) /\ (TypeOK /\ AccountInv) /\ [Next]_vars =>
         (AccountCopies /\ LoanCopies)'
  BY CopiesStep
<1> QED BY <1>1, CopiesInit, Accounting, PTL DEF Spec

(* Between two calls the ledger file and the bankroll agree with the       *)
(* database about every receipt whose copies were made, and so does the    *)
(* prime's book while no copy was missed.                                  *)
THEOREM CopiesAgreeHolds == Spec => []CopiesAgree
<1>1. AccountCopies /\ LoanCopies => CopiesAgree
  BY DEF AccountCopies, LoanCopies, CopiesAgree, Idle, Copying, Due
<1> QED BY <1>1, Copies, PTL

(* Only the commit writes the loans in the database, and what it writes    *)
(* reopens no loan but those whose copies were cut.                        *)
LEMMA LoansStep ==
  ASSUME TypeOK, AccountInv, LoanCopies, [Next]_vars,
         NEW r \in Receipts \ cut', loanDb[r] = "settled"
  PROVE  loanDb'[r] \notin {"open", "disputed"}
<1>1. CASE CommitReceiptSettlement
  <2>1. /\ call.receipt \in Receipts /\ rows[call.receipt] = 0 /\ ~Copying
        /\ loanDb' = AfterPrime /\ cut' = cut
    BY <1>1 DEF CommitReceiptSettlement, TypeOK, Idle, AccountInv, CallInv, Copying
  <2>2. r # call.receipt
    BY <2>1 DEF AccountInv, SettledLoanHasRow
  <2>3. loans[r] \notin {"open", "disputed"}
    BY <2>1 DEF LoanCopies, Due, Active
  <2>4. CASE call.prime \in {"settle", "dispute"}
    BY <2>1, <2>2, <2>3, <2>4 DEF AfterPrime, TypeOK
  <2>5. CASE call.prime \notin {"settle", "dispute"}
    <3>1. AfterPrime = [q \in Receipts |-> "none"]
      BY <2>5 DEF AfterPrime
    <3> QED BY <2>1, <3>1
  <2> QED BY <2>4, <2>5
<1>2. CASE ~CommitReceiptSettlement
  <2>1. UNCHANGED loanDb
    BY <1>2 DEF Next, vars, AnswerDuplicate, TruthGap, LedgerSyncFails, PrepareSettlement,
                LineageIncomplete, CommitFails, CommitEscapes, MirrorLedger, MirrorBankroll,
                MirrorPrimeAndReturn, Restart, Enable, FailAndDisable, dbVars
  <2> QED BY <2>1
<1> QED BY <1>1, <1>2

(* A settled loan stays settled in the database unless a copy of its       *)
(* settlement was cut off.                                                 *)
THEOREM LoanStaysSettledHolds == Spec => LoanStaysSettled
<1>1. TypeOK /\ AccountInv /\ LoanCopies /\ [Next]_vars =>
         [\A r \in Receipts \ cut' :
             loanDb[r] = "settled" => loanDb'[r] \notin {"open", "disputed"}]_vars
  BY LoansStep
<1> QED BY <1>1, Copies, PTL DEF Spec, LoanStaysSettled

-----------------------------------------------------------------------------
(* The refinement.  The file of the bankroll is never ahead of its memory, *)
(* nor its memory of the database: a commit, which writes the state in     *)
(* memory back with one receipt more, may take a receipt out of the        *)
(* database that no older copy has, and puts in none but its own.          *)
BankInv ==
    \A r \in Receipts : bankFile[r] <= bankroll[r] /\ bankroll[r] <= bankDb[r]

LEMMA BankStep == TypeOK /\ BankInv /\ [Next]_vars => BankInv'
<1> SUFFICES ASSUME TypeOK, BankInv, [Next]_vars PROVE BankInv'
  OBVIOUS
<1> USE DEF BankInv, dbVars, fileVars, memVars
<1>1. ASSUME UNCHANGED <<bankDb, bankroll, bankFile>> PROVE BankInv'
  BY <1>1
<1>2. ASSUME NEW r \in Receipts,
             \/ AnswerDuplicate(r) \/ TruthGap(r) \/ LedgerSyncFails(r)
             \/ \E p \in {"none", "settle", "dispute", "reject", "raise"} :
                    PrepareSettlement(r, p)
      PROVE  BankInv'
  BY <1>1, <1>2
  DEF AnswerDuplicate, TruthGap, LedgerSyncFails, PrepareSettlement, FailAndDisable
<1>3. CASE LineageIncomplete \/ CommitFails \/ CommitEscapes
  BY <1>1, <1>3
  DEF LineageIncomplete, CommitFails, CommitEscapes, FailAndDisable
<1>4. CASE CommitReceiptSettlement
  BY <1>4 DEF CommitReceiptSettlement, TypeOK
<1>5. ASSUME NEW ok \in BOOLEAN, MirrorLedger(ok) PROVE BankInv'
  BY <1>1, <1>5 DEF MirrorLedger
<1>6. ASSUME NEW ok \in BOOLEAN, MirrorBankroll(ok) PROVE BankInv'
  BY <1>6 DEF MirrorBankroll, TypeOK
<1>7. ASSUME NEW ok \in BOOLEAN, MirrorPrimeAndReturn(ok) PROVE BankInv'
  BY <1>1, <1>7 DEF MirrorPrimeAndReturn
<1>8. ASSUME NEW b \in BOOLEAN, NEW p \in BOOLEAN, Restart(b, p) PROVE BankInv'
  BY <1>8 DEF Restart, TypeOK
<1>9. CASE Enable
  BY <1>1, <1>9 DEF Enable
<1>10. CASE UNCHANGED vars
  BY <1>10 DEF vars
<1> QED
  BY <1>2, <1>3, <1>4, <1>5, <1>6, <1>7, <1>8, <1>9, <1>10 DEF Next

(* A receipt that every copy includes. *)
InEveryCopy(r) == file[r] = 1 /\ bankroll[r] = 1 /\ bankFile[r] = 1 /\ bankDb[r] = 1

(* The row of a receipt and its copies say what its stage is. *)
LEMMA StageFacts ==
  TypeOK /\ AccountInv =>
    \A r \in Receipts :
      /\ rows[r] = 0 => StageOf(r) = "unsettled"
      /\ rows[r] # 0 => StageOf(r) = IF InEveryCopy(r) THEN "complete" ELSE "recorded"
<1> SUFFICES ASSUME TypeOK, AccountInv, NEW r \in Receipts
             PROVE  /\ rows[r] = 0 => StageOf(r) = "unsettled"
                    /\ rows[r] # 0 =>
                          StageOf(r) = IF InEveryCopy(r) THEN "complete" ELSE "recorded"
  OBVIOUS
<1> DEFINE copies == {file[r], bankroll[r], bankFile[r], bankDb[r]}
<1>1. /\ rows[r] \in Nat /\ rows[r] <= 1
      /\ \A n \in copies : n \in Nat /\ n <= rows[r]
  BY DEF TypeOK, AccountInv, LedgerOnce, BankrollNeverAhead
<1>2. InEveryCopy(r) <=> copies = {1}
  BY DEF InEveryCopy
<1>3. StageOf(r) = IF rows[r] = 0 /\ copies = {0} THEN "unsettled"
                   ELSE IF rows[r] = 1 /\ copies = {1} THEN "complete"
                   ELSE IF rows[r] = 1 /\ copies \subseteq {0, 1} THEN "recorded"
                   ELSE "wrong"
  BY DEF StageOf
<1>4. copies # {}
  OBVIOUS
<1> HIDE DEF copies
<1>5. CASE rows[r] = 0
  <2>1. \A n \in copies : n = 0
    BY <1>1, <1>5
  <2>2. copies = {0}
    BY <1>4, <2>1
  <2> QED BY <1>3, <1>5, <2>2
<1>6. CASE rows[r] # 0
  <2>1. rows[r] = 1
    BY <1>1, <1>6
  <2>2. \A n \in copies : n \in {0, 1}
    BY <1>1, <2>1
  <2> QED BY <1>2, <1>3, <2>1, <2>2
<1> QED BY <1>5, <1>6

(* Only the commit adds a row, and no step takes a receipt out of a copy   *)
(* if it is in all of them.                                                *)
LEMMA NothingLost ==
  ASSUME TypeOK, AccountInv, [Next]_vars, ~CommitReceiptSettlement
  PROVE  rows' = rows /\ \A r \in Receipts : InEveryCopy(r) => InEveryCopy(r)'
<1> USE DEF dbVars, fileVars, memVars, InEveryCopy
<1>1. ASSUME UNCHANGED <<rows, file, bankroll, bankFile, bankDb>>
      PROVE  rows' = rows /\ \A r \in Receipts : InEveryCopy(r) => InEveryCopy(r)'
  BY <1>1
<1>2. ASSUME NEW r \in Receipts,
             \/ AnswerDuplicate(r) \/ TruthGap(r) \/ LedgerSyncFails(r)
             \/ \E p \in {"none", "settle", "dispute", "reject", "raise"} :
                    PrepareSettlement(r, p)
      PROVE  UNCHANGED <<rows, file, bankroll, bankFile, bankDb>>
  BY <1>2 DEF AnswerDuplicate, TruthGap, LedgerSyncFails, PrepareSettlement, FailAndDisable
<1>3. ASSUME LineageIncomplete \/ CommitFails \/ CommitEscapes \/ Enable \/ UNCHANGED vars
      PROVE  UNCHANGED <<rows, file, bankroll, bankFile, bankDb>>
  BY <1>3 DEF LineageIncomplete, CommitFails, CommitEscapes, FailAndDisable, Enable, vars
<1>4. ASSUME NEW ok \in BOOLEAN, MirrorLedger(ok)
      PROVE  rows' = rows /\ \A r \in Receipts : InEveryCopy(r) => InEveryCopy(r)'
  <2>1. call.receipt \in Receipts /\ file[call.receipt] = 0
    BY <1>4 DEF MirrorLedger, TypeOK, Idle, AccountInv, CallInv
  <2>2. \A r \in Receipts : file[r] = 1 => file'[r] = 1
    BY <1>4, <2>1 DEF MirrorLedger, TypeOK
  <2> QED BY <1>4, <2>2 DEF MirrorLedger
<1>5. ASSUME NEW ok \in BOOLEAN, MirrorBankroll(ok)
      PROVE  rows' = rows /\ \A r \in Receipts : InEveryCopy(r) => InEveryCopy(r)'
  BY <1>5 DEF MirrorBankroll
<1>6. ASSUME NEW ok \in BOOLEAN, MirrorPrimeAndReturn(ok)
      PROVE  UNCHANGED <<rows, file, bankroll, bankFile, bankDb>>
  BY <1>6 DEF MirrorPrimeAndReturn
<1>7. ASSUME NEW b \in BOOLEAN, NEW p \in BOOLEAN, Restart(b, p)
      PROVE  rows' = rows /\ \A r \in Receipts : InEveryCopy(r) => InEveryCopy(r)'
  BY <1>7 DEF Restart
<1> QED
  BY <1>1, <1>2, <1>3, <1>4, <1>5, <1>6, <1>7 DEF Next

(* The commit records its receipt and changes the stage of no other. *)
LEMMA CommitRecords ==
  ASSUME TypeOK, AccountInv, BankInv, (TypeOK /\ AccountInv)', CommitReceiptSettlement
  PROVE  Account!Record(call.receipt)
<1>0. call.receipt \in Receipts
  BY DEF CommitReceiptSettlement, TypeOK, Idle
<1>k. PICK k \in Receipts : k = call.receipt
  BY <1>0
<1>1. k \in Receipts /\ rows[k] = 0
  BY <1>k DEF CommitReceiptSettlement, AccountInv, CallInv
<1>2. file[k] = 0 /\ bankroll[k] = 0
  BY <1>1 DEF TypeOK, AccountInv, LedgerOnce, BankrollNeverAhead
<1>3. /\ rows'[k] = 1 /\ UNCHANGED <<file, bankroll, bankFile>>
      /\ \A r \in Receipts \ {k} : rows'[r] = rows[r] /\ bankDb'[r] = bankroll[r]
  BY <1>k, <1>1, <1>2 DEF CommitReceiptSettlement, TypeOK, fileVars, memVars
<1>4. \A r \in Receipts :
        /\ {bankroll[r], bankDb[r], rows[r]} \subseteq Nat
        /\ bankroll[r] <= bankDb[r] /\ bankDb[r] <= rows[r] /\ rows[r] <= 1
  BY DEF TypeOK, AccountInv, LedgerOnce, BankrollNeverAhead, BankInv
<1>5. StageOf(k) = "unsettled"
  BY <1>1, StageFacts
<1>6. \A r \in Receipts :
        /\ rows'[r] = 0 => StageOf(r)' = "unsettled"
        /\ rows'[r] # 0 => StageOf(r)' = IF InEveryCopy(r)' THEN "complete" ELSE "recorded"
  <2>1. (TypeOK /\ AccountInv =>
           \A r \in Receipts :
             /\ rows[r] = 0 => StageOf(r) = "unsettled"
             /\ rows[r] # 0 =>
                   StageOf(r) = IF InEveryCopy(r) THEN "complete" ELSE "recorded")'
    BY StageFacts, PTL
  <2> QED BY <2>1
<1>7. StageOf(k)' = "recorded"
  BY <1>1, <1>2, <1>3, <1>6 DEF InEveryCopy
<1>8. ASSUME NEW r \in Receipts, r # k
      PROVE  StageOf(r)' = StageOf(r)
  <2>1. rows'[r] = rows[r] /\ (rows[r] # 0 => (InEveryCopy(r)' <=> InEveryCopy(r)))
    BY <1>3, <1>4, <1>8 DEF InEveryCopy
  <2> QED BY <1>6, <2>1, StageFacts
<1>9. [r \in Receipts |-> StageOf(r)]' =
        [[r \in Receipts |-> StageOf(r)] EXCEPT ![k] = "recorded"]
  BY <1>1, <1>7, <1>8
<1> QED BY <1>k, <1>1, <1>5, <1>9 DEF Account!Record

(* Every other step makes the receipts complete whose last copy it made. *)
LEMMA OthersComplete ==
  ASSUME TypeOK, AccountInv, (TypeOK /\ AccountInv)', [Next]_vars,
         ~CommitReceiptSettlement
  PROVE  \E S \in SUBSET Account!Recorded : Account!Complete(S)
<1> DEFINE S == {r \in Receipts : StageOf(r) = "recorded" /\ StageOf(r)' = "complete"}
<1>1. S \in SUBSET Account!Recorded
  BY DEF Account!Recorded
<1>2. /\ rows' = rows
      /\ \A r \in Receipts : InEveryCopy(r) => InEveryCopy(r)'
  BY NothingLost
<1>3. \A r \in Receipts :
        /\ rows[r] = 0 => StageOf(r) = "unsettled"
        /\ rows[r] # 0 => StageOf(r) = IF InEveryCopy(r) THEN "complete" ELSE "recorded"
  BY StageFacts
<1>4. \A r \in Receipts :
        /\ rows'[r] = 0 => StageOf(r)' = "unsettled"
        /\ rows'[r] # 0 => StageOf(r)' = IF InEveryCopy(r)' THEN "complete" ELSE "recorded"
  <2>1. (TypeOK /\ AccountInv =>
           \A r \in Receipts :
             /\ rows[r] = 0 => StageOf(r) = "unsettled"
             /\ rows[r] # 0 =>
                   StageOf(r) = IF InEveryCopy(r) THEN "complete" ELSE "recorded")'
    BY StageFacts, PTL
  <2> QED BY <2>1
<1>5. ASSUME NEW r \in Receipts
      PROVE  StageOf(r)' = IF r \in S THEN "complete" ELSE StageOf(r)
  BY <1>2, <1>3, <1>4
<1>6. Account!Complete(S)
  BY <1>5 DEF Account!Complete
<1> QED BY <1>1, <1>6

(* The settlement of receipts (synchronize_settlement_accounting,          *)
(* commit_receipt_settlement, apply_state_payload and the restart of the   *)
(* bankroll) implements the account of a receipt.                          *)
THEOREM Refinement == Spec => ImplementsAccount
<1>1. Init => Account!Init
  <2> SUFFICES ASSUME Init PROVE \A r \in Receipts : StageOf(r) = "unsettled"
    BY DEF Account!Init
  <2> QED BY DEF Init, StageOf
<1>2. Init => BankInv
  BY DEF Init, BankInv
<1>3. TypeOK /\ AccountInv /\ BankInv /\ (TypeOK /\ AccountInv)' /\ [Next]_vars =>
         Account!Next \/ UNCHANGED [r \in Receipts |-> StageOf(r)]
  <2> SUFFICES ASSUME TypeOK, AccountInv, BankInv, (TypeOK /\ AccountInv)', [Next]_vars
               PROVE  Account!Next
    OBVIOUS
  <2>1. CASE CommitReceiptSettlement
    <3>1. call.receipt \in Receipts
      BY <2>1 DEF CommitReceiptSettlement, TypeOK, Idle
    <3> QED BY <2>1, <3>1, CommitRecords DEF Account!Next
  <2>2. CASE ~CommitReceiptSettlement
    BY <2>2, OthersComplete DEF Account!Next
  <2> QED BY <2>1, <2>2
<1>4. BankInv /\ TypeOK /\ [Next]_vars => BankInv'
  BY BankStep
<1> QED
  BY <1>1, <1>2, <1>3, <1>4, Accounting, PTL DEF Spec, ImplementsAccount, Account!Spec
=============================================================================
