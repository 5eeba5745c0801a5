----------------------- MODULE ReceiptPipeline_proofs -----------------------
(***************************************************************************)
(* Proofs about ReceiptPipeline for any set of transactions, any queue     *)
(* length, any retry limit and any set of faults.  The tracking of         *)
(* transactions is inductive only as a whole: that the retry finds room,   *)
(* that a receipt is finalized once and that nothing is forgotten rest on  *)
(* the queue having no duplicates and on unrecorded transactions having    *)
(* left no trace.                                                          *)
(***************************************************************************)
EXTENDS ReceiptPipeline, TLAPS

(* What taking the head off a sequence without duplicates leaves. *)
LEMMA TailOccurs ==
    ASSUME NEW S, NEW q \in Seq(S), q # <<>>, Distinct(q)
    PROVE  /\ Head(q) \in S
           /\ Tail(q) \in Seq(S)
           /\ Distinct(Tail(q))
           /\ ~Occurs(Tail(q), Head(q))
           /\ \A t : Occurs(q, t) <=> (t = Head(q) \/ Occurs(Tail(q), t))
<1>1. /\ Len(q) \in Nat
      /\ Len(q) > 0
      /\ Head(q) = q[1]
      /\ Head(q) \in S
      /\ Tail(q) \in Seq(S)
      /\ Len(Tail(q)) = Len(q) - 1
      /\ \A i \in 1..Len(Tail(q)) : Tail(q)[i] = q[i + 1]
  OBVIOUS
<1>2. Distinct(Tail(q))
  BY <1>1 DEF Distinct
<1>3. ~Occurs(Tail(q), Head(q))
  BY <1>1 DEF Distinct, Occurs
<1>4. ASSUME NEW t PROVE Occurs(q, t) <=> (t = Head(q) \/ Occurs(Tail(q), t))
  <2>1. ASSUME Occurs(q, t) PROVE t = Head(q) \/ Occurs(Tail(q), t)
    <3>1. PICK i \in 1..Len(q) : q[i] = t
      BY <2>1 DEF Occurs
    <3>2. CASE i = 1
      BY <1>1, <3>1, <3>2
    <3>3. CASE i # 1
      <4>1. i - 1 \in 1..Len(Tail(q)) /\ Tail(q)[i - 1] = t
        BY <1>1, <3>1, <3>3
      <4> QED BY <4>1 DEF Occurs
    <3> QED BY <3>2, <3>3
  <2>2. ASSUME Occurs(Tail(q), t) PROVE Occurs(q, t)
    <3>1. PICK i \in 1..Len(Tail(q)) : Tail(q)[i] = t
      BY <2>2 DEF Occurs
    <3>2. i + 1 \in 1..Len(q) /\ q[i + 1] = t
      BY <1>1, <3>1
    <3> QED BY <3>2 DEF Occurs
  <2>3. Occurs(q, Head(q))
    BY <1>1 DEF Occurs
  <2> QED BY <2>1, <2>2, <2>3
<1> QED BY <1>1, <1>2, <1>3, <1>4

(* What appending a new element to a sequence without duplicates gives. *)
LEMMA AppendOccurs ==
    ASSUME NEW S, NEW q \in Seq(S), NEW x \in S, Distinct(q), ~Occurs(q, x)
    PROVE  /\ Append(q, x) \in Seq(S)
           /\ Distinct(Append(q, x))
           /\ \A t : Occurs(Append(q, x), t) <=> (t = x \/ Occurs(q, t))
<1>1. /\ Len(q) \in Nat
      /\ Append(q, x) \in Seq(S)
      /\ Len(Append(q, x)) = Len(q) + 1
      /\ Append(q, x)[Len(q) + 1] = x
      /\ \A i \in 1..Len(q) : Append(q, x)[i] = q[i]
  OBVIOUS
<1>2. Distinct(Append(q, x))
  BY <1>1 DEF Distinct, Occurs
<1>3. ASSUME NEW t PROVE Occurs(Append(q, x), t) <=> (t = x \/ Occurs(q, t))
  BY <1>1 DEF Occurs
<1> QED BY <1>1, <1>2, <1>3

(* The empty sequence. *)
LEMMA EmptyOccurs == Distinct(<<>>) /\ \A t : ~Occurs(<<>>, t)
  BY DEF Distinct, Occurs

-----------------------------------------------------------------------------
(* The type invariant is inductive by itself. *)
LEMMA TypeInit == Init => TypeOK
<1> SUFFICES ASSUME Init PROVE TypeOK
  OBVIOUS
<1>1. queue \in Seq(Txs)
  BY DEF Init
<1>2. /\ chain \in [Txs -> {"unsent", "sent", "mined"}]
      /\ retry \in [Txs -> Nat]
      /\ rstate \in [Txs -> RetryStates]
      /\ finalized \in [Txs -> Nat]
  BY DEF Init, RetryStates
<1>3. /\ pendingGas \in Nat /\ spent \in Nat
      /\ clockDay \in Nat /\ budgetDay \in Nat
  BY DEF Init
<1> QED
  BY <1>1, <1>2, <1>3 DEF Init, TypeOK, Holding

LEMMA TypeStep == TypeOK /\ [Next]_vars => TypeOK'
<1> SUFFICES ASSUME TypeOK, [Next]_vars PROVE TypeOK'
  OBVIOUS
<1> USE PipelineAssumption DEF TypeOK, RetryStates, Holding, chainVars, trackVars,
                               workerVars, gasVars
<1>1. ASSUME NEW t \in Txs, Broadcast(t) PROVE TypeOK'
  BY <1>1 DEF Broadcast
<1>2. ASSUME NEW t \in Txs, RecordExecution(t) PROVE TypeOK'
  <2>1. Append(queue, t) \in Seq(Txs)
    OBVIOUS
  <2>2. queue' \in Seq(Txs) /\ lost' \subseteq Txs
    BY <1>2, <2>1 DEF RecordExecution, HasRoom
  <2>3. pendingGas' \in Nat
    BY <1>2 DEF RecordExecution, HasRoom
  <2> QED BY <1>2, <2>2, <2>3 DEF RecordExecution, HasRoom
<1>3. ASSUME NEW t \in Txs, RecordEscapes(t) PROVE TypeOK'
  BY <1>3 DEF RecordEscapes
<1>4. ASSUME NEW t \in Txs, Mine(t) PROVE TypeOK'
  BY <1>4 DEF Mine
<1>5. ASSUME queue # <<>> PROVE Head(queue) \in Txs /\ Tail(queue) \in Seq(Txs)
  BY <1>5
<1>6. CASE Get
  BY <1>5, <1>6 DEF Get
<1>7. CASE GetWithoutUrl
  BY <1>5, <1>7 DEF GetWithoutUrl
<1>8. ASSUME NEW seen \in BOOLEAN, hand \in Txs, HandleReceiptLoopFailure(seen)
      PROVE  /\ retry' \in [Txs -> Nat]
             /\ rstate' \in [Txs -> RetryStates]
             /\ queue' \in Seq(Txs)
  <2>1. Append(queue, hand) \in Seq(Txs)
    BY <1>8
  <2>2. queue' \in Seq(Txs)
    BY <1>8, <2>1 DEF HandleReceiptLoopFailure, Attempts, ShouldRetry, ParkedAs, HasRoom
  <2>3. retry' \in [Txs -> Nat]
    BY <1>8 DEF HandleReceiptLoopFailure, Attempts, ShouldRetry, ParkedAs, HasRoom
  <2>4. rstate' \in [Txs -> RetryStates]
    BY <1>8 DEF HandleReceiptLoopFailure, Attempts, ShouldRetry, ParkedAs, HasRoom
  <2> QED BY <2>2, <2>3, <2>4
<1>9. CASE ReceiptMissing
  <2>1. hand \in Txs
    BY <1>9 DEF ReceiptMissing
  <2>2. HandleReceiptLoopFailure(FALSE)
    BY <1>9 DEF ReceiptMissing
  <2> QED BY <1>8, <1>9, <2>1, <2>2 DEF ReceiptMissing
<1>10. CASE ReceiptProcessingFails
  <2>1. hand \in Txs
    BY <1>10 DEF ReceiptProcessingFails
  <2>2. HandleReceiptLoopFailure(TRUE)
    BY <1>10 DEF ReceiptProcessingFails
  <2> QED BY <1>8, <1>10, <2>1, <2>2 DEF ReceiptProcessingFails
<1>11. CASE ReceiptFound
  BY <1>11 DEF ReceiptFound
<1>12. ASSUME NEW alive \in BOOLEAN, FinalizeReceipt(alive) PROVE TypeOK'
  <2>1. hand \in Txs /\ GasEst[hand] \in Nat /\ GasReal[hand] \in Nat
    BY <1>12 DEF FinalizeReceipt
  <2>2. /\ AfterBudgetReset.gas \in Nat
        /\ AfterBudgetReset.spent \in Nat
        /\ AfterBudgetReset.carried \subseteq pending
        /\ AfterBudgetReset.drained \in BOOLEAN
    BY DEF AfterBudgetReset
  <2>3. pendingGas' \in Nat /\ spent' \in Nat
    BY <1>12, <2>1, <2>2 DEF FinalizeReceipt, Minus
  <2>4. carried' \subseteq pending' /\ drained' \in BOOLEAN
    BY <1>12, <2>1, <2>2 DEF FinalizeReceipt
  <2> QED BY <1>12, <2>1, <2>3, <2>4 DEF FinalizeReceipt
<1>13. CASE WorkerDies
  BY <1>13 DEF WorkerDies
<1>14. CASE StopCancels
  BY <1>14 DEF StopCancels
<1>15. CASE CancelDelivered
  BY <1>15 DEF CancelDelivered
<1>16. CASE StartWorker
  BY <1>16 DEF StartWorker
<1>17. CASE Restart
  <2>1. <<>> \in Seq(Txs)
    OBVIOUS
  <2> QED BY <1>17, <2>1 DEF Restart
<1>18. CASE Midnight
  BY <1>18 DEF Midnight
<1>19. CASE GasBudgetRemaining
  BY <1>19 DEF GasBudgetRemaining, AfterBudgetReset
<1>20. CASE UNCHANGED vars
  BY <1>20 DEF vars
<1> QED
  BY <1>1, <1>2, <1>3, <1>4, <1>6, <1>7, <1>9, <1>10, <1>11, <1>12, <1>13, <1>14,
     <1>15, <1>16, <1>17, <1>18, <1>19, <1>20 DEF Next, WorkerStep, FaultStep

(* Every variable keeps its type, whatever fails. *)
THEOREM TypeCorrect == Spec => []TypeOK
  BY TypeInit, TypeStep, PTL DEF Spec

-----------------------------------------------------------------------------
(* The inductive invariant of the tracking.  None of its parts is inductive *)
(* without the others: a retry puts a hash back (NoDuplicateWork) because   *)
(* the hash in hand is not queued, the pop finds its entry (FinalizedOnce)  *)
(* because whatever is in hand is pending (WorkIsTracked), and a fresh      *)
(* entry is below the retry limit because it has never been counted.        *)
TrackInv ==
    /\ FreshUntilRecorded
    /\ NoDuplicateWork
    /\ WorkIsTracked
    /\ FinalizedOnce
    /\ NothingForgotten

LEMMA TrackInit == Init => TrackInv
<1> SUFFICES ASSUME Init PROVE TrackInv
  OBVIOUS
<1>1. Distinct(queue) /\ \A t : ~Occurs(queue, t)
  BY EmptyOccurs DEF Init
<1>2. FreshUntilRecorded
  BY DEF Init, FreshUntilRecorded
<1>3. NoDuplicateWork /\ WorkIsTracked /\ NothingForgotten
  BY <1>1 DEF Init, NoDuplicateWork, WorkIsTracked, NothingForgotten, Holding,
              InHand, InQueue
<1>4. FinalizedOnce
  BY DEF Init, FinalizedOnce
<1> QED BY <1>2, <1>3, <1>4 DEF TrackInv

LEMMA TrackStep == TypeOK /\ TrackInv /\ [Next]_vars => TrackInv'
<1> SUFFICES ASSUME TypeOK, TrackInv, [Next]_vars PROVE TrackInv'
  OBVIOUS
<1> USE PipelineAssumption
        DEF TypeOK, TrackInv, FreshUntilRecorded, NoDuplicateWork, WorkIsTracked,
            FinalizedOnce, NothingForgotten, Holding, InHand, InQueue, Parked
<1>1. ASSUME NEW t \in Txs, Broadcast(t) PROVE TrackInv'
  BY <1>1 DEF Broadcast, trackVars, workerVars, gasVars
<1>2. ASSUME NEW t \in Txs, RecordExecution(t) PROVE TrackInv'
  <2>1. /\ t \notin pending
        /\ ~Occurs(queue, t)
        /\ ~(Holding /\ hand = t)
        /\ chain[t] # "unsent"
        /\ finalized[t] = 0 /\ retry[t] = 0 /\ rstate[t] = "none"
    BY <1>2 DEF RecordExecution, HasRoom
  <2>2. /\ UNCHANGED <<chain, retry, rstate, worker, hand, finalized>>
        /\ recording' = recording \ {t}
        /\ pending' = pending \cup {t}
    BY <1>2 DEF RecordExecution, HasRoom, workerVars
  <2>3. CASE Len(queue) < QCap
    <3>1. queue' = Append(queue, t) /\ lost' = lost
      BY <1>2, <2>3 DEF RecordExecution, HasRoom
    <3>2. Distinct(queue') /\ \A u : Occurs(queue', u) <=> (u = t \/ Occurs(queue, u))
      BY <2>1, <3>1, AppendOccurs
    <3>3. FreshUntilRecorded' /\ FinalizedOnce'
      BY <2>1, <2>2, <3>1, <3>2
    <3>4. NoDuplicateWork' /\ WorkIsTracked'
      BY <2>1, <2>2, <3>1, <3>2
    <3>5. NothingForgotten'
      BY <2>1, <2>2, <3>1, <3>2
    <3> QED BY <3>3, <3>4, <3>5
  <2>4. CASE ~(Len(queue) < QCap)
    <3>1. queue' = queue /\ lost' = lost \cup {t}
      BY <1>2, <2>4 DEF RecordExecution, HasRoom
    <3> QED BY <2>1, <2>2, <3>1
  <2> QED BY <2>3, <2>4
<1>3. ASSUME NEW t \in Txs, RecordEscapes(t) PROVE TrackInv'
  BY <1>3 DEF RecordEscapes, trackVars, workerVars
<1>4. ASSUME NEW t \in Txs, Mine(t) PROVE TrackInv'
  BY <1>4 DEF Mine, trackVars, workerVars
<1>5. ASSUME queue # <<>>
      PROVE  /\ Head(queue) \in Txs
             /\ Distinct(Tail(queue))
             /\ ~Occurs(Tail(queue), Head(queue))
             /\ \A u : Occurs(queue, u) <=> (u = Head(queue) \/ Occurs(Tail(queue), u))
  BY <1>5, TailOccurs
<1>6. CASE Get
  BY <1>5, <1>6 DEF Get, chainVars
<1>7. CASE GetWithoutUrl
  BY <1>5, <1>7 DEF GetWithoutUrl, chainVars, workerVars
<1>8. ASSUME NEW seen \in BOOLEAN, Holding, HandleReceiptLoopFailure(seen),
             worker' = "get", UNCHANGED <<chain, recording, pending, finalized, lost>>
      PROVE  TrackInv'
  <2>1. /\ hand \in Txs /\ hand \in pending
        /\ ~Occurs(queue, hand)
        /\ retry[hand] < RetryLimit /\ retry[hand] \in Nat
    BY <1>8
  <2>2. /\ retry' = [retry EXCEPT ![hand] = retry[hand] + 1]
        /\ \A u \in Txs \ {hand} : retry'[u] = retry[u] /\ rstate'[u] = rstate[u]
    BY <1>8, <2>1 DEF HandleReceiptLoopFailure, Attempts, ShouldRetry, ParkedAs, HasRoom
  <2>3. CASE ~seen /\ retry[hand] + 1 < RetryLimit /\ Len(queue) < QCap
    <3>1. queue' = Append(queue, hand) /\ rstate' = [rstate EXCEPT ![hand] = "retrying"]
      BY <1>8, <2>3 DEF HandleReceiptLoopFailure, Attempts, ShouldRetry, ParkedAs, HasRoom
    <3>2. Distinct(queue') /\ \A u : Occurs(queue', u) <=> (u = hand \/ Occurs(queue, u))
      BY <2>1, <3>1, AppendOccurs
    <3>3. rstate'[hand] = "retrying" /\ retry'[hand] < RetryLimit
      BY <2>1, <2>2, <2>3, <3>1
    <3> QED BY <1>8, <2>1, <2>2, <3>2, <3>3
  <2>4. CASE ~(~seen /\ retry[hand] + 1 < RetryLimit /\ Len(queue) < QCap)
    <3>1. /\ queue' = queue
          /\ rstate'[hand] \in {"retry_exhausted", "awaiting_manual_recovery"}
      BY <1>8, <2>1, <2>4 DEF HandleReceiptLoopFailure, Attempts, ShouldRetry, ParkedAs, HasRoom
    <3> QED BY <1>8, <2>1, <2>2, <3>1
  <2> QED BY <2>3, <2>4
<1>9. CASE ReceiptMissing
  BY <1>8, <1>9 DEF ReceiptMissing, chainVars
<1>10. CASE ReceiptProcessingFails
  BY <1>8, <1>10 DEF ReceiptProcessingFails, chainVars
<1>11. CASE ReceiptFound
  BY <1>11 DEF ReceiptFound, chainVars, trackVars
<1>12. ASSUME NEW alive \in BOOLEAN, FinalizeReceipt(alive) PROVE TrackInv'
  <2>1. worker = "pnl" /\ hand \in Txs
    BY <1>12 DEF FinalizeReceipt
  <2>2. hand \in pending /\ ~Occurs(queue, hand)
    BY <2>1
  <2>3. \A t \in Txs : t \in pending => finalized[t] \in Nat /\ finalized[t] <= 1 /\ finalized[t] # 1
    OBVIOUS
  <2>4. finalized[hand] = 0
    <3> HIDE DEF TypeOK, TrackInv, FreshUntilRecorded, NoDuplicateWork, WorkIsTracked,
            FinalizedOnce, NothingForgotten, Holding, InHand, InQueue, Parked
    <3>1. finalized[hand] \in Nat /\ finalized[hand] <= 1 /\ finalized[hand] # 1
      BY <2>1, <2>2, <2>3
    <3> QED BY <3>1
  <2>5. /\ UNCHANGED <<chain, recording, retry, rstate, queue, lost>>
        /\ pending' = pending \ {hand}
        /\ finalized' = [finalized EXCEPT ![hand] = finalized[hand] + 1]
        /\ worker' \in {"get", "absent"}
    BY <1>12 DEF FinalizeReceipt, chainVars
  <2> QED BY <2>1, <2>2, <2>4, <2>5
<1>13. CASE WorkerDies
  BY <1>13 DEF WorkerDies, chainVars, trackVars
<1>14. CASE StopCancels
  BY <1>14 DEF StopCancels, chainVars, trackVars
<1>15. CASE CancelDelivered
  BY <1>15 DEF CancelDelivered, chainVars, trackVars
<1>16. CASE StartWorker
  BY <1>16 DEF StartWorker, chainVars, trackVars
<1>17. CASE Restart
  <2>1. Distinct(queue') /\ \A t : ~Occurs(queue', t)
    BY <1>17, EmptyOccurs DEF Restart
  <2>2. /\ pending' = {} /\ recording' = {} /\ worker' = "get"
        /\ \A t \in Txs : retry'[t] = 0 /\ rstate'[t] = "none"
        /\ UNCHANGED <<chain, finalized>>
    BY <1>17 DEF Restart
  <2> QED BY <2>1, <2>2
<1>18. CASE Midnight
  BY <1>18 DEF Midnight, chainVars, trackVars, workerVars
<1>19. CASE GasBudgetRemaining
  BY <1>19 DEF GasBudgetRemaining, chainVars, trackVars, workerVars
<1>20. CASE UNCHANGED vars
  BY <1>20 DEF vars
<1> QED
  BY <1>1, <1>2, <1>3, <1>4, <1>6, <1>7, <1>9, <1>10, <1>11, <1>12, <1>13, <1>14,
     <1>15, <1>16, <1>17, <1>18, <1>19, <1>20 DEF Next, WorkerStep, FaultStep

LEMMA Tracking == Spec => [](TypeOK /\ TrackInv)
<1>1. Init => TypeOK /\ TrackInv
  BY TypeInit, TrackInit
<1>2. (TypeOK /\ TrackInv) /\ [Next]_vars => (TypeOK /\ TrackInv)'
  BY TypeStep, TrackStep
<1> QED BY <1>1, <1>2, PTL DEF Spec

(* A hash is never queued twice, and never while the worker holds it. *)
THEOREM NoDuplicateWorkHolds == Spec => []NoDuplicateWork
<1>1. TypeOK /\ TrackInv => NoDuplicateWork
  BY DEF TrackInv
<1> QED BY <1>1, Tracking, PTL

(* What the worker looks at is pending, not parked and below the limit. *)
THEOREM WorkIsTrackedHolds == Spec => []WorkIsTracked
<1>1. TypeOK /\ TrackInv => WorkIsTracked
  BY DEF TrackInv
<1> QED BY <1>1, Tracking, PTL

(* No receipt is finalized twice, through retries, crashes and restarts. *)
THEOREM FinalizedOnceHolds == Spec => []FinalizedOnce
<1>1. TypeOK /\ TrackInv => FinalizedOnce
  BY DEF TrackInv
<1> QED BY <1>1, Tracking, PTL

(* A pending transaction is queued, in hand or parked, or one of the named *)
(* failures lost it.                                                       *)
THEOREM NothingForgottenHolds == Spec => []NothingForgotten
<1>1. TypeOK /\ TrackInv => NothingForgotten
  BY DEF TrackInv
<1> QED BY <1>1, Tracking, PTL

-----------------------------------------------------------------------------
(* The refinement.  A transaction that was given up is out of the worker's *)
(* reach for good, and was neither unsent nor settled.                     *)
LostIsGone ==
    \A t \in lost :
        /\ t \in Txs /\ t \notin recording /\ chain[t] # "unsent"
        /\ finalized[t] = 0
        /\ ~InQueue(t) /\ ~InHand(t)

LEMMA LostStep ==
  ASSUME TypeOK, TrackInv, LostIsGone, [Next]_vars
  PROVE  LostIsGone'
<1> USE PipelineAssumption
        DEF TypeOK, TrackInv, FreshUntilRecorded, NoDuplicateWork, WorkIsTracked,
            FinalizedOnce, Holding, InHand, InQueue, LostIsGone
<1>1. ASSUME NEW t \in Txs, Broadcast(t) PROVE LostIsGone'
  BY <1>1 DEF Broadcast, trackVars, workerVars
<1>2. ASSUME NEW t \in Txs, RecordExecution(t) PROVE LostIsGone'
  <2>1. /\ t \notin pending /\ ~Occurs(queue, t) /\ ~(Holding /\ hand = t)
        /\ t \notin lost /\ chain[t] # "unsent" /\ finalized[t] = 0
        /\ UNCHANGED <<chain, worker, hand, finalized>> /\ recording' = recording \ {t}
    BY <1>2 DEF RecordExecution, workerVars
  <2>2. CASE HasRoom
    <3>1. queue' = Append(queue, t) /\ lost' = lost
      BY <1>2, <2>2 DEF RecordExecution
    <3>2. \A u : Occurs(queue', u) <=> (u = t \/ Occurs(queue, u))
      BY <2>1, <3>1, AppendOccurs
    <3> QED BY <2>1, <3>1, <3>2
  <2>3. CASE ~HasRoom
    <3>1. queue' = queue /\ lost' = lost \cup {t}
      BY <1>2, <2>3 DEF RecordExecution
    <3> QED BY <2>1, <3>1
  <2> QED BY <2>2, <2>3
<1>3. ASSUME NEW t \in Txs, RecordEscapes(t) PROVE LostIsGone'
  BY <1>3 DEF RecordEscapes, trackVars, workerVars
<1>4. ASSUME NEW t \in Txs, Mine(t) PROVE LostIsGone'
  BY <1>4 DEF Mine, trackVars, workerVars
<1>5. ASSUME queue # <<>>
      PROVE  /\ Head(queue) \in Txs
             /\ ~Occurs(Tail(queue), Head(queue))
             /\ \A u : Occurs(queue, u) <=> (u = Head(queue) \/ Occurs(Tail(queue), u))
  BY <1>5, TailOccurs
<1>a. \A t \in Txs : t \in pending => chain[t] # "unsent" /\ t \notin recording
  OBVIOUS
<1>b. \A t \in Txs : t \in pending => finalized[t] = 0
  <2>1. \A t \in Txs : t \in pending => finalized[t] \in Nat /\ finalized[t] <= 1 /\ finalized[t] # 1
    OBVIOUS
  <2> HIDE DEF TypeOK, TrackInv, FreshUntilRecorded, NoDuplicateWork, WorkIsTracked,
               FinalizedOnce, Holding, InHand, InQueue, LostIsGone
  <2> QED BY <2>1
<1>c. Holding => hand \in pending /\ hand \in Txs /\ ~Occurs(queue, hand)
  OBVIOUS
<1>6. CASE Get
  BY <1>5, <1>6 DEF Get, chainVars
<1>7. CASE GetWithoutUrl
  <2>1. Head(queue) \in pending /\ Head(queue) \in Txs /\ ~(Holding /\ hand = Head(queue))
    BY <1>5, <1>7 DEF GetWithoutUrl
  <2> QED BY <1>5, <1>7, <1>a, <1>b, <2>1 DEF GetWithoutUrl, chainVars, workerVars
<1>8. ASSUME NEW seen \in BOOLEAN, Holding, HandleReceiptLoopFailure(seen),
             worker' = "get", UNCHANGED <<chain, recording, pending, finalized, lost>>
      PROVE  LostIsGone'
  <2>1. hand \notin lost /\ hand \in Txs
    BY <1>8
  <2>2. CASE queue' = Append(queue, hand)
    <3>1. \A u : Occurs(queue', u) <=> (u = hand \/ Occurs(queue, u))
      BY <1>8, <1>c, <2>2, AppendOccurs
    <3> QED BY <1>8, <2>1, <3>1
  <2>3. CASE queue' = queue
    BY <1>8, <2>3
  <2> QED BY <1>8, <2>2, <2>3 DEF HandleReceiptLoopFailure
<1>9. CASE ReceiptMissing
  BY <1>8, <1>9 DEF ReceiptMissing, chainVars
<1>10. CASE ReceiptProcessingFails
  BY <1>8, <1>10 DEF ReceiptProcessingFails, chainVars
<1>11. CASE ReceiptFound
  BY <1>11 DEF ReceiptFound, chainVars, trackVars
<1>12. ASSUME NEW alive \in BOOLEAN, FinalizeReceipt(alive) PROVE LostIsGone'
  <2>1. hand \notin lost /\ hand \in Txs /\ worker' \in {"get", "absent"}
    BY <1>12 DEF FinalizeReceipt
  <2> QED BY <1>12, <2>1 DEF FinalizeReceipt, chainVars
<1>13. CASE WorkerDies
  BY <1>13, <1>a, <1>b, <1>c DEF WorkerDies, chainVars, trackVars
<1>14. CASE StopCancels
  BY <1>14 DEF StopCancels, chainVars, trackVars
<1>15. CASE CancelDelivered
  BY <1>15, <1>a, <1>b, <1>c DEF CancelDelivered, chainVars, trackVars
<1>16. CASE StartWorker
  BY <1>16 DEF StartWorker, chainVars, trackVars
<1>17. CASE Restart
  <2>1. \A t : ~Occurs(queue', t)
    BY <1>17, EmptyOccurs DEF Restart
  <2> QED BY <1>17, <1>a, <1>b, <2>1 DEF Restart
<1>18. CASE Midnight
  BY <1>18 DEF Midnight, chainVars, trackVars, workerVars
<1>19. CASE GasBudgetRemaining
  BY <1>19 DEF GasBudgetRemaining, chainVars, trackVars, workerVars
<1>20. CASE UNCHANGED vars
  BY <1>20 DEF vars
<1> QED
  BY <1>1, <1>2, <1>3, <1>4, <1>6, <1>7, <1>9, <1>10, <1>11, <1>12, <1>13, <1>14,
     <1>15, <1>16, <1>17, <1>18, <1>19, <1>20 DEF Next, WorkerStep, FaultStep

(* A step that leaves the places of t alone leaves its outcome alone. *)
LEMMA OutcomeKept ==
  ASSUME NEW t, finalized'[t] = finalized[t], t \in lost' <=> t \in lost,
         t \in pending' <=> t \in pending, rstate'[t] = rstate[t],
         t \in recording' <=> t \in recording
  PROVE  OutcomeOf(t)' = OutcomeOf(t)
  BY DEF OutcomeOf, Parked

(* What the worker has in its queue or in hand is tracked. *)
LEMMA WorkIsTrackedOutcome ==
  ASSUME TypeOK, TrackInv, LostIsGone, NEW t \in Txs, InQueue(t) \/ InHand(t)
  PROVE  OutcomeOf(t) = "tracked" /\ t \in pending /\ t \notin lost /\ finalized[t] = 0
<1>1. t \in pending /\ ~Parked(t) /\ t \notin lost
  BY DEF TrackInv, WorkIsTracked, LostIsGone
<1>2. finalized[t] \in Nat /\ finalized[t] <= 1 /\ finalized[t] # 1
  BY <1>1 DEF TypeOK, TrackInv, FinalizedOnce
<1>3. finalized[t] = 0
  BY <1>2
<1> QED BY <1>1, <1>3 DEF OutcomeOf

(* A transaction that is lost from the worker's reach is dropped. *)
LEMMA LosesTracked ==
  ASSUME TypeOK, TrackInv, LostIsGone, NEW t \in Txs, InQueue(t) \/ InHand(t),
         UNCHANGED <<recording, pending, rstate, finalized>>, lost' = lost \cup {t}
  PROVE  \A u \in Txs : \/ OutcomeOf(u)' = OutcomeOf(u)
                        \/ OutcomeOf(u) = "tracked" /\ OutcomeOf(u)' = "dropped"
<1>1. OutcomeOf(t) = "tracked" /\ finalized[t] = 0
  BY WorkIsTrackedOutcome
<1>2. OutcomeOf(t)' = "dropped"
  BY <1>1 DEF OutcomeOf
<1>3. ASSUME NEW u \in Txs, u # t PROVE OutcomeOf(u)' = OutcomeOf(u)
  BY <1>3, OutcomeKept
<1> QED BY <1>1, <1>2, <1>3

(* A failed attempt parks the transaction or keeps it tracked. *)
LEMMA FailureOutcome ==
  ASSUME TypeOK, TrackInv, LostIsGone, Holding, NEW seen, HandleReceiptLoopFailure(seen),
         UNCHANGED <<recording, pending, finalized, lost>>
  PROVE  \A u \in Txs : \/ OutcomeOf(u)' = OutcomeOf(u)
                        \/ OutcomeOf(u) = "tracked" /\ OutcomeOf(u)' = "parked"
<1>1. hand \in Txs /\ InHand(hand)
  BY DEF TypeOK, InHand
<1>2. /\ OutcomeOf(hand) = "tracked" /\ hand \in pending /\ hand \notin lost
      /\ finalized[hand] = 0
  BY <1>1, WorkIsTrackedOutcome
<1>3. ASSUME NEW u \in Txs, u = hand PROVE OutcomeOf(u)' \in {"tracked", "parked"}
  BY <1>2, <1>3 DEF OutcomeOf
<1>4. ASSUME NEW u \in Txs, u # hand PROVE OutcomeOf(u)' = OutcomeOf(u)
  <2>1. rstate'[u] = rstate[u]
    BY <1>1, <1>4 DEF HandleReceiptLoopFailure, TypeOK
  <2> QED BY <2>1, OutcomeKept
<1> QED BY <1>2, <1>3, <1>4

(* Every step moves every transaction along the abstract moves. *)
LEMMA OutcomeStep ==
  ASSUME TypeOK, TrackInv, LostIsGone, [Next]_vars, NEW u \in Txs
  PROVE  OutcomeOf(u)' = OutcomeOf(u) \/ <<OutcomeOf(u), OutcomeOf(u)'>> \in Outcome!Moves
<1> DEFINE Moved == \/ OutcomeOf(u)' = OutcomeOf(u)
                    \/ <<OutcomeOf(u), OutcomeOf(u)'>> \in Outcome!Moves
<1>a. \A t \in recording : t \notin lost /\ t \notin pending /\ finalized[t] = 0 /\ rstate[t] = "none"
  BY DEF TypeOK, TrackInv, FreshUntilRecorded, LostIsGone
<1>b. \A t \in recording : OutcomeOf(t) = "inflight"
  BY <1>a DEF OutcomeOf, Parked
<1>c. \A t \in Txs : t \in pending => finalized[t] = 0
  <2>1. \A t \in Txs : t \in pending => finalized[t] \in Nat /\ finalized[t] <= 1 /\ finalized[t] # 1
    BY DEF TypeOK, TrackInv, FinalizedOnce
  <2> QED BY <2>1
<1>1. ASSUME NEW t \in Txs, Broadcast(t) PROVE Moved
  <2>1. /\ t \notin recording /\ t \notin pending /\ t \notin lost /\ finalized[t] = 0
        /\ UNCHANGED <<pending, rstate, finalized, lost>> /\ recording' = recording \cup {t}
    BY <1>1 DEF Broadcast, trackVars, TrackInv, FreshUntilRecorded, LostIsGone
  <2>2. CASE u = t
    <3>1. OutcomeOf(u) = "unsent" /\ OutcomeOf(u)' = "inflight"
      BY <2>1, <2>2 DEF OutcomeOf, Parked
    <3> QED BY <3>1 DEF Outcome!Moves
  <2>3. CASE u # t
    BY <2>1, <2>3, OutcomeKept
  <2> QED BY <2>2, <2>3
<1>2. ASSUME NEW t \in Txs, RecordExecution(t) PROVE Moved
  <2>1. /\ t \in recording /\ UNCHANGED <<rstate, finalized>>
        /\ recording' = recording \ {t} /\ pending' = pending \cup {t}
        /\ lost' = lost \/ lost' = lost \cup {t}
    BY <1>2 DEF RecordExecution
  <2>2. CASE u = t
    <3>1. OutcomeOf(u) = "inflight" /\ OutcomeOf(u)' \in {"tracked", "dropped"}
      BY <1>a, <1>b, <2>1, <2>2 DEF OutcomeOf, Parked
    <3> QED BY <3>1 DEF Outcome!Moves
  <2>3. CASE u # t
    BY <2>1, <2>3, OutcomeKept
  <2> QED BY <2>2, <2>3
<1>3. ASSUME NEW t \in Txs, RecordEscapes(t) PROVE Moved
  <2>1. /\ t \in recording /\ UNCHANGED <<pending, rstate, finalized>>
        /\ recording' = recording \ {t} /\ lost' = lost \cup {t}
    BY <1>3 DEF RecordEscapes, trackVars
  <2>2. CASE u = t
    <3>1. OutcomeOf(u) = "inflight" /\ OutcomeOf(u)' = "dropped"
      BY <1>a, <1>b, <2>1, <2>2 DEF OutcomeOf
    <3> QED BY <3>1 DEF Outcome!Moves
  <2>3. CASE u # t
    BY <2>1, <2>3, OutcomeKept
  <2> QED BY <2>2, <2>3
<1>4. ASSUME UNCHANGED <<recording, pending, rstate, finalized, lost>> PROVE Moved
  BY <1>4, OutcomeKept
<1>5. ASSUME NEW t \in Txs, InQueue(t) \/ InHand(t),
             UNCHANGED <<recording, pending, rstate, finalized>>, lost' = lost \cup {t}
      PROVE  Moved
  BY <1>5, LosesTracked DEF Outcome!Moves
<1>6. CASE GetWithoutUrl
  <2>1. queue # <<>> /\ Head(queue) \in Txs /\ InQueue(Head(queue))
    BY <1>6, TailOccurs DEF GetWithoutUrl, TypeOK, TrackInv, NoDuplicateWork, InQueue
  <2> QED BY <1>5, <1>6, <2>1 DEF GetWithoutUrl, chainVars
<1>7. CASE ReceiptMissing
  BY <1>7, FailureOutcome DEF ReceiptMissing, Holding, chainVars, Outcome!Moves
<1>8. CASE ReceiptProcessingFails
  BY <1>8, FailureOutcome DEF ReceiptProcessingFails, Holding, chainVars, Outcome!Moves
<1>9. ASSUME NEW alive \in BOOLEAN, FinalizeReceipt(alive) PROVE Moved
  <2>1. hand \in Txs /\ InHand(hand)
    BY <1>9 DEF FinalizeReceipt, TypeOK, Holding, InHand
  <2>2. OutcomeOf(hand) = "tracked" /\ finalized[hand] = 0
    BY <2>1, WorkIsTrackedOutcome
  <2>3. /\ UNCHANGED <<recording, rstate, lost>> /\ pending' = pending \ {hand}
        /\ finalized' = [finalized EXCEPT ![hand] = finalized[hand] + 1]
    BY <1>9 DEF FinalizeReceipt, chainVars
  <2>4. CASE u = hand
    <3>1. finalized'[u] = 1
      BY <2>1, <2>2, <2>3, <2>4 DEF TypeOK
    <3>2. OutcomeOf(u)' = "settled"
      BY <3>1 DEF OutcomeOf
    <3> QED BY <2>2, <2>4, <3>2 DEF Outcome!Moves
  <2>5. CASE u # hand
    <3>1. finalized'[u] = finalized[u]
      BY <2>1, <2>3, <2>5 DEF TypeOK
    <3> QED BY <2>3, <2>5, <3>1, OutcomeKept
  <2> QED BY <2>4, <2>5
<1>10. CASE WorkerDies
  <2>1. hand \in Txs /\ InHand(hand)
    BY <1>10 DEF WorkerDies, TypeOK, InHand
  <2> QED BY <1>5, <1>10, <2>1 DEF WorkerDies, chainVars, trackVars
<1>11. CASE CancelDelivered
  <2>1. CASE Holding
    <3>1. hand \in Txs /\ InHand(hand)
      BY <2>1 DEF TypeOK, InHand
    <3> QED BY <1>5, <1>11, <2>1, <3>1 DEF CancelDelivered, chainVars, trackVars
  <2>2. CASE ~Holding
    BY <1>4, <1>11, <2>2 DEF CancelDelivered, chainVars, trackVars
  <2> QED BY <2>1, <2>2
<1>12. CASE Restart
  <2>1. /\ lost' = lost \cup recording \cup pending /\ recording' = {} /\ pending' = {}
        /\ finalized' = finalized
    BY <1>12 DEF Restart
  <2>2. CASE u \in recording
    <3>1. OutcomeOf(u) = "inflight" /\ OutcomeOf(u)' = "dropped"
      BY <1>a, <1>b, <2>1, <2>2 DEF OutcomeOf
    <3> QED BY <3>1 DEF Outcome!Moves
  <2>3. CASE u \in pending
    <3>1. OutcomeOf(u) \in {"tracked", "parked", "dropped"} /\ OutcomeOf(u)' = "dropped"
      BY <1>c, <2>1, <2>3 DEF OutcomeOf
    <3> QED BY <3>1 DEF Outcome!Moves
  <2>4. CASE u \notin recording /\ u \notin pending
    BY <2>1, <2>4 DEF OutcomeOf, Parked
  <2> QED BY <2>2, <2>3, <2>4
<1>13. CASE Get \/ ReceiptFound \/ StopCancels \/ StartWorker \/ Midnight \/ GasBudgetRemaining
            \/ UNCHANGED vars \/ \E t \in Txs : Mine(t)
  BY <1>4, <1>13 DEF Get, ReceiptFound, StopCancels, StartWorker, Midnight, GasBudgetRemaining,
                     vars, Mine, chainVars, trackVars
<1> QED
  BY <1>1, <1>2, <1>3, <1>6, <1>7, <1>8, <1>9, <1>10, <1>11, <1>12, <1>13
  DEF Next, WorkerStep, FaultStep

(* The pipeline, with its queue, retries and failures, implements the life *)
(* of a submission that SubmissionOutcome describes: settled is final, and *)
(* only the failures drop a transaction.                                   *)
THEOREM Refinement == Spec => ImplementsOutcome
<1>1. Init => Outcome!Init
  BY DEF Init, Outcome!Init, OutcomeOf, Parked
<1>2. Init => LostIsGone
  BY DEF Init, LostIsGone
<1>3. LostIsGone /\ (TypeOK /\ TrackInv) /\ [Next]_vars => LostIsGone'
  BY LostStep
<1>4. TypeOK /\ TrackInv /\ LostIsGone /\ [Next]_vars =>
         Outcome!Next \/ UNCHANGED [t \in Txs |-> OutcomeOf(t)]
  <2> SUFFICES ASSUME TypeOK, TrackInv, LostIsGone, [Next]_vars PROVE Outcome!Next
    OBVIOUS
  <2>1. [t \in Txs |-> OutcomeOf(t)]' \in [Txs -> Outcome!Outcomes]
    BY DEF OutcomeOf, Outcome!Outcomes
  <2> QED BY <2>1, OutcomeStep DEF Outcome!Next
<1> QED
  BY <1>1, <1>2, <1>3, <1>4, Tracking, PTL DEF Spec, ImplementsOutcome, Outcome!Spec
=============================================================================
