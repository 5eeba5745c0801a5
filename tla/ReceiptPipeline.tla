--------------------------- MODULE ReceiptPipeline ---------------------------
(***************************************************************************)
(* The life of a submitted transaction inside the runtime: the execution   *)
(* coroutine records it (ExecutionService.record_execution), the single    *)
(* receipt worker (RuntimeReceiptFacade._receipt_loop) takes its hash off  *)
(* a bounded queue, waits for the receipt, writes it to the PnL store,     *)
(* removes it from _pending and settles the daily gas budget.  Retries,    *)
(* the retry limit, the full queue, the exceptions that end the worker,    *)
(* its cancellation by stop(), the day change of the gas budget and the    *)
(* loss of the process memory are all here.                                *)
(*                                                                         *)
(* Two coroutines of one event loop interleave at their awaits, so an      *)
(* action is the code between two awaits.  RuntimeLifecycle.tla models who *)
(* creates and cancels the worker; here it may be created whenever it is   *)
(* absent and cancelled whenever it is there.                              *)
(***************************************************************************)
EXTENDS Naturals, Sequences, FiniteSets, FiniteSetsExt

CONSTANTS
    Txs,          \* the transaction hashes that may be broadcast
    NoTx,         \* no hash in the worker's hand
    QCap,         \* maxsize of _receipt_q (VICTOR_RECEIPT_QUEUE_MAX, 20)
    RetryLimit,   \* _RECEIPT_RETRY_LIMIT
    GasEst,       \* GasEst[t]: the reservation made when t is recorded
    GasReal,      \* GasReal[t]: realized_gas_cost_wei of t's receipt
    MaxDay,       \* bound: the number of midnights a run may see
    RecordExec,   \* whether the runtime has the method _record_exec that the
                  \* execution path calls ("bound"), or not ("missing")
    Faults        \* which failures the environment may inject

ASSUME PipelineAssumption ==
    /\ NoTx \notin Txs
    /\ QCap \in Nat \ {0}
    /\ RetryLimit \in Nat \ {0}
    /\ MaxDay \in Nat
    /\ RecordExec \in {"bound", "missing"}
    /\ GasEst \in [Txs -> Nat]
    /\ GasReal \in [Txs -> Nat]
    /\ Faults \subseteq {"crash", "cancel", "no_read_url", "db_error", "lost_answer", "unsafe"}

VARIABLES
    chain,        \* chain[t]: the transaction as the network sees it
    recording,    \* submitted, record_execution is awaiting pnl.add_trade
    pending,      \* DOMAIN _pending
    retry,        \* _pending[t]["_receipt_retry_count"]
    rstate,       \* _pending[t]["_receipt_retry_state"]
    queue,        \* _receipt_q
    worker,       \* where the receipt task is suspended; "absent" if done
    hand,         \* tx_hash of the worker
    cancelled,    \* _receipt_task.cancel() was called, not delivered yet
    pendingGas,   \* _pending_gas_est_wei
    spent,        \* _gas_spent_today_wei
    clockDay,     \* today, in UTC
    budgetDay,    \* _budget_day
    finalized,    \* history: how often t was popped from _pending
    lost,         \* history: hashes given up outside the retry protocol
    carried,      \* history: pending when the budget day was last reset
    drained       \* history: a carried one was finalized since that reset

chainVars == <<chain, recording>>
trackVars == <<pending, retry, rstate, queue>>
workerVars == <<worker, hand, cancelled>>
gasVars == <<pendingGas, spent, budgetDay, carried, drained>>
vars == <<chain, recording, pending, retry, rstate, queue, worker, hand,
          cancelled, pendingGas, spent, clockDay, budgetDay, finalized, lost,
          carried, drained>>

RetryStates == {"none", "retrying", "retry_exhausted", "awaiting_manual_recovery"}

(* _pending[t]["_receipt_retry_exhausted"]: set with these two states only. *)
Parked(t) ==
    /\ t \in pending
    /\ rstate[t] \in {"retry_exhausted", "awaiting_manual_recovery"}

Occurs(q, t) == \E i \in 1..Len(q) : q[i] = t
Distinct(q) == \A i, j \in 1..Len(q) : q[i] = q[j] => i = j

InQueue(t) == Occurs(queue, t)

(* The worker holds a hash from the get() to the end of the iteration. *)
Holding == worker \in {"wait", "pnl"}

InHand(t) == Holding /\ hand = t

Init ==
    /\ chain = [t \in Txs |-> "unsent"]
    /\ recording = {}
    /\ pending = {}
    /\ retry = [t \in Txs |-> 0]
    /\ rstate = [t \in Txs |-> "none"]
    /\ queue = <<>>
    /\ worker = "get"
    /\ hand = NoTx
    /\ cancelled = FALSE
    /\ pendingGas = 0
    /\ spent = 0
    /\ clockDay = 0
    /\ budgetDay = 0
    /\ finalized = [t \in Txs |-> 0]
    /\ lost = {}
    /\ carried = {}
    /\ drained = FALSE

-----------------------------------------------------------------------------
(* The execution coroutine and the network.                                *)

(* A signed transaction is accepted by the node; record_execution runs up  *)
(* to its await of pnl.add_trade.                                          *)
Broadcast(t) ==
    /\ chain[t] = "unsent"
    /\ chain' = [chain EXCEPT ![t] = "sent"]
    /\ recording' = recording \cup {t}
    /\ UNCHANGED <<trackVars, workerVars, gasVars, clockDay, finalized, lost>>

(* put_nowait succeeds; it raises QueueFull otherwise. *)
HasRoom == Len(queue) < QCap

(* add_trade returned, or failed with an exception the code contains: the  *)
(* entry, the gas reservation and the queue slot follow without an await.  *)
(* A full queue is swallowed: the entry stays and nobody will look at it.  *)
RecordExecution(t) ==
    /\ RecordExec = "bound"
    /\ t \in recording
    /\ recording' = recording \ {t}
    /\ pending' = pending \cup {t}
    /\ pendingGas' = pendingGas + GasEst[t]
    /\ IF HasRoom
         THEN queue' = Append(queue, t) /\ UNCHANGED lost
         ELSE lost' = lost \cup {t} /\ UNCHANGED queue
    /\ UNCHANGED <<chain, retry, rstate, workerVars, spent, budgetDay, carried,
                   drained, clockDay, finalized>>

(* The transaction is out and is entered nowhere.  sqlite3.Error is not    *)
(* among the contained exceptions of record_execution; when the answer to  *)
(* send_raw_tx is lost, the result is "send_failed" and record_execution   *)
(* makes no entry; on a runtime without _record_exec the call itself       *)
(* raises AttributeError.                                                  *)
RecordEscapes(t) ==
    /\ RecordExec = "missing" \/ Faults \cap {"db_error", "lost_answer"} # {}
    /\ t \in recording
    /\ recording' = recording \ {t}
    /\ lost' = lost \cup {t}
    /\ UNCHANGED <<chain, trackVars, workerVars, gasVars, clockDay, finalized>>

(* The network includes the transaction in a block. *)
Mine(t) ==
    /\ chain[t] = "sent"
    /\ chain' = [chain EXCEPT ![t] = "mined"]
    /\ UNCHANGED <<recording, trackVars, workerVars, gasVars, clockDay,
                   finalized, lost>>

-----------------------------------------------------------------------------
(* The receipt worker.                                                     *)

(* Mutant: the hash is looked at and stays in the queue. *)
GetPeeks ==
    /\ worker = "get" /\ ~cancelled
    /\ queue # <<>>
    /\ hand' = Head(queue)
    /\ worker' = "wait"
    /\ UNCHANGED <<chainVars, trackVars, cancelled, gasVars, clockDay, finalized, lost>>

(* get() returned and an endpoint is available: poll for the receipt.      *)
Get ==
    /\ worker = "get" /\ ~cancelled
    /\ queue # <<>>
    /\ hand' = Head(queue)
    /\ queue' = Tail(queue)
    /\ worker' = "wait"
    /\ UNCHANGED <<chainVars, pending, retry, rstate, cancelled, gasVars,
                   clockDay, finalized, lost>>

(* best_read() is empty: the loop continues without putting the hash back. *)
GetWithoutUrl ==
    /\ "no_read_url" \in Faults
    /\ worker = "get" /\ ~cancelled
    /\ queue # <<>>
    /\ queue' = Tail(queue)
    /\ lost' = lost \cup {Head(queue)}
    /\ UNCHANGED <<chainVars, pending, retry, rstate, workerVars, gasVars,
                   clockDay, finalized>>

(* Mutant: a failed attempt is not counted. *)
AttemptsNotCounted == retry[hand]

(* The attempts made, this one included. *)
Attempts == retry[hand] + 1

ShouldRetry(receiptSeen) == ~receiptSeen /\ Attempts < RetryLimit

ParkedAs(receiptSeen) ==
    IF receiptSeen THEN "awaiting_manual_recovery" ELSE "retry_exhausted"

(* Mutant: no return after a successful put_nowait. *)
FailureFallsThrough(receiptSeen) ==
    /\ retry' = [retry EXCEPT ![hand] = Attempts]
    /\ queue' = IF ShouldRetry(receiptSeen) /\ HasRoom THEN Append(queue, hand) ELSE queue
    /\ rstate' = [rstate EXCEPT ![hand] = ParkedAs(receiptSeen)]

(* Mutant: QueueFull is swallowed and the entry is left "retrying". *)
FailureIgnoresQueueFull(receiptSeen) ==
    /\ retry' = [retry EXCEPT ![hand] = Attempts]
    /\ queue' = IF ShouldRetry(receiptSeen) /\ HasRoom THEN Append(queue, hand) ELSE queue
    /\ rstate' = [rstate EXCEPT ![hand] =
          IF ShouldRetry(receiptSeen) THEN "retrying" ELSE ParkedAs(receiptSeen)]

(* _handle_receipt_loop_failure before the pop: count the attempt, put the *)
(* hash back if no receipt was seen, attempts remain and there is room,    *)
(* and park the entry otherwise.                                           *)
HandleReceiptLoopFailure(receiptSeen) ==
    /\ retry' = [retry EXCEPT ![hand] = Attempts]
    /\ IF ShouldRetry(receiptSeen) /\ HasRoom
         THEN /\ queue' = Append(queue, hand)
              /\ rstate' = [rstate EXCEPT ![hand] = "retrying"]
         ELSE /\ rstate' = [rstate EXCEPT ![hand] = ParkedAs(receiptSeen)]
              /\ UNCHANGED queue

(* 180 seconds without a receipt, or a contained exception while polling.  *)
(* A mined transaction may still be missed: the endpoint can lag.          *)
ReceiptMissing ==
    /\ worker = "wait" /\ ~cancelled
    /\ HandleReceiptLoopFailure(FALSE)
    /\ worker' = "get"
    /\ hand' = NoTx
    /\ UNCHANGED <<chainVars, pending, cancelled, gasVars, clockDay, finalized,
                   lost>>

(* The receipt is there; pricing and _pnl.update_receipt are awaited next. *)
ReceiptFound ==
    /\ worker = "wait" /\ ~cancelled
    /\ chain[hand] = "mined"
    /\ worker' = "pnl"
    /\ UNCHANGED <<chainVars, trackVars, hand, cancelled, gasVars, clockDay,
                   finalized, lost>>

(* A contained exception after the receipt was seen and before the pop.    *)
ReceiptProcessingFails ==
    /\ worker = "pnl" /\ ~cancelled
    /\ HandleReceiptLoopFailure(TRUE)
    /\ worker' = "get"
    /\ hand' = NoTx
    /\ UNCHANGED <<chainVars, pending, cancelled, gasVars, clockDay, finalized,
                   lost>>

(* Mutant: the reservation survives the day change. *)
ResetKeepsReservation ==
    IF budgetDay # clockDay
    THEN [gas |-> pendingGas, spent |-> 0, carried |-> pending, drained |-> FALSE]
    ELSE [gas |-> pendingGas, spent |-> spent, carried |-> carried,
          drained |-> drained]

(* _reset_budget_day_if_needed, as the first part of a larger step that    *)
(* goes on with the values it leaves: <<pendingGas, spent, carried,        *)
(* drained>> before the rest of the step.                                  *)
AfterBudgetReset ==
    IF budgetDay # clockDay
    THEN [gas |-> 0, spent |-> 0, carried |-> pending, drained |-> FALSE]
    ELSE [gas |-> pendingGas, spent |-> spent, carried |-> carried,
          drained |-> drained]

Minus(a, b) == IF a > b THEN a - b ELSE 0

(* update_receipt returned.  Everything from the pop to the end of the     *)
(* iteration runs without an await: pop, update_realized_gas_budget, then  *)
(* the outcome recording and the settlement of Settlement.tla.  "alive"    *)
(* says whether the worker survives it; an exception that is not contained *)
(* ends the task after the pop.                                            *)
FinalizeReceipt(alive) ==
    /\ worker = "pnl" /\ ~cancelled
    /\ alive \/ "unsafe" \in Faults
    /\ LET b == AfterBudgetReset IN
         /\ pendingGas' = Minus(b.gas, GasEst[hand])
         /\ spent' = b.spent + GasReal[hand]
         /\ carried' = b.carried \ {hand}
         /\ drained' = (b.drained \/ hand \in b.carried)
    /\ budgetDay' = clockDay
    /\ pending' = pending \ {hand}
    /\ finalized' = [finalized EXCEPT ![hand] = @ + 1]
    /\ worker' = IF alive THEN "get" ELSE "absent"
    /\ hand' = NoTx
    /\ UNCHANGED <<chainVars, retry, rstate, queue, cancelled, clockDay, lost>>

(* An exception that is not contained (sqlite3.Error from update_receipt,  *)
(* a KeyError, an OSError) ends the task and takes the hash with it.       *)
WorkerDies ==
    /\ "unsafe" \in Faults
    /\ Holding /\ ~cancelled
    /\ worker' = "absent"
    /\ hand' = NoTx
    /\ lost' = lost \cup {hand}
    /\ UNCHANGED <<chainVars, trackVars, cancelled, gasVars, clockDay, finalized>>

-----------------------------------------------------------------------------
(* stop(), start() and the process.                                        *)

(* stop() calls _receipt_task.cancel(). *)
StopCancels ==
    /\ "cancel" \in Faults
    /\ worker # "absent" /\ ~cancelled
    /\ cancelled' = TRUE
    /\ UNCHANGED <<chainVars, trackVars, worker, hand, gasVars, clockDay,
                   finalized, lost>>

(* CancelledError reaches the await the task is suspended in.  In get() no *)
(* hash has been taken; later the hash in hand is not put back.            *)
CancelDelivered ==
    /\ cancelled
    /\ worker' = "absent"
    /\ hand' = NoTx
    /\ cancelled' = FALSE
    /\ lost' = IF Holding THEN lost \cup {hand} ELSE lost
    /\ UNCHANGED <<chainVars, trackVars, gasVars, clockDay, finalized>>

(* start() creates the task again once the old one is done. *)
StartWorker ==
    /\ worker = "absent"
    /\ worker' = "get"
    /\ UNCHANGED <<chainVars, trackVars, hand, cancelled, gasVars, clockDay,
                   finalized, lost>>

(* The process ends, or presets are applied and a new RuntimeBundle takes  *)
(* the place of this one: _pending, the queue and the gas counters start   *)
(* empty, and the coroutines are gone.                                     *)
Restart ==
    /\ "crash" \in Faults
    /\ lost' = lost \cup recording \cup pending
    /\ recording' = {}
    /\ pending' = {}
    /\ retry' = [t \in Txs |-> 0]
    /\ rstate' = [t \in Txs |-> "none"]
    /\ queue' = <<>>
    /\ worker' = "get"
    /\ hand' = NoTx
    /\ cancelled' = FALSE
    /\ pendingGas' = 0
    /\ spent' = 0
    /\ budgetDay' = clockDay
    /\ carried' = {}
    /\ drained' = FALSE
    /\ UNCHANGED <<chain, clockDay, finalized>>

-----------------------------------------------------------------------------
(* The daily gas budget.                                                   *)

Midnight ==
    /\ clockDay < MaxDay
    /\ clockDay' = clockDay + 1
    /\ UNCHANGED <<chainVars, trackVars, workerVars, gasVars, finalized, lost>>

(* A tick asks for the remaining budget on a new day. *)
GasBudgetRemaining ==
    /\ budgetDay # clockDay
    /\ LET b == AfterBudgetReset IN
         /\ pendingGas' = b.gas
         /\ spent' = b.spent
         /\ carried' = b.carried
         /\ drained' = b.drained
    /\ budgetDay' = clockDay
    /\ UNCHANGED <<chainVars, trackVars, workerVars, clockDay, finalized, lost>>

-----------------------------------------------------------------------------
WorkerStep ==
    \/ Get
    \/ ReceiptMissing
    \/ ReceiptFound
    \/ ReceiptProcessingFails
    \/ FinalizeReceipt(TRUE)

FaultStep ==
    \/ GetWithoutUrl
    \/ FinalizeReceipt(FALSE)
    \/ WorkerDies
    \/ StopCancels
    \/ Restart

Next ==
    \/ \E t \in Txs :
          Broadcast(t) \/ RecordExecution(t) \/ RecordEscapes(t) \/ Mine(t)
    \/ WorkerStep
    \/ FaultStep
    \/ CancelDelivered
    \/ StartWorker
    \/ Midnight
    \/ GasBudgetRemaining

Spec == Init /\ [][Next]_vars

(* The event loop runs every ready coroutine, the poll of a receipt is     *)
(* bounded by its 180 second timeout, and add_trade returns.               *)
Fairness ==
    /\ WF_vars(WorkerStep)
    /\ WF_vars(CancelDelivered)
    /\ \A t \in Txs : WF_vars(RecordExecution(t))

FairSpec == Spec /\ Fairness

-----------------------------------------------------------------------------
(* Every variable has its type. *)
TypeOK ==
    /\ chain \in [Txs -> {"unsent", "sent", "mined"}]
    /\ recording \subseteq Txs
    /\ pending \subseteq Txs
    /\ retry \in [Txs -> Nat]
    /\ rstate \in [Txs -> RetryStates]
    /\ queue \in Seq(Txs)
    /\ worker \in {"absent", "get", "wait", "pnl"}
    /\ hand \in Txs \cup {NoTx}
    /\ Holding => hand \in Txs
    /\ cancelled \in BOOLEAN
    /\ cancelled => worker # "absent"
    /\ pendingGas \in Nat
    /\ spent \in Nat
    /\ clockDay \in Nat
    /\ budgetDay \in Nat
    /\ finalized \in [Txs -> Nat]
    /\ lost \subseteq Txs
    /\ carried \subseteq pending
    /\ drained \in BOOLEAN

(* A hash is in at most one place: the queue has no duplicates and does    *)
(* not hold the hash the worker has.  Duplicates would poll and finalize a *)
(* receipt twice.                                                          *)
NoDuplicateWork ==
    /\ Distinct(queue)
    /\ Holding => ~InQueue(hand)

(* Whatever the worker will look at is still in _pending and has not been  *)
(* parked, and its retry count is below the limit; so the pop always finds *)
(* the entry with its gas reservation.                                     *)
WorkIsTracked ==
    \A t \in Txs : InQueue(t) \/ InHand(t) =>
        /\ t \in pending
        /\ ~Parked(t)
        /\ retry[t] < RetryLimit

(* A transaction is finalized at most once, and once finalized it is never *)
(* pending again: profit, gas and settlement are not counted twice.        *)
FinalizedOnce ==
    \A t \in Txs :
        /\ finalized[t] <= 1
        /\ finalized[t] = 1 => t \notin pending

(* An entry of _pending is queued, in hand or parked, unless one of the    *)
(* named failures lost it: nothing else makes the worker forget a          *)
(* transaction.                                                            *)
NothingForgotten ==
    \A t \in pending : InQueue(t) \/ InHand(t) \/ Parked(t) \/ t \in lost

(* Before its execution is recorded a transaction has left no trace, so it *)
(* starts with a full budget of retries, and recording comes after sending. *)
FreshUntilRecorded ==
    /\ \A t \in recording : chain[t] # "unsent"
    /\ \A t \in Txs : (chain[t] = "unsent" \/ t \in recording) =>
          /\ t \notin pending
          /\ finalized[t] = 0
          /\ retry[t] = 0
          /\ rstate[t] = "none"

Reserved(S) == MapThenSumSet(LAMBDA t : GasEst[t], S)

(* The gas reservation never exceeds the estimates of the transactions     *)
(* recorded since the budget day began and still open, and it is exactly   *)
(* their sum as long as no transaction of an earlier day was finalized     *)
(* today: such a receipt subtracts an estimate that the reset had already  *)
(* cleared.                                                                *)
GasReservation ==
    /\ pendingGas <= Reserved(pending \ carried)
    /\ ~drained => pendingGas = Reserved(pending \ carried)

(* "Receipt watcher (bounded queue) updates realized PnL and bankroll from *)
(* executor events" (docs/UPGRADE_PROGRESS.md): a transaction that was     *)
(* broadcast is being recorded, is watched, or has been finalized.         *)
EverySubmissionWatched ==
    \A t \in Txs : chain[t] # "unsent" =>
        t \in recording \/ t \in pending \/ finalized[t] > 0

(* Every recorded transaction is finalized or parked in the end, unless a  *)
(* named failure loses it or the worker ends first: retries, late receipts *)
(* and a queue at its limit never leave one waiting for ever, and a worker *)
(* that start() creates again goes on with what is queued.                 *)
EveryTrackedResolves ==
    \A t \in Txs : t \in pending ~>
        (finalized[t] = 1 \/ Parked(t) \/ t \in lost \/ worker = "absent")

(* The outcome of a transaction, as the abstract specification has it. *)
OutcomeOf(t) ==
    IF finalized[t] > 0 THEN "settled"
    ELSE IF t \in lost THEN "dropped"
    ELSE IF Parked(t) THEN "parked"
    ELSE IF t \in pending THEN "tracked"
    ELSE IF t \in recording THEN "inflight"
    ELSE "unsent"

Outcome == INSTANCE SubmissionOutcome WITH outcome <- [t \in Txs |-> OutcomeOf(t)]

(* The queue, the worker, the retries and the failures implement the life  *)
(* of a submission that SubmissionOutcome describes.                       *)
ImplementsOutcome == Outcome!Spec
=============================================================================
