# Sovereign Capital: formal model of the runtime's control and accounting

This directory holds TLA+ specifications of the backend in
`src/backend/victor_ai_bot` and of the executor contract in `src/contracts`, TLC
models that check them on small instances, and TLAPS proofs that hold for every
instance. Paths below are relative to the backend package unless they begin with
`docs/` or `contracts/`.

The program is an asyncio service that looks for arbitrage opportunities,
decides, executes flash-loan trades on chain, waits for their receipts and
settles them in a ledger. Everything runs in one event loop, so two coroutines
interleave exactly at their awaits: an action of a module is the code between
two awaits, or between two durable writes where a crash matters.

## 1. The system and its hard parts

| Component | State | Operations | What makes it hard | Correct means |
|---|---|---|---|---|
| Submission tracking and receipt worker (`runtime_receipt_facade.py`, `execution_service.py`) | `_pending`, `_receipt_q`, retry counts and states, the hash in hand, the daily gas budget | `record_execution`, `_receipt_loop`, `_handle_receipt_loop_failure`, budget reset | bounded queue, late receipts, retries, exceptions that are not contained, cancellation, memory lost at a restart, midnight | counted once, never forgotten without a named failure, resolved in the end |
| Runtime lifecycle (`runtime_lifecycle_facade.py`) and the probe loop of the RPC manager (`rpc_manager.py`) | `_task`, `_receipt_task`, `_stop`, scheduled self-healing; the manager's own task and event | `start`, `stop`, `_runtime_loop_done` | overlapping requests, callbacks in later turns of the event loop, joins with a timeout that cancel what they join | one worker, one loop, a running loop is probed, `stop` stops and returns |
| Automatic trading cycle (`runtime_*_facade.py`, `decision_engine.py`, `execution.py`, `circuit_breaker.py`) | last block, decision, `_exec_task`, throttle, cooldowns, pending count, breaker, settings | tick, decision, dispatch, execution, receipt, settings | values checked before an await and used after it; block numbers that go back | cap, throttle, cooldown, dry run, a trip that sticks |
| Execution modes (`runtime_execute_dispatch_facade.py`, `runtime_execute_wrapper_facade.py`, `execution.py`) | gas mode and send mode of the configuration, forced modes, what the dispatch remembers | set, force, dispatch, execute, restore | four writers of two fields, returns between override and restoration | the operator's modes come back, a private transaction is sent privately |
| Receipt settlement (`receipt_service.py`, `capital_write_service.py`, `bankroll.py`) | database rows and events, three files, memory, `_settled_receipts` | `synchronize_settlement_accounting`, `commit_receipt_settlement`, restart | crash between commit and copies, copies that fail silently, repeated delivery, files read before the database | a receipt settled once, no profit without a row, fails closed |
| Internal prime (`internal_prime/allocator.py`, `inventory.py`) | the book of loans, the collateral stock, state file, inventory file, journal, snapshot | allocate, settle, dispute, roll back, load | four writes per operation, each of which may fail; rollbacks that know only a part; restarts between the writes | every copy of the book balances, collateral is conserved, granted loans are remembered |
| Withdraw everything (`withdraw_all_service.py`, `tx_confirmation.py`) | one JSON file, requests in progress, the chain | configure, preview, execute, refresh | every handler saves the whole file it loaded before its awaits, without a lock | sent as previewed, sent once, reported as it happened |
| Command centre (`command_center_overlay.py`, `command_center_service.py`) | controls in memory and in a file, the audit log and its last hash | patch, the two anomaly breakers, pause after a wipe, restart | changes in memory that are not saved, guards that read raw input, torn appends | a protective pause holds, governance is off only while paused, the log is one chain |
| Executor contract (`contracts/src/VictorArbExecutor.sol`) | allowlists, balances, in-flight context | execute, both callbacks, withdraw, convertAndWithdraw | callbacks of other contracts, venues that report more than they deliver, tokens with a fee | idle funds survive, an execute trades once and again only for callbacks nested in its legs, the lender is repaid |
| OMAR learning (`omar/`, `omar_receipt_facade.py`) | pending decisions (capped at 512), last settlement | register, match with a settled receipt | eviction, stale last settlement | not modelled, see section 6 |
| RPC selection, pool event cache, external withdrawals, kill switch, fund OS | endpoint scores, cached pool states, requests, metrics | | staleness, thresholds | not modelled, see section 6 |
| AQE, superstructure, quoting, route search | numbers | scoring, quoting | floating point and 256 bit arithmetic | out of reach: arbitrary choices in the models |
| HTTP API, mobile application | none of their own | requests | | requests that change modelled state are actions |

How they interact: the lifecycle creates the main loop, the receipt worker and
the probe loop. The main loop's tick asks the decision engine and dispatches an
execution task, which overrides the execution modes while it runs. The task
broadcasts a call of the executor contract and calls `record_execution`, which
fills `_pending` and the receipt queue. The receipt worker pops `_pending`,
settles the gas budget, feeds the circuit breaker and calls the settlement,
which writes the ledger, the bankroll and the internal prime; a settlement that
fails turns automatic trading off and dry run on. The command centre's controls
pause all of this, and a withdrawal of everything ends by pausing it.

## 2. Modules

| Module | Models | Proofs |
|---|---|---|
| `SubmissionOutcome` | the promise about one submission, without queue or worker: an abstract specification | |
| `ReceiptAccount` | the promise about the profit of one receipt, without files or restarts: an abstract specification | |
| `WipeOutcome` | the promise about the previews of a wipe, without requests, files or nonces: an abstract specification | |
| `ReceiptPipeline` | `record_execution`, the receipt worker, retries, gas budget, restart; implements `SubmissionOutcome` | `ReceiptPipeline_proofs`, `Totals_proofs` |
| `RuntimeLifecycle` | `start`, `stop`, self-healing, the main loop, the receipt worker and the probe loop | `Runtime_proofs` |
| `AutoTradeLoop` | tick, decision, dispatch, execution task, breaker, settings | `AutoTradeLoop_proofs` |
| `ExecutionModes` | gas and send mode around one execution | `Runtime_proofs` |
| `Settlement` | the settlement call, its commit, its copies, restart; implements `ReceiptAccount` | `Settlement_proofs` |
| `InternalPrime` | loans and collateral with their four durable copies | `Totals_proofs` |
| `WithdrawAll` | the withdraw-all service, its file, the transactions it sends; implements `WipeOutcome` | `WithdrawAll_proofs` |
| `CommandCentre` | controls, breakers, audit log | `CommandCentre_proofs` |
| `ArbExecutor` | the executor contract and what others may do to it | `ArbExecutor_proofs` |
| `MC*` | instances for TLC | |

How state corresponds to code is said at each VARIABLE; which lines an action
stands for is in `PROJECT.json` under `map`. Variables marked *history* exist
only to state properties. Operators introduced by the word *Mutant* are faulty
versions of the definition that follows them; they are not used by any
specification and show that the properties can fail. Where the environment may
fail, the constant `Faults` (`PrimeFaults` in `InternalPrime`) names the failures
one by one.

### ReceiptPipeline

`Broadcast`, `RecordExecution`, `RecordEscapes` and `Mine` are the execution
coroutine and the chain; `Get`, `GetWithoutUrl`, `ReceiptMissing`,
`ReceiptFound`, `ReceiptProcessingFails`, `FinalizeReceipt` and `WorkerDies` are
the worker; `StopCancels`, `CancelDelivered`, `StartWorker` and `Restart` are
what happens to it. `Midnight` and `GasBudgetRemaining` are the budget day.
The faults are `db_error` (sqlite3.Error is not contained), `lost_answer` (the
node took the transaction and its answer was lost), `no_read_url`, `unsafe` (an
exception that is not contained ends the worker), `cancel`, `crash`.

The constant `RecordExec` says whether the runtime has the method `_record_exec`
that the execution path awaits. No class of the package defines it;
`ExecutionService.record_execution`, whose body is the one that fits, is
called by tests only. The run with `"bound"` is about the pipeline that the
code describes, the run with `"missing"` about the runtime as it is assembled.

### RuntimeLifecycle

`start()` has no await and is one action (`StartBody`, called by an operator or
by the self-healing callback); it also starts the RPC manager, which keeps a
probe loop that is not done even if it was told to stop. `stop()` raises the
flag and the manager's event and joins the probe loop for three seconds, closes
the optional services, cancels the worker and joins the main loop for three
seconds. A join that times out cancels what it joins. A second `stop()` that waits for
the same probe loop is thrown out with it, and so is one that comes later and
finds the task cancelled, until a `start()` replaces it: their flags are up, and
they reach neither worker nor main loop. A task that ends runs its done callback
in a later action.

### AutoTradeLoop

A tick is `PrepareTick`, `Decide`, `AfterTick`; an exception inside it is
`TickFails`. An execution task is `PrepareExecution`, `EnterCore` (where
`try_execute_opportunity` reads `dry_run` and is given `_last_submitted_block`),
`Submit`, `RecordExecution`; `ExecutionEnds` stands for every return before
the submission and `RecordEscapes` for a submission that is not recorded.
`ReceiptFinalized(ok, settles)` is what the receipt worker does to this state.
While paused the dispatch records its refusal and returns; if that record raises,
the exception is swallowed and the execution goes on
(`runtime_execute_dispatch_facade.py:50` to 71), which `RecordMayRaise` allows.
The configuration is the one shipped in two respects: `GLOBAL_AUTO_SELECT` is off
(`runtime_decision_facade.py:272`: a task of the runtime's owner would dispatch
instead) and `max_submit_per_block` is 1 (more, and the portfolio may name a route
that was not marked, `runtime_decision_facade.py:155`; 0, and there is no throttle,
`execution.py:192`).

### ExecutionModes

`Dispatch` is the whole of the dispatch, which has no await: planner, decision
and command centre write the two modes, what was there before the forced modes
is remembered, and the endpoint is taken for the send mode of that moment. It
may return without an execution after the modes were written. `ReadSendMode`,
`PriceGas`, `Submit` and `Finish` are the execution and the wrapper's
restoration. `leaks` collects the four ways in which a mode stays changed.

### Settlement

One call at a time, because the service has no await. `PrepareSettlement`
builds the transaction and the prime's answer; `CommitReceiptSettlement` is the
database transaction; `MirrorLedger`, `MirrorBankroll`, `MirrorPrimeAndReturn`
are the copies, each of which may fail. `Restart` may happen between any two. It
prefers the files, and what it then writes to the bankroll's history has the time
of the state it read, so that an older file does not hide a newer event there.
`cut` names the receipts one of whose copies was not made: what holds for the
others whatever happened to those is the point of `CopiesAgree` and
`LoanStaysSettled`. The treasury's rolling counters are left out.

A settlement without a prime transition still writes a prime snapshot: the
missing one is annotated with the commit's identifiers
(`capital_write_service.py:200`), is then not empty, is appended to the database
(line 424) and adopted by the prime (line 517), which empties its book.
`AfterPrime` has this; it is also why `SettledLoanHasRow` says nothing about
loans that vanish.

### InternalPrime

`BeginOpen`, `BeginSettle` and `BeginDispute` are the decisions of the
allocator; `MoveInventory`, `SaveState`, `WriteJournal` and `RecordSnapshot` are
its four writes, each with the ways it can fail, and `Rollback` what the
allocator undoes then. A database error (`dberror`) in the last two is among the
exceptions of nobody (`allocator.py:400`, 404, 1103, 1208, 1257): it ends the
operation where it is, with book, stock and state file changed. With a capital
writer `Commit` makes journal row and snapshot one transaction and `Adopt` takes
over the book afterwards. `RestartPrime` may happen anywhere and loads the state
file, or the snapshot if it cannot be read. `struck` names the copies that a
failure left behind, `astray` the loans whose journal rows could not follow the
book: the row was lost to a database error, or it stayed when the book was
rolled back. The initial state, the next-state relation and the types of this
module and of `ExecutionModes` carry a prefix (`PrimeInit`, `ModesInit`) because
their proofs are in a module with those of another component.

### WithdrawAll

A request is cut at its awaits: `StartPreview`, `ReadBalance` for each token and
`FinishPreview`; `StartExecute`, `ExecutePlanned`, `ExecuteOwnerProof`, `Send`
for each transaction and `Assess`; `StartState`, `RefreshItem` and
`FinishState`. `Configure` and `RefuseExecute` do not await. A preview counts the
balances it has `seen` and keeps the positive ones in `read`, which become the
items of the plan; a transaction carries the number of the item it sends, so
that "once" is said of an item and not of a token or an amount. A lookup of a
balance that fails reads as 0 and drops the token from the plan
(`withdraw_all_service.py:885`). `AssessEnds` is the end of an execute: it saves
the outcome, records a ledger event and then pauses; a database error of the
ledger event, which `_ledger_event` does not contain, or a crash may end it in
between (`EndsUnpaused`), and `unpaused` remembers the previews of such executes.
Every handler
saves the whole copy of the file it once loaded; `overwritten` records that an
older copy was saved over a newer one, and `disturbed` that the outcome of a
preview was not recorded as it should, by two overlapping executes, a save that
failed or a request that died. `WipeOf` maps a preview to `WipeOutcome`: new, shown,
sending while an execute of it is in progress, over, or unknown once it is
disturbed.

### CommandCentre

`ApplyControls` is one request of the operator: coercion of the patch, the
guards, the save, the change in memory and `set_settings`. `BlockNumberFails`
and `GasSpike` are the anomaly breakers and `Wiped` the pause after a
withdrawal; these three change memory first and do not care whether the save
worked. Records of the audit log are numbered by hash; `AuditAppend` may fail or
leave a line that is cut off, to which the next record is glued.

### ArbExecutor

`Execute`, `Lend`, `EnterCallback`, `CallVenue` and `VenueReturns` for each leg,
`ExecuteOperationEnds` (Aave) or `ReceiveFlashLoanEnds` (Balancer), `AavePulls`
and `ExecuteReturns` are the parts of one transaction between calls of other
contracts; `Revert` undoes all of it. A venue may report more than it delivers, a
token may deliver less than was sent, a lender may call back twice or not at all.
It may also call back while a leg runs (`LendInLeg`): the vault gets control in a
dex-3 leg, and the in-flight context is closed only after the legs, so that the
nested callback is accepted. The callback that runs the leg is then suspended in
`outer`, with its locals and what was owed when it was. Venues whose output the
contract measures as a balance (dex 7) are told apart from those whose report it
believes. Left out: a venue takes exactly the amount of its leg, a curve leg
trades the coins that the leg names (its `aux`, which the contract does not
compare with `tokenIn` and `tokenOut`, could name others), tokens make no calls,
and a callback that reverts fails the transaction.

## 3. Runs

| Run | Checks | Distinct states |
|---|---|---|
| `receipt_faults` | `FinalizedOnce`, `NothingForgotten`, `GasReservation`, the refinement `ImplementsOutcome`, `EveryTrackedResolves` | 868,677 |
| `lifecycle` | `SingleReceiptWorker`, `SingleMainLoop`, `RunningHasReceiptWorker`, `StopStops`, `RunningIsProbed`, `EveryStopReturns` | 1,084,305 |
| `auto_trade` | `PendingOvershootsByOne`, `DryRunStopsSubmissions`, `OneTxPerBlock`, `RouteCooldown`, `TripIsSticky` | 1,204,500 |
| `execution_modes` | `ModesRestored`, `PrivateEndpointUsed` | 409,596 |
| `settlement` | `LedgerOnce`, `CopiesAgree`, `SettledLoanHasRow`, `FailClosed`, `LoanStaysSettled`, the refinement `ImplementsAccount` | 748,896 |
| `prime` | `BooksBalanced`, `CollateralConserved`, `GrantedRemembered`, `JournalReconciles` | 6,952,587 |
| `withdraw` | `SentAsPreviewed`, `CompletedIsMined`, `ConfigurationKept`, `PausedAfterWipe`, `ProofsGrow`, the refinement `ImplementsWipe` | 1,420,358 |
| `withdraw_refresh` | `SubmittedResolves` | 523,035 |
| `command_centre` | `PauseHolds`, `GovernanceOffIsPaused`, `AuditChain` | 344,136 |
| `arb_executor` | `ExecuteSettles`, `IdleFundsKept` | 2,949,480 |
| `record_exec_missing` | violation of `EverySubmissionWatched` | |
| `settlement_lineage` | violation of `VerifiedReceiptSettles` | |

Most properties hold with an exception, and the exception is the point: it is
named by a history variable, so that the run shows that there is no other way to
break the property. `ImplementsWipe` promises nothing of a preview only after
overlapping executes, an unsaved outcome or a request that died;
`SingleMainLoop` only when `start()` runs between the end of a loop and its
callback; `ModesRestored` only through four named leaks; `IdleFundsKept` only
for a token that was delivered short; `ExecuteSettles` counts the callbacks that
came from within a leg; `PausedAfterWipe` only for an execute that ended between
its save and its pause, and after an operator or a restart lifted the pause;
`JournalReconciles` only for the loans in `astray`; `CollateralConserved` only
after an inventory file that could not be saved, where the rollback does not
know that the stock was moved.

Bounds.

* `receipt_faults`: three transactions and a queue of two, so that the queue is
  full while a third hash is in hand or being recorded, which is what the retry
  and the recording have to handle. Retry limit three, as in the code. One
  midnight: a reservation of the old day, one of the new, and receipts of both.
* `lifecycle`: two overlapping `stop()` calls, four main loops and three workers
  ever created: enough for a `stop()` to meet a restart of what another stopped.
* `auto_trade`: three block numbers in any order, two routes, a cap of one, a
  breaker that trips at two failures: a cooling route and a free one, a block
  number that goes back, a decision made beside an execution in flight.
* `execution_modes`: two gas modes, the three send modes, two settings.
* `settlement`: three receipts, two with a loan: a cut settlement, a later one
  that writes its stale state back, and one without a loan. The two loaned
  receipts are interchangeable, so the run uses their symmetry.
* `prime`: three loans of two families, limits that some pairs exceed, one
  failed operation and one restart; the failure and the restart may hit the same
  operation or different ones.
* `withdraw`: two overlapping requests of any kind, a preview of two tokens, two
  transactions, two changes of configuration or environment, every fault. The
  requests are interchangeable. `withdraw_refresh` has one token and no
  symmetry, which would be unsound for liveness.
* `command_centre`: patches of up to two fields, which is what the guards
  compare; two audit records, so that a torn line has a successor.
* `arb_executor`: two interchangeable tokens, routes of up to two legs, a
  measured venue and one that is believed, amounts up to two and a loan of one: a
  leg may bring a loss, the loan back, or a profit. Two nested callbacks, so that
  one may be nested in another or follow it in the same leg. The executor begins
  with at most one of each token. `minOut` and `minProfit` are 0, since a higher
  minimum only makes more transactions revert; one spender is allowed and
  disallowed, and USDC and USDT are unset or the two tokens.

Deadlock is checked where the system cannot stop. Four passing runs do not: in
`withdraw`, `withdraw_refresh`, `prime` and `command_centre` the counters that
bound the run are used up in the end; `record_exec_missing` waits for ever.

Fairness. Liveness assumes weak fairness of the receipt worker as a whole, of
the recording of an execution and of the delivery of a cancellation
(`ReceiptPipeline!Fairness`); of the steps of each main loop, each `stop()` and
the probe loop (`RuntimeLifecycle!Fairness`); and in `WithdrawAll!FairSpec` of
the node that mines what it accepted, of every request and of the screen that
polls the state. The event loop runs every ready coroutine and callback; the
poll of a receipt ends after 180 seconds, the joins of `stop()` after three, and
what `stop()` awaits before has timeouts of its own. About the chain nothing is
assumed in `receipt_faults`: a transaction that is never mined is parked, and no
run claims that a transaction is finalized rather than parked.
`SubmittedResolves` does assume that the node mines, and that saves, lookups and
the process fail finitely often (the bound on faults); without the first a wipe
rightly stays submitted.

### What the violation runs show

* `record_exec_missing`. "Receipt watcher (bounded queue) updates realized PnL
  and bankroll from executor events." (`docs/UPGRADE_PROGRESS.md:76`). Without
  `_record_exec` a broadcast transaction is watched by nobody.
* `settlement_lineage`. The canonical capital writer refuses a verified receipt
  unless `_canonical_settlement_lineage` is set, and the only method that sets
  it is not on the path of the receipt loop: every such settlement fails closed.

## 4. Where documents and code disagree

Besides the two findings above, modelling met these. The properties state what
the code does.

* `docs/ASSUMPTIONS.md:44` lists a "pending-tx cap". The count is read at the
  decision (`runtime_decision_finalize_facade.py:67`) and not again at the
  dispatch, and the execution in flight may record its transaction in between.
  The cap is overshot by one and, as is proved, never by more
  (`PendingOvershootsByOne`).
* "If tripped, stop auto trading until user re-enables."
  (`runtime_after_tick_facade.py:31`). A trip whose cooldown passes before the
  next end of a tick is never seen. `TripIsSticky` says what holds once a tick
  has seen it.
* `docs/API_CONTRACT.md:177` says that the state endpoint "promotes item-level
  proof monotonically". Two overlapping refreshes replace a newer result by an
  older one; `ProofsGrow` holds as long as no older copy is saved.
* `runtime_execute_dispatch_facade.py:36` calls its override of the modes
  temporary. The overrides of the planner and of the decision are not remembered,
  and two returns (lines 149 and 174) leave the forced modes in place.
* Assist mode is described as "autonomous execution off"
  (`command_center_overlay.py:57`, and in the operator summary,
  `operator_summary_service.py:1261`). Choosing it sets `paused` to false, and
  `apply_controls` then calls `set_settings(auto_trading=True)`
  (`command_center_service.py:313`), which
  `test_stage14_command_center_guardrails.py:116` asserts.
* The operator summary shows `paused` as false in assist and auto mode although
  a breaker has paused (`operator_summary_service.py:1179`).
* The guard of the command centre compares the payload before it is coerced, so
  the number 0 and the text "false" pass where `false` is refused, and
  `view_only` with an explicit `paused: false` resumes. `waived` marks this.
* A settlement without a prime transition empties the prime's book (see
  Settlement above).
* "Clear in-flight context as early as possible (defense-in-depth)."
  (`contracts/src/VictorArbExecutor.sol:415` and 462). It is cleared after the
  legs, so a lender that gets control in a leg may call back again, is accepted
  and trades a second time with the same parameters. `IdleFundsKept` holds in
  this case too, and every callback's loan is repaid.
* The pause after a wipe comes after the save of its outcome and after a ledger
  event whose database error is not contained: a wipe may be on file as submitted
  while trading goes on (`PausedAfterWipe` says that this is the only way, but for
  an operator or a restart).
* A database error while the prime writes its journal or its snapshot leaves the
  changed book in place and the caller with an exception: the loan is active
  without its opening row (`JournalReconciles` names these loans).
* The dispatch swallows an exception of the record of its refusal
  (`runtime_execute_dispatch_facade.py:71`), and `_record_exec`, which it calls
  for that, is the method that no class defines: as assembled, this check of the
  pause refuses nothing.
* In the contract's tests, `test_profit_cannot_come_from_preExisting_balance`
  sends an empty route, which `execute` refuses before any balance is looked
  at; `IdleFundsKept` is about the case its name promises. `maxSlippageBps` is
  set by the owner and read by no function.

## 5. Proofs

All are for every value of the constants, from the ASSUME of the component's
module alone, and do not depend on the bounds or the set of faults.

`ReceiptPipeline_proofs`: `TypeCorrect`, `NoDuplicateWorkHolds`,
`WorkIsTrackedHolds`, `FinalizedOnceHolds`, `NothingForgottenHolds` and
`Refinement`. The inductive invariant `TrackInv` is the conjunction of these with
`FreshUntilRecorded`. None is inductive alone: a retry does not duplicate a hash
because the hash in hand is not queued; the pop happens once because what is in
hand is pending, and what was finalized is not; and a newly recorded hash is
below the retry limit because nothing counted it before. Three lemmas say what
`Append` and `Tail` do to the hashes in a queue.
`Refinement` is the theorem that `ReceiptPipeline` implements
`SubmissionOutcome`. It needs one more invariant, `LostIsGone`: a hash that was
given up is in no place from which the worker could still settle it. With it
every action maps to one abstract move of one transaction, a restart to a move
of every open one, and all else to a stutter.

`AutoTradeLoop_proofs`: `TypeCorrect`, `OneInFlightHolds`,
`PendingOvershootsByOneHolds`, `DryRunStopsSubmissionsHolds`, and the action
properties `OneTxPerBlockHolds`, `RouteCooldownHolds` and `TripIsStickyHolds`.
`LoopInv` has a part for each: `CapInv` (a decision leaves room for itself and
for the execution in flight), `ThrottleInv` (the copy of `_last_submitted_block`
is current when it is used), `CooldownInv` (a decision holds the tick, so its
block is the one its route was marked with, and executions of a route lie a
cooldown apart) and `LateInv`. All rest on `OneInFlight`. `TripIsSticky` needs
only `StopInv`: while a trip that was seen stands, automatic trading is off.

`Settlement_proofs`: `TypeCorrect`, `LedgerOnceHolds`, `BankrollNeverAheadHolds`,
`SettledLoanHasRowHolds`, `FailClosedHolds`, `CopiesAgreeHolds`, the action
property `LoanStaysSettledHolds` and `Refinement`. The invariant `AccountInv` is
the conjunction of the three accounting properties with `CallInv`, which ties
the place a call has reached to the rows: a call about to commit has none, a
call writing copies has exactly one, and a call about to copy the ledger has
written no line. Without `CallInv` the commit could add a second row. The proof
also shows that a restart, which may load an older copy, is harmless to
these properties because every copy lags the rows and none leads them.
`CopiesAgreeHolds` and `LoanStaysSettledHolds` follow from two more invariants,
about receipts that are not cut. `AccountCopies` says how much of a receipt is
copied by how far its call is, and that the database's bankroll event is always
complete. `LoanCopies` says that the book in the database is the one the call
will adopt, and that a loan settled in a newer copy is not active in an older
one; the last part is what a restart from the file and the next commit, which
writes the memory back, could otherwise break.
`Refinement` is the theorem that `Settlement` implements `ReceiptAccount`: a
receipt is unsettled, then recorded (its row is committed), then complete (the
ledger file and every state of the bankroll include it), and never goes back. It
is not obvious, since each settlement writes the whole state of the bankroll back
and a restart may load an older file over memory. `BankInv` is what it
needs beyond the accounting: the file is never ahead of memory nor memory of the
database, so that a commit, which writes the state in memory back, adds its own
receipt and takes none out that is in every copy.
The commit maps to `Record` of its receipt; every other step maps to `Complete`
of the receipts whose last copy it made (`NothingLost`), or to a stutter. The
stage "wrong" of a receipt that is counted twice or without its row is excluded
by `LedgerOnce` and `BankrollNeverAhead`; a run that satisfies the refinement
satisfies the latter, which is therefore not checked beside it.

`Runtime_proofs`, of `RuntimeLifecycle`: `TypeCorrect`, `SingleReceiptWorkerHolds`,
`SingleMainLoopHolds`, `StopStopsHolds`, `RunningHasReceiptWorkerHolds` and
`RunningIsProbedHolds`. `LifeInv` strengthens them: `OneLoopInv` counts a loop
whose callback is still due as present, `JoinInv` says that while the flag is up
and the loop lives some `stop()` has yet to join it or is joining it,
`WorkerInv` that a loop without a working receipt task is being joined,
`CancelledInv` that while a cancelled probe loop has not been replaced the `stop()`
whose timeout cancelled it has yet to join the main loop or is joining it, so that
the ones thrown out are not needed for that, and
`ProbeInv` that a `stop()` waiting for the probe loop has told it to stop and
that a probe loop is cancelled only by a join that timed out.

`Runtime_proofs`, of `ExecutionModes`: `ModesTypeCorrect`, `ModesRestoredHolds`
and `PrivateEndpointUsedHolds`. What makes them inductive is what an execution
in progress will put back (`RestoresWanted`, `HasOld`), and that its endpoint is
the one of a send mode that is still current unless the operator intervened
(`EndpointChosen`).

`CommandCentre_proofs`: `PauseHoldsThm`, `GovernanceOffIsPausedThm`,
`AuditChainThm` and `TypeCorrect`. The controls in memory may come back from the
file, so the invariant `IInv` also says that memory and file agree while no
change waits to be saved, and that the file satisfies the governance property
too. For the log, `AInv` adds what the hash in memory may be: the last record a
start would read, or the record of a last line that nobody can read.

`ArbExecutor_proofs`: `ExecuteSettlesThm`, `IdleFundsKeptThm` and `TypeCorrect`.
`ContextInv` counts: while the context is open nothing has traded and every
callback in progress but the first is nested; once it is closed, which the first
of them to end does, trades and callbacks in progress make up the first callback
and the nested ones. `DebtInv` says what is owed at each depth, as the sum of the
suspended callbacks' repayments. `OthersInv` is about the tokens that are not
borrowed: their balance is that before the execute plus what the next leg spends,
and a measured leg, suspended or not, took its first reading above it.
`BorrowedInv` is about the borrowed token: while the first callback's legs run,
or callbacks nested in them, any of it may be spent, and it is that callback's
`preExisting` alone that the profit check afterwards restores.

`WithdrawAll_proofs`: `TypeCorrect`, `SentAsPreviewedCorrect`,
`SentOnceCorrect`, `CompletedIsMinedCorrect`, `PausedAfterWipeCorrect`,
`ConfigurationKeptCorrect`, `ProofsGrowCorrect`, `CoreCorrect` and `Refinement`,
for any number of requests, tokens and previews. Since every handler saves the
whole copy it loaded, an invariant of the file alone is not inductive. `Good` is
a condition that the file and the copy of every request satisfy, so that it does
not matter which is saved last. It may refer only to what moves in one
direction: previews once shown stay as they are, transactions are added and
proven, and only somebody lifts a pause (`Evolves`, with the lemmas
`GoodEvolves` and `CallEvolves`). `CallGood` says what a request has read, sent
and looked up, in terms of its copy. `Core` is both, and gives
`SentAsPreviewed`, `CompletedIsMined` and `PausedAfterWipe`; the last because
`unpaused`, too, only grows, so that a refresh that saves an older copy of a
wipe saves nothing that is not excused already. `ConfigurationKept` and
`ProofsGrow` hold while no older copy was saved over a newer one: `Fresh` says
that until then a request that is not marked stale holds the file as it is.
`SentOnce` needs `Once`: an undisturbed preview has one execute in progress
(`OneExecute`); what was sent of it was sent by that execute, each item at its
own nonce (`SentByCall`); and if none is in progress, the file has its record
unless it holds another preview (`SentRecorded`), so that a second execute is
answered by the record. Saves of older copies, which the run allows, do not
break this: a preview saves a new preview, an execute the record of its own, and
a refresh saves only a copy whose status is submitted, which has the record of
the preview it holds (`Replays`). They are therefore not among the exceptions
that the property names. `Refinement` is the theorem that `WithdrawAll`
implements `WipeOutcome`, an action system over previews: shown, sent item by
item in order, over, never resumed. It rests on `Once` and on `SentAsPreviewed`,
by which the sizes of both levels are the same plan. `NextMoves` sorts the
steps. A step that accepts a transaction is one `SendNext` (`SendWipe`): the
execute that sends is at the nonce after its last item, so that what was sent is
a prefix of the plan (`PrefixSent`), and no other preview changes
(`OtherWipes`). Any other step sends nothing and is, for each preview, a `Show`,
an `End`, a `Forget` or a stutter (`QuietWipe`). The case that is not obvious is
the start of an execute: it must not reopen a preview that is over, which
`SentRecorded` excludes, since the record that `Once` finds in the file makes
the request a replay. A preview of which an item was sent twice would be at a
stage "wrong" that the abstract specification does not have, so the refinement
implies `SentOnce`, which is therefore proved but not checked beside it.

`Totals_proofs`: the proofs that need sums. `MapThenSumSet` is a fold; its
module gives no theorem about it and induction over sets is out of reach, so the
first lemmas characterise it. `Additive` says of a function on the subsets of a
finite set what a sum must satisfy; `AdditiveExists` shows that there is one, by
taking a smallest subset without one (`SmallestSubset`), and `SumIsAdditive`
that the fold agrees with it, in the same way. What the proofs use are
`SumOfNothing`, `SumWithout` and `SumWith`. `GasReservationHolds` needs no more
than `GasInv`, the property with the finiteness of `_pending`, and the types and
`TrackInv` of `ReceiptPipeline_proofs`: an entry is popped with its reservation.
For `InternalPrime` there are `PrimeTypeCorrect`, `BooksBalancedHolds`,
`CollateralConservedHolds`, `GrantedRememberedHolds` and
`JournalReconcilesHolds`. All rest on `CallInv`: the operation in progress was
decided on the book before it (`Sound`), and its place in the code says which of
book, state file and snapshot have the change (`Applied`). On top of it,
`BalanceInv` says that the book a rollback would restore balances too;
`CollateralInv` that stock and reservations add up also in what a rollback would
leave, which is where the flag of the moved stock matters; `RememberInv` that a
granted loan is in every copy a restart may load, even without the loan in hand,
and that nothing was granted before the first snapshot, so that a restart
without any readable state has nothing to forget; and `JournalInv` from which
place on the journal goes with the new book, for every loan that is not in
`astray`. A database error that ends an operation leaves the changed book with
no rollback to come; the other invariants hold because what it leaves is what
the next step of the operation would find. Subtraction in the code is cut off at
zero; `ChangedBalanced` shows that a settlement never meets the cut, so that it
undoes exactly its loan. `MarkerAssumption` says that the markers for an asset
that is not tracked and for a missing file differ from amounts and payloads
(`None` and a missing file do).

Every safety property and action property of the passing runs is proved. Only
model-checked are the liveness properties `EveryTrackedResolves`,
`EveryStopReturns` and `SubmittedResolves`: fairness and ENABLED are beyond this
prover. The two violation runs are statements about counterexamples, which TLC
gives.

## 6. Not modelled, and the plan

* The scores, quarantine and best-endpoint choice of the RPC manager and its
  gas consensus, and the pool event cache. They decide which answer the runtime
  sees; the models take any answer.
* OMAR learning. The runtime observes its decisions without an expected profit
  (`runtime_decision_facade.py:252` and `:266`), so learning rejects each of
  them, and the lineage it matches by is never set: as assembled there is
  nothing to check.
* Withdrawals signed outside the backend and their reconciliation.
* The kill switch: metrics per route against floating-point thresholds. It asks
  for a reset (`reset_required`) and has no operation for one; a suppression
  goes away with an outcome that lowers the metrics.
* `prepare_auto_execution` and the capital admission service, which nothing in
  the package calls; request identifiers of the prime that are used again.
* `GLOBAL_AUTO_SELECT`, the dispatch by the owner of several runtimes, and values
  of `max_submit_per_block` other than 1; neither is shipped.
* Curve legs whose `aux` names other coins than the leg, and venues that take more
  than the leg's amount under the unlimited approval.
* Calldata, gas pricing, simulation, quoting, scoring and learning (arithmetic
  without protocol state), the fund OS (reports composed from numbers), the
  treasury's rolling counters, the HTTP layer and the mobile client.

The map covers about a twentieth of the implementation. Most of the rest is in
the last item: the two largest files, `runtime_primary_scan_facade.py` and
`arb_engine.py`, are one scan that computes candidates and keeps no state
between ticks but caches.

Plan, in order: an abstract specification of the internal prime (a set of loans
that are granted and settled), with a refinement proved as for
`SubmissionOutcome`, `ReceiptAccount` and `WipeOutcome`; endpoint selection and
quarantine beside `RuntimeLifecycle`; external withdrawals.
