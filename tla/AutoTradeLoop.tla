--------------------------- MODULE AutoTradeLoop ---------------------------
(***************************************************************************)
(* The automatic trading cycle: a tick of the main loop takes a block      *)
(* number, asks the decision engine, awaits the post-decision analytics,   *)
(* and dispatches one execution task; the task prepares, calls             *)
(* try_execute_opportunity, submits and records; receipts come back        *)
(* through the receipt worker, feed the circuit breaker and may disable    *)
(* the runtime.  The tick, the execution task, the receipt worker and the  *)
(* operator's requests interleave at their awaits.  What the checks of one *)
(* step (pending transactions, dry run, breaker) are worth at a later step *)
(* is the subject of this module.                                          *)
(*                                                                         *)
(* _record_exec is taken as bound to ExecutionService.record_execution     *)
(* (see ReceiptPipeline.tla for the runtime that has no such method).      *)
(*                                                                         *)
(* Two settings are those the repository ships.  GLOBAL_AUTO_SELECT is     *)
(* off: the runtime dispatches its own trades, not its owner's task.       *)
(* max_submit_per_block is 1: more would let the portfolio name a route    *)
(* that the engine has not marked, and 0 would turn the throttle off.      *)
(***************************************************************************)
EXTENDS Naturals, FiniteSets

CONSTANTS
    Blocks,       \* block numbers the read endpoints may report
    Routes,
    Slots,        \* bound: execution tasks that may exist at once
    NoRoute, NoSlot,
    MaxPending,   \* execution.max_pending_txs
    Cooldown,     \* execution.trade_cooldown_blocks
    RecordMayRaise, \* recording the refusal of a trade while paused may raise
    TripAt        \* the smaller of the breaker's two thresholds: every
                  \* failure it is told of is a revert and counts for both

ASSUME LoopAssumption ==
    /\ Blocks \subseteq Nat \ {0}
    /\ NoRoute \notin Routes
    /\ NoSlot \notin Slots
    /\ MaxPending \in Nat \ {0}
    /\ Cooldown \in Nat \ {0}
    /\ TripAt \in Nat \ {0}
    /\ RecordMayRaise \in BOOLEAN

VARIABLES
    lastBlock,      \* metrics.last_block
    phase,          \* where the tick is: "idle", "scanning", "decided"
    choice,         \* the route of a "trade" decision, or NoRoute
    autoTrading,    \* _auto_trading
    dryRun,         \* cfg.execution.dry_run
    paused,         \* _cc.controls.paused
    cooling,        \* the breaker is tripped and its cooldown has not passed
    streak,         \* its consecutive failures
    exec,           \* exec[s]: the execution task in slot s
    task,           \* _exec_task
    lastTrade,      \* DecisionEngine._last_trade_block_by_route
    lastSubmitted,  \* _last_submitted_block
    pending,        \* len(_pending)
    sentBlock,      \* history: current_block of the latest submission
    sentOnRoute,    \* history: the same, per route
    escaped,        \* history: a submission was not recorded
    late,           \* history: submissions since dry run was turned on
    stopped         \* history: a tick ended with the breaker tripped, and the
                    \* operator has not enabled trading since

loopVars == <<lastBlock, phase, choice>>
controlVars == <<autoTrading, dryRun, paused>>
breakerVars == <<cooling, streak>>
execVars == <<exec, task>>
historyVars == <<sentBlock, sentOnRoute, escaped, late, stopped>>
vars == <<lastBlock, phase, choice, autoTrading, dryRun, paused, cooling, streak,
          exec, task, lastTrade, lastSubmitted, pending, sentBlock, sentOnRoute,
          escaped, late, stopped>>

Idle == [at |-> "free", bn |-> 0, route |-> NoRoute, dry |-> TRUE, seen |-> 0]

Running(s) == exec[s].at # "free"

Init ==
    /\ lastBlock = 0
    /\ phase = "idle"
    /\ choice = NoRoute
    /\ autoTrading \in BOOLEAN
    /\ dryRun \in BOOLEAN
    /\ paused = FALSE
    /\ cooling = FALSE
    /\ streak = 0
    /\ exec = [s \in Slots |-> Idle]
    /\ task = NoSlot
    /\ lastTrade = [r \in Routes |-> 0]
    /\ lastSubmitted = 0
    /\ pending = 0
    /\ sentBlock = 0
    /\ sentOnRoute = [r \in Routes |-> 0]
    /\ escaped = FALSE
    /\ late = 0
    /\ stopped = FALSE

-----------------------------------------------------------------------------
(* The tick.                                                               *)

(* A block number other than the last one starts a tick.  Endpoints differ *)
(* in how far they are, so it may be smaller than the last one.            *)
PrepareTick(b) ==
    /\ phase = "idle"
    /\ b # lastBlock
    /\ lastBlock' = b
    /\ phase' = "scanning"
    /\ UNCHANGED <<choice, controlVars, breakerVars, execVars, lastTrade,
                   lastSubmitted, pending, historyVars>>

(* Repeated failures of block_number(): the error storm pauses the runtime *)
(* and ends automatic trading without a tick.                              *)
RpcErrorStorm ==
    /\ phase = "idle"
    /\ paused' = TRUE
    /\ autoTrading' = FALSE
    /\ UNCHANGED <<loopVars, dryRun, breakerVars, execVars, lastTrade,
                   lastSubmitted, pending, historyVars>>

(* Mutant: off by one. *)
AtMostPendingCap == pending <= MaxPending

BelowPendingCap == pending < MaxPending

(* Mutant: only a second trade in the very same block is refused. *)
NotSameBlock(r) == lastBlock # lastTrade[r]

Cooled(r) == lastBlock >= lastTrade[r] + Cooldown

(* The decision engine picks an executable route that is not cooling down, *)
(* unless too many transactions are pending or trading is off; it marks    *)
(* the route as traded here, whether or not a task follows.                *)
Decide(r) ==
    /\ phase = "scanning"
    /\ IF /\ BelowPendingCap
          /\ autoTrading
          /\ r # NoRoute
          /\ Cooled(r)
         THEN choice' = r /\ lastTrade' = [lastTrade EXCEPT ![r] = lastBlock]
         ELSE choice' = NoRoute /\ UNCHANGED lastTrade
    /\ phase' = "decided"
    /\ UNCHANGED <<lastBlock, controlVars, breakerVars, execVars, lastSubmitted,
                   pending, historyVars>>

(* An exception in the tick is contained: the decision is gone. *)
TickFails ==
    /\ phase \in {"scanning", "decided"}
    /\ choice # NoRoute \/ phase = "scanning"
    /\ choice' = NoRoute
    /\ phase' = "decided"
    /\ UNCHANGED <<lastBlock, controlVars, breakerVars, execVars, lastTrade,
                   lastSubmitted, pending, historyVars>>

(* _maybe_dispatch_auto_trade: what it looks at again after the analytics. *)
CanDispatch ==
    /\ choice # NoRoute
    /\ autoTrading
    /\ ~cooling
    /\ \A s \in Slots : s = task => ~Running(s)

(* Mutant: the breaker only holds trading back while it cools down. *)
StillTradingWhenCool == autoTrading

(* The end of the tick: trading ends if the breaker is tripped             *)
(* at this moment; a trip whose cooldown has passed is not seen.           *)
StillTrading == autoTrading /\ ~cooling

(* The tail of the tick: dispatch if possible (OMAR may still decline),    *)
(* then end automatic trading if the breaker is tripped.                   *)
AfterTick ==
    /\ phase = "decided"
    /\ \/ /\ CanDispatch
          /\ \E s \in Slots : ~Running(s)
          /\ task' = CHOOSE s \in Slots : ~Running(s)
          /\ exec' = [exec EXCEPT ![task'] =
                [at |-> "dispatched", bn |-> lastBlock, route |-> choice,
                 dry |-> TRUE, seen |-> 0]]
       \/ UNCHANGED execVars
    /\ autoTrading' = StillTrading
    /\ stopped' = (stopped \/ cooling)
    /\ phase' = "idle"
    /\ choice' = NoRoute
    /\ UNCHANGED <<lastBlock, dryRun, paused, breakerVars, lastTrade,
                   lastSubmitted, pending, sentBlock, sentOnRoute, escaped, late>>

-----------------------------------------------------------------------------
(* The execution task.                                                     *)

(* Paused, blocked at admission, vetoed by governance or without an        *)
(* endpoint, or aborted anywhere before the submission (an exception, a    *)
(* failed simulation, the throttle).                                       *)
ExecutionEnds(s) ==
    /\ exec[s].at \in {"dispatched", "prepared", "core"}
    /\ exec' = [exec EXCEPT ![s] = Idle]
    /\ UNCHANGED <<loopVars, controlVars, breakerVars, task, lastTrade,
                   lastSubmitted, pending, historyVars>>

(* Not paused, admitted and allowed: the quote is bound next (an await).   *)
(* While paused the refusal is recorded first; an exception of that record *)
(* is swallowed together with the refusal, and the execution goes on.      *)
PrepareExecution(s) ==
    /\ exec[s].at = "dispatched"
    /\ ~paused \/ RecordMayRaise
    /\ exec' = [exec EXCEPT ![s].at = "prepared"]
    /\ UNCHANGED <<loopVars, controlVars, breakerVars, task, lastTrade,
                   lastSubmitted, pending, historyVars>>

(* try_execute_opportunity is entered: it is given _last_submitted_block   *)
(* and reads dry_run once, before its first await.                         *)
EnterCore(s) ==
    /\ exec[s].at = "prepared"
    /\ exec' = [exec EXCEPT ![s].at = "core", ![s].dry = dryRun,
                            ![s].seen = lastSubmitted]
    /\ UNCHANGED <<loopVars, controlVars, breakerVars, task, lastTrade,
                   lastSubmitted, pending, historyVars>>

(* Mutants: dry run is not honoured; the throttle is gone. *)
SubmitsInDryRun(s) == exec[s].seen # exec[s].bn
SubmitsUnthrottled(s) == ~exec[s].dry

(* What try_execute_opportunity holds against a submission. *)
MaySubmit(s) ==
    /\ ~exec[s].dry
    /\ exec[s].seen # exec[s].bn

(* The signed transaction is accepted by the node. *)
Submit(s) ==
    /\ exec[s].at = "core"
    /\ MaySubmit(s)
    /\ exec' = [exec EXCEPT ![s].at = "sent"]
    /\ sentBlock' = exec[s].bn
    /\ sentOnRoute' = [sentOnRoute EXCEPT ![exec[s].route] = exec[s].bn]
    /\ late' = IF dryRun THEN late + 1 ELSE late
    /\ UNCHANGED <<loopVars, controlVars, breakerVars, task, lastTrade,
                   lastSubmitted, pending, escaped, stopped>>

(* handle_post_execute_bookkeeping: the pending entry, then the throttle. *)
RecordExecution(s) ==
    /\ exec[s].at = "sent"
    /\ pending' = pending + 1
    /\ lastSubmitted' = exec[s].bn
    /\ exec' = [exec EXCEPT ![s] = Idle]
    /\ UNCHANGED <<loopVars, controlVars, breakerVars, task, lastTrade, historyVars>>

(* A database error leaves record_execution, or the node's answer to       *)
(* send_raw_tx was lost and the result is "send_failed": neither is        *)
(* updated.                                                                *)
RecordEscapes(s) ==
    /\ exec[s].at = "sent"
    /\ exec' = [exec EXCEPT ![s] = Idle]
    /\ escaped' = TRUE
    /\ UNCHANGED <<loopVars, controlVars, breakerVars, task, lastTrade,
                   lastSubmitted, pending, sentBlock, sentOnRoute, late, stopped>>

-----------------------------------------------------------------------------
(* The receipt worker, the breaker's clock and the operator.               *)

(* A receipt is finalized: the pop, CircuitBreaker.record_result, then the *)
(* settlement of Settlement.tla, which disables the runtime when it fails. *)
(* The streak stays when the breaker trips, so the next failure trips it   *)
(* again.                                                                  *)
ReceiptFinalized(ok, settles) ==
    /\ pending > 0
    /\ pending' = pending - 1
    /\ LET n == IF ok THEN 0 ELSE streak + 1 IN
         /\ streak' = IF n > TripAt THEN TripAt ELSE n   \* bound: only >= TripAt matters
         /\ cooling' = (cooling \/ n >= TripAt)
    /\ autoTrading' = (autoTrading /\ settles)
    /\ dryRun' = (dryRun \/ ~settles)
    /\ late' = IF settles \/ dryRun THEN late ELSE 0
    /\ UNCHANGED <<loopVars, paused, execVars, lastTrade, lastSubmitted,
                   sentBlock, sentOnRoute, escaped, stopped>>

(* cooldown_s seconds have passed since the last trip. *)
CooldownPasses ==
    /\ cooling
    /\ cooling' = FALSE
    /\ UNCHANGED <<loopVars, controlVars, streak, execVars, lastTrade,
                   lastSubmitted, pending, historyVars>>

(* POST /api/settings: the operator turns trading and dry run on or off.   *)
SetSettings(auto, dry) ==
    /\ <<auto, dry>> # <<autoTrading, dryRun>>
    /\ autoTrading' = auto
    /\ dryRun' = dry
    /\ late' = IF dry = dryRun THEN late ELSE 0
    /\ stopped' = IF auto THEN FALSE ELSE stopped
    /\ UNCHANGED <<loopVars, paused, breakerVars, execVars, lastTrade,
                   lastSubmitted, pending, sentBlock, sentOnRoute, escaped>>

(* The operator pauses or resumes in the command centre. *)
SetPaused ==
    /\ paused' = ~paused
    /\ UNCHANGED <<loopVars, autoTrading, dryRun, breakerVars, execVars, lastTrade,
                   lastSubmitted, pending, historyVars>>

-----------------------------------------------------------------------------
Next ==
    \/ \E b \in Blocks : PrepareTick(b)
    \/ RpcErrorStorm
    \/ \E r \in Routes \cup {NoRoute} : Decide(r)
    \/ TickFails
    \/ AfterTick
    \/ \E s \in Slots :
          \/ ExecutionEnds(s) \/ PrepareExecution(s) \/ EnterCore(s)
          \/ Submit(s) \/ RecordExecution(s) \/ RecordEscapes(s)
    \/ \E ok, settles \in BOOLEAN : ReceiptFinalized(ok, settles)
    \/ CooldownPasses
    \/ \E auto, dry \in BOOLEAN : SetSettings(auto, dry)
    \/ SetPaused

Spec == Init /\ [][Next]_vars

-----------------------------------------------------------------------------
ExecStates ==
    [at : {"free", "dispatched", "prepared", "core", "sent"}, bn : Nat,
     route : Routes \cup {NoRoute}, dry : BOOLEAN, seen : Nat]

TypeOK ==
    /\ lastBlock \in Nat
    /\ phase \in {"idle", "scanning", "decided"}
    /\ choice \in Routes \cup {NoRoute}
    /\ autoTrading \in BOOLEAN /\ dryRun \in BOOLEAN /\ paused \in BOOLEAN
    /\ cooling \in BOOLEAN
    /\ streak \in 0..TripAt
    /\ exec \in [Slots -> ExecStates]
    /\ \A s \in Slots : Running(s) => exec[s].route \in Routes
    /\ task \in Slots \cup {NoSlot}
    /\ lastTrade \in [Routes -> Nat]
    /\ lastSubmitted \in Nat
    /\ pending \in Nat
    /\ sentBlock \in Nat
    /\ sentOnRoute \in [Routes -> Nat]
    /\ escaped \in BOOLEAN
    /\ late \in Nat
    /\ stopped \in BOOLEAN

(* "one in-flight execution task at a time" (docs/ASSUMPTIONS.md): only    *)
(* the task that _exec_task refers to can be running.                      *)
OneInFlight == \A s \in Slots : Running(s) => s = task

(* The pending-transaction cap is overshot by at most one.  The decision   *)
(* reads len(_pending) and the dispatch comes after an await; in between   *)
(* the execution then in flight may record its transaction, but no other   *)
(* one can start.                                                          *)
PendingOvershootsByOne == pending <= MaxPending + 1

(* try_execute_opportunity's "Enforce 1 tx per block": two submissions in  *)
(* a row never carry the same block number, unless an exception kept the   *)
(* first one from being recorded.                                          *)
OneTxPerBlock ==
    [][\A s \in Slots : exec[s].at = "core" /\ exec'[s].at = "sent" =>
          exec[s].bn # sentBlock \/ escaped]_vars

(* Two submissions on one route are at least Cooldown blocks apart, also   *)
(* when endpoints lag and block numbers go back, and although the block is *)
(* taken at the decision and the submission comes several awaits later.    *)
RouteCooldown ==
    [][\A s \in Slots : exec[s].at = "core" /\ exec'[s].at = "sent" =>
          LET before == sentOnRoute[exec[s].route]
          IN  before = 0 \/ exec[s].bn >= before + Cooldown]_vars

(* Once dry run is on, turned on by a settlement that failed or by the     *)
(* operator, at most one more transaction is submitted until it is off     *)
(* again: the execution that had read dry_run before is not stopped, and   *)
(* no other can be that far.                                               *)
DryRunStopsSubmissions == late <= 1

(* Once the end of a tick has found the breaker tripped, nothing is        *)
(* dispatched until the operator enables trading again: neither the        *)
(* cooldown nor a successful receipt does.  (A trip whose cooldown passes  *)
(* before a tick ends is never found, whatever the comment in              *)
(* runtime_after_tick_facade.py says.)                                     *)
TripIsSticky ==
    [][\A s \in Slots : ~Running(s) /\ exec'[s].at = "dispatched" => ~stopped]_vars
=============================================================================
