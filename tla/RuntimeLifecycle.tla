-------------------------- MODULE RuntimeLifecycle --------------------------
(***************************************************************************)
(* start(), stop() and the self-healing callback of the runtime            *)
(* (RuntimeLifecycleFacade), with the main loop task and the receipt       *)
(* worker task they create, and start() and stop() of the RPC manager      *)
(* (RpcManager) with its probe loop, which they call.  start() runs        *)
(* without an await.  stop() has three parts: it raises the stop flag and  *)
(* the manager's own, and joins the probe loop for three seconds; it stops *)
(* the pool events and the optional runtimes; then it cancels the receipt  *)
(* worker and joins the main loop for three seconds.  A main loop that     *)
(* ends runs its done callback in a later turn of the event loop, and the  *)
(* callback schedules start() for another later turn when the flag is      *)
(* down.  Between any two of these steps another request may call start()  *)
(* or stop().                                                              *)
(***************************************************************************)
EXTENDS Naturals, FiniteSets

CONSTANTS
    Loops,      \* bound: the main loop tasks that may ever be created
    Workers,    \* bound: the receipt worker tasks that may ever be created
    Requests,   \* stop() calls that may be in progress at once
    None,
    MayCrash    \* whether an exception may end the receipt worker

ASSUME LifecycleAssumption ==
    /\ None \notin Loops
    /\ None \notin Workers
    /\ MayCrash \in BOOLEAN

VARIABLES
    loop,       \* loop[l]: the state of a main loop task
    task,       \* self._task
    wtask,      \* wtask[w]: the state of a receipt worker task
    rtask,      \* self._receipt_task
    stopFlag,   \* self._stop
    heals,      \* start() calls scheduled by done callbacks
    stopper,    \* stopper[r]: where stop() call r is suspended
    joins,      \* joins[r]: the main loop that r waits for
    probe,      \* rpc_manager._task: the probe loop
    probeStop,  \* rpc_manager._stop
    raced,      \* history: start() ran while a done callback was due
    crashed,    \* history: an exception ended a receipt worker
    gapped,     \* history: start() saw a worker whose cancellation was due
    unprobed    \* history: start() saw a probe loop that was told to stop

vars == <<loop, task, wtask, rtask, stopFlag, heals, stopper, joins, probe,
          probeStop, raced, crashed, gapped, unprobed>>
probeVars == <<probe, probeStop, unprobed>>

LoopStates == {"new", "run", "cancelling", "ended", "gone"}
WorkerStates == {"new", "run", "cancelling", "gone"}

(* A task that is not done().  "ended" is done, its callback is due. *)
LoopAlive(l) == loop[l] \in {"run", "cancelling"}
WorkerAlive(w) == wtask[w] \in {"run", "cancelling"}
ProbeAlive == probe \in {"run", "cancelling"}

Init ==
    /\ loop = [l \in Loops |-> "new"]
    /\ task = None
    /\ wtask = [w \in Workers |-> "new"]
    /\ rtask = None
    /\ stopFlag = FALSE
    /\ heals = 0
    /\ stopper = [r \in Requests |-> "idle"]
    /\ joins = [r \in Requests |-> None]
    /\ probe = "done"
    /\ probeStop = FALSE
    /\ raced = FALSE
    /\ crashed = FALSE
    /\ gapped = FALSE
    /\ unprobed = FALSE

-----------------------------------------------------------------------------
(* start() while self._task is alive: nothing but telemetry. *)
AlreadyRunning == task # None /\ LoopAlive(task)

CreateWorker ==
    /\ \E w \in Workers : wtask[w] = "new"
    /\ rtask' = CHOOSE w \in Workers : wtask[w] = "new"
    /\ wtask' = [wtask EXCEPT ![rtask'] = "run"]

(* Mutant: a receipt task is created whether or not there is one. *)
AlwaysCreateWorker == CreateWorker

(* Mutant: done() is not asked. *)
EnsureWorkerIgnoresDone ==
    IF rtask # None THEN UNCHANGED <<wtask, rtask>> ELSE CreateWorker

(* start() reuses a receipt task that is not done, or creates one. *)
EnsureWorker ==
    IF rtask # None /\ WorkerAlive(rtask)
    THEN UNCHANGED <<wtask, rtask>>
    ELSE CreateWorker

(* Mutant: the manager does not ask whether its probe loop is done. *)
EnsureProbeBlindly ==
    /\ unprobed' = (unprobed \/ (ProbeAlive /\ probeStop))
    /\ IF probeStop THEN UNCHANGED <<probe, probeStop>>
       ELSE probe' = "run" /\ UNCHANGED probeStop

(* RpcManager.start(): a probe loop that is not done is kept, and so is    *)
(* the event that tells it to stop.                                        *)
EnsureProbe ==
    /\ unprobed' = (unprobed \/ (ProbeAlive /\ probeStop))
    /\ IF ProbeAlive
         THEN UNCHANGED <<probe, probeStop>>
         ELSE probe' = "run" /\ probeStop' = FALSE

(* The rest of start(): the flag goes down, a main loop is created. *)
StartTasks ==
    /\ stopFlag' = FALSE
    /\ EnsureProbe
    /\ EnsureWorker
    /\ \E l \in Loops : loop[l] = "new"
    /\ task' = CHOOSE l \in Loops : loop[l] = "new"
    /\ loop' = [loop EXCEPT ![task'] = "run"]
    /\ raced' = (raced \/ \E l \in Loops : loop[l] = "ended")
    /\ gapped' = (gapped \/ (rtask # None /\ wtask[rtask] = "cancelling"))

(* Mutant: start() does not look at the main loop task it has. *)
StartUnguarded == StartTasks

StartBody ==
    IF AlreadyRunning
    THEN UNCHANGED <<loop, task, wtask, rtask, stopFlag, raced, gapped, probeVars>>
    ELSE StartTasks

(* An operator calls POST /api/runtime/start. *)
Start ==
    /\ StartBody
    /\ UNCHANGED <<heals, stopper, joins, crashed>>

(* The event loop runs a start() that _runtime_loop_done scheduled. *)
SelfHeal ==
    /\ heals > 0
    /\ heals' = heals - 1
    /\ StartBody
    /\ UNCHANGED <<stopper, joins, crashed>>

(* _loop leaves its while because the flag is up. *)
LoopExits(l) ==
    /\ loop[l] = "run"
    /\ stopFlag
    /\ loop' = [loop EXCEPT ![l] = "ended"]
    /\ UNCHANGED <<task, wtask, rtask, stopFlag, heals, stopper, joins, probeVars,
                   raced, crashed, gapped>>

(* The CancelledError of the join's timeout reaches _loop, which contains  *)
(* only Exception.                                                         *)
LoopCancelled(l) ==
    /\ loop[l] = "cancelling"
    /\ loop' = [loop EXCEPT ![l] = "ended"]
    /\ UNCHANGED <<task, wtask, rtask, stopFlag, heals, stopper, joins, probeVars,
                   raced, crashed, gapped>>

(* _runtime_loop_done: with the flag down it forgets self._task, whichever *)
(* task that is by now, and schedules start().                             *)
RuntimeLoopDone(l) ==
    /\ loop[l] = "ended"
    /\ loop' = [loop EXCEPT ![l] = "gone"]
    /\ IF stopFlag
         THEN UNCHANGED <<task, heals>>
         ELSE task' = None /\ heals' = heals + 1
    /\ UNCHANGED <<wtask, rtask, stopFlag, stopper, joins, probeVars, raced, crashed,
                   gapped>>

-----------------------------------------------------------------------------
(* stop() up to its first await: RpcManager.stop() has raised its event,   *)
(* and waits for the probe loop unless that is done.  A probe loop that an *)
(* earlier stop() cancelled raises CancelledError again, which nothing     *)
(* contains: this stop() ends with the flags up and the tasks untouched.   *)
Stop(r) ==
    /\ stopper[r] = "idle"
    /\ stopFlag' = TRUE
    /\ probeStop' = TRUE
    /\ stopper' = [stopper EXCEPT ![r] =
           IF ProbeAlive THEN "probing"
           ELSE IF probe = "cancelled" THEN "idle" ELSE "closing"]
    /\ UNCHANGED <<loop, task, wtask, rtask, heals, joins, probe, raced, crashed,
                   gapped, unprobed>>

(* Three seconds have passed and the probes are not back: wait_for cancels *)
(* the probe loop.                                                         *)
ProbeTimeout(r) ==
    /\ stopper[r] = "probing"
    /\ stopper' = [stopper EXCEPT ![r] = "expired"]
    /\ probe' = "cancelling"
    /\ UNCHANGED <<loop, task, wtask, rtask, stopFlag, heals, joins, probeStop, raced,
                   crashed, gapped, unprobed>>

(* The probe loop sees the event, and every stop() that waits for it goes  *)
(* on.                                                                     *)
ProbeExits ==
    /\ probe = "run" /\ probeStop
    /\ probe' = "done"
    /\ stopper' = [r \in Requests |->
           IF stopper[r] = "probing" THEN "closing" ELSE stopper[r]]
    /\ UNCHANGED <<loop, task, wtask, rtask, stopFlag, heals, joins, probeStop, raced,
                   crashed, gapped, unprobed>>

(* The cancellation reaches the probe loop.  A stop() whose own time was   *)
(* up contains the TimeoutError and goes on; to another one that waits the *)
(* task is a cancelled one, and CancelledError, which it does not contain, *)
(* ends it.                                                                *)
ProbeCancelled ==
    /\ probe = "cancelling"
    /\ probe' = "cancelled"
    /\ stopper' = [r \in Requests |->
           CASE stopper[r] = "expired" -> "closing"
             [] stopper[r] = "probing" -> "idle"
             [] OTHER -> stopper[r]]
    /\ UNCHANGED <<loop, task, wtask, rtask, stopFlag, heals, joins, probeStop, raced,
                   crashed, gapped, unprobed>>

(* Mutant: stop() waits for no main loop. *)
NeverJoin == FALSE

(* stop() has a main loop to wait for. *)
MustJoin == AlreadyRunning

(* The probe loop, the pool events and the optional runtimes have          *)
(* stopped: cancel the receipt worker, then wait_for(self._task, 3.0),     *)
(* which returns at once for a task that is done.                          *)
StopTasks(r) ==
    /\ stopper[r] = "closing"
    /\ wtask' = IF rtask # None /\ wtask[rtask] = "run"
                THEN [wtask EXCEPT ![rtask] = "cancelling"] ELSE wtask
    /\ IF MustJoin
         THEN /\ stopper' = [stopper EXCEPT ![r] = "joining"]
              /\ joins' = [joins EXCEPT ![r] = task]
         ELSE /\ stopper' = [stopper EXCEPT ![r] = "idle"]
              /\ UNCHANGED joins
    /\ UNCHANGED <<loop, task, rtask, stopFlag, heals, probeVars, raced, crashed, gapped>>

(* Mutant: the join has no timeout. *)
NoJoinTimeout(r) == FALSE

(* Three seconds have passed: wait_for cancels the task it waits for. *)
JoinTimeout(r) ==
    /\ stopper[r] = "joining"
    /\ loop[joins[r]] = "run"
    /\ loop' = [loop EXCEPT ![joins[r]] = "cancelling"]
    /\ UNCHANGED <<task, wtask, rtask, stopFlag, heals, stopper, joins, probeVars,
                   raced, crashed, gapped>>

(* The joined task is done and its earlier registered callback has run:    *)
(* stop() returns, or raises TimeoutError to its caller.                   *)
StopReturns(r) ==
    /\ stopper[r] = "joining"
    /\ loop[joins[r]] = "gone"
    /\ stopper' = [stopper EXCEPT ![r] = "idle"]
    /\ joins' = [joins EXCEPT ![r] = None]
    /\ UNCHANGED <<loop, task, wtask, rtask, stopFlag, heals, probeVars, raced, crashed,
                   gapped>>

WorkerCancelled(w) ==
    /\ wtask[w] = "cancelling"
    /\ wtask' = [wtask EXCEPT ![w] = "gone"]
    /\ UNCHANGED <<loop, task, rtask, stopFlag, heals, stopper, joins, probeVars,
                   raced, crashed, gapped>>

(* An exception that _receipt_loop does not contain. *)
WorkerCrashes(w) ==
    /\ MayCrash
    /\ wtask[w] = "run"
    /\ wtask' = [wtask EXCEPT ![w] = "gone"]
    /\ crashed' = TRUE
    /\ UNCHANGED <<loop, task, rtask, stopFlag, heals, stopper, joins, probeVars, raced,
                   gapped>>

-----------------------------------------------------------------------------
LoopStep(l) == LoopExits(l) \/ LoopCancelled(l) \/ RuntimeLoopDone(l)

StopStep(r) == ProbeTimeout(r) \/ StopTasks(r) \/ JoinTimeout(r) \/ StopReturns(r)

ProbeStep == ProbeExits \/ ProbeCancelled

Next ==
    \/ Start
    \/ SelfHeal
    \/ \E l \in Loops : LoopStep(l)
    \/ \E r \in Requests : Stop(r) \/ StopStep(r)
    \/ ProbeStep
    \/ \E w \in Workers : WorkerCancelled(w) \/ WorkerCrashes(w)

Spec == Init /\ [][Next]_vars

(* Ready coroutines and callbacks run, timers fire, and what stop() awaits *)
(* returns (each of those awaits has a timeout of its own).                *)
Fairness ==
    /\ \A l \in Loops : WF_vars(LoopStep(l))
    /\ \A r \in Requests : WF_vars(StopStep(r))
    /\ WF_vars(ProbeStep)

FairSpec == Spec /\ Fairness

-----------------------------------------------------------------------------
TypeOK ==
    /\ loop \in [Loops -> LoopStates]
    /\ task \in Loops \cup {None}
    /\ wtask \in [Workers -> WorkerStates]
    /\ rtask \in Workers \cup {None}
    /\ stopFlag \in BOOLEAN
    /\ heals \in Nat
    /\ stopper \in [Requests -> {"idle", "probing", "expired", "closing", "joining"}]
    /\ joins \in [Requests -> Loops \cup {None}]
    /\ \A r \in Requests : stopper[r] = "joining" => joins[r] \in Loops
    /\ raced \in BOOLEAN
    /\ crashed \in BOOLEAN
    /\ gapped \in BOOLEAN
    /\ probe \in {"run", "cancelling", "done", "cancelled"}
    /\ probeStop \in BOOLEAN
    /\ unprobed \in BOOLEAN

(* "Single-worker receipt processing to avoid runaway RPC usage": however  *)
(* start(), stop() and self-healing interleave, only self._receipt_task is *)
(* ever alive.                                                             *)
SingleReceiptWorker == \A w \in Workers : WorkerAlive(w) => w = rtask

(* Only self._task is alive, so one main loop runs, as long as start()     *)
(* never ran between the end of a main loop and that loop's done callback. *)
(* In that window start() lowers the flag, the callback then forgets the   *)
(* new task and schedules a second one.                                    *)
SingleMainLoop == ~raced => \A l \in Loops : LoopAlive(l) => l = task

(* Nothing is about to happen: no stop(), callback or cancellation is due. *)
Quiet ==
    /\ heals = 0
    /\ \A r \in Requests : stopper[r] = "idle"
    /\ \A l \in Loops : loop[l] \in {"new", "run", "gone"}
    /\ \A w \in Workers : wtask[w] # "cancelling"

(* A main loop that keeps running has a receipt worker beside it, unless a *)
(* worker crashed, start() met a worker whose cancellation was due, or a   *)
(* main loop was lost sight of: start() does not replace a dead worker     *)
(* while the main loop is alive, so receipts would then wait for ever.     *)
RunningHasReceiptWorker ==
    (Quiet /\ ~stopFlag /\ AlreadyRunning /\ ~crashed /\ ~gapped /\ ~raced)
        => rtask # None /\ WorkerAlive(rtask)

(* A main loop that keeps running has its endpoints probed, unless start() *)
(* met a probe loop that was told to stop: the manager keeps that one, it  *)
(* ends, and the health of the endpoints is frozen from then on.           *)
RunningIsProbed ==
    (Quiet /\ ~stopFlag /\ AlreadyRunning /\ ~unprobed) => probe = "run" /\ ~probeStop

(* When every stop() has returned and no start() took the flag down, the   *)
(* main loop that self._task names is over.                                *)
StopStops ==
    (stopFlag /\ \A r \in Requests : stopper[r] = "idle") => ~AlreadyRunning

(* Every stop() returns, even when a start() lowered the flag in between   *)
(* and the main loop it joins has no reason to end.                        *)
EveryStopReturns ==
    \A r \in Requests : stopper[r] # "idle" ~> stopper[r] = "idle"
=============================================================================
