--------------------------- MODULE Runtime_proofs ---------------------------
(***************************************************************************)
(* Proofs about the runtime: start(), stop() and self-healing              *)
(* (RuntimeLifecycle), for any number of overlapping requests and of tasks *)
(* ever created; and the modes of an execution (ExecutionModes), for every *)
(* set of modes.                                                           *)
(***************************************************************************)
EXTENDS RuntimeLifecycle, ExecutionModes, TLAPS

-----------------------------------------------------------------------------
(* RuntimeLifecycle.                                                       *)

(* What start() does to the receipt worker. *)
LEMMA EnsureWorkerFacts ==
  ASSUME TypeOK, EnsureWorker
  PROVE  \/ /\ rtask \in Workers /\ WorkerAlive(rtask)
            /\ UNCHANGED <<wtask, rtask>>
         \/ /\ rtask = None \/ ~WorkerAlive(rtask)
            /\ rtask' \in Workers /\ wtask[rtask'] = "new"
            /\ wtask' = [wtask EXCEPT ![rtask'] = "run"]
<1>1. CASE rtask # None /\ WorkerAlive(rtask)
  BY <1>1 DEF EnsureWorker, TypeOK
<1>2. CASE ~(rtask # None /\ WorkerAlive(rtask))
  <2>1. CreateWorker
    BY <1>2 DEF EnsureWorker
  <2>2. rtask' \in Workers /\ wtask[rtask'] = "new"
    BY <2>1 DEF CreateWorker
  <2> QED BY <1>2, <2>1, <2>2 DEF CreateWorker
<1> QED BY <1>1, <1>2

(* What start() does to the main loop. *)
LEMMA StartTasksFacts ==
  ASSUME TypeOK, StartTasks
  PROVE  /\ task' \in Loops /\ loop[task'] = "new"
         /\ loop' = [loop EXCEPT ![task'] = "run"]
         /\ stopFlag' = FALSE
<1>1. /\ \E l \in Loops : loop[l] = "new"
      /\ task' = CHOOSE l \in Loops : loop[l] = "new"
  BY DEF StartTasks
<1> QED BY <1>1 DEF StartTasks

LEMMA TypeInit == Init => TypeOK
<1> SUFFICES ASSUME Init PROVE TypeOK
  OBVIOUS
<1>1. loop \in [Loops -> LoopStates] /\ wtask \in [Workers -> WorkerStates]
  BY DEF Init, LoopStates, WorkerStates
<1>2. /\ stopper \in [Requests -> {"idle", "probing", "expired", "closing", "joining"}]
      /\ joins \in [Requests -> Loops \cup {None}]
      /\ \A r \in Requests : stopper[r] # "joining"
  BY DEF Init
<1> QED BY <1>1, <1>2 DEF Init, TypeOK

LEMMA TypeStep == TypeOK /\ [Next]_vars => TypeOK'
<1> SUFFICES ASSUME TypeOK, [Next]_vars PROVE TypeOK'
  OBVIOUS
<1>1. ASSUME StartBody, UNCHANGED <<stopper, joins, crashed>>, heals' \in Nat
      PROVE  TypeOK'
  <2>1. CASE AlreadyRunning
    BY <1>1, <2>1 DEF StartBody, TypeOK, probeVars
  <2>2. CASE ~AlreadyRunning
    <3>1. StartTasks
      BY <1>1, <2>2 DEF StartBody
    <3>2. task' \in Loops /\ loop' \in [Loops -> LoopStates] /\ stopFlag' \in BOOLEAN
      BY <3>1, StartTasksFacts DEF TypeOK, LoopStates
    <3>3. rtask' \in Workers \cup {None} /\ wtask' \in [Workers -> WorkerStates]
      BY <3>1, EnsureWorkerFacts DEF StartTasks, TypeOK, WorkerStates
    <3>4. raced' \in BOOLEAN /\ gapped' \in BOOLEAN
      BY <3>1 DEF StartTasks, TypeOK
    <3>5. /\ probe' \in {"run", "cancelling", "done", "cancelled"}
          /\ probeStop' \in BOOLEAN /\ unprobed' \in BOOLEAN
      BY <3>1 DEF StartTasks, EnsureProbe, TypeOK
    <3> QED BY <1>1, <3>2, <3>3, <3>4, <3>5 DEF TypeOK
  <2> QED BY <2>1, <2>2
<1>2. CASE Start
  BY <1>1, <1>2 DEF Start, TypeOK
<1>3. CASE SelfHeal
  <2>1. heals' \in Nat
    BY <1>3 DEF SelfHeal, TypeOK
  <2> QED BY <1>1, <1>3, <2>1 DEF SelfHeal
<1>4. ASSUME NEW l \in Loops, LoopExits(l) \/ LoopCancelled(l) PROVE TypeOK'
  BY <1>4 DEF LoopExits, LoopCancelled, TypeOK, LoopStates, probeVars
<1>5. ASSUME NEW l \in Loops, RuntimeLoopDone(l) PROVE TypeOK'
  BY <1>5 DEF RuntimeLoopDone, TypeOK, LoopStates, probeVars
<1>6. ASSUME NEW r \in Requests, Stop(r) PROVE TypeOK'
  BY <1>6 DEF Stop, TypeOK
<1>7. ASSUME NEW r \in Requests, StopTasks(r) PROVE TypeOK'
  <2>1. wtask' \in [Workers -> WorkerStates]
    BY <1>7 DEF StopTasks, TypeOK, WorkerStates
  <2>2. CASE MustJoin
    BY <1>7, <2>1, <2>2 DEF StopTasks, TypeOK, MustJoin, AlreadyRunning, probeVars
  <2>3. CASE ~MustJoin
    BY <1>7, <2>1, <2>3 DEF StopTasks, TypeOK, probeVars
  <2> QED BY <2>2, <2>3
<1>8. ASSUME NEW r \in Requests, JoinTimeout(r) PROVE TypeOK'
  BY <1>8 DEF JoinTimeout, TypeOK, LoopStates, probeVars
<1>9. ASSUME NEW r \in Requests, StopReturns(r) PROVE TypeOK'
  BY <1>9 DEF StopReturns, TypeOK, probeVars
<1>10. ASSUME NEW w \in Workers, WorkerCancelled(w) \/ WorkerCrashes(w) PROVE TypeOK'
  BY <1>10 DEF WorkerCancelled, WorkerCrashes, TypeOK, WorkerStates, probeVars
<1>11. ASSUME NEW r \in Requests, ProbeTimeout(r) PROVE TypeOK'
  BY <1>11 DEF ProbeTimeout, TypeOK
<1>12. CASE ProbeExits
  BY <1>12 DEF ProbeExits, TypeOK
<1>13. CASE ProbeCancelled
  BY <1>13 DEF ProbeCancelled, TypeOK
<1>14. CASE UNCHANGED vars
  BY <1>14 DEF vars, TypeOK
<1> QED
  BY <1>2, <1>3, <1>4, <1>5, <1>6, <1>7, <1>8, <1>9, <1>10, <1>11, <1>12, <1>13, <1>14
  DEF Next, LoopStep, StopStep, ProbeStep

(* Every variable keeps its type. *)
THEOREM TypeCorrect == Spec => []TypeOK
  BY TypeInit, TypeStep, PTL DEF Spec

-----------------------------------------------------------------------------
(* The parts of the inductive invariant.                                   *)

(* A main loop that ended and whose callback is due is the last one there  *)
(* was, unless start() ran in that window.                                 *)
Present(l) == loop[l] \in {"run", "cancelling", "ended"}

OneLoopInv ==
    ~raced => /\ \A l, m \in Loops : Present(l) /\ Present(m) => l = m
              /\ \A l \in Loops : LoopAlive(l) => l = task

(* A stop() that waits for the probe loop waits for one that is alive and  *)
(* told to stop, and a probe loop is cancelled by a stop() that goes on.   *)
ProbeInv ==
    /\ \A r \in Requests : stopper[r] \in {"probing", "expired"} => ProbeAlive /\ probeStop
    /\ \A r \in Requests : stopper[r] = "expired" => probe = "cancelling"
    /\ probe = "cancelling" => \E r \in Requests : stopper[r] = "expired"
    /\ (AlreadyRunning /\ ~stopFlag /\ ~unprobed) => probe = "run" /\ ~probeStop

(* While the flag is up and self._task lives, some stop() has yet to join  *)
(* or is joining that very task.                                           *)
JoinInv ==
    (stopFlag /\ AlreadyRunning) =>
        \E r \in Requests : \/ stopper[r] \in {"probing", "expired", "closing"}
                            \/ stopper[r] = "joining" /\ joins[r] = task

(* A probe loop that was cancelled was so by a stop() that has yet to join *)
(* the main loop or is joining it; start() replaces it.                    *)
CancelledInv ==
    (probe = "cancelled" /\ AlreadyRunning) =>
        \E r \in Requests : \/ stopper[r] = "closing"
                            \/ stopper[r] = "joining" /\ joins[r] = task

(* A main loop without a working receipt task is about to be ended by a    *)
(* stop() that is joining it.                                              *)
WorkerInv ==
    (AlreadyRunning /\ ~crashed /\ ~gapped /\ ~raced) =>
        \/ rtask \in Workers /\ wtask[rtask] = "run"
        \/ \E r \in Requests : stopper[r] = "joining" /\ joins[r] = task

LifeInv == SingleReceiptWorker /\ OneLoopInv /\ ProbeInv /\ JoinInv /\ CancelledInv /\ WorkerInv

LEMMA LifeInit == Init => LifeInv
  BY DEF Init, LifeInv, SingleReceiptWorker, OneLoopInv, ProbeInv, JoinInv, CancelledInv, WorkerInv,
         ProbeAlive, AlreadyRunning, LoopAlive, WorkerAlive, Present

LEMMA LifeStep == TypeOK /\ LifeInv /\ [Next]_vars => LifeInv'
<1> SUFFICES ASSUME TypeOK, LifeInv, [Next]_vars PROVE LifeInv'
  OBVIOUS
<1> USE LifecycleAssumption
        DEF LifeInv, SingleReceiptWorker, OneLoopInv, ProbeInv, JoinInv, CancelledInv, WorkerInv,
            ProbeAlive, AlreadyRunning, LoopAlive, WorkerAlive, Present
<1>1. ASSUME StartBody, UNCHANGED <<stopper, joins, crashed>> PROVE LifeInv'
  <2>1. CASE AlreadyRunning
    BY <1>1, <2>1 DEF StartBody, probeVars
  <2>2. CASE ~AlreadyRunning
    <3>1. StartTasks
      BY <1>1, <2>2 DEF StartBody
    <3>2. /\ task' \in Loops /\ loop[task'] = "new" /\ stopFlag' = FALSE
          /\ loop' = [loop EXCEPT ![task'] = "run"]
      BY <3>1, StartTasksFacts
    <3>3. OneLoopInv' /\ JoinInv'
      <4>1. loop'[task'] = "run" /\ \A l \in Loops : l # task' => loop'[l] = loop[l]
        BY <3>2 DEF TypeOK
      <4>2. raced' = (raced \/ \E l \in Loops : loop[l] = "ended")
        BY <3>1 DEF StartTasks
      <4>3. ~raced => \A l \in Loops : ~LoopAlive(l)
        BY <2>2
      <4>4. ~raced' => \A l \in Loops : ~Present(l)
        BY <4>2, <4>3
      <4>5. ~raced' => \A l \in Loops : l # task' => ~(Present(l)')
        BY <4>1, <4>4
      <4>6. OneLoopInv'
        BY <4>5
      <4> QED BY <3>2, <4>6
    <3>7. ProbeInv' /\ CancelledInv'
      <4>1. /\ unprobed' = (unprobed \/ (ProbeAlive /\ probeStop))
            /\ IF ProbeAlive THEN UNCHANGED <<probe, probeStop>>
               ELSE probe' = "run" /\ probeStop' = FALSE
        BY <3>1 DEF StartTasks, EnsureProbe
      <4>2. stopper' = stopper
        BY <1>1
      <4>3. probe' # "cancelled"
        BY <4>1
      <4>4. CASE ProbeAlive
        <5>1. probe = "cancelling" => probeStop
          OBVIOUS
        <5> QED BY <4>1, <4>2, <4>3, <4>4, <5>1
      <4>5. CASE ~ProbeAlive
        BY <4>1, <4>2, <4>3, <4>5
      <4> QED BY <4>4, <4>5
    <3>4. gapped' = (gapped \/ (rtask # None /\ wtask[rtask] = "cancelling"))
      BY <3>1 DEF StartTasks
    <3>5. CASE rtask \in Workers /\ WorkerAlive(rtask) /\ UNCHANGED <<wtask, rtask>>
      <4>1. SingleReceiptWorker'
        BY <3>5
      <4>2. ~gapped' => wtask'[rtask'] = "run" /\ rtask' \in Workers
        BY <3>4, <3>5
      <4> QED BY <3>3, <3>7, <4>1, <4>2
    <3>6. CASE /\ rtask = None \/ ~WorkerAlive(rtask)
               /\ rtask' \in Workers /\ wtask[rtask'] = "new"
               /\ wtask' = [wtask EXCEPT ![rtask'] = "run"]
      <4>1. wtask'[rtask'] = "run" /\ \A w \in Workers : w # rtask' => wtask'[w] = wtask[w]
        BY <3>6 DEF TypeOK
      <4>2. \A w \in Workers : ~WorkerAlive(w)
        BY <3>6
      <4>3. SingleReceiptWorker'
        BY <4>1, <4>2
      <4> QED BY <3>3, <3>6, <3>7, <4>1, <4>3
    <3> QED BY <3>1, <3>5, <3>6, EnsureWorkerFacts DEF StartTasks
  <2> QED BY <2>1, <2>2
<1>2. CASE Start \/ SelfHeal
  BY <1>1, <1>2 DEF Start, SelfHeal
<1>3. ASSUME NEW l \in Loops, LoopExits(l) \/ LoopCancelled(l) PROVE LifeInv'
  BY <1>3 DEF LoopExits, LoopCancelled, TypeOK, probeVars
<1>4. ASSUME NEW l \in Loops, RuntimeLoopDone(l) PROVE LifeInv'
  BY <1>4 DEF RuntimeLoopDone, TypeOK, probeVars
<1>5. ASSUME NEW r \in Requests, Stop(r) PROVE LifeInv'
  BY <1>5 DEF Stop, TypeOK
<1>6. ASSUME NEW r \in Requests, StopTasks(r) PROVE LifeInv'
  <2>1. SingleReceiptWorker' /\ OneLoopInv'
    BY <1>6 DEF StopTasks, TypeOK
  <2>4. ProbeInv'
    BY <1>6 DEF StopTasks, TypeOK, probeVars
  <2>2. CASE AlreadyRunning
    <3>1. stopper'[r] = "joining" /\ joins'[r] = task /\ task' = task
      BY <1>6, <2>2 DEF StopTasks, MustJoin, TypeOK
    <3> QED BY <2>1, <2>4, <3>1
  <2>3. CASE ~AlreadyRunning
    BY <1>6, <2>1, <2>3, <2>4 DEF StopTasks
  <2> QED BY <2>2, <2>3
<1>7. ASSUME NEW r \in Requests, JoinTimeout(r) PROVE LifeInv'
  BY <1>7 DEF JoinTimeout, TypeOK, probeVars
<1>8. ASSUME NEW r \in Requests, StopReturns(r) PROVE LifeInv'
  BY <1>8 DEF StopReturns, TypeOK, probeVars
<1>9. ASSUME NEW w \in Workers, WorkerCancelled(w) \/ WorkerCrashes(w) PROVE LifeInv'
  BY <1>9 DEF WorkerCancelled, WorkerCrashes, TypeOK, probeVars
<1>10. ASSUME NEW r \in Requests, ProbeTimeout(r) PROVE LifeInv'
  BY <1>10 DEF ProbeTimeout, TypeOK
<1>11. CASE ProbeExits
  BY <1>11 DEF ProbeExits, TypeOK
<1>12. CASE ProbeCancelled
  <2>1. PICK q \in Requests : stopper[q] = "expired"
    BY <1>12 DEF ProbeCancelled
  <2>2. /\ stopper'[q] = "closing" /\ ~(ProbeAlive') /\ probe' = "cancelled"
        /\ \A r \in Requests : stopper'[r] \notin {"probing", "expired"}
        /\ \A r \in Requests : stopper[r] = "joining" => stopper'[r] = "joining"
    BY <1>12, <2>1 DEF ProbeCancelled, TypeOK
  <2>3. probeStop
    BY <2>1
  <2>4. UNCHANGED <<loop, task, wtask, rtask, stopFlag, joins, probeStop, raced, crashed,
                    gapped, unprobed>>
    BY <1>12 DEF ProbeCancelled
  <2>5. SingleReceiptWorker' /\ OneLoopInv' /\ JoinInv' /\ CancelledInv' /\ WorkerInv'
    BY <2>2, <2>4
  <2>6. ProbeInv'
    BY <2>2, <2>3, <2>4
  <2> QED BY <2>5, <2>6
<1>13. CASE UNCHANGED vars
  BY <1>13 DEF vars
<1> QED
  BY <1>2, <1>3, <1>4, <1>5, <1>6, <1>7, <1>8, <1>9, <1>10, <1>11, <1>12, <1>13
  DEF Next, LoopStep, StopStep, ProbeStep

LEMMA Lifecycle == Spec => [](TypeOK /\ LifeInv)
<1>1. Init => TypeOK /\ LifeInv
  BY TypeInit, LifeInit
<1>2. (TypeOK /\ LifeInv) /\ [Next]_vars => (TypeOK /\ LifeInv)'
  BY TypeStep, LifeStep
<1> QED BY <1>1, <1>2, PTL DEF Spec

(* At most one receipt worker is alive, the one self._receipt_task names. *)
THEOREM SingleReceiptWorkerHolds == Spec => []SingleReceiptWorker
<1>1. TypeOK /\ LifeInv => SingleReceiptWorker
  BY DEF LifeInv
<1> QED BY <1>1, Lifecycle, PTL

(* One main loop is alive unless start() raced a done callback. *)
THEOREM SingleMainLoopHolds == Spec => []SingleMainLoop
<1>1. TypeOK /\ LifeInv => SingleMainLoop
  BY DEF LifeInv, OneLoopInv, SingleMainLoop
<1> QED BY <1>1, Lifecycle, PTL

(* When every stop() has returned and the flag is up, the main loop is over. *)
THEOREM StopStopsHolds == Spec => []StopStops
<1>1. TypeOK /\ LifeInv => StopStops
  BY DEF LifeInv, JoinInv, StopStops
<1> QED BY <1>1, Lifecycle, PTL

(* A main loop that keeps running has a receipt worker beside it, unless a *)
(* worker crashed or start() met one of the two windows.                   *)
THEOREM RunningHasReceiptWorkerHolds == Spec => []RunningHasReceiptWorker
<1>1. TypeOK /\ LifeInv => RunningHasReceiptWorker
  BY LifecycleAssumption
  DEF LifeInv, WorkerInv, RunningHasReceiptWorker, Quiet, WorkerAlive
<1> QED BY <1>1, Lifecycle, PTL

(* A main loop that keeps running has its endpoints probed, unless start() *)
(* met a probe loop that was told to stop.                                 *)
THEOREM RunningIsProbedHolds == Spec => []RunningIsProbed
<1>1. TypeOK /\ LifeInv => RunningIsProbed
  BY DEF LifeInv, ProbeInv, RunningIsProbed
<1> QED BY <1>1, Lifecycle, PTL

-----------------------------------------------------------------------------
(* ExecutionModes.                                                         *)

(* ModesRestored is about the moments between executions; it is inductive  *)
(* together with what an execution in progress will put back.              *)
RestoresWanted ==
    exec.at # "idle" /\ leaks = {} =>
        exec.oldGas = wantedGas /\ exec.oldSend = wantedSend

(* An execution in progress has something to put back. *)
HasOld == exec.at # "idle" => exec.oldGas \in GasModes /\ exec.oldSend \in SendModes

(* The endpoint of an execution is the one of the send mode it was chosen  *)
(* for, which is still the mode of the configuration unless the operator   *)
(* intervened, and which is the mode it works with unless it was decided.  *)
EndpointChosen ==
    exec.at # "idle" =>
        /\ exec.url = SendUrl(exec.chosen)
        /\ "operator" \notin leaks => send = exec.chosen
        /\ /\ exec.at # "prepared"
           /\ exec.decided = NoMode
           /\ "operator" \notin leaks
           => exec.mode = exec.chosen

ModesInv == ModesTypeOK /\ ModesRestored /\ RestoresWanted /\ HasOld /\ EndpointChosen

LEMMA InitModesInv == ModesInit => ModesInv
  BY ExecutionModesAssumption
  DEF ModesInit, ModesInv, ModesTypeOK, ModesRestored, RestoresWanted, HasOld,
      EndpointChosen, NoExec, Execs, Endpoints, Leaks

(* A mode that is overridden or not is a mode. *)
LEMMA OverrideType ==
    ASSUME NEW S, NEW mode \in S, NEW new \in S \union {NoMode}
    PROVE  Override(mode, new) \in S
  BY DEF Override

LEMMA SetModesInv ==
    ASSUME ModesInv, NEW g \in GasModes, NEW s \in SendModes, SetModes(g, s)
    PROVE  ModesInv'
  BY ExecutionModesAssumption
  DEF SetModes, ModesInv, ModesTypeOK, ModesRestored, RestoresWanted, HasOld, EndpointChosen,
      forced, Leaks

LEMMA SetForcedInv ==
    ASSUME ModesInv, NEW g \in GasModes \union {NoMode}, NEW s \in SendModes \union {NoMode},
           SetForced(g, s)
    PROVE  ModesInv'
  BY ExecutionModesAssumption
  DEF SetForced, ModesInv, ModesTypeOK, ModesRestored, RestoresWanted, HasOld, EndpointChosen, wanted

LEMMA DispatchInv ==
    ASSUME ModesInv, NEW super \in BOOLEAN,
           NEW pg \in GasModes \union {NoMode}, NEW dg \in GasModes \union {NoMode},
           NEW ps \in SendModes \union {NoMode}, NEW ds \in SendModes \union {NoMode},
           NEW outcome \in {"prepared", "no_endpoint", "rejected"},
           Dispatch(super, pg, ps, dg, ds, outcome)
    PROVE  ModesInv'
<1> DEFINE g == Planned(super, pg, dg)
           s == IF super THEN Override(send, ps) ELSE send
<1>1. g \in GasModes /\ s \in SendModes
  BY OverrideType DEF ModesInv, ModesTypeOK, Planned
<1>2. gas' \in GasModes /\ send' \in SendModes
  BY <1>1, OverrideType DEF Dispatch, ModesInv, ModesTypeOK
<1>3. /\ exec.at = "idle"
      /\ gas' = Override(g, forceGas) /\ send' = Override(s, forceSend)
      /\ exec' = IF outcome = "prepared"
                 THEN [NoExec EXCEPT !.at = "prepared", !.oldGas = g, !.oldSend = s,
                                     !.url = SendUrl(send'), !.chosen = send',
                                     !.decided = ds]
                 ELSE NoExec
      /\ leaks \subseteq leaks'
      /\ leaks' \subseteq leaks \union Leaks
      /\ leaks' = {} => g = gas /\ s = send
                        /\ (outcome # "prepared" => gas' = g /\ send' = s)
      /\ UNCHANGED <<forceGas, forceSend, changes, wantedGas, wantedSend>>
  BY DEF Dispatch, forced, wanted, Leaks, Planned
<1> HIDE DEF g, s
<1>4. SendUrl(send') \in Endpoints
  BY DEF SendUrl, Endpoints
<1>5. exec' \in Execs
  BY <1>1, <1>2, <1>3, <1>4 DEF Execs, NoExec, Endpoints
<1>6. ModesTypeOK'
  BY <1>2, <1>3, <1>5 DEF ModesInv, ModesTypeOK
<1>7. ModesRestored' /\ RestoresWanted'
  <2>1. CASE leaks' = {}
    <3>1. gas = wantedGas /\ send = wantedSend
      BY <2>1, <1>3 DEF ModesInv, ModesRestored
    <3> QED
      BY <2>1, <1>3, <3>1 DEF ModesRestored, RestoresWanted, NoExec
  <2>2. CASE leaks' # {}
    BY <2>2 DEF ModesRestored, RestoresWanted
  <2> QED
    BY <2>1, <2>2
<1>8. HasOld' /\ EndpointChosen'
  BY <1>1, <1>3 DEF HasOld, EndpointChosen, NoExec, SendUrl
<1> QED
  BY <1>6, <1>7, <1>8 DEF ModesInv

LEMMA RunInv ==
    ASSUME ModesInv, ReadSendMode \/ PriceGas \/ Submit
    PROVE  ModesInv'
<1> USE DEF ModesInv, ModesTypeOK, Execs, Endpoints, ModesRestored, RestoresWanted, HasOld,
            EndpointChosen, SendUrl, forced, wanted
<1>1. CASE ReadSendMode
  <2>1. Override(send, exec.decided) \in SendModes
    BY OverrideType
  <2>2. /\ exec.at = "prepared" /\ UNCHANGED <<gas, send, forced, changes, wanted, leaks>>
        /\ exec' = [exec EXCEPT !.at = "building", !.mode = Override(send, exec.decided)]
    BY <1>1 DEF ReadSendMode
  <2>3. exec' \in Execs
    BY <2>1, <2>2
  <2>4. exec.decided = NoMode => Override(send, exec.decided) = send
    BY DEF Override
  <2> QED
    BY <2>2, <2>3, <2>4
<1>2. CASE PriceGas
  BY <1>2 DEF PriceGas
<1>3. CASE Submit
  BY <1>3 DEF Submit
<1> QED
  BY <1>1, <1>2, <1>3

LEMMA FinishInv ==
    ASSUME ModesInv, Finish
    PROVE  ModesInv'
  BY ExecutionModesAssumption
  DEF Finish, ModesInv, ModesTypeOK, Execs, Endpoints, ModesRestored, RestoresWanted, HasOld,
      EndpointChosen, NoExec, forced, wanted

LEMMA NextModesInv == ModesInv /\ [ModesNext]_modesVars => ModesInv'
<1> SUFFICES ASSUME ModesInv, [ModesNext]_modesVars PROVE ModesInv'
  OBVIOUS
<1>1. CASE \E g \in GasModes, s \in SendModes : SetModes(g, s)
  BY <1>1, SetModesInv
<1>2. CASE \E g \in GasModes \union {NoMode}, s \in SendModes \union {NoMode} : SetForced(g, s)
  BY <1>2, SetForcedInv
<1>3. CASE \E super \in BOOLEAN, pg, dg \in GasModes \union {NoMode},
              ps, ds \in SendModes \union {NoMode},
              outcome \in {"prepared", "no_endpoint", "rejected"} :
                  Dispatch(super, pg, ps, dg, ds, outcome)
  <2>1. PICK super \in BOOLEAN, pg \in GasModes \union {NoMode}, dg \in GasModes \union {NoMode},
             ps \in SendModes \union {NoMode}, ds \in SendModes \union {NoMode},
             outcome \in {"prepared", "no_endpoint", "rejected"} :
                 Dispatch(super, pg, ps, dg, ds, outcome)
    BY <1>3
  <2> QED
    BY <2>1, DispatchInv
<1>4. CASE ReadSendMode \/ PriceGas \/ Submit
  BY <1>4, RunInv
<1>5. CASE Finish
  BY <1>5, FinishInv
<1>6. CASE UNCHANGED modesVars
  BY <1>6
  DEF modesVars, ModesInv, ModesTypeOK, ModesRestored, RestoresWanted, HasOld, EndpointChosen
<1> QED
  BY <1>1, <1>2, <1>3, <1>4, <1>5, <1>6 DEF ModesNext

LEMMA ModesHold == ModesSpec => []ModesInv
  BY InitModesInv, NextModesInv, PTL DEF ModesSpec

(* ModesTypeCorrect hold in every reachable state, for every set of modes. *)
THEOREM ModesTypeCorrect == ModesSpec => []ModesTypeOK
  BY ModesHold, PTL DEF ModesInv

(* Between executions the configuration is what the operator set, unless   *)
(* one of the four ways to leave a mode changed has happened.              *)
THEOREM ModesRestoredHolds == ModesSpec => []ModesRestored
  BY ModesHold, PTL DEF ModesInv

(* A private submission goes to the private endpoint. *)
THEOREM PrivateEndpointUsedHolds == ModesSpec => []PrivateEndpointUsed
<1>1. ModesInv => PrivateEndpointUsed
  BY DEF ModesInv, EndpointChosen, PrivateEndpointUsed, SendUrl
<1> QED
  BY <1>1, ModesHold, PTL
=============================================================================
