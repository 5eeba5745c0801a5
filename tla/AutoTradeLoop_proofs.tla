------------------------- MODULE AutoTradeLoop_proofs -------------------------
(***************************************************************************)
(* Proofs about the automatic trading cycle: its types, and the limits it  *)
(* keeps although what it checks at one step is used several awaits later. *)
(* They hold for every number of blocks, routes, tasks and every cap,      *)
(* cooldown and trip threshold.                                            *)
(***************************************************************************)
EXTENDS AutoTradeLoop, TLAPS

-----------------------------------------------------------------------------
(* A slot without a task holds a value of the record set. *)
LEMMA IdleIsExec == Idle \in ExecStates
  BY LoopAssumption DEF Idle, ExecStates

(* What a dispatch puts in the chosen slot, and that the slot was free. *)
LEMMA Dispatch ==
  ASSUME TypeOK, AfterTick, ~UNCHANGED execVars
  PROVE  /\ CanDispatch
         /\ task' \in Slots /\ ~Running(task')
         /\ exec' = [exec EXCEPT ![task'] =
               [at |-> "dispatched", bn |-> lastBlock, route |-> choice,
                dry |-> TRUE, seen |-> 0]]
<1>1. /\ CanDispatch
      /\ \E s \in Slots : ~Running(s)
      /\ task' = CHOOSE s \in Slots : ~Running(s)
      /\ exec' = [exec EXCEPT ![task'] =
            [at |-> "dispatched", bn |-> lastBlock, route |-> choice,
             dry |-> TRUE, seen |-> 0]]
  BY DEF AfterTick
<1>2. task' \in Slots /\ ~Running(task')
  BY <1>1
<1> QED BY <1>1, <1>2

LEMMA TypeInit == Init => TypeOK
<1> SUFFICES ASSUME Init PROVE TypeOK
  OBVIOUS
<1>1. exec \in [Slots -> ExecStates]
  BY IdleIsExec DEF Init
<1>2. \A s \in Slots : ~Running(s)
  BY DEF Init, Running, Idle
<1>3. \A s \in Slots : Running(s) => exec[s].route \in Routes
  BY <1>2
<1>4. streak \in 0..TripAt /\ lastTrade \in [Routes -> Nat] /\ sentOnRoute \in [Routes -> Nat]
  BY LoopAssumption DEF Init
<1> QED BY <1>1, <1>3, <1>4 DEF Init, TypeOK

LEMMA TypeStep == TypeOK /\ [Next]_vars => TypeOK'
<1> SUFFICES ASSUME TypeOK, [Next]_vars PROVE TypeOK'
  OBVIOUS
<1> USE LoopAssumption
<1>1. ASSUME NEW b \in Blocks, PrepareTick(b) PROVE TypeOK'
  BY <1>1 DEF TypeOK, Running, PrepareTick, controlVars, breakerVars, execVars, historyVars
<1>2. CASE RpcErrorStorm
  BY <1>2 DEF TypeOK, Running, RpcErrorStorm, loopVars, breakerVars, execVars, historyVars
<1>3. ASSUME NEW r \in Routes \cup {NoRoute}, Decide(r) PROVE TypeOK'
  BY <1>3 DEF TypeOK, Running, Decide, BelowPendingCap, Cooled, controlVars, breakerVars, execVars, historyVars
<1>4. CASE TickFails
  BY <1>4 DEF TypeOK, Running, TickFails, controlVars, breakerVars, execVars, historyVars
<1>5. CASE AfterTick
  <2>1. CASE UNCHANGED execVars
    BY <1>5, <2>1 DEF TypeOK, Running, AfterTick, StillTrading, breakerVars, execVars
  <2>2. CASE ~UNCHANGED execVars
    <3> DEFINE new == [at |-> "dispatched", bn |-> lastBlock, route |-> choice,
                       dry |-> TRUE, seen |-> 0]
    <3>1. task' \in Slots /\ exec' = [exec EXCEPT ![task'] = new] /\ CanDispatch
      BY <1>5, <2>2, Dispatch
    <3>2. new \in ExecStates /\ new.route \in Routes
      BY <3>1 DEF CanDispatch, TypeOK, ExecStates
    <3>3. exec' \in [Slots -> ExecStates]
      BY <3>1, <3>2 DEF TypeOK
    <3>4. \A s \in Slots : Running(s)' => exec'[s].route \in Routes
      BY <3>1, <3>2 DEF TypeOK, Running
    <3> QED BY <1>5, <3>1, <3>3, <3>4 DEF TypeOK, AfterTick, StillTrading, breakerVars
  <2> QED BY <2>1, <2>2
<1>6. ASSUME NEW s \in Slots, NEW e \in ExecStates, exec' = [exec EXCEPT ![s] = e],
             e.at # "free" => e.route \in Routes
      PROVE  /\ exec' \in [Slots -> ExecStates]
             /\ \A u \in Slots : Running(u)' => exec'[u].route \in Routes
  BY <1>6 DEF TypeOK, Running
<1>7. Idle.at = "free" /\ Idle \in ExecStates
  BY IdleIsExec DEF Idle
<1>8. ASSUME NEW s \in Slots, ExecutionEnds(s) PROVE TypeOK'
  <2>1. exec' = [exec EXCEPT ![s] = Idle]
    BY <1>8 DEF ExecutionEnds
  <2> QED BY <1>6, <1>7, <1>8, <2>1
          DEF TypeOK, ExecutionEnds, loopVars, controlVars, breakerVars, historyVars
<1>9. ASSUME NEW s \in Slots, PrepareExecution(s) PROVE TypeOK'
  <2> DEFINE e == [exec[s] EXCEPT !.at = "prepared"]
  <2>1. exec' = [exec EXCEPT ![s] = e] /\ e \in ExecStates /\ e.route \in Routes
    BY <1>9 DEF PrepareExecution, TypeOK, ExecStates, Running
  <2> HIDE DEF e
  <2> QED BY <1>6, <1>9, <2>1
          DEF TypeOK, PrepareExecution, loopVars, controlVars, breakerVars, historyVars
<1>10. ASSUME NEW s \in Slots, EnterCore(s) PROVE TypeOK'
  <2> DEFINE e == [exec[s] EXCEPT !.at = "core", !.dry = dryRun, !.seen = lastSubmitted]
  <2>1. exec' = [exec EXCEPT ![s] = e] /\ e \in ExecStates /\ e.route \in Routes
    BY <1>10 DEF EnterCore, TypeOK, ExecStates, Running
  <2> HIDE DEF e
  <2> QED BY <1>6, <1>10, <2>1
          DEF TypeOK, EnterCore, loopVars, controlVars, breakerVars, historyVars
<1>11. ASSUME NEW s \in Slots, Submit(s) PROVE TypeOK'
  <2> DEFINE e == [exec[s] EXCEPT !.at = "sent"]
  <2>1. exec' = [exec EXCEPT ![s] = e] /\ e \in ExecStates /\ e.route \in Routes
    BY <1>11 DEF Submit, TypeOK, ExecStates, Running
  <2>2. exec[s].bn \in Nat /\ exec[s].route \in Routes
    BY <1>11 DEF Submit, TypeOK, ExecStates, Running
  <2>3. sentBlock' \in Nat /\ sentOnRoute' \in [Routes -> Nat] /\ late' \in Nat
    BY <1>11, <2>2 DEF Submit, TypeOK
  <2> HIDE DEF e
  <2> QED BY <1>6, <1>11, <2>1, <2>3
          DEF TypeOK, Submit, loopVars, controlVars, breakerVars
<1>12. ASSUME NEW s \in Slots, RecordExecution(s) PROVE TypeOK'
  <2>1. exec' = [exec EXCEPT ![s] = Idle] /\ exec[s].bn \in Nat
    BY <1>12 DEF RecordExecution, TypeOK, ExecStates
  <2>2. /\ exec' \in [Slots -> ExecStates]
        /\ \A u \in Slots : Running(u)' => exec'[u].route \in Routes
    BY <1>6, <1>7, <2>1
  <2>3. pending' \in Nat /\ lastSubmitted' \in Nat
    BY <1>12, <2>1 DEF TypeOK, RecordExecution
  <2> QED BY <1>12, <2>2, <2>3
          DEF TypeOK, RecordExecution, loopVars, controlVars, breakerVars, historyVars
<1>13. ASSUME NEW s \in Slots, RecordEscapes(s) PROVE TypeOK'
  <2>1. exec' = [exec EXCEPT ![s] = Idle]
    BY <1>13 DEF RecordEscapes
  <2> QED BY <1>6, <1>7, <1>13, <2>1
          DEF TypeOK, RecordEscapes, loopVars, controlVars, breakerVars
<1>14. ASSUME NEW ok \in BOOLEAN, NEW settles \in BOOLEAN, ReceiptFinalized(ok, settles)
       PROVE  TypeOK'
  BY <1>14 DEF TypeOK, Running, ReceiptFinalized, loopVars, execVars
<1>15. CASE CooldownPasses
  BY <1>15 DEF TypeOK, Running, CooldownPasses, loopVars, controlVars, execVars, historyVars
<1>16. ASSUME NEW auto \in BOOLEAN, NEW dry \in BOOLEAN, SetSettings(auto, dry)
       PROVE  TypeOK'
  BY <1>16 DEF TypeOK, Running, SetSettings, loopVars, breakerVars, execVars
<1>17. CASE SetPaused
  BY <1>17 DEF TypeOK, Running, SetPaused, loopVars, breakerVars, execVars, historyVars
<1>18. CASE UNCHANGED vars
  BY <1>18 DEF TypeOK, Running, vars
<1> QED
  BY <1>1, <1>2, <1>3, <1>4, <1>5, <1>8, <1>9, <1>10, <1>11, <1>12, <1>13, <1>14,
     <1>15, <1>16, <1>17, <1>18 DEF Next

(* Every variable keeps its type. *)
THEOREM TypeCorrect == Spec => []TypeOK
  BY TypeInit, TypeStep, PTL DEF Spec

-----------------------------------------------------------------------------
(* The parts of the inductive invariant.                                   *)

(* An execution in flight leaves room for the transaction it will record,  *)
(* and so does a decision that has not been dispatched yet, for its own    *)
(* and for the one in flight.                                              *)
CapInv ==
    /\ pending <= MaxPending + 1
    /\ \A s \in Slots : Running(s) => pending <= MaxPending
    /\ choice # NoRoute => pending <= MaxPending
    /\ \A s \in Slots : choice # NoRoute /\ Running(s) => pending < MaxPending

(* The throttle's copy of _last_submitted_block is current when it is      *)
(* used, and names the latest submission unless one escaped its recording. *)
ThrottleInv ==
    /\ \A s \in Slots : exec[s].at = "core" => exec[s].seen = lastSubmitted
    /\ \A s \in Slots : exec[s].at = "sent" => exec[s].bn = sentBlock
    /\ escaped \/ sentBlock = lastSubmitted \/ \E s \in Slots : exec[s].at = "sent"

(* A decision holds the tick, so its block is still the one the route was  *)
(* marked with; executions and submissions of a route are not later than   *)
(* that mark, and Cooldown blocks lie between any two of them.             *)
CooldownInv ==
    /\ choice # NoRoute =>
          /\ phase = "decided"
          /\ lastTrade[choice] = lastBlock
          /\ sentOnRoute[choice] = 0 \/ lastBlock >= sentOnRoute[choice] + Cooldown
    /\ \A r \in Routes : sentOnRoute[r] <= lastTrade[r]
    /\ \A s \in Slots : Running(s) =>
          /\ exec[s].bn <= lastTrade[exec[s].route]
          /\ choice = exec[s].route => lastBlock >= exec[s].bn + Cooldown
          /\ \/ exec[s].at = "sent"
             \/ sentOnRoute[exec[s].route] = 0
             \/ exec[s].bn >= sentOnRoute[exec[s].route] + Cooldown

(* A late submission is counted while dry run is on, and the               *)
(* execution that made it was the only one that could.                     *)
LateInv ==
    /\ late <= 1
    /\ late = 1 => /\ dryRun
                   /\ \A s \in Slots : exec[s].at = "core" => exec[s].dry

LoopInv == OneInFlight /\ CapInv /\ ThrottleInv /\ CooldownInv /\ LateInv

LEMMA LoopInit == Init => LoopInv
<1> SUFFICES ASSUME Init PROVE LoopInv
  OBVIOUS
<1>1. \A s \in Slots : exec[s].at = "free"
  BY DEF Init, Idle
<1>2. OneInFlight /\ ThrottleInv
  BY <1>1 DEF Init, OneInFlight, ThrottleInv, Running
<1>3. CapInv
  BY <1>1, LoopAssumption DEF Init, CapInv, Running
<1>4. CooldownInv
  BY <1>1 DEF Init, CooldownInv, Running
<1>5. LateInv
  BY DEF Init, LateInv
<1> QED BY <1>2, <1>3, <1>4, <1>5 DEF LoopInv

LEMMA LoopStep == TypeOK /\ LoopInv /\ [Next]_vars => LoopInv'
<1> SUFFICES ASSUME TypeOK, LoopInv, [Next]_vars PROVE LoopInv'
  OBVIOUS
<1> USE LoopAssumption
        DEF LoopInv, OneInFlight, CapInv, ThrottleInv, CooldownInv, LateInv, Running
<1>1. ASSUME NEW b \in Blocks, PrepareTick(b) PROVE LoopInv'
  BY <1>1 DEF TypeOK, PrepareTick, controlVars, breakerVars, execVars, historyVars
<1>2. CASE RpcErrorStorm
  BY <1>2 DEF TypeOK, RpcErrorStorm, loopVars, breakerVars, execVars, historyVars
<1>3. ASSUME NEW r \in Routes \cup {NoRoute}, Decide(r) PROVE LoopInv'
  BY <1>3 DEF TypeOK, ExecStates, Decide, BelowPendingCap, Cooled, controlVars, breakerVars, execVars, historyVars
<1>4. CASE TickFails
  BY <1>4 DEF TypeOK, TickFails, controlVars, breakerVars, execVars, historyVars
<1>5. CASE AfterTick
  <2>1. CASE UNCHANGED execVars
    BY <1>5, <2>1 DEF TypeOK, AfterTick, breakerVars, execVars, historyVars
  <2>2. CASE ~UNCHANGED execVars
    <3>1. CanDispatch /\ task' \in Slots /\ exec[task'].at = "free"
      BY <1>5, <2>2, Dispatch
    <3>2. /\ exec'[task'].at = "dispatched" /\ exec'[task'].bn = lastBlock
          /\ exec'[task'].route = choice
          /\ \A u \in Slots : u # task' => exec'[u] = exec[u]
      BY <1>5, <2>2, <3>1, Dispatch DEF TypeOK
    <3>3. \A u \in Slots : exec[u].at = "free"
      BY <3>1 DEF CanDispatch
    <3>4. choice \in Routes
      BY <3>1 DEF CanDispatch, TypeOK
    <3> QED BY <1>5, <3>2, <3>3, <3>4 DEF TypeOK, AfterTick, breakerVars, historyVars
  <2> QED BY <2>1, <2>2
<1>6. ASSUME NEW s \in Slots, ExecutionEnds(s) PROVE LoopInv'
  <2>1. exec'[s].at = "free" /\ \A u \in Slots : u # s => exec'[u] = exec[u]
    BY <1>6 DEF TypeOK, ExecutionEnds, Idle
  <2> QED BY <1>6, <2>1 DEF TypeOK, ExecutionEnds, loopVars, controlVars, breakerVars,
                            historyVars
<1>7. ASSUME NEW s \in Slots, PrepareExecution(s) PROVE LoopInv'
  <2>1. /\ exec'[s].at = "prepared" /\ exec'[s].bn = exec[s].bn
        /\ exec'[s].route = exec[s].route
        /\ \A u \in Slots : u # s => exec'[u] = exec[u]
    BY <1>7 DEF TypeOK, ExecStates, PrepareExecution
  <2> QED BY <1>7, <2>1 DEF TypeOK, PrepareExecution, loopVars, controlVars, breakerVars,
                            historyVars
<1>8. ASSUME NEW s \in Slots, EnterCore(s) PROVE LoopInv'
  <2>1. /\ exec'[s].at = "core" /\ exec'[s].bn = exec[s].bn
        /\ exec'[s].route = exec[s].route
        /\ exec'[s].dry = dryRun /\ exec'[s].seen = lastSubmitted
        /\ \A u \in Slots : u # s => exec'[u] = exec[u]
    BY <1>8 DEF TypeOK, ExecStates, EnterCore
  <2> QED BY <1>8, <2>1 DEF TypeOK, EnterCore, loopVars, controlVars, breakerVars,
                            historyVars
<1>9. ASSUME NEW s \in Slots, Submit(s) PROVE LoopInv'
  <2>1. /\ exec'[s].at = "sent" /\ exec'[s].bn = exec[s].bn
        /\ exec'[s].route = exec[s].route
        /\ \A u \in Slots : u # s => exec'[u] = exec[u]
    BY <1>9 DEF TypeOK, ExecStates, Submit
  <2>2. \A u \in Slots : u # s => exec[u].at = "free"
    BY <1>9 DEF Submit
  <2>3. exec[s].route \in Routes /\ exec[s].bn \in Nat
    BY <1>9 DEF TypeOK, ExecStates, Submit
  <2>4. OneInFlight' /\ CapInv'
    BY <1>9, <2>1, <2>2 DEF TypeOK, Submit, loopVars
  <2>5. ThrottleInv'
    BY <1>9, <2>1, <2>2 DEF TypeOK, Submit
  <2>6. /\ exec[s].bn <= lastTrade[exec[s].route]
        /\ choice = exec[s].route => lastBlock >= exec[s].bn + Cooldown
    BY <1>9 DEF Submit
  <2>7. /\ UNCHANGED <<lastBlock, phase, choice, lastTrade>>
        /\ sentOnRoute' = [sentOnRoute EXCEPT ![exec[s].route] = exec[s].bn]
    BY <1>9 DEF Submit, loopVars
  <2>8. CooldownInv'
    BY <2>1, <2>2, <2>3, <2>6, <2>7 DEF TypeOK
  <2>9. LateInv'
    BY <1>9, <2>1, <2>2 DEF TypeOK, Submit, MaySubmit, controlVars
  <2> QED BY <2>4, <2>5, <2>8, <2>9
<1>10. ASSUME NEW s \in Slots, RecordExecution(s) PROVE LoopInv'
  <2>1. exec'[s].at = "free" /\ \A u \in Slots : u # s => exec'[u] = exec[u]
    BY <1>10 DEF TypeOK, RecordExecution, Idle
  <2>2. \A u \in Slots : u # s => exec[u].at = "free"
    BY <1>10 DEF RecordExecution
  <2> QED BY <1>10, <2>1, <2>2 DEF TypeOK, RecordExecution, loopVars, controlVars,
                            breakerVars, historyVars
<1>11. ASSUME NEW s \in Slots, RecordEscapes(s) PROVE LoopInv'
  <2>1. exec'[s].at = "free" /\ \A u \in Slots : u # s => exec'[u] = exec[u]
    BY <1>11 DEF TypeOK, RecordEscapes, Idle
  <2> QED BY <1>11, <2>1 DEF TypeOK, RecordEscapes, loopVars, controlVars, breakerVars
<1>12. ASSUME NEW ok \in BOOLEAN, NEW settles \in BOOLEAN, ReceiptFinalized(ok, settles)
       PROVE  LoopInv'
  BY <1>12 DEF TypeOK, ReceiptFinalized, loopVars, execVars
<1>13. CASE CooldownPasses
  BY <1>13 DEF CooldownPasses, loopVars, controlVars, execVars, historyVars
<1>14. ASSUME NEW auto \in BOOLEAN, NEW dry \in BOOLEAN, SetSettings(auto, dry)
       PROVE  LoopInv'
  BY <1>14 DEF TypeOK, SetSettings, loopVars, breakerVars, execVars
<1>15. CASE SetPaused
  BY <1>15 DEF SetPaused, loopVars, breakerVars, execVars, historyVars
<1>16. CASE UNCHANGED vars
  BY <1>16 DEF vars
<1> QED
  BY <1>1, <1>2, <1>3, <1>4, <1>5, <1>6, <1>7, <1>8, <1>9, <1>10, <1>11, <1>12, <1>13,
     <1>14, <1>15, <1>16 DEF Next

LEMMA LoopInvariant == Spec => [](TypeOK /\ LoopInv)
<1>1. Init => TypeOK /\ LoopInv
  BY TypeInit, LoopInit
<1>2. (TypeOK /\ LoopInv) /\ [Next]_vars => (TypeOK /\ LoopInv)'
  BY TypeStep, LoopStep
<1> QED BY <1>1, <1>2, PTL DEF Spec

-----------------------------------------------------------------------------
(* Only the task that _exec_task refers to can be running. *)
THEOREM OneInFlightHolds == Spec => []OneInFlight
<1>1. TypeOK /\ LoopInv => OneInFlight
  BY DEF LoopInv
<1> QED BY <1>1, LoopInvariant, PTL

(* The pending-transaction cap is overshot by at most one, whatever the cap. *)
THEOREM PendingOvershootsByOneHolds == Spec => []PendingOvershootsByOne
<1>1. TypeOK /\ LoopInv => PendingOvershootsByOne
  BY DEF LoopInv, CapInv, PendingOvershootsByOne
<1> QED BY <1>1, LoopInvariant, PTL

(* At most one transaction leaves after dry run was turned on. *)
THEOREM DryRunStopsSubmissionsHolds == Spec => []DryRunStopsSubmissions
<1>1. TypeOK /\ LoopInv => DryRunStopsSubmissions
  BY DEF LoopInv, LateInv, DryRunStopsSubmissions
<1> QED BY <1>1, LoopInvariant, PTL

(* Only Submit takes a task from the core of the execution to "sent". *)
LEMMA SubmitIsTheOnlySend ==
  ASSUME TypeOK, [Next]_vars, NEW s \in Slots, exec[s].at = "core", exec'[s].at = "sent"
  PROVE  Submit(s)
<1> USE DEF TypeOK, ExecStates, Idle
<1>1. exec' # exec
  OBVIOUS
<1>2. CASE AfterTick
  <2>1. ~UNCHANGED execVars
    BY <1>1 DEF execVars
  <2> QED BY <1>2, <2>1, Dispatch
<1>3. ASSUME NEW u \in Slots,
             \/ ExecutionEnds(u) \/ PrepareExecution(u) \/ EnterCore(u)
             \/ Submit(u) \/ RecordExecution(u) \/ RecordEscapes(u)
      PROVE  Submit(s)
  BY <1>3 DEF ExecutionEnds, PrepareExecution, EnterCore, Submit, RecordExecution, RecordEscapes
<1> QED
  BY <1>1, <1>2, <1>3
  DEF Next, PrepareTick, RpcErrorStorm, Decide, TickFails, ReceiptFinalized,
      CooldownPasses, SetSettings, SetPaused, vars, execVars

(* Two submissions in a row carry different block numbers, unless the      *)
(* first escaped its recording.                                            *)
THEOREM OneTxPerBlockHolds == Spec => OneTxPerBlock
<1> DEFINE A == \A s \in Slots : exec[s].at = "core" /\ exec'[s].at = "sent" =>
                    exec[s].bn # sentBlock \/ escaped
<1>1. ASSUME TypeOK, LoopInv, [Next]_vars, NEW s \in Slots,
             exec[s].at = "core", exec'[s].at = "sent"
      PROVE  exec[s].bn # sentBlock \/ escaped
  <2>1. Submit(s)
    BY <1>1, SubmitIsTheOnlySend
  <2>2. exec[s].seen # exec[s].bn /\ exec[s].seen = lastSubmitted
    BY <1>1, <2>1 DEF Submit, MaySubmit, LoopInv, ThrottleInv
  <2>3. ~\E u \in Slots : exec[u].at = "sent"
    BY <1>1 DEF LoopInv, OneInFlight, Running
  <2> QED BY <1>1, <2>2, <2>3 DEF LoopInv, ThrottleInv
<1>2. TypeOK /\ LoopInv /\ [Next]_vars => [A]_vars
  BY <1>1
<1> QED BY <1>2, LoopInvariant, PTL DEF Spec, OneTxPerBlock

(* Two submissions on one route are at least Cooldown blocks apart, in     *)
(* whatever order the endpoints report the blocks.                         *)
THEOREM RouteCooldownHolds == Spec => RouteCooldown
<1> DEFINE A == \A s \in Slots : exec[s].at = "core" /\ exec'[s].at = "sent" =>
                    LET before == sentOnRoute[exec[s].route]
                    IN  before = 0 \/ exec[s].bn >= before + Cooldown
<1>1. TypeOK /\ LoopInv /\ [Next]_vars => [A]_vars
  BY DEF LoopInv, CooldownInv, Running
<1> QED BY <1>1, LoopInvariant, PTL DEF Spec, RouteCooldown

-----------------------------------------------------------------------------
(* Only the operator turns trading on after a tick that ended with the     *)
(* breaker tripped.                                                        *)
StopInv == stopped => ~autoTrading

LEMMA StopStep == TypeOK /\ StopInv /\ [Next]_vars => StopInv'
<1> SUFFICES ASSUME TypeOK, StopInv, [Next]_vars PROVE StopInv'
  OBVIOUS
<1> USE DEF StopInv, TypeOK
<1>1. ASSUME NEW b \in Blocks, PrepareTick(b) PROVE StopInv'
  BY <1>1 DEF PrepareTick, controlVars, historyVars
<1>2. CASE RpcErrorStorm
  BY <1>2 DEF RpcErrorStorm
<1>3. ASSUME NEW r \in Routes \cup {NoRoute}, Decide(r) PROVE StopInv'
  BY <1>3 DEF Decide, controlVars, historyVars
<1>4. CASE TickFails
  BY <1>4 DEF TickFails, controlVars, historyVars
<1>5. CASE AfterTick
  BY <1>5 DEF AfterTick, StillTrading
<1>6. ASSUME NEW s \in Slots,
             \/ ExecutionEnds(s) \/ PrepareExecution(s) \/ EnterCore(s)
             \/ Submit(s) \/ RecordExecution(s) \/ RecordEscapes(s)
      PROVE  StopInv'
  BY <1>6 DEF ExecutionEnds, PrepareExecution, EnterCore, Submit, RecordExecution,
              RecordEscapes, controlVars, historyVars
<1>7. ASSUME NEW ok \in BOOLEAN, NEW settles \in BOOLEAN, ReceiptFinalized(ok, settles)
      PROVE  StopInv'
  BY <1>7 DEF ReceiptFinalized
<1>8. CASE CooldownPasses
  BY <1>8 DEF CooldownPasses, controlVars, historyVars
<1>9. ASSUME NEW auto \in BOOLEAN, NEW dry \in BOOLEAN, SetSettings(auto, dry)
      PROVE  StopInv'
  BY <1>9 DEF SetSettings
<1>10. CASE SetPaused
  BY <1>10 DEF SetPaused, historyVars
<1>11. CASE UNCHANGED vars
  BY <1>11 DEF vars
<1> QED
  BY <1>1, <1>2, <1>3, <1>4, <1>5, <1>6, <1>7, <1>8, <1>9, <1>10, <1>11 DEF Next

(* After a tick that ended with the breaker tripped nothing is dispatched  *)
(* until the operator enables trading, for every trip threshold.           *)
THEOREM TripIsStickyHolds == Spec => TripIsSticky
<1> DEFINE A == \A s \in Slots : ~Running(s) /\ exec'[s].at = "dispatched" => ~stopped
<1>1. ASSUME TypeOK, StopInv, [Next]_vars, NEW s \in Slots, ~Running(s),
             exec'[s].at = "dispatched"
      PROVE  ~stopped
  <2>1. exec' # exec
    BY <1>1 DEF Running
  <2>2. CASE AfterTick
    <3>1. ~UNCHANGED execVars
      BY <2>1 DEF execVars
    <3>2. autoTrading
      BY <1>1, <2>2, <3>1, Dispatch DEF CanDispatch
    <3> QED BY <1>1, <3>2 DEF StopInv
  <2>3. ASSUME NEW u \in Slots,
               \/ ExecutionEnds(u) \/ PrepareExecution(u) \/ EnterCore(u)
               \/ Submit(u) \/ RecordExecution(u) \/ RecordEscapes(u)
        PROVE  FALSE
    BY <1>1, <2>3 DEF ExecutionEnds, PrepareExecution, EnterCore, Submit, RecordExecution,
                      RecordEscapes, Running, TypeOK, ExecStates, Idle
  <2> QED
    BY <1>1, <2>1, <2>2, <2>3
    DEF Next, PrepareTick, RpcErrorStorm, Decide, TickFails, ReceiptFinalized,
        CooldownPasses, SetSettings, SetPaused, vars, execVars
<1>2. TypeOK /\ StopInv /\ [Next]_vars => [A]_vars
  BY <1>1
<1>3. Init => TypeOK /\ StopInv
  BY TypeInit DEF Init, StopInv
<1>4. (TypeOK /\ StopInv) /\ [Next]_vars => (TypeOK /\ StopInv)'
  BY TypeStep, StopStep
<1> QED BY <1>2, <1>3, <1>4, PTL DEF Spec, TripIsSticky
=============================================================================
