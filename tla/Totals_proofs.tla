---------------------------- MODULE Totals_proofs ----------------------------
(***************************************************************************)
(* Two parts of the runtime keep totals beside the things they add up: the *)
(* receipt pipeline its gas reservation beside the pending transactions,   *)
(* and the internal prime the borrowed amount, the exposures and the stock *)
(* beside its loans.  Here are the proofs that the totals stay right, for  *)
(* any number of transactions and loans, and of what else the prime        *)
(* promises about its loans.                                               *)
(*                                                                         *)
(* The models write a sum as MapThenSumSet, a recursive function that      *)
(* takes the elements in the order of CHOOSE.  The lemmas about sums show  *)
(* that there is a function on the subsets of a finite set that may take   *)
(* the elements in any order (Additive), and that the sum is this one.     *)
(***************************************************************************)
EXTENDS ReceiptPipeline_proofs, InternalPrime, FiniteSetTheorems,
        WellFoundedInduction

-----------------------------------------------------------------------------
(* Sums over finite sets.                                                  *)

SumOver(w, S) == MapThenSumSet(LAMBDA x : w[x], S)

(* One step of the recursion. *)
StepOf(w, s, i) ==
    IF s = {} THEN 0 ELSE LET x == CHOOSE y \in s : TRUE IN w[x] + i[s \ {x}]

Iterates(w, S, i) == i = [s \in SUBSET S |-> StepOf(w, s, i)]

Additive(w, D, g) ==
    /\ g \in [SUBSET D -> Nat]
    /\ g[{}] = 0
    /\ \A T \in SUBSET D : \A x \in T : g[T] = w[x] + g[T \ {x}]

(* Of some subsets of a finite set one contains no other. *)
LEMMA SmallestSubset ==
    ASSUME NEW D, IsFiniteSet(D), NEW B, B \subseteq SUBSET D, B # {}
    PROVE  \E E \in B : \A x \in E : E \ {x} \notin B
  <1> DEFINE N == {Cardinality(E) : E \in B}
  <1>1. \A E \in B : IsFiniteSet(E) /\ Cardinality(E) \in Nat
    BY FS_Subset, FS_CardinalityType
  <1>2. N \subseteq Nat /\ N # {}
    BY <1>1
  <1>3. PICK n \in N : \A m \in N : ~ (<<m, n>> \in OpToRel(<, Nat))
    <2> HIDE DEF N
    <2> QED
      BY <1>2, NatLessThanWellFounded, WFMin
  <1>4. \A m \in N : ~(m < n)
    BY <1>2, <1>3 DEF OpToRel
  <1>5. PICK E \in B : n = Cardinality(E)
    OBVIOUS
  <1>6. \A x \in E : E \ {x} \notin B
    <2> SUFFICES ASSUME NEW x \in E, E \ {x} \in B
                 PROVE  FALSE
      OBVIOUS
    <2>1. Cardinality(E \ {x}) = Cardinality(E) - 1
      BY <1>1, FS_RemoveElement
    <2>2. Cardinality(E \ {x}) \in N
      OBVIOUS
    <2> HIDE DEF N
    <2> QED
      BY <1>1, <1>2, <1>4, <1>5, <2>1, <2>2
  <1> QED
    BY <1>6

(* An additive function on the subsets of a set is one on the subsets of   *)
(* the set with one more element.                                          *)
LEMMA AdditiveExtends ==
    ASSUME NEW E, NEW a, a \notin E, NEW w, \A y \in E \cup {a} : w[y] \in Nat,
           NEW g, Additive(w, E, g)
    PROVE  \E h : Additive(w, E \cup {a}, h)
  <1> DEFINE F == E \cup {a}
             h == [T \in SUBSET F |-> IF a \in T THEN w[a] + g[T \ {a}] ELSE g[T]]
  <1>1. \A T \in SUBSET F : T \ {a} \in SUBSET E /\ (a \notin T => T \in SUBSET E)
    OBVIOUS
  <1>2. \A T \in SUBSET E : g[T] \in Nat
    BY DEF Additive
  <1>3. h \in [SUBSET F -> Nat]
    BY <1>1, <1>2
  <1>4. h[{}] = 0
    BY DEF Additive
  <1>5. ASSUME NEW T \in SUBSET F, NEW x \in T
        PROVE  h[T] = w[x] + h[T \ {x}]
    <2>0. T \ {x} \in SUBSET F
      OBVIOUS
    <2>1. CASE x = a
      <3>1. h[T] = w[a] + g[T \ {a}]
        BY <2>1
      <3>2. h[T \ {x}] = g[T \ {a}]
        BY <2>0, <2>1
      <3> QED
        BY <2>1, <3>1, <3>2
    <2>2. CASE x # a /\ a \notin T
      <3>1. h[T] = g[T] /\ h[T \ {x}] = g[T \ {x}]
        BY <2>0, <2>2
      <3>2. T \in SUBSET E
        BY <2>2
      <3> QED
        BY <3>1, <3>2 DEF Additive
    <2>3. CASE x # a /\ a \in T
      <3>1. h[T] = w[a] + g[T \ {a}]
        BY <2>3
      <3>2. h[T \ {x}] = w[a] + g[(T \ {x}) \ {a}]
        BY <2>0, <2>3
      <3>3. (T \ {x}) \ {a} = (T \ {a}) \ {x}
        OBVIOUS
      <3>4. T \ {a} \in SUBSET E /\ x \in T \ {a} /\ (T \ {a}) \ {x} \in SUBSET E
        BY <2>3
      <3>5. g[T \ {a}] = w[x] + g[(T \ {a}) \ {x}]
        BY <3>4 DEF Additive
      <3>6. g[T \ {a}] \in Nat /\ g[(T \ {a}) \ {x}] \in Nat
        BY <1>2, <3>4
      <3> HIDE DEF h
      <3>7. w[x] \in Nat /\ w[a] \in Nat
        OBVIOUS
      <3>8. h[T \ {x}] = w[a] + g[(T \ {a}) \ {x}]
        BY <3>2, <3>3
      <3>9. h[T] = w[a] + (w[x] + g[(T \ {a}) \ {x}])
        BY <3>1, <3>5
      <3> HIDE DEF F
      <3> QED
        BY <3>6, <3>7, <3>8, <3>9
    <2> QED
      BY <2>1, <2>2, <2>3
  <1>6. Additive(w, F, h)
    <2> HIDE DEF h
    <2> QED
      BY <1>3, <1>4, <1>5 DEF Additive
  <1> QED
    BY <1>6

LEMMA AdditiveExists ==
    ASSUME NEW D, IsFiniteSet(D), NEW w, \A y \in D : w[y] \in Nat
    PROVE  \E g : Additive(w, D, g)
  <1> DEFINE B == {E \in SUBSET D : ~ \E g : Additive(w, E, g)}
  <1>1. SUFFICES B = {}
    OBVIOUS
  <1>2. SUFFICES ASSUME B # {} PROVE FALSE
    OBVIOUS
  <1>3. PICK E \in B : \A x \in E : E \ {x} \notin B
    <2>1. B \subseteq SUBSET D
      OBVIOUS
    <2> HIDE DEF B
    <2> QED
      BY <1>2, <2>1, SmallestSubset
  <1>4. CASE E = {}
    <2> DEFINE g == [T \in SUBSET {} |-> 0]
    <2>1. Additive(w, {}, g)
      BY DEF Additive
    <2> QED
      BY <1>4, <2>1
  <1>5. CASE E # {}
    <2>1. PICK x \in E : TRUE
      BY <1>5
    <2>2. PICK g : Additive(w, E \ {x}, g)
      BY <1>3
    <2>3. x \notin E \ {x} /\ (E \ {x}) \cup {x} = E
         /\ \A y \in E : w[y] \in Nat
      OBVIOUS
    <2>4. \E h : Additive(w, (E \ {x}) \cup {x}, h)
      BY <2>2, <2>3, AdditiveExtends
    <2> QED
      BY <2>3, <2>4
  <1> QED
    BY <1>4, <1>5

(* The recursion computes any additive function. *)
LEMMA SumIsAdditive ==
    ASSUME NEW D, IsFiniteSet(D), NEW w, \A y \in D : w[y] \in Nat, NEW g, Additive(w, D, g),
           NEW S \in SUBSET D
    PROVE  SumOver(w, S) = g[S]
  <1> DEFINE h == [T \in SUBSET S |-> g[T]]
             it == CHOOSE i : Iterates(w, S, i)
  <1>1. SumOver(w, S) = it[S]
    BY DEF SumOver, MapThenSumSet, MapThenFoldSet, Iterates, StepOf
  <1>2. Iterates(w, S, h)
    <2> SUFFICES ASSUME NEW T \in SUBSET S
                 PROVE  g[T] = StepOf(w, T, h)
      BY DEF Iterates
    <2>1. CASE T = {}
      BY <2>1 DEF StepOf, Additive
    <2>2. CASE T # {}
      <3> DEFINE x == CHOOSE y \in T : TRUE
      <3>1. x \in T
        BY <2>2
      <3>2. T \in SUBSET D /\ T \ {x} \in SUBSET S
        OBVIOUS
      <3>3. StepOf(w, T, h) = w[x] + h[T \ {x}]
        BY <2>2 DEF StepOf
      <3>4. h[T \ {x}] = g[T \ {x}]
        BY <3>2
      <3> HIDE DEF x, h
      <3> QED
        BY <3>1, <3>2, <3>3, <3>4 DEF Additive
    <2> QED
      BY <2>1, <2>2
  <1>3. Iterates(w, S, it)
    BY <1>2
  <1>4. \A T \in SUBSET S : it[T] = StepOf(w, T, it)
    <2> HIDE DEF it
    <2> QED
      BY <1>3 DEF Iterates
  <1> HIDE DEF it, h
  <1> DEFINE B == {T \in SUBSET S : it[T] # g[T]}
  <1>5. B = {}
    <2> SUFFICES ASSUME B # {} PROVE FALSE
      OBVIOUS
    <2>1. B \subseteq SUBSET D
      OBVIOUS
    <2>2. PICK T \in B : \A x \in T : T \ {x} \notin B
      <3> HIDE DEF B
      <3> QED
        BY <2>1, SmallestSubset
    <2>3. CASE T = {}
      BY <1>4, <2>3 DEF StepOf, Additive
    <2>4. CASE T # {}
      <3> DEFINE x == CHOOSE y \in T : TRUE
      <3>1. x \in T
        BY <2>4
      <3>2. T \in SUBSET S /\ T \in SUBSET D /\ T \ {x} \in SUBSET S
        OBVIOUS
      <3>3. it[T] = w[x] + it[T \ {x}]
        BY <1>4, <2>4, <3>2 DEF StepOf
      <3> HIDE DEF x
      <3>4. it[T \ {x}] = g[T \ {x}]
        BY <2>2, <3>1, <3>2
      <3>5. g[T] = w[x] + g[T \ {x}]
        BY <3>1, <3>2 DEF Additive
      <3>6. it[T] # g[T]
        OBVIOUS
      <3> QED
        BY <3>3, <3>4, <3>5, <3>6
    <2> QED
      BY <2>3, <2>4
  <1>6. S \in SUBSET S
    OBVIOUS
  <1> QED
    BY <1>1, <1>5, <1>6

(* Nothing weighs nothing. *)
LEMMA SumOfNothing ==
    ASSUME NEW D, IsFiniteSet(D), NEW w, \A y \in D : w[y] \in Nat
    PROVE  SumOver(w, {}) = 0
  <1>1. PICK g : Additive(w, D, g)
    BY AdditiveExists
  <1>2. SumOver(w, {}) = g[{}]
    BY <1>1, SumIsAdditive
  <1> QED
    BY <1>1, <1>2 DEF Additive

(* Taking an element out of a set takes its weight off the sum. *)
LEMMA SumWithout ==
    ASSUME NEW D, IsFiniteSet(D), NEW w, \A y \in D : w[y] \in Nat, NEW S \in SUBSET D, NEW x \in S
    PROVE  /\ SumOver(w, S) \in Nat
           /\ SumOver(w, S \ {x}) \in Nat
           /\ SumOver(w, S) = w[x] + SumOver(w, S \ {x})
  <1>1. PICK g : Additive(w, D, g)
    BY AdditiveExists
  <1>2. S \ {x} \in SUBSET D
    OBVIOUS
  <1>3. SumOver(w, S) = g[S] /\ SumOver(w, S \ {x}) = g[S \ {x}]
    BY <1>1, <1>2, SumIsAdditive
  <1>4. g[S] \in Nat /\ g[S \ {x}] \in Nat /\ g[S] = w[x] + g[S \ {x}]
    BY <1>1, <1>2 DEF Additive
  <1> QED
    BY <1>3, <1>4

(* ... and adding one adds it. *)
LEMMA SumWith ==
    ASSUME NEW D, IsFiniteSet(D), NEW w, \A y \in D : w[y] \in Nat, NEW S \in SUBSET D,
           NEW x \in D, x \notin S
    PROVE  /\ SumOver(w, S) \in Nat
           /\ SumOver(w, S \cup {x}) \in Nat
           /\ SumOver(w, S \cup {x}) = w[x] + SumOver(w, S)
  <1>1. S \cup {x} \in SUBSET D /\ (S \cup {x}) \ {x} = S /\ x \in S \cup {x}
    OBVIOUS
  <1> QED
    BY <1>1, SumWithout

-----------------------------------------------------------------------------
(* The gas reservation of ReceiptPipeline.                                 *)

(* Only finitely many transactions are pending at a time, whatever Txs. *)
GasInv == IsFiniteSet(pending) /\ GasReservation

LEMMA ReservedIsSum == \A S : Reserved(S) = SumOver(GasEst, S)
  BY DEF Reserved, SumOver

(* The estimates of a finite set of transactions, one more and one less. *)
LEMMA ReservedEmpty == Reserved({}) = 0
  <1>1. \A y \in {} : GasEst[y] \in Nat
    OBVIOUS
  <1> QED
    BY <1>1, FS_EmptySet, SumOfNothing, ReservedIsSum

LEMMA ReservedWith ==
    ASSUME NEW S \in SUBSET Txs, IsFiniteSet(S), NEW t \in Txs \ S
    PROVE  /\ Reserved(S) \in Nat
           /\ Reserved(S \cup {t}) = GasEst[t] + Reserved(S)
  <1>1. IsFiniteSet(S \cup {t}) /\ S \in SUBSET (S \cup {t})
    BY FS_AddElement
  <1>2. \A y \in S \cup {t} : GasEst[y] \in Nat
    BY PipelineAssumption
  <1> QED
    BY <1>1, <1>2, SumWith, ReservedIsSum

LEMMA ReservedWithout ==
    ASSUME NEW S \in SUBSET Txs, IsFiniteSet(S), NEW t \in S
    PROVE  /\ Reserved(S \ {t}) \in Nat
           /\ Reserved(S) = GasEst[t] + Reserved(S \ {t})
  <1>1. \A y \in S : GasEst[y] \in Nat
    BY PipelineAssumption
  <1> QED
    BY <1>1, SumWithout, ReservedIsSum

LEMMA ReservedType ==
    ASSUME NEW S \in SUBSET Txs, IsFiniteSet(S)
    PROVE  Reserved(S) \in Nat
  <1>1. CASE S = {}
    BY <1>1, ReservedEmpty
  <1>2. CASE S # {}
    <2>1. PICK t \in S : TRUE
      BY <1>2
    <2>2. Reserved(S \ {t}) \in Nat /\ Reserved(S) = GasEst[t] + Reserved(S \ {t})
      BY ReservedWithout
    <2>3. GasEst[t] \in Nat
      BY PipelineAssumption
    <2> QED
      BY <2>2, <2>3
  <1> QED
    BY <1>1, <1>2

LEMMA GasInit == Init => GasInv
  <1> SUFFICES ASSUME Init PROVE GasInv
    OBVIOUS
  <1>1. pending \ carried = {}
    BY DEF Init
  <1> QED
    BY <1>1, FS_EmptySet, ReservedEmpty DEF Init, GasInv, GasReservation

(* The receipt in hand is a pending one; a new entry was not pending.      *)
LEMMA GasStep == TypeOK /\ TrackInv /\ GasInv /\ [Next]_vars => GasInv'
  <1> SUFFICES ASSUME TypeOK, TrackInv, GasInv, [Next]_vars PROVE GasInv'
    OBVIOUS
  <1>0. /\ IsFiniteSet(pending) /\ pending \subseteq Txs /\ carried \subseteq pending
        /\ pendingGas \in Nat /\ Reserved(pending \ carried) \in Nat
    <2>1. IsFiniteSet(pending) /\ pending \subseteq Txs /\ carried \subseteq pending
          /\ pendingGas \in Nat
      BY DEF TypeOK, GasInv
    <2>2. IsFiniteSet(pending \ carried)
      BY <2>1, FS_Subset
    <2> QED
      BY <2>1, <2>2, ReservedType
  <1>1. CASE UNCHANGED <<pending, carried, pendingGas, drained>>
    BY <1>1 DEF GasInv, GasReservation
  <1>2. ASSUME NEW t \in Txs, RecordExecution(t) PROVE GasInv'
    <2>1. t \notin pending /\ pending' = pending \cup {t} /\ carried' = carried
          /\ pendingGas' = pendingGas + GasEst[t] /\ drained' = drained
      BY <1>2 DEF RecordExecution, TrackInv, FreshUntilRecorded
    <2>2. IsFiniteSet(pending')
      BY <1>0, <2>1, FS_AddElement
    <2>3. (pending \ carried)' = (pending \ carried) \cup {t}
          /\ t \notin pending \ carried
      BY <1>0, <2>1
    <2>4. IsFiniteSet(pending \ carried)
      BY <1>0, FS_Subset
    <2>5. Reserved((pending \ carried) \cup {t}) = GasEst[t] + Reserved(pending \ carried)
      BY <1>0, <2>3, <2>4, ReservedWith
    <2>6. GasEst[t] \in Nat
      BY PipelineAssumption
    <2>7. Reserved(pending \ carried)' = GasEst[t] + Reserved(pending \ carried)
      BY <2>3, <2>5
    <2>8. pendingGas <= Reserved(pending \ carried)
          /\ (~drained => pendingGas = Reserved(pending \ carried))
      BY DEF GasInv, GasReservation
    <2>9. GasReservation'
      BY <1>0, <2>1, <2>6, <2>7, <2>8 DEF GasReservation
    <2> QED
      BY <2>2, <2>9 DEF GasInv
  <1>3. ASSUME NEW alive \in BOOLEAN, FinalizeReceipt(alive) PROVE GasInv'
    <2>1. hand \in pending /\ hand \in Txs /\ pending' = pending \ {hand}
      BY <1>3 DEF FinalizeReceipt, TrackInv, WorkIsTracked, InHand, Holding, TypeOK
    <2>2. IsFiniteSet(pending')
      BY <1>0, <2>1, FS_RemoveElement
    <2>3. GasEst[hand] \in Nat
      BY <2>1, PipelineAssumption
    <2>4. CASE budgetDay # clockDay
      <3> DEFINE b == AfterBudgetReset
      <3>0. b.gas = 0 /\ b.carried = pending
        BY <2>4 DEF AfterBudgetReset
      <3>a. /\ carried' = b.carried \ {hand} /\ pendingGas' = Minus(b.gas, GasEst[hand])
            /\ drained' = (b.drained \/ hand \in b.carried)
        BY <1>3 DEF FinalizeReceipt
      <3> HIDE DEF b
      <3>b. drained'
        BY <2>1, <3>0, <3>a
      <3>1. carried' = pending \ {hand} /\ pendingGas' = 0
        BY <2>3, <3>0, <3>a DEF Minus
      <3>2. Reserved(pending \ carried)' = 0
        BY <2>1, <3>1, ReservedEmpty
      <3> QED
        BY <2>2, <3>b, <3>1, <3>2 DEF GasInv, GasReservation
    <2>5. CASE budgetDay = clockDay
      <3>1. carried' = carried \ {hand} /\ pendingGas' = Minus(pendingGas, GasEst[hand])
            /\ drained' = (drained \/ hand \in carried)
        BY <1>3, <2>5 DEF FinalizeReceipt, AfterBudgetReset
      <3>2. pendingGas <= Reserved(pending \ carried)
            /\ (~drained => pendingGas = Reserved(pending \ carried))
        BY DEF GasInv, GasReservation
      <3>3. CASE hand \in carried
        <4>1. (pending \ carried)' = pending \ carried
          BY <2>1, <3>1, <3>3
        <4>2. Reserved(pending \ carried)' = Reserved(pending \ carried)
          BY <4>1
        <4>a. pendingGas' = Minus(pendingGas, GasEst[hand])
          BY <3>1
        <4>b. pendingGas' <= pendingGas /\ pendingGas' \in Nat
          BY <1>0, <2>3, <4>a DEF Minus
        <4>c. drained'
          BY <3>1, <3>3
        <4>3. drained' /\ pendingGas' <= pendingGas /\ pendingGas' \in Nat
          BY <4>b, <4>c
        <4> QED
          BY <1>0, <2>2, <3>2, <4>2, <4>3 DEF GasInv, GasReservation
      <3>4. CASE hand \notin carried
        <4>1. (pending \ carried)' = (pending \ carried) \ {hand}
              /\ hand \in pending \ carried
          BY <2>1, <3>1, <3>4
        <4>2. IsFiniteSet(pending \ carried)
          BY <1>0, FS_Subset
        <4>3. Reserved((pending \ carried) \ {hand}) \in Nat
              /\ Reserved(pending \ carried)
                    = GasEst[hand] + Reserved((pending \ carried) \ {hand})
          BY <1>0, <4>1, <4>2, ReservedWithout
        <4>4. Reserved(pending \ carried)' = Reserved((pending \ carried) \ {hand})
          BY <4>1
        <4>5. drained' = drained
          BY <3>1, <3>4 DEF TypeOK
        <4>6. pendingGas' <= Reserved((pending \ carried) \ {hand})
          BY <1>0, <2>3, <3>1, <3>2, <4>3 DEF Minus
        <4>7. ~drained => pendingGas' = Reserved((pending \ carried) \ {hand})
          BY <1>0, <2>3, <3>1, <3>2, <4>3 DEF Minus
        <4> QED
          BY <2>2, <4>4, <4>5, <4>6, <4>7 DEF GasInv, GasReservation
      <3> QED
        BY <3>3, <3>4
    <2> QED
      BY <2>4, <2>5
  <1>4. CASE Restart
    <2>1. pending' = {} /\ (pending \ carried)' = {} /\ pendingGas' = 0
      BY <1>4 DEF Restart
    <2> QED
      BY <2>1, FS_EmptySet, ReservedEmpty DEF GasInv, GasReservation
  <1>5. CASE GasBudgetRemaining
    <2>1. pending' = pending /\ (pending \ carried)' = {} /\ pendingGas' = 0
      BY <1>5 DEF GasBudgetRemaining, AfterBudgetReset, trackVars
    <2> QED
      BY <1>0, <2>1, ReservedEmpty DEF GasInv, GasReservation
  <1>6. ASSUME NEW t \in Txs, Broadcast(t) \/ RecordEscapes(t) \/ Mine(t) PROVE GasInv'
    BY <1>1, <1>6 DEF Broadcast, RecordEscapes, Mine, trackVars, gasVars
  <1>7. CASE Get \/ ReceiptMissing \/ ReceiptFound \/ ReceiptProcessingFails
             \/ GetWithoutUrl \/ WorkerDies
    BY <1>1, <1>7
    DEF Get, ReceiptMissing, ReceiptFound, ReceiptProcessingFails, GetWithoutUrl,
        WorkerDies, trackVars, gasVars
  <1>8. CASE StopCancels \/ CancelDelivered \/ StartWorker \/ Midnight \/ UNCHANGED vars
    BY <1>1, <1>8
    DEF StopCancels, CancelDelivered, StartWorker, Midnight, trackVars, gasVars, vars
  <1> QED
    BY <1>2, <1>3, <1>4, <1>5, <1>6, <1>7, <1>8 DEF Next, WorkerStep, FaultStep

(* The gas reservation never exceeds the estimates of the open             *)
(* transactions of the budget day, and equals their sum unless a           *)
(* transaction of an earlier day was finalized (update_realized_gas_budget *)
(* against _reset_budget_day_if_needed).                                   *)
THEOREM GasReservationHolds == Spec => []GasReservation
  <1>1. GasInv => GasReservation
    BY DEF GasInv
  <1>2. Spec => []GasInv
    BY Tracking, GasInit, GasStep, PTL DEF Spec
  <1> QED
    BY <1>1, <1>2, PTL

-----------------------------------------------------------------------------
(* InternalPrime: what an operation does to a book.                        *)

(* An operation op on loan l that was decided on the book b. *)
Sound(op, l, b) ==
    \/ /\ op = "open" /\ b.loans[l] = "none"
       /\ b.borrowed + Notional[l] <= Capacity
       /\ b.exposure[FamilyOf[l]] + Notional[l] <= FamilyCap
    \/ op \in {"settle", "dispute"} /\ l \in Active(b)

LEMMA PositivePart ==
    ASSUME NEW i \in Int
    PROVE  Max({0, i}) = IF i > 0 THEN i ELSE 0
  BY DEF Max

LEMMA BookFields ==
    ASSUME NEW b \in Books
    PROVE  /\ b.borrowed \in Nat /\ b.exposure \in [Families -> Nat]
           /\ b.loans \in [Loans -> Statuses]
  BY DEF Books

(* The totals of the book after the operation. *)
LEMMA ChangedTotals ==
    ASSUME NEW b \in Books, NEW l \in Loans, NEW op, Sound(op, l, b)
    PROVE  /\ Changed(b, op, l) \in Books
           /\ op = "open" =>
                  /\ Changed(b, op, l).borrowed = b.borrowed + Notional[l]
                  /\ \A f \in Families : Changed(b, op, l).exposure[f] =
                         IF f = FamilyOf[l] THEN b.exposure[f] + Notional[l]
                                            ELSE b.exposure[f]
           /\ op = "settle" =>
                  /\ Changed(b, op, l).borrowed =
                         IF b.borrowed > Notional[l] THEN b.borrowed - Notional[l] ELSE 0
                  /\ \A f \in Families : Changed(b, op, l).exposure[f] =
                         IF f # FamilyOf[l] THEN b.exposure[f]
                         ELSE IF b.exposure[f] > Notional[l]
                         THEN b.exposure[f] - Notional[l] ELSE 0
           /\ op = "dispute" =>
                  /\ Changed(b, op, l).borrowed = b.borrowed
                  /\ Changed(b, op, l).exposure = b.exposure
  <1> USE BookFields, InternalPrimeAssumption DEF Sound
  <1> DEFINE c == Changed(b, op, l)
  <1>1. FamilyOf[l] \in Families /\ Notional[l] \in Nat
    OBVIOUS
  <1>2. CASE op = "open"
    <2>1. b.borrowed + Notional[l] \in Nat
          /\ [b.exposure EXCEPT ![FamilyOf[l]] = @ + Notional[l]] \in [Families -> Nat]
          /\ [b.loans EXCEPT ![l] = "open"] \in [Loans -> Statuses]
      BY <1>1 DEF Statuses
    <2>2. c \in Books /\ c.borrowed = b.borrowed + Notional[l]
          /\ c.exposure = [b.exposure EXCEPT ![FamilyOf[l]] = @ + Notional[l]]
      BY <1>1, <1>2, <2>1 DEF Changed, WithLoan, Books
    <2> HIDE DEF c
    <2>3. \A f \in Families : c.exposure[f] =
               IF f = FamilyOf[l] THEN b.exposure[f] + Notional[l] ELSE b.exposure[f]
      BY <2>2
    <2> QED
      BY <1>2, <2>2, <2>3 DEF c
  <1>3. CASE op = "settle"
    <2> DEFINE dropped == Max({0, b.borrowed - Notional[l]})
               lowered == Max({0, b.exposure[FamilyOf[l]] - Notional[l]})
    <2>1. b.borrowed - Notional[l] \in Int /\ b.exposure[FamilyOf[l]] - Notional[l] \in Int
      BY <1>1
    <2>2. /\ dropped = IF b.borrowed > Notional[l] THEN b.borrowed - Notional[l] ELSE 0
          /\ lowered = IF b.exposure[FamilyOf[l]] > Notional[l]
                       THEN b.exposure[FamilyOf[l]] - Notional[l] ELSE 0
          /\ dropped \in Nat /\ lowered \in Nat
      <3>1. dropped = IF b.borrowed - Notional[l] > 0 THEN b.borrowed - Notional[l] ELSE 0
        BY <2>1, PositivePart
      <3>2. lowered = IF b.exposure[FamilyOf[l]] - Notional[l] > 0
                      THEN b.exposure[FamilyOf[l]] - Notional[l] ELSE 0
        BY <2>1, PositivePart
      <3> HIDE DEF dropped, lowered
      <3> QED
        BY <1>1, <3>1, <3>2
    <2> HIDE DEF dropped, lowered
    <2>3. [b.exposure EXCEPT ![FamilyOf[l]] = lowered] \in [Families -> Nat]
          /\ [b.loans EXCEPT ![l] = "settled"] \in [Loans -> Statuses]
      BY <1>1, <2>2 DEF Statuses
    <2>4. c = [b EXCEPT !.borrowed = dropped, !.exposure[FamilyOf[l]] = lowered,
                        !.loans[l] = "settled"]
      BY <1>3 DEF Changed, WithoutLoan, dropped, lowered
    <2> HIDE DEF c
    <2>5. c \in Books /\ c.borrowed = dropped
          /\ c.exposure = [b.exposure EXCEPT ![FamilyOf[l]] = lowered]
      BY <1>1, <2>2, <2>3, <2>4 DEF Books
    <2>6. \A f \in Families : c.exposure[f] =
               IF f # FamilyOf[l] THEN b.exposure[f]
               ELSE IF b.exposure[f] > Notional[l] THEN b.exposure[f] - Notional[l] ELSE 0
      BY <2>2, <2>5
    <2> QED
      BY <1>3, <2>2, <2>5, <2>6 DEF c
  <1>4. CASE op = "dispute"
    <2>1. [b.loans EXCEPT ![l] = "disputed"] \in [Loans -> Statuses]
      BY DEF Statuses
    <2> QED
      BY <1>4, <2>1 DEF Changed, Books
  <1> QED
    BY <1>2, <1>3, <1>4 DEF Sound

(* The active loans after the operation. *)
LEMMA ChangedActive ==
    ASSUME NEW b \in Books, NEW l \in Loans, NEW op, Sound(op, l, b)
    PROVE  /\ op = "open" => l \notin Active(b)
                             /\ Active(Changed(b, op, l)) = Active(b) \cup {l}
           /\ op = "settle" => l \in Active(b)
                               /\ Active(Changed(b, op, l)) = Active(b) \ {l}
           /\ op = "dispute" => l \in Active(b)
                                /\ Active(Changed(b, op, l)) = Active(b)
  <1> DEFINE c == Changed(b, op, l)
  <1>1. /\ op = "open" => c.loans = [b.loans EXCEPT ![l] = "open"]
        /\ op = "settle" => c.loans = [b.loans EXCEPT ![l] = "settled"]
        /\ op = "dispute" => c.loans = [b.loans EXCEPT ![l] = "disputed"]
    BY DEF Changed, WithLoan, WithoutLoan, Books
  <1> HIDE DEF c
  <1>2. b.loans \in [Loans -> Statuses]
    BY BookFields
  <1>3. op = "open" => l \notin Active(b) /\ Active(c) = Active(b) \cup {l}
    BY <1>1, <1>2 DEF Active, Sound
  <1>4. op = "settle" => l \in Active(b) /\ Active(c) = Active(b) \ {l}
    BY <1>1, <1>2 DEF Active, Sound
  <1>5. op = "dispute" => l \in Active(b) /\ Active(c) = Active(b)
    BY <1>1, <1>2 DEF Active, Sound
  <1> QED
    BY <1>3, <1>4, <1>5 DEF c

(* The balance of a book and its reserved collateral as sums. *)
OfFamily(b, f) == {l \in Active(b) : FamilyOf[l] = f}

LEMMA BalancedIsSum ==
    \A b : Balanced(b) <=>
        /\ b.borrowed = SumOver(Notional, Active(b))
        /\ \A f \in Families : b.exposure[f] = SumOver(Notional, OfFamily(b, f))
        /\ b.borrowed <= Capacity
        /\ \A f \in Families : b.exposure[f] <= FamilyCap
  BY DEF Balanced, SumOver, OfFamily

LEMMA CollateralIsSum == \A b : ReservedCollateral(b) = SumOver(Collateral, Active(b))
  BY DEF ReservedCollateral, SumOver

(* Sums over loans. *)
LEMMA LoanSums ==
    ASSUME NEW w \in [Loans -> Nat], NEW S \in SUBSET Loans
    PROVE  /\ SumOver(w, {}) = 0
           /\ \A l \in Loans \ S : /\ SumOver(w, S) \in Nat
                                   /\ SumOver(w, S \cup {l}) = w[l] + SumOver(w, S)
           /\ \A l \in S : /\ SumOver(w, S \ {l}) \in Nat
                           /\ SumOver(w, S) = w[l] + SumOver(w, S \ {l})
           /\ SumOver(w, S) \in Nat
  <1>1. IsFiniteSet(Loans) /\ \A l \in Loans : w[l] \in Nat
    BY InternalPrimeAssumption
  <1>2. SumOver(w, {}) = 0
    BY <1>1, SumOfNothing
  <1>3. ASSUME NEW l \in Loans \ S
        PROVE  SumOver(w, S) \in Nat /\ SumOver(w, S \cup {l}) = w[l] + SumOver(w, S)
    BY <1>1, SumWith
  <1>4. ASSUME NEW l \in S
        PROVE  /\ SumOver(w, S \ {l}) \in Nat /\ SumOver(w, S) \in Nat
               /\ SumOver(w, S) = w[l] + SumOver(w, S \ {l})
    BY <1>1, SumWithout
  <1>5. SumOver(w, S) \in Nat
    <2>1. CASE S = {}
      BY <1>2, <2>1
    <2>2. CASE S # {}
      BY <1>4, <2>2
    <2> QED
      BY <2>1, <2>2
  <1> QED
    BY <1>2, <1>3, <1>4, <1>5

(* An operation that was decided on a balanced book balances. *)
LEMMA ChangedBalanced ==
    ASSUME NEW b \in Books, NEW l \in Loans, NEW op, Sound(op, l, b), Balanced(b)
    PROVE  Balanced(Changed(b, op, l))
  <1> DEFINE c == Changed(b, op, l)
  <1>1. /\ Notional \in [Loans -> Nat] /\ Notional[l] \in Nat
        /\ FamilyOf[l] \in Families /\ Capacity \in Nat /\ FamilyCap \in Nat
    BY InternalPrimeAssumption
  <1>2. /\ Active(b) \in SUBSET Loans /\ \A f \in Families : OfFamily(b, f) \in SUBSET Loans
    BY DEF Active, OfFamily
  <1>3. /\ b.borrowed = SumOver(Notional, Active(b)) /\ b.borrowed <= Capacity
        /\ \A f \in Families : b.exposure[f] = SumOver(Notional, OfFamily(b, f))
                               /\ b.exposure[f] <= FamilyCap
    BY BalancedIsSum
  <1>4. b.borrowed \in Nat /\ \A f \in Families : b.exposure[f] \in Nat
    BY BookFields
  <1>5. c \in Books
    BY ChangedTotals
  <1>6. SUFFICES /\ c.borrowed = SumOver(Notional, Active(c)) /\ c.borrowed <= Capacity
                 /\ \A f \in Families : c.exposure[f] = SumOver(Notional, OfFamily(c, f))
                                        /\ c.exposure[f] <= FamilyCap
    BY BalancedIsSum
  <1>7. CASE op = "open"
    <2>1. l \notin Active(b) /\ Active(c) = Active(b) \cup {l}
      BY <1>7, ChangedActive
    <2>2. /\ c.borrowed = b.borrowed + Notional[l]
          /\ \A f \in Families : c.exposure[f] =
                 IF f = FamilyOf[l] THEN b.exposure[f] + Notional[l] ELSE b.exposure[f]
      BY <1>7, ChangedTotals
    <2>3. /\ b.borrowed + Notional[l] <= Capacity
          /\ b.exposure[FamilyOf[l]] + Notional[l] <= FamilyCap
      BY <1>7 DEF Sound
    <2> HIDE DEF c
    <2>4. SumOver(Notional, Active(c)) = Notional[l] + SumOver(Notional, Active(b))
      BY <1>1, <1>2, <2>1, LoanSums
    <2>5. c.borrowed = SumOver(Notional, Active(c)) /\ c.borrowed <= Capacity
      BY <1>1, <1>3, <1>4, <2>2, <2>3, <2>4
    <2>6. ASSUME NEW f \in Families
          PROVE  c.exposure[f] = SumOver(Notional, OfFamily(c, f))
                 /\ c.exposure[f] <= FamilyCap
      <3>1. CASE f = FamilyOf[l]
        <4>1. OfFamily(c, f) = OfFamily(b, f) \cup {l} /\ l \notin OfFamily(b, f)
          BY <2>1, <3>1 DEF OfFamily
        <4>2. SumOver(Notional, OfFamily(c, f)) = Notional[l] + SumOver(Notional, OfFamily(b, f))
          BY <1>1, <1>2, <4>1, LoanSums
        <4> QED
          BY <1>1, <1>3, <1>4, <2>2, <2>3, <3>1, <4>2
      <3>2. CASE f # FamilyOf[l]
        <4>1. OfFamily(c, f) = OfFamily(b, f)
          BY <2>1, <3>2 DEF OfFamily
        <4> QED
          BY <1>3, <2>2, <3>2, <4>1
      <3> QED
        BY <3>1, <3>2
    <2> QED
      BY <2>5, <2>6 DEF c
  <1>8. CASE op = "settle"
    <2>1. l \in Active(b) /\ Active(c) = Active(b) \ {l}
      BY <1>8, ChangedActive
    <2>2. /\ c.borrowed = IF b.borrowed > Notional[l] THEN b.borrowed - Notional[l] ELSE 0
          /\ \A f \in Families : c.exposure[f] =
                 IF f # FamilyOf[l] THEN b.exposure[f]
                 ELSE IF b.exposure[f] > Notional[l] THEN b.exposure[f] - Notional[l] ELSE 0
      BY <1>8, ChangedTotals
    <2> HIDE DEF c
    <2>4. SumOver(Notional, Active(b)) = Notional[l] + SumOver(Notional, Active(c))
          /\ SumOver(Notional, Active(c)) \in Nat
      BY <1>1, <1>2, <2>1, LoanSums
    <2>5. c.borrowed = SumOver(Notional, Active(c)) /\ c.borrowed <= Capacity
      BY <1>1, <1>3, <1>4, <2>2, <2>4
    <2>6. ASSUME NEW f \in Families
          PROVE  c.exposure[f] = SumOver(Notional, OfFamily(c, f))
                 /\ c.exposure[f] <= FamilyCap
      <3>1. CASE f = FamilyOf[l]
        <4>1. OfFamily(c, f) = OfFamily(b, f) \ {l} /\ l \in OfFamily(b, f)
          BY <2>1, <3>1 DEF OfFamily
        <4>2. SumOver(Notional, OfFamily(b, f)) = Notional[l] + SumOver(Notional, OfFamily(c, f))
              /\ SumOver(Notional, OfFamily(c, f)) \in Nat
          BY <1>1, <1>2, <4>1, LoanSums
        <4>3. c.exposure[f] = IF b.exposure[f] > Notional[l]
                              THEN b.exposure[f] - Notional[l] ELSE 0
          BY <2>2, <3>1
        <4> QED
          BY <1>1, <1>3, <1>4, <4>2, <4>3
      <3>2. CASE f # FamilyOf[l]
        <4>1. OfFamily(c, f) = OfFamily(b, f)
          BY <2>1, <3>2 DEF OfFamily
        <4> QED
          BY <1>3, <2>2, <3>2, <4>1
      <3> QED
        BY <3>1, <3>2
    <2> QED
      BY <2>5, <2>6 DEF c
  <1>9. CASE op = "dispute"
    <2>1. Active(c) = Active(b)
      BY <1>9, ChangedActive
    <2>2. c.borrowed = b.borrowed /\ c.exposure = b.exposure
      BY <1>9, ChangedTotals
    <2> HIDE DEF c
    <2>3. \A f \in Families : OfFamily(c, f) = OfFamily(b, f)
      BY <2>1 DEF OfFamily
    <2> QED
      BY <1>3, <2>1, <2>2, <2>3
  <1> QED
    BY <1>7, <1>8, <1>9 DEF Sound

(* ... and reserves the collateral of the loan, or releases it. *)
LEMMA ChangedCollateral ==
    ASSUME NEW b \in Books, NEW l \in Loans, NEW op, Sound(op, l, b)
    PROVE  /\ ReservedCollateral(b) \in Nat /\ Collateral[l] \in Nat
           /\ op = "open" => ReservedCollateral(Changed(b, op, l))
                                = Collateral[l] + ReservedCollateral(b)
           /\ op = "settle" => ReservedCollateral(b)
                                = Collateral[l] + ReservedCollateral(Changed(b, op, l))
           /\ op = "dispute" => ReservedCollateral(Changed(b, op, l)) = ReservedCollateral(b)
           /\ ReservedCollateral(Changed(b, op, l)) \in Nat
  <1> DEFINE c == Changed(b, op, l)
  <1>1. Collateral \in [Loans -> Nat] /\ Collateral[l] \in Nat
    BY InternalPrimeAssumption
  <1>2. Active(b) \in SUBSET Loans /\ Active(c) \in SUBSET Loans
    BY DEF Active
  <1>3. /\ op = "open" => l \notin Active(b) /\ Active(c) = Active(b) \cup {l}
        /\ op = "settle" => l \in Active(b) /\ Active(c) = Active(b) \ {l}
        /\ op = "dispute" => l \in Active(b) /\ Active(c) = Active(b)
    BY ChangedActive
  <1>4. ReservedCollateral(b) = SumOver(Collateral, Active(b))
        /\ ReservedCollateral(c) = SumOver(Collateral, Active(c))
    BY CollateralIsSum
  <1> HIDE DEF c
  <1>5. SumOver(Collateral, Active(b)) \in Nat /\ SumOver(Collateral, Active(c)) \in Nat
    BY <1>1, <1>2, LoanSums
  <1>6. op = "open" =>
            SumOver(Collateral, Active(c)) = Collateral[l] + SumOver(Collateral, Active(b))
    BY <1>1, <1>2, <1>3, LoanSums
  <1>7. op = "settle" =>
            SumOver(Collateral, Active(b)) = Collateral[l] + SumOver(Collateral, Active(c))
    BY <1>1, <1>2, <1>3, LoanSums
  <1>8. op = "dispute" => SumOver(Collateral, Active(c)) = SumOver(Collateral, Active(b))
    BY <1>3
  <1> QED
    BY <1>1, <1>4, <1>5, <1>6, <1>7, <1>8 DEF c

-----------------------------------------------------------------------------
(* InternalPrime: where an operation has got to.                           *)

(* The book as the operation in progress will leave it. *)
Applied == Changed(call.before, call.op, call.loan)

(* What an operation in progress has done so far: it was decided on the    *)
(* book before it, and each place in the code says which of book, state    *)
(* file and snapshot already have its change.                              *)
CallInv ==
    ~Idle =>
        /\ call.loan \in Loans /\ failures <= MaxFailures
        /\ Sound(call.op, call.loan, call.before)
        /\ call.at \in {"inventory", "adopt"} =>
               /\ book = call.before /\ ~call.moved
               /\ call.op # "dispute" => stock # Untracked
        /\ call.at \in {"state", "journal", "snapshot"} => book = Applied
        /\ call.at \in {"state", "journal", "snapshot", "rollback"} => ~coordinated
        /\ call.at \in {"journal", "snapshot"} => stateFile = Payload(book, stock)
        /\ call.at = "adopt" =>
               /\ coordinated
               /\ snapshot = Payload(Applied, StockAfter(call.op, call.loan))
        /\ call.moved => stock # Untracked /\ call.op # "dispute"

PrimeCore == PrimeTypeOK /\ CallInv

LEMMA EmptyBookType == EmptyBook \in Books
  BY DEF EmptyBook, Books, Statuses

LEMMA PrimeCoreInit == PrimeInit => PrimeCore
  <1> SUFFICES ASSUME PrimeInit PROVE PrimeCore
    OBVIOUS
  <1>1. PrimeTypeOK
    BY InternalPrimeAssumption, EmptyBookType DEF PrimeInit, PrimeTypeOK, NoCall
  <1>2. CallInv
    BY DEF PrimeInit, CallInv, Idle, NoCall
  <1> QED
    BY <1>1, <1>2 DEF PrimeCore

(* The operation that begins is decided on the book it finds. *)
LEMMA BeginFacts ==
    ASSUME NEW l \in Loans, BeginOpen(l) \/ BeginSettle(l) \/ BeginDispute(l)
    PROVE  /\ Idle
           /\ \E op \in {"open", "settle", "dispute"} :
                  Begin(op, l) /\ Sound(op, l, book) /\ (op # "dispute" => stock # Untracked)
  BY DEF Begin, BeginOpen, BeginSettle, BeginDispute, Approve, Sound

LEMMA BeginCore ==
    ASSUME PrimeCore, NEW l \in Loans, BeginOpen(l) \/ BeginSettle(l) \/ BeginDispute(l)
    PROVE  PrimeCore'
  <1> USE DEF PrimeCore
  <1>1. PICK op \in {"open", "settle", "dispute"} :
               Begin(op, l) /\ Sound(op, l, book) /\ (op # "dispute" => stock # Untracked)
    BY BeginFacts
  <1>2. /\ call' = [op |-> op, loan |-> l, at |-> "inventory", before |-> book,
                    moved |-> FALSE]
        /\ granted' = granted \ {l} /\ failures <= MaxFailures
        /\ UNCHANGED <<memVars, diskVars, total, struck, astray, bounds>>
    BY <1>1 DEF Begin
  <1>3. PrimeTypeOK'
    BY <1>2 DEF PrimeTypeOK, memVars, diskVars, bounds
  <1>4. CallInv'
    BY <1>1, <1>2 DEF CallInv, Idle, memVars, diskVars, bounds
  <1> QED
    BY <1>3, <1>4

LEMMA MoveInventoryFacts ==
    ASSUME PrimeCore, NEW ok \in BOOLEAN, MoveInventory(ok)
    PROVE  /\ call.at = "inventory" /\ ~coordinated /\ call.loan \in Loans
           /\ failures <= MaxFailures
           /\ book = call.before /\ ~call.moved /\ Sound(call.op, call.loan, call.before)
           /\ call.op # "dispute" => stock # Untracked
           /\ stock' = StockAfter(call.op, call.loan) /\ book' = Applied
           /\ call' = IF ok THEN [call EXCEPT !.at = "state", !.moved = call.op # "dispute"]
                            ELSE [call EXCEPT !.at = "rollback"]
           /\ stockFile' = IF ok THEN stock' ELSE stockFile
           /\ struck' = IF ok THEN struck ELSE struck \cup {"inventory"}
           /\ UNCHANGED <<ready, stateFile, snapshot, journal, granted, total, astray, bounds>>
           /\ call'.op = call.op /\ call'.loan = call.loan /\ call'.before = call.before
           /\ call'.at = (IF ok THEN "state" ELSE "rollback")
           /\ call'.moved = (ok /\ call.op # "dispute")
  <1> USE DEF PrimeCore
  <1>1. /\ call.at = "inventory" /\ ~coordinated /\ call.loan \in Loans
        /\ failures <= MaxFailures
        /\ book = call.before /\ ~call.moved /\ Sound(call.op, call.loan, call.before)
        /\ call.op # "dispute" => stock # Untracked
    BY DEF MoveInventory, CallInv, Idle
  <1>2. /\ stock' = StockAfter(call.op, call.loan) /\ book' = Applied
        /\ call' = IF ok THEN [call EXCEPT !.at = "state", !.moved = call.op # "dispute"]
                         ELSE [call EXCEPT !.at = "rollback"]
        /\ stockFile' = IF ok THEN stock' ELSE stockFile
        /\ struck' = IF ok THEN struck ELSE struck \cup {"inventory"}
        /\ UNCHANGED <<ready, stateFile, snapshot, journal, granted, total, astray, bounds>>
    BY <1>1 DEF MoveInventory, Applied
  <1>3. /\ call'.op = call.op /\ call'.loan = call.loan /\ call'.before = call.before
        /\ call'.at = (IF ok THEN "state" ELSE "rollback")
        /\ call'.moved = (ok /\ call.op # "dispute")
    BY <1>1, <1>2 DEF PrimeTypeOK
  <1> QED
    BY <1>1, <1>2, <1>3

LEMMA MoveInventoryCore ==
    ASSUME PrimeCore, NEW ok \in BOOLEAN, MoveInventory(ok)
    PROVE  PrimeCore'
  <1> USE DEF PrimeCore
  <1>1. /\ call.at = "inventory" /\ ~coordinated /\ call.loan \in Loans
        /\ failures <= MaxFailures
        /\ book = call.before /\ ~call.moved /\ Sound(call.op, call.loan, call.before)
        /\ call.op # "dispute" => stock # Untracked
    BY MoveInventoryFacts
  <1>2. /\ stock' = StockAfter(call.op, call.loan) /\ book' = Applied
        /\ call' = IF ok THEN [call EXCEPT !.at = "state", !.moved = call.op # "dispute"]
                         ELSE [call EXCEPT !.at = "rollback"]
        /\ stockFile' = IF ok THEN stock' ELSE stockFile
        /\ struck' = IF ok THEN struck ELSE struck \cup {"inventory"}
        /\ UNCHANGED <<ready, stateFile, snapshot, journal, granted, total, astray, bounds>>
    BY MoveInventoryFacts
  <1>3. book' \in Books
    BY <1>1, <1>2, ChangedTotals DEF PrimeTypeOK, Applied
  <1>4. stock' \in Int \cup {Untracked} /\ (call.op # "dispute" => stock' \in Int)
    BY <1>1, <1>2, InternalPrimeAssumption DEF StockAfter, PrimeTypeOK, Sound
  <1>5. PrimeTypeOK'
    BY <1>2, <1>3, <1>4 DEF PrimeTypeOK, bounds
  <1>6. Applied' = Applied
    BY <1>2 DEF Applied, Changed, WithLoan, WithoutLoan, PrimeTypeOK
  <1>7. CallInv'
    BY <1>1, <1>2, <1>4, <1>6, MarkerAssumption DEF CallInv, Idle, bounds, PrimeTypeOK
  <1> QED
    BY <1>5, <1>7

(* A copy that is written is a payload. *)
LEMMA PayloadType ==
    ASSUME NEW b \in Books, NEW s \in Int \cup {Untracked}
    PROVE  /\ Payload(b, s) \in Payloads /\ Payload(b, s) # Absent
           /\ Payload(b, s).book = b /\ Payload(b, s).stock = s
  BY MarkerAssumption DEF Payload, Payloads

LEMMA SavedFileType ==
    ASSUME PrimeTypeOK, NEW o \in {"saved", "kept", "torn"}, NEW p \in Payloads
    PROVE  FileAfter(o, p) \in Payloads \cup {Absent, Torn}
  BY DEF FileAfter, PrimeTypeOK

(* What a restart finds has the type of a payload. *)
LEMMA LoadedType ==
    ASSUME PrimeTypeOK
    PROVE  Loaded.book \in Books /\ Loaded.stock \in Int \cup {Untracked}
  <1>1. Payload(EmptyBook, stockFile) \in Payloads
    BY EmptyBookType, PayloadType DEF PrimeTypeOK
  <1>2. ASSUME NEW q \in Payloads
        PROVE  WithStock(q) \in Payloads
    BY PayloadType DEF WithStock, Payloads, PrimeTypeOK
  <1>3. Loaded \in Payloads
    BY <1>1, <1>2 DEF Loaded, PrimeTypeOK
  <1> QED
    BY <1>3 DEF Payloads

LEMMA SaveStateFacts ==
    ASSUME PrimeCore, NEW o \in {"saved", "kept", "torn"}, SaveState(o)
    PROVE  /\ call.at = "state" /\ ~coordinated /\ call.loan \in Loans
           /\ failures <= MaxFailures
           /\ book = Applied /\ Sound(call.op, call.loan, call.before)
           /\ call.moved => stock # Untracked /\ call.op # "dispute"
           /\ stateFile' = FileAfter(o, Payload(book, stock))
           /\ call' = [call EXCEPT !.at = IF o = "saved" THEN "journal" ELSE "rollback"]
           /\ UNCHANGED <<book, stock, ready, stockFile, snapshot, journal, granted, total,
                          struck, astray, bounds>>
           /\ call'.op = call.op /\ call'.loan = call.loan /\ call'.before = call.before
           /\ call'.at = (IF o = "saved" THEN "journal" ELSE "rollback")
           /\ call'.moved = call.moved
  <1> USE DEF PrimeCore
  <1>1. /\ call.at = "state" /\ ~coordinated /\ call.loan \in Loans
        /\ failures <= MaxFailures
        /\ book = Applied /\ Sound(call.op, call.loan, call.before)
        /\ call.moved => stock # Untracked /\ call.op # "dispute"
    BY DEF SaveState, CallInv, Idle
  <1>2. /\ stateFile' = FileAfter(o, Payload(book, stock))
        /\ call' = [call EXCEPT !.at = IF o = "saved" THEN "journal" ELSE "rollback"]
        /\ UNCHANGED <<book, stock, ready, stockFile, snapshot, journal, granted, total,
                       struck, astray, bounds>>
    BY DEF SaveState, memVars
  <1>3. /\ call'.op = call.op /\ call'.loan = call.loan /\ call'.before = call.before
        /\ call'.at = (IF o = "saved" THEN "journal" ELSE "rollback")
        /\ call'.moved = call.moved
    BY <1>1, <1>2 DEF PrimeTypeOK
  <1> QED
    BY <1>1, <1>2, <1>3

LEMMA SaveStateCore ==
    ASSUME PrimeCore, NEW o \in {"saved", "kept", "torn"}, SaveState(o)
    PROVE  PrimeCore'
  <1> USE DEF PrimeCore
  <1>1. /\ call.at = "state" /\ ~coordinated /\ call.loan \in Loans
        /\ failures <= MaxFailures
        /\ book = Applied /\ Sound(call.op, call.loan, call.before)
        /\ call.moved => stock # Untracked /\ call.op # "dispute"
    BY SaveStateFacts
  <1>2. /\ stateFile' = FileAfter(o, Payload(book, stock))
        /\ call' = [call EXCEPT !.at = IF o = "saved" THEN "journal" ELSE "rollback"]
        /\ UNCHANGED <<book, stock, ready, stockFile, snapshot, journal, granted, total,
                       struck, astray, bounds>>
    BY SaveStateFacts
  <1>3. Payload(book, stock) \in Payloads
    BY PayloadType DEF PrimeTypeOK
  <1>4. stateFile' \in Payloads \cup {Absent, Torn}
    BY <1>2, <1>3, SavedFileType
  <1>5. PrimeTypeOK'
    BY <1>2, <1>4 DEF PrimeTypeOK, bounds
  <1>6. Applied' = Applied
    BY <1>2 DEF Applied, Changed, WithLoan, WithoutLoan, PrimeTypeOK
  <1>7. o = "saved" => stateFile' = Payload(book, stock)
    BY <1>2 DEF FileAfter
  <1>8. Payload(book, stock)' = Payload(book, stock)
    BY <1>2 DEF Payload
  <1>9. CallInv'
    BY <1>1, <1>2, <1>6, <1>7, <1>8 DEF CallInv, Idle, bounds, PrimeTypeOK
  <1> QED
    BY <1>5, <1>9

RowOutcomes == {"ok", "gone", "kept", "raised", "rowraised"}
RecordOutcomes == {"ok", "none", "noevent", "raised", "eventraised"}

(* The operation goes on at the given place, with what it has. *)
GoesOn(place) ==
    /\ call' = [call EXCEPT !.at = place]
    /\ call'.op = call.op /\ call'.loan = call.loan /\ call'.before = call.before
    /\ call'.moved = call.moved /\ call'.at = place

LEMMA WriteJournalFacts ==
    ASSUME PrimeCore, NEW o \in RowOutcomes, WriteJournal(o)
    PROVE  /\ call.at = "journal" /\ ~coordinated /\ call.loan \in Loans
           /\ failures <= MaxFailures
           /\ book = Applied /\ Sound(call.op, call.loan, call.before)
           /\ stateFile = Payload(book, stock)
           /\ call.moved => stock # Untracked /\ call.op # "dispute"
           /\ journal' = IF o \in {"gone", "raised"} THEN journal
                         ELSE Journaled(call.op, call.loan)
           /\ astray' = IF o \in {"kept", "raised"} THEN astray \cup JournaledLoan ELSE astray
           /\ failures' = FailuresAfter(o)
           /\ UNCHANGED <<book, stock, ready, stateFile, stockFile, snapshot, granted, total,
                          struck, coordinated, restarts>>
           /\ \/ o \in {"raised", "rowraised"} /\ call' = NoCall
              \/ o = "ok" /\ GoesOn("snapshot")
              \/ o \in {"gone", "kept"} /\ GoesOn("rollback")
  <1> USE DEF PrimeCore
  <1>1. /\ call.at = "journal" /\ ~coordinated /\ call.loan \in Loans
        /\ failures <= MaxFailures
        /\ book = Applied /\ Sound(call.op, call.loan, call.before)
        /\ stateFile = Payload(book, stock)
        /\ call.moved => stock # Untracked /\ call.op # "dispute"
    BY DEF WriteJournal, CallInv, Idle
  <1>2. /\ journal' = IF o \in {"gone", "raised"} THEN journal
                      ELSE Journaled(call.op, call.loan)
        /\ astray' = IF o \in {"kept", "raised"} THEN astray \cup JournaledLoan ELSE astray
        /\ failures' = FailuresAfter(o)
        /\ UNCHANGED <<book, stock, ready, stateFile, stockFile, snapshot, granted, total,
                       struck, coordinated, restarts>>
    BY DEF WriteJournal, memVars
  <1>3. \/ o \in {"raised", "rowraised"} /\ call' = NoCall
        \/ o = "ok" /\ call' = [call EXCEPT !.at = "snapshot"]
        \/ o \in {"gone", "kept"} /\ call' = [call EXCEPT !.at = "rollback"]
    BY DEF WriteJournal, CallAfter, Raises, RowOutcomes
  <1>4. \/ o \in {"raised", "rowraised"} /\ call' = NoCall
        \/ o = "ok" /\ GoesOn("snapshot")
        \/ o \in {"gone", "kept"} /\ GoesOn("rollback")
    BY <1>3 DEF GoesOn, PrimeTypeOK
  <1> QED
    BY <1>1, <1>2, <1>4

LEMMA FailureCounted ==
    ASSUME PrimeTypeOK, failures <= MaxFailures, NEW o, failures' = FailuresAfter(o)
    PROVE  failures' \in 0 .. MaxFailures + 1
  BY InternalPrimeAssumption DEF FailuresAfter, PrimeTypeOK

LEMMA WriteJournalCore ==
    ASSUME PrimeCore, NEW o \in RowOutcomes, WriteJournal(o)
    PROVE  PrimeCore'
  <1> USE DEF PrimeCore
  <1>1. /\ call.at = "journal" /\ ~coordinated /\ call.loan \in Loans
        /\ failures <= MaxFailures
        /\ book = Applied /\ Sound(call.op, call.loan, call.before)
        /\ stateFile = Payload(book, stock)
        /\ call.moved => stock # Untracked /\ call.op # "dispute"
    BY WriteJournalFacts
  <1>2. /\ journal' \in {journal, Journaled(call.op, call.loan)}
        /\ astray' \in {astray, astray \cup JournaledLoan}
        /\ failures' = FailuresAfter(o)
        /\ UNCHANGED <<book, stock, ready, stateFile, stockFile, snapshot, granted, total,
                       struck, coordinated, restarts>>
        /\ call' = NoCall \/ GoesOn("snapshot") \/ (GoesOn("rollback") /\ o \in {"gone", "kept"})
    BY WriteJournalFacts
  <1>3. Journaled(call.op, call.loan) \in [Loans -> [opened : Nat, settled : Nat]]
    BY <1>1 DEF Journaled, Sound, PrimeTypeOK
  <1>4. astray' \subseteq Loans /\ failures' \in 0 .. MaxFailures + 1
    BY <1>1, <1>2, FailureCounted DEF JournaledLoan, PrimeTypeOK
  <1>5. CASE call' = NoCall
    <2>1. PrimeTypeOK'
      BY <1>2, <1>3, <1>4, <1>5, EmptyBookType DEF PrimeTypeOK, NoCall
    <2>2. CallInv'
      BY <1>5 DEF CallInv, Idle, NoCall
    <2> QED
      BY <2>1, <2>2
  <1>6. ASSUME NEW place \in {"snapshot", "rollback"}, GoesOn(place),
               failures' = failures
        PROVE  PrimeCore'
    <2>1. PrimeTypeOK'
      BY <1>2, <1>3, <1>4, <1>6 DEF PrimeTypeOK, GoesOn
    <2>2. Applied' = Applied
      BY <1>6 DEF Applied, Changed, WithLoan, WithoutLoan, GoesOn
    <2>3. Payload(book, stock)' = Payload(book, stock)
      BY <1>2 DEF Payload
    <2>4. CallInv'
      BY <1>1, <1>2, <1>6, <2>2, <2>3 DEF CallInv, Idle, GoesOn
    <2> QED
      BY <2>1, <2>4
  <1>7. o \notin {"raised", "rowraised"} => failures' = failures
    BY <1>2 DEF FailuresAfter, Raises, RowOutcomes
  <1> QED
    BY <1>5, <1>6, <1>7, WriteJournalFacts

LEMMA RecordSnapshotFacts ==
    ASSUME PrimeCore, NEW o \in RecordOutcomes, RecordSnapshot(o)
    PROVE  /\ call.at = "snapshot" /\ ~coordinated /\ call.loan \in Loans
           /\ failures <= MaxFailures
           /\ book = Applied /\ Sound(call.op, call.loan, call.before)
           /\ stateFile = Payload(book, stock)
           /\ call.moved => stock # Untracked /\ call.op # "dispute"
           /\ snapshot' = IF o \in {"none", "raised"} THEN snapshot ELSE Payload(book, stock)
           /\ granted' = IF o = "ok" THEN GrantedAfter(call.op, call.loan) ELSE granted
           /\ astray' = IF o \in {"none", "noevent"} THEN astray \cup JournaledLoan ELSE astray
           /\ failures' = FailuresAfter(o)
           /\ UNCHANGED <<book, stock, ready, stateFile, stockFile, journal, total, struck,
                          coordinated, restarts>>
           /\ \/ o \in {"ok", "raised", "eventraised"} /\ call' = NoCall
              \/ o \in {"none", "noevent"} /\ GoesOn("rollback")
  <1> USE DEF PrimeCore
  <1>1. /\ call.at = "snapshot" /\ ~coordinated /\ call.loan \in Loans
        /\ failures <= MaxFailures
        /\ book = Applied /\ Sound(call.op, call.loan, call.before)
        /\ stateFile = Payload(book, stock)
        /\ call.moved => stock # Untracked /\ call.op # "dispute"
    BY DEF RecordSnapshot, CallInv, Idle
  <1>2. /\ snapshot' = IF o \in {"none", "raised"} THEN snapshot ELSE Payload(book, stock)
        /\ granted' = IF o = "ok" THEN GrantedAfter(call.op, call.loan) ELSE granted
        /\ astray' = IF o \in {"none", "noevent"} THEN astray \cup JournaledLoan ELSE astray
        /\ failures' = FailuresAfter(o)
        /\ UNCHANGED <<book, stock, ready, stateFile, stockFile, journal, total, struck,
                       coordinated, restarts>>
    BY DEF RecordSnapshot, memVars
  <1>3. \/ o \in {"ok", "raised", "eventraised"} /\ call' = NoCall
        \/ o \in {"none", "noevent"} /\ call' = [call EXCEPT !.at = "rollback"]
    BY DEF RecordSnapshot, CallAfter, Raises, RecordOutcomes
  <1>4. \/ o \in {"ok", "raised", "eventraised"} /\ call' = NoCall
        \/ o \in {"none", "noevent"} /\ GoesOn("rollback")
    BY <1>3 DEF GoesOn, PrimeTypeOK
  <1> QED
    BY <1>1, <1>2, <1>4

LEMMA RecordSnapshotCore ==
    ASSUME PrimeCore, NEW o \in RecordOutcomes, RecordSnapshot(o)
    PROVE  PrimeCore'
  <1> USE DEF PrimeCore
  <1>1. /\ call.at = "snapshot" /\ ~coordinated /\ call.loan \in Loans
        /\ failures <= MaxFailures
        /\ book = Applied /\ Sound(call.op, call.loan, call.before)
        /\ call.moved => stock # Untracked /\ call.op # "dispute"
    BY RecordSnapshotFacts
  <1>2. /\ snapshot' \in {snapshot, Payload(book, stock)}
        /\ granted' \in {granted, GrantedAfter(call.op, call.loan)}
        /\ astray' \in {astray, astray \cup JournaledLoan}
        /\ failures' = FailuresAfter(o)
        /\ UNCHANGED <<book, stock, ready, stateFile, stockFile, journal, total, struck,
                       coordinated, restarts>>
    BY RecordSnapshotFacts
  <1>3. call' = NoCall \/ (GoesOn("rollback") /\ o \in {"none", "noevent"})
    BY RecordSnapshotFacts
  <1>4. Payload(book, stock) \in Payloads
    BY PayloadType DEF PrimeTypeOK
  <1>5. /\ granted' \subseteq Loans /\ astray' \subseteq Loans
        /\ failures' \in 0 .. MaxFailures + 1
    BY <1>1, <1>2, FailureCounted DEF GrantedAfter, JournaledLoan, PrimeTypeOK
  <1>6. CASE call' = NoCall
    <2>1. PrimeTypeOK'
      BY <1>2, <1>4, <1>5, <1>6, EmptyBookType DEF PrimeTypeOK, NoCall
    <2>2. CallInv'
      BY <1>6 DEF CallInv, Idle, NoCall
    <2> QED
      BY <2>1, <2>2
  <1>7. CASE GoesOn("rollback") /\ o \in {"none", "noevent"}
    <2>1. PrimeTypeOK'
      BY <1>2, <1>4, <1>5, <1>7 DEF PrimeTypeOK, GoesOn
    <2>2. failures' = failures
      BY <1>2, <1>7 DEF FailuresAfter, Raises
    <2>3. CallInv'
      BY <1>1, <1>2, <1>7, <2>2 DEF CallInv, Idle, GoesOn
    <2> QED
      BY <2>1, <2>3
  <1> QED
    BY <1>3, <1>6, <1>7

(* What a rollback does to the stock. *)
RolledBack == IF call.moved THEN StockBefore ELSE stock

LEMMA RollbackFacts ==
    ASSUME PrimeCore, NEW ok \in BOOLEAN, NEW o \in {"saved", "kept", "torn"},
           Rollback(ok, o)
    PROVE  /\ call.at = "rollback" /\ ~coordinated /\ failures <= MaxFailures
           /\ call.loan \in Loans /\ Sound(call.op, call.loan, call.before)
           /\ call.before \in Books /\ RolledBack \in Int \cup {Untracked}
           /\ book' = call.before /\ stock' = RolledBack /\ call' = NoCall
           /\ Payload(book', stock') \in Payloads
           /\ stateFile' = FileAfter(o, Payload(book', stock'))
           /\ UNCHANGED <<coordinated, snapshot, journal, granted, total, astray, restarts>>
  <1> USE DEF PrimeCore
  <1>1. /\ call.at = "rollback" /\ ~coordinated /\ failures <= MaxFailures
        /\ call.loan \in Loans /\ Sound(call.op, call.loan, call.before)
        /\ call.moved => stock # Untracked /\ call.op # "dispute"
    BY DEF Rollback, CallInv, Idle
  <1>2. /\ book' = call.before /\ stock' = RolledBack /\ call' = NoCall
        /\ stateFile' = FileAfter(o, Payload(book', stock'))
        /\ UNCHANGED <<coordinated, snapshot, journal, granted, total, astray, restarts>>
    BY DEF Rollback, RolledBack
  <1>3. call.before \in Books
    BY DEF PrimeTypeOK
  <1>4. RolledBack \in Int \cup {Untracked}
    BY <1>1, InternalPrimeAssumption DEF RolledBack, StockBefore, PrimeTypeOK
  <1>5. Payload(book', stock') \in Payloads
    BY <1>2, <1>3, <1>4, PayloadType
  <1> QED
    BY <1>1, <1>2, <1>3, <1>4, <1>5

LEMMA RollbackCore ==
    ASSUME PrimeCore, NEW ok \in BOOLEAN, NEW o \in {"saved", "kept", "torn"},
           Rollback(ok, o)
    PROVE  PrimeCore'
  <1>1. PrimeTypeOK /\ PrimeTypeOK
    BY DEF PrimeCore
  <1>2. /\ book' \in Books /\ stock' \in Int \cup {Untracked} /\ call' = NoCall
        /\ stateFile' \in Payloads \cup {Absent, Torn}
        /\ UNCHANGED <<coordinated, snapshot, journal, granted, total, astray, restarts>>
    BY <1>1, RollbackFacts, SavedFileType
  <1>3. /\ stockFile' \in Int \cup {Untracked} /\ ready' \in BOOLEAN
        /\ failures' \in 0 .. MaxFailures + 1
        /\ struck' \subseteq {"inventory", "state"}
    <2>1. failures <= MaxFailures /\ failures' = failures + 1
      BY RollbackFacts DEF Rollback
    <2>2. failures' \in 0 .. MaxFailures + 1
      BY <1>1, <2>1, InternalPrimeAssumption DEF PrimeTypeOK
    <2> QED
      BY <1>1, <1>2, <2>2 DEF Rollback, PrimeTypeOK
  <1>4. PrimeTypeOK'
    BY <1>1, <1>2, <1>3, EmptyBookType DEF PrimeTypeOK, NoCall
  <1>5. CallInv'
    BY <1>2 DEF CallInv, Idle, NoCall
  <1> QED
    BY <1>4, <1>5 DEF PrimeCore

(* The book and the stock that a commit records. *)
LEMMA CommitFacts ==
    ASSUME PrimeCore, Commit
    PROVE  /\ call.at = "inventory" /\ coordinated /\ failures <= MaxFailures
           /\ call.loan \in Loans /\ Sound(call.op, call.loan, call.before)
           /\ book = call.before /\ ~call.moved /\ call.before \in Books
           /\ call.op # "dispute" => stock # Untracked
           /\ Applied \in Books /\ StockAfter(call.op, call.loan) \in Int \cup {Untracked}
           /\ snapshot' = Payload(Applied, StockAfter(call.op, call.loan))
           /\ call' = [call EXCEPT !.at = "adopt"]
           /\ call'.op = call.op /\ call'.loan = call.loan /\ call'.before = call.before
           /\ call'.at = "adopt" /\ call'.moved = call.moved
           /\ journal' = Journaled(call.op, call.loan)
           /\ UNCHANGED <<book, stock, ready, stateFile, stockFile, granted, total, struck, astray,
                          bounds>>
  <1> USE DEF PrimeCore
  <1>1. /\ call.at = "inventory" /\ coordinated /\ failures <= MaxFailures
        /\ call.loan \in Loans /\ Sound(call.op, call.loan, call.before)
        /\ book = call.before /\ ~call.moved
        /\ call.op # "dispute" => stock # Untracked
    BY DEF Commit, CallInv, Idle
  <1>2. call.before \in Books
    BY DEF PrimeTypeOK
  <1>3. Applied \in Books
    BY <1>1, <1>2, ChangedTotals DEF Applied
  <1>4. StockAfter(call.op, call.loan) \in Int \cup {Untracked}
    BY <1>1, InternalPrimeAssumption DEF StockAfter, PrimeTypeOK, Sound
  <1>5. /\ snapshot' = Payload(Applied, StockAfter(call.op, call.loan))
        /\ call' = [call EXCEPT !.at = "adopt"]
        /\ journal' = Journaled(call.op, call.loan)
        /\ UNCHANGED <<book, stock, ready, stateFile, stockFile, granted, total, struck, astray,
                       bounds>>
    BY <1>1 DEF Commit, Applied, memVars
  <1>6. /\ call'.op = call.op /\ call'.loan = call.loan /\ call'.before = call.before
        /\ call'.at = "adopt" /\ call'.moved = call.moved
    BY <1>5 DEF PrimeTypeOK
  <1> QED
    BY <1>1, <1>2, <1>3, <1>4, <1>5, <1>6

LEMMA CommitCore ==
    ASSUME PrimeCore, Commit
    PROVE  PrimeCore'
  <1>1. /\ call.at = "inventory" /\ coordinated /\ failures <= MaxFailures
        /\ call.loan \in Loans /\ Sound(call.op, call.loan, call.before)
        /\ book = call.before /\ ~call.moved
        /\ call.op # "dispute" => stock # Untracked
        /\ snapshot' = Payload(Applied, StockAfter(call.op, call.loan))
        /\ snapshot' \in Payloads
        /\ call' = [call EXCEPT !.at = "adopt"]
        /\ journal' = Journaled(call.op, call.loan)
        /\ UNCHANGED <<book, stock, ready, stateFile, stockFile, granted, total, struck, astray,
                       bounds>>
    BY CommitFacts, PayloadType
  <1>2. Journaled(call.op, call.loan) \in [Loans -> [opened : Nat, settled : Nat]]
    BY <1>1 DEF Journaled, Sound, PrimeCore, PrimeTypeOK
  <1>3. PrimeTypeOK'
    BY <1>1, <1>2 DEF PrimeCore, PrimeTypeOK, bounds
  <1>4. /\ call'.op = call.op /\ call'.loan = call.loan /\ call'.at = "adopt"
        /\ call'.before = call.before /\ call'.moved = call.moved
    BY CommitFacts
  <1>5. Applied' = Applied
    BY <1>4 DEF Applied, Changed, WithLoan, WithoutLoan
  <1>6. StockAfter(call.op, call.loan)' = StockAfter(call.op, call.loan)
    BY <1>1, <1>4 DEF StockAfter
  <1>7. CallInv'
    BY <1>1, <1>4, <1>5, <1>6 DEF CallInv, Idle, bounds
  <1> QED
    BY <1>3, <1>7 DEF PrimeCore

(* What is adopted is what was committed. *)
LEMMA AdoptFacts ==
    ASSUME PrimeCore, NEW o \in {"saved", "kept", "torn"}, Adopt(o)
    PROVE  /\ call.at = "adopt" /\ coordinated
           /\ call.loan \in Loans /\ Sound(call.op, call.loan, call.before)
           /\ call.before \in Books /\ book = call.before
           /\ call.op # "dispute" => stock # Untracked
           /\ snapshot = Payload(Applied, StockAfter(call.op, call.loan))
           /\ snapshot \in Payloads /\ snapshot # Absent
           /\ snapshot.book = Applied /\ snapshot.stock = StockAfter(call.op, call.loan)
           /\ Applied \in Books /\ StockAfter(call.op, call.loan) \in Int \cup {Untracked}
           /\ book' = Applied /\ stock' = StockAfter(call.op, call.loan)
           /\ stateFile' = FileAfter(o, snapshot)
           /\ stockFile' = (IF o = "saved" THEN stock' ELSE stockFile)
           /\ granted' = GrantedAfter(call.op, call.loan)
           /\ call' = NoCall
           /\ struck' = (IF o = "kept" THEN struck \cup {"state"} ELSE struck)
           /\ UNCHANGED <<ready, snapshot, journal, total, astray, bounds>>
  <1> USE DEF PrimeCore
  <1>1. /\ call.at = "adopt" /\ coordinated
        /\ call.loan \in Loans /\ Sound(call.op, call.loan, call.before)
        /\ book = call.before
        /\ call.op # "dispute" => stock # Untracked
        /\ snapshot = Payload(Applied, StockAfter(call.op, call.loan))
    BY DEF Adopt, CallInv, Idle
  <1>2. call.before \in Books
    BY DEF PrimeTypeOK
  <1>3. Applied \in Books
    BY <1>1, <1>2, ChangedTotals DEF Applied
  <1>4. StockAfter(call.op, call.loan) \in Int \cup {Untracked}
    BY <1>1, InternalPrimeAssumption DEF StockAfter, PrimeTypeOK, Sound
  <1>5. /\ snapshot \in Payloads /\ snapshot # Absent
        /\ snapshot.book = Applied /\ snapshot.stock = StockAfter(call.op, call.loan)
    BY <1>1, <1>3, <1>4, PayloadType
  <1>6. /\ book' = snapshot.book /\ stock' = snapshot.stock
        /\ stateFile' = FileAfter(o, snapshot)
        /\ stockFile' = (IF o = "saved" THEN stock' ELSE stockFile)
        /\ granted' = GrantedAfter(call.op, call.loan)
        /\ call' = NoCall
        /\ struck' = (IF o = "kept" THEN struck \cup {"state"} ELSE struck)
        /\ UNCHANGED <<ready, snapshot, journal, total, astray, bounds>>
    BY DEF Adopt
  <1> QED
    BY <1>1, <1>2, <1>3, <1>4, <1>5, <1>6

LEMMA AdoptCore ==
    ASSUME PrimeCore, NEW o \in {"saved", "kept", "torn"}, Adopt(o)
    PROVE  PrimeCore'
  <1>1. /\ call.loan \in Loans /\ snapshot \in Payloads
        /\ book' \in Books /\ stock' \in Int \cup {Untracked}
        /\ stateFile' = FileAfter(o, snapshot)
        /\ stockFile' = (IF o = "saved" THEN stock' ELSE stockFile)
        /\ granted' = GrantedAfter(call.op, call.loan)
        /\ call' = NoCall
        /\ struck' = (IF o = "kept" THEN struck \cup {"state"} ELSE struck)
        /\ UNCHANGED <<ready, snapshot, journal, total, astray, bounds>>
    BY AdoptFacts
  <1>2. PrimeTypeOK
    BY DEF PrimeCore
  <1>3. stateFile' \in Payloads \cup {Absent, Torn}
    BY <1>1, <1>2, SavedFileType
  <1>4. granted' \subseteq Loans
    BY <1>1, <1>2 DEF GrantedAfter, PrimeTypeOK
  <1>5. PrimeTypeOK'
    BY <1>1, <1>2, <1>3, <1>4, EmptyBookType DEF PrimeTypeOK, bounds, NoCall
  <1>6. CallInv'
    BY <1>1 DEF CallInv, Idle, NoCall
  <1> QED
    BY <1>5, <1>6 DEF PrimeCore

LEMMA OutsideCore ==
    ASSUME PrimeCore, RestartPrime \/ Untrack \/ Seed \/ UNCHANGED primeVars
    PROVE  PrimeCore'
  <1> USE DEF PrimeCore
  <1>1. CASE RestartPrime
    <2>1. /\ book' \in Books /\ stock' \in Int \cup {Untracked}
      BY <1>1, LoadedType DEF RestartPrime
    <2>2. restarts' \in 0 .. MaxRestarts
      BY <1>1, InternalPrimeAssumption DEF RestartPrime, PrimeTypeOK
    <2>3. PrimeTypeOK'
      BY <1>1, <2>1, <2>2, EmptyBookType DEF RestartPrime, PrimeTypeOK, diskVars, NoCall
    <2>4. CallInv'
      BY <1>1 DEF RestartPrime, CallInv, Idle, NoCall
    <2> QED
      BY <2>3, <2>4
  <1>2. CASE Untrack
    <2>1. PrimeTypeOK'
      BY <1>2 DEF Untrack, PrimeTypeOK, bounds
    <2>2. CallInv'
      BY <1>2 DEF Untrack, CallInv, Idle
    <2> QED
      BY <2>1, <2>2
  <1>3. CASE Seed
    <2>1. PrimeTypeOK'
      BY <1>3 DEF Seed, PrimeTypeOK, bounds
    <2>2. CallInv'
      BY <1>3 DEF Seed, CallInv, Idle
    <2> QED
      BY <2>1, <2>2
  <1>4. CASE UNCHANGED primeVars
    <2>1. PrimeTypeOK'
      BY <1>4 DEF primeVars, PrimeTypeOK
    <2>2. Applied' = Applied /\ Payload(book, stock)' = Payload(book, stock)
          /\ StockAfter(call.op, call.loan)' = StockAfter(call.op, call.loan)
      BY <1>4 DEF primeVars, Applied, Payload, StockAfter
    <2>3. CallInv'
      BY <1>4, <2>2 DEF primeVars, CallInv, Idle
    <2> QED
      BY <2>1, <2>3
  <1> QED
    BY <1>1, <1>2, <1>3, <1>4

LEMMA PrimeCoreStep == PrimeCore /\ [PrimeNext]_primeVars => PrimeCore'
  <1> SUFFICES ASSUME PrimeCore, [PrimeNext]_primeVars PROVE PrimeCore'
    OBVIOUS
  <1>1. ASSUME NEW l \in Loans, BeginOpen(l) \/ BeginSettle(l) \/ BeginDispute(l)
        PROVE  PrimeCore'
    BY <1>1, BeginCore
  <1>2. ASSUME NEW ok \in BOOLEAN, MoveInventory(ok) PROVE PrimeCore'
    BY <1>2, MoveInventoryCore
  <1>3. ASSUME NEW o \in {"saved", "kept", "torn"}, SaveState(o) PROVE PrimeCore'
    BY <1>3, SaveStateCore
  <1>4. ASSUME NEW o \in {"saved", "kept", "torn"}, Adopt(o) PROVE PrimeCore'
    BY <1>4, AdoptCore
  <1>5. ASSUME NEW o \in {"saved", "kept", "torn"}, NEW ok \in BOOLEAN, Rollback(ok, o)
        PROVE  PrimeCore'
    BY <1>5, RollbackCore
  <1>6. ASSUME NEW o \in RowOutcomes, WriteJournal(o) PROVE PrimeCore'
    BY <1>6, WriteJournalCore
  <1>7. ASSUME NEW o \in RecordOutcomes, RecordSnapshot(o) PROVE PrimeCore'
    BY <1>7, RecordSnapshotCore
  <1>8. CASE Commit
    BY <1>8, CommitCore
  <1>9. CASE RestartPrime \/ Untrack \/ Seed \/ UNCHANGED primeVars
    BY <1>9, OutsideCore
  <1> QED
    BY <1>1, <1>2, <1>3, <1>4, <1>5, <1>6, <1>7, <1>8, <1>9
    DEF PrimeNext, RowOutcomes, RecordOutcomes

LEMMA PrimeCoreHolds == PrimeSpec => []PrimeCore
  BY PrimeCoreInit, PrimeCoreStep, PTL DEF PrimeSpec

(* Types hold in every reachable state: no total goes negative and no      *)
(* amount is computed from an asset that is not tracked.                   *)
THEOREM PrimeTypeCorrect == PrimeSpec => []PrimeTypeOK
  <1>1. PrimeCore => PrimeTypeOK
    BY DEF PrimeCore
  <1> QED
    BY <1>1, PrimeCoreHolds, PTL

-----------------------------------------------------------------------------
(* InternalPrime: every copy of the book balances.                         *)

BalanceInv == BooksBalanced /\ Balanced(call.before)

LEMMA EmptyBookBalanced == Balanced(EmptyBook)
  <1>1. Active(EmptyBook) = {}
    BY DEF Active, EmptyBook
  <1>2. \A f \in Families : OfFamily(EmptyBook, f) = {}
    BY <1>1 DEF OfFamily
  <1>3. Notional \in [Loans -> Nat] /\ Capacity \in Nat /\ FamilyCap \in Nat
    BY InternalPrimeAssumption
  <1>4. SumOver(Notional, {}) = 0
    BY <1>3, LoanSums
  <1>5. EmptyBook.borrowed = 0 /\ \A f \in Families : EmptyBook.exposure[f] = 0
    BY DEF EmptyBook
  <1>6. /\ EmptyBook.borrowed = SumOver(Notional, Active(EmptyBook))
        /\ \A f \in Families :
               EmptyBook.exposure[f] = SumOver(Notional, OfFamily(EmptyBook, f))
    BY <1>1, <1>2, <1>4, <1>5
  <1>7. /\ EmptyBook.borrowed <= Capacity
        /\ \A f \in Families : EmptyBook.exposure[f] <= FamilyCap
    BY <1>3, <1>5
  <1> QED
    BY <1>6, <1>7, BalancedIsSum

LEMMA BalanceInit == PrimeInit => BalanceInv
  BY EmptyBookBalanced DEF PrimeInit, BalanceInv, BooksBalanced, NoCall

(* A file that was written with a balanced book is balanced. *)
LEMMA FileBalanced ==
    ASSUME BalanceInv, NEW o \in {"saved", "kept", "torn"}, NEW p, Balanced(p.book)
    PROVE  FileAfter(o, p) \notin {Absent, Torn} => Balanced(FileAfter(o, p).book)
  BY DEF BalanceInv, BooksBalanced, FileAfter

LEMMA LoadedBalanced == BalanceInv => Balanced(Loaded.book)
  BY EmptyBookBalanced DEF BalanceInv, BooksBalanced, Loaded, WithStock, Payload

(* Every action writes the book before the operation or the book that the  *)
(* operation made of it.                                                   *)
LEMMA BalanceStep == PrimeCore /\ BalanceInv /\ [PrimeNext]_primeVars => BalanceInv'
  <1> SUFFICES ASSUME PrimeCore, BalanceInv, [PrimeNext]_primeVars PROVE BalanceInv'
    OBVIOUS
  <1>0. /\ Balanced(book) /\ Balanced(call.before)
        /\ stateFile \notin {Absent, Torn} => Balanced(stateFile.book)
        /\ snapshot # Absent => Balanced(snapshot.book)
    BY DEF BalanceInv, BooksBalanced
  <1>a. book \in Books /\ call.before \in Books /\ NoCall.before = EmptyBook
    BY DEF PrimeCore, PrimeTypeOK, NoCall
  <1>1. ASSUME NEW l \in Loans, BeginOpen(l) \/ BeginSettle(l) \/ BeginDispute(l)
        PROVE  BalanceInv'
    <2>1. PICK op \in {"open", "settle", "dispute"} : Begin(op, l)
      BY <1>1, BeginFacts
    <2>2. /\ call'.before = book
          /\ UNCHANGED <<book, stateFile, snapshot>>
      BY <2>1 DEF Begin, memVars, diskVars
    <2> QED
      BY <1>0, <2>2 DEF BalanceInv, BooksBalanced
  <1>2. ASSUME NEW ok \in BOOLEAN, MoveInventory(ok) PROVE BalanceInv'
    <2>1. /\ call.loan \in Loans /\ Sound(call.op, call.loan, call.before)
          /\ book' = Applied /\ call'.before = call.before
          /\ UNCHANGED <<stateFile, snapshot>>
      BY <1>2, MoveInventoryFacts
    <2>2. Balanced(Applied)
      BY <1>0, <1>a, <2>1, ChangedBalanced DEF Applied
    <2> QED
      BY <1>0, <2>1, <2>2 DEF BalanceInv, BooksBalanced
  <1>3. ASSUME NEW o \in {"saved", "kept", "torn"}, SaveState(o) PROVE BalanceInv'
    <2>1. /\ stateFile' = FileAfter(o, Payload(book, stock))
          /\ call'.before = call.before /\ UNCHANGED <<book, snapshot>>
      BY <1>3, SaveStateFacts
    <2>2. Payload(book, stock).book = book
      BY DEF Payload
    <2>3. stateFile' \notin {Absent, Torn} => Balanced(stateFile'.book)
      BY <1>0, <2>1, <2>2, FileBalanced
    <2> QED
      BY <1>0, <2>1, <2>3 DEF BalanceInv, BooksBalanced
  <1>4. ASSUME NEW o \in {"saved", "kept", "torn"}, Adopt(o) PROVE BalanceInv'
    <2>1. /\ snapshot # Absent /\ snapshot.book = Applied /\ book' = Applied
          /\ stateFile' = FileAfter(o, snapshot) /\ call' = NoCall
          /\ UNCHANGED snapshot
      BY <1>4, AdoptFacts
    <2>2. stateFile' \notin {Absent, Torn} => Balanced(stateFile'.book)
      BY <1>0, <2>1, FileBalanced
    <2> QED
      BY <1>0, <1>a, <2>1, <2>2, EmptyBookBalanced DEF BalanceInv, BooksBalanced
  <1>5. ASSUME NEW o \in {"saved", "kept", "torn"}, NEW ok \in BOOLEAN, Rollback(ok, o)
        PROVE  BalanceInv'
    <2>1. /\ book' = call.before /\ call' = NoCall
          /\ stateFile' = FileAfter(o, Payload(book', stock')) /\ UNCHANGED snapshot
      BY <1>5, RollbackFacts
    <2>2. Payload(book', stock').book = call.before
      BY <2>1 DEF Payload
    <2>3. stateFile' \notin {Absent, Torn} => Balanced(stateFile'.book)
      BY <1>0, <2>1, <2>2, FileBalanced
    <2> QED
      BY <1>0, <1>a, <2>1, <2>3, EmptyBookBalanced DEF BalanceInv, BooksBalanced
  <1>6. ASSUME NEW o \in RowOutcomes, WriteJournal(o) PROVE BalanceInv'
    <2>1. /\ call' = NoCall \/ call'.before = call.before
          /\ UNCHANGED <<book, stateFile, snapshot>>
      BY <1>6, WriteJournalFacts DEF GoesOn
    <2> QED
      BY <1>0, <1>a, <2>1, EmptyBookBalanced DEF BalanceInv, BooksBalanced
  <1>7. ASSUME NEW o \in RecordOutcomes, RecordSnapshot(o) PROVE BalanceInv'
    <2>1. /\ snapshot' \in {snapshot, Payload(book, stock)}
          /\ call' = NoCall \/ call'.before = call.before
          /\ UNCHANGED <<book, stateFile>>
      BY <1>7, RecordSnapshotFacts DEF GoesOn
    <2>2. Payload(book, stock).book = book
      BY DEF Payload
    <2>3. snapshot' # Absent => Balanced(snapshot'.book)
      BY <1>0, <2>1, <2>2
    <2>4. Balanced(call'.before)
      BY <1>0, <1>a, <2>1, EmptyBookBalanced
    <2> QED
      BY <1>0, <2>1, <2>3, <2>4 DEF BalanceInv, BooksBalanced
  <1>8. CASE Commit
    <2>1. /\ call.loan \in Loans /\ Sound(call.op, call.loan, call.before)
          /\ snapshot' = Payload(Applied, StockAfter(call.op, call.loan))
          /\ call'.before = call.before /\ UNCHANGED <<book, stateFile>>
      BY <1>8, CommitFacts
    <2>2. Balanced(Applied)
      BY <1>0, <1>a, <2>1, ChangedBalanced DEF Applied
    <2>3. snapshot'.book = Applied
      BY <2>1 DEF Payload
    <2> QED
      BY <1>0, <2>1, <2>2, <2>3 DEF BalanceInv, BooksBalanced
  <1>9. CASE RestartPrime
    <2>1. /\ book' = Loaded.book /\ call' = NoCall /\ UNCHANGED <<stateFile, snapshot>>
      BY <1>9 DEF RestartPrime, diskVars
    <2> QED
      BY <1>0, <1>a, <2>1, LoadedBalanced, EmptyBookBalanced DEF BalanceInv, BooksBalanced
  <1>10. CASE Untrack \/ Seed \/ UNCHANGED primeVars
    <2>1. UNCHANGED <<book, call, stateFile, snapshot>>
      BY <1>10 DEF Untrack, Seed, primeVars
    <2> QED
      BY <1>0, <2>1 DEF BalanceInv, BooksBalanced
  <1> QED
    BY <1>1, <1>2, <1>3, <1>4, <1>5, <1>6, <1>7, <1>8, <1>9, <1>10
    DEF PrimeNext, RowOutcomes, RecordOutcomes

(* Every copy of the book, in memory, in the file and in the database, has *)
(* the totals of its active loans, within the limits: whatever failed and  *)
(* was rolled back (allocate, settle, _load_state), for any loans.         *)
THEOREM BooksBalancedHolds == PrimeSpec => []BooksBalanced
  <1>1. BalanceInv => BooksBalanced
    BY DEF BalanceInv
  <1>2. PrimeSpec => []BalanceInv
    BY PrimeCoreHolds, BalanceInit, BalanceStep, PTL DEF PrimeSpec
  <1> QED
    BY <1>1, <1>2, PTL

-----------------------------------------------------------------------------
(* InternalPrime: the collateral is conserved.                             *)

(* What an inventory that does not track the asset holds of it. *)
Held(s) == IF s = Untracked THEN 0 ELSE s

(* Stock and reservations add up in the book as it is, and, where the      *)
(* operation may still be rolled back, in what the rollback would leave.   *)
(* At the rollback itself only the latter is known.                        *)
CollateralInv ==
    restarts = 0 /\ "inventory" \notin struck =>
        /\ call.at # "rollback" => Held(stock) + ReservedCollateral(book) = total
        /\ call.at \in {"state", "journal", "snapshot", "rollback"} =>
               /\ call.moved <=> call.op # "dispute"
               /\ Held(RolledBack) + ReservedCollateral(call.before) = total

LEMMA CollateralInit == PrimeInit => CollateralInv
  <1> SUFFICES ASSUME PrimeInit PROVE CollateralInv
    OBVIOUS
  <1>1. Active(EmptyBook) = {}
    BY DEF Active, EmptyBook
  <1>2. ReservedCollateral(EmptyBook) = 0
    <2>1. Collateral \in [Loans -> Nat]
      BY InternalPrimeAssumption
    <2> QED
      BY <1>1, <2>1, CollateralIsSum, LoanSums
  <1>3. Held(stock) = Stock /\ Stock \in Nat
    BY MarkerAssumption, InternalPrimeAssumption DEF PrimeInit, Held
  <1> QED
    BY <1>2, <1>3 DEF PrimeInit, CollateralInv, NoCall

(* The stock moves by what the reservations change by. *)
LEMMA StockMoves ==
    ASSUME NEW b \in Books, NEW l \in Loans, NEW op, Sound(op, l, b),
           stock \in Int \cup {Untracked}, op # "dispute" => stock # Untracked,
           total \in Int, Held(stock) + ReservedCollateral(b) = total
    PROVE  /\ StockAfter(op, l) \in Int \cup {Untracked}
           /\ Held(StockAfter(op, l)) + ReservedCollateral(Changed(b, op, l)) = total
  <1>1. /\ ReservedCollateral(b) \in Nat /\ Collateral[l] \in Nat
        /\ ReservedCollateral(Changed(b, op, l)) \in Nat
        /\ op = "open" => ReservedCollateral(Changed(b, op, l))
                            = Collateral[l] + ReservedCollateral(b)
        /\ op = "settle" => ReservedCollateral(b)
                            = Collateral[l] + ReservedCollateral(Changed(b, op, l))
        /\ op = "dispute" => ReservedCollateral(Changed(b, op, l)) = ReservedCollateral(b)
    BY ChangedCollateral
  <1> DEFINE before == ReservedCollateral(b)
             after == ReservedCollateral(Changed(b, op, l))
  <1> HIDE DEF before, after
  <1>2. /\ before \in Nat /\ after \in Nat /\ Held(stock) + before = total
        /\ op = "open" => after = Collateral[l] + before
        /\ op = "settle" => before = Collateral[l] + after
        /\ op = "dispute" => after = before
    BY <1>1 DEF before, after
  <1>3. CASE op = "open"
    <2>1. StockAfter(op, l) = stock - Collateral[l] /\ stock \in Int /\ Held(stock) = stock
      BY <1>3 DEF StockAfter, Held
    <2>2. stock - Collateral[l] \in Int
      BY <1>1, <2>1
    <2>3. Held(StockAfter(op, l)) = stock - Collateral[l]
      BY <2>1, <2>2, MarkerAssumption DEF Held
    <2> QED
      BY <1>1, <1>2, <1>3, <2>1, <2>2, <2>3 DEF after
  <1>4. CASE op = "settle"
    <2>1. StockAfter(op, l) = stock + Collateral[l] /\ stock \in Int /\ Held(stock) = stock
      BY <1>4 DEF StockAfter, Held
    <2>2. stock + Collateral[l] \in Int
      BY <1>1, <2>1
    <2>3. Held(StockAfter(op, l)) = stock + Collateral[l]
      BY <2>1, <2>2, MarkerAssumption DEF Held
    <2> QED
      BY <1>1, <1>2, <1>4, <2>1, <2>2, <2>3 DEF after
  <1>5. CASE op = "dispute"
    <2>1. StockAfter(op, l) = stock
      BY <1>5 DEF StockAfter
    <2> QED
      BY <1>2, <1>5, <2>1 DEF after
  <1> QED
    BY <1>3, <1>4, <1>5 DEF Sound

(* Moving it back undoes this. *)
LEMMA StockMovesBack ==
    ASSUME NEW l \in Loans, NEW op \in {"open", "settle"}, stock \in Int
    PROVE  StockAfter(op, l) \in Int
           /\ stock = IF op = "open" THEN StockAfter(op, l) + Collateral[l]
                                     ELSE StockAfter(op, l) - Collateral[l]
  <1>1. Collateral[l] \in Nat
    BY InternalPrimeAssumption
  <1> QED
    BY <1>1 DEF StockAfter

LEMMA CollateralStep == PrimeCore /\ CollateralInv /\ [PrimeNext]_primeVars => CollateralInv'
  <1> SUFFICES ASSUME PrimeCore, CollateralInv, [PrimeNext]_primeVars,
                      restarts' = 0, "inventory" \notin struck'
               PROVE  /\ call'.at # "rollback" =>
                            Held(stock') + ReservedCollateral(book') = total'
                      /\ call'.at \in {"state", "journal", "snapshot", "rollback"} =>
                             /\ call'.moved <=> call'.op # "dispute"
                             /\ Held(RolledBack') + ReservedCollateral(call'.before) = total'
    BY DEF CollateralInv
  <1> DEFINE Goal == /\ call'.at # "rollback" =>
                            Held(stock') + ReservedCollateral(book') = total'
                     /\ call'.at \in {"state", "journal", "snapshot", "rollback"} =>
                             /\ call'.moved <=> call'.op # "dispute"
                             /\ Held(RolledBack') + ReservedCollateral(call'.before) = total'
             Now == /\ call.at # "rollback" => Held(stock) + ReservedCollateral(book) = total
                    /\ call.at \in {"state", "journal", "snapshot", "rollback"} =>
                           /\ call.moved <=> call.op # "dispute"
                           /\ Held(RolledBack) + ReservedCollateral(call.before) = total
  <1>a. /\ book \in Books /\ call.before \in Books /\ total \in Int
        /\ stock \in Int \cup {Untracked} /\ restarts \in Nat
        /\ NoCall.at = "idle" /\ "inventory" # "state"
    BY InternalPrimeAssumption DEF PrimeCore, PrimeTypeOK, NoCall
  <1>b. restarts = 0 /\ "inventory" \notin struck => Now
    BY DEF CollateralInv
  <1> HIDE DEF Now
  <1>1. ASSUME NEW l \in Loans, BeginOpen(l) \/ BeginSettle(l) \/ BeginDispute(l)
        PROVE  Goal
    <2>1. PICK op \in {"open", "settle", "dispute"} : Idle /\ Begin(op, l)
      BY <1>1, BeginFacts
    <2>2. /\ call.at = "idle" /\ call'.at = "inventory"
          /\ UNCHANGED <<book, stock, total, restarts, struck>>
      BY <2>1 DEF Begin, Idle, memVars, bounds
    <2> QED
      BY <1>b, <2>2 DEF Now
  <1>2. ASSUME NEW ok \in BOOLEAN, MoveInventory(ok) PROVE Goal
    <2>1. /\ call.at = "inventory" /\ call.loan \in Loans /\ book = call.before
          /\ Sound(call.op, call.loan, call.before)
          /\ call.op # "dispute" => stock # Untracked
          /\ stock' = StockAfter(call.op, call.loan) /\ book' = Applied
          /\ struck' = IF ok THEN struck ELSE struck \cup {"inventory"}
          /\ UNCHANGED <<total, restarts>>
          /\ call'.op = call.op /\ call'.loan = call.loan /\ call'.before = call.before
          /\ call'.at = (IF ok THEN "state" ELSE "rollback")
          /\ call'.moved = (ok /\ call.op # "dispute")
      BY <1>2, MoveInventoryFacts DEF bounds
    <2>2. ok /\ call'.at = "state" /\ (call'.moved <=> call.op # "dispute")
      BY <2>1
    <2>3. Held(stock) + ReservedCollateral(call.before) = total
      BY <1>b, <2>1, <2>2 DEF Now
    <2>4. Held(stock') + ReservedCollateral(book') = total
      BY <1>a, <2>1, <2>3, StockMoves DEF Applied
    <2>5. RolledBack' = stock
      <3>1. CASE call.op = "dispute"
        <4>1. RolledBack' = stock'
          BY <2>2, <3>1 DEF RolledBack
        <4> QED
          BY <2>1, <3>1, <4>1 DEF StockAfter
      <3>2. CASE call.op # "dispute"
        <4>1. call.op \in {"open", "settle"} /\ stock \in Int
          BY <1>a, <2>1, <3>2 DEF Sound
        <4>2. RolledBack' = IF call.op = "open" THEN stock' + Collateral[call.loan]
                                                ELSE stock' - Collateral[call.loan]
          BY <2>1, <2>2, <3>2 DEF RolledBack, StockBefore
        <4> QED
          BY <2>1, <4>1, <4>2, StockMovesBack
      <3> QED
        BY <3>1, <3>2
    <2> QED
      BY <2>1, <2>2, <2>3, <2>4, <2>5
  <1>3. ASSUME /\ call.at \in {"state", "journal", "snapshot"}
               /\ call'.at \in {"journal", "snapshot", "rollback"}
               /\ call'.op = call.op /\ call'.loan = call.loan /\ call'.before = call.before
               /\ call'.moved = call.moved
               /\ UNCHANGED <<book, stock, total, restarts>> /\ struck \subseteq struck'
        PROVE  Goal
    <2>1. RolledBack' = RolledBack
      BY <1>3 DEF RolledBack, StockBefore
    <2> QED
      BY <1>b, <1>3, <2>1 DEF Now
  <1>4. ASSUME NEW o \in {"saved", "kept", "torn"}, SaveState(o) PROVE Goal
    <2>1. /\ call.at = "state" /\ call'.at \in {"journal", "rollback"}
          /\ call'.op = call.op /\ call'.loan = call.loan /\ call'.before = call.before
          /\ call'.moved = call.moved
          /\ UNCHANGED <<book, stock, total, restarts, struck>>
      BY <1>4, SaveStateFacts DEF bounds
    <2> QED
      BY <1>3, <2>1
  <1>5. ASSUME NEW o \in RowOutcomes, WriteJournal(o) PROVE Goal
    <2>1. /\ call.at = "journal" /\ UNCHANGED <<book, stock, total, restarts, struck>>
          /\ \/ call' = NoCall
             \/ /\ call'.at \in {"snapshot", "rollback"}
                /\ call'.op = call.op /\ call'.loan = call.loan
                /\ call'.before = call.before /\ call'.moved = call.moved
      BY <1>5, WriteJournalFacts DEF GoesOn
    <2>2. CASE call' = NoCall
      BY <1>a, <1>b, <2>1, <2>2 DEF Now
    <2> QED
      BY <1>3, <2>1, <2>2
  <1>6. ASSUME NEW o \in RecordOutcomes, RecordSnapshot(o) PROVE Goal
    <2>1. /\ call.at = "snapshot" /\ UNCHANGED <<book, stock, total, restarts, struck>>
          /\ \/ call' = NoCall
             \/ /\ call'.op = call.op /\ call'.loan = call.loan
                /\ call'.before = call.before /\ call'.moved = call.moved
                /\ call'.at = "rollback"
      BY <1>6, RecordSnapshotFacts DEF GoesOn
    <2>2. CASE call' = NoCall
      BY <1>a, <1>b, <2>1, <2>2 DEF Now
    <2> QED
      BY <1>3, <2>1, <2>2
  <1>7. ASSUME NEW o \in {"saved", "kept", "torn"}, NEW ok \in BOOLEAN, Rollback(ok, o)
        PROVE  Goal
    <2>1. /\ call.at = "rollback" /\ book' = call.before /\ stock' = RolledBack
          /\ call' = NoCall /\ UNCHANGED <<total, restarts>>
      BY <1>7, RollbackFacts
    <2>2. struck \subseteq struck'
      BY <1>7 DEF Rollback
    <2> QED
      BY <1>a, <1>b, <2>1, <2>2 DEF Now
  <1>8. CASE Commit
    <2>1. /\ call.at = "inventory" /\ call'.at = "adopt"
          /\ UNCHANGED <<book, stock, total, restarts, struck>>
      BY <1>8, CommitFacts DEF bounds
    <2> QED
      BY <1>b, <2>1 DEF Now
  <1>9. ASSUME NEW o \in {"saved", "kept", "torn"}, Adopt(o) PROVE Goal
    <2>1. /\ call.at = "adopt" /\ call.loan \in Loans /\ book = call.before
          /\ Sound(call.op, call.loan, call.before)
          /\ call.op # "dispute" => stock # Untracked
          /\ book' = Applied /\ stock' = StockAfter(call.op, call.loan)
          /\ call' = NoCall /\ struck \subseteq struck' /\ UNCHANGED <<total, restarts>>
      BY <1>9, AdoptFacts DEF bounds
    <2>2. Held(stock) + ReservedCollateral(call.before) = total
      BY <1>b, <2>1 DEF Now
    <2>3. Held(stock') + ReservedCollateral(book') = total
      BY <1>a, <2>1, <2>2, StockMoves DEF Applied
    <2> QED
      BY <1>a, <2>1, <2>3
  <1>10. CASE RestartPrime
    BY <1>a, <1>10 DEF RestartPrime
  <1>11. CASE Untrack
    <2>1. /\ call.at = "idle" /\ stock # Untracked /\ stock' = Untracked
          /\ total' = total - stock /\ UNCHANGED <<book, call, restarts, struck>>
      BY <1>11 DEF Untrack, Idle, bounds
    <2>2. Held(stock) + ReservedCollateral(book) = total /\ Held(stock) = stock
          /\ Held(stock') = 0 /\ stock \in Int
      BY <1>a, <1>b, <2>1 DEF Now, Held
    <2>3. ReservedCollateral(book) \in Nat
      <3>1. Collateral \in [Loans -> Nat] /\ Active(book) \in SUBSET Loans
        BY InternalPrimeAssumption DEF Active
      <3> QED
        BY <3>1, CollateralIsSum, LoanSums
    <2>4. Held(stock') + ReservedCollateral(book) = total'
      BY <1>a, <2>1, <2>2, <2>3
    <2> QED
      BY <2>1, <2>4
  <1>12. CASE Seed
    <2>1. /\ call.at = "idle" /\ stock = Untracked /\ stock' = 0
          /\ UNCHANGED <<book, call, total, restarts, struck>>
      BY <1>12 DEF Seed, Idle, bounds
    <2>2. Held(stock) = 0 /\ Held(stock') = 0
      BY <2>1, MarkerAssumption DEF Held
    <2> QED
      BY <1>b, <2>1, <2>2 DEF Now
  <1>13. CASE UNCHANGED primeVars
    <2>1. UNCHANGED <<book, stock, call, total, restarts, struck>> /\ RolledBack' = RolledBack
      BY <1>13 DEF primeVars, RolledBack, StockBefore
    <2> QED
      BY <1>b, <2>1 DEF Now
  <1> QED
    BY <1>1, <1>2, <1>4, <1>5, <1>6, <1>7, <1>8, <1>9, <1>10, <1>11, <1>12, <1>13
    DEF PrimeNext, RowOutcomes, RecordOutcomes

(* Between two operations the stock and the collateral of the active loans *)
(* add up to what the inventory was given, whatever was rolled back        *)
(* (inventory.reserve, release and the two rollbacks), for any loans.      *)
THEOREM CollateralConservedHolds == PrimeSpec => []CollateralConserved
  <1>1. CollateralInv => CollateralConserved
    BY DEF CollateralInv, CollateralConserved, Idle, Held
  <1>2. PrimeSpec => []CollateralInv
    BY PrimeCoreHolds, CollateralInit, CollateralStep, PTL DEF PrimeSpec
  <1> QED
    BY <1>1, <1>2, PTL

-----------------------------------------------------------------------------
(* InternalPrime: a loan that was given is remembered.                     *)

(* A failed save of the state file was not reported to the caller. *)
Excepted == coordinated /\ "state" \in struck

(* The loans that were given are active in every copy a restart may load   *)
(* and in the book a rollback would restore, even without the loan that    *)
(* the operation in progress is about.  Nothing was given before the       *)
(* first snapshot.                                                         *)
RememberInv ==
    ~(Excepted /\ restarts > 0) =>
        /\ granted \subseteq Active(book)
        /\ ~Idle => granted \subseteq Active(call.before) \ {call.loan}
        /\ snapshot # Absent => granted \subseteq Active(snapshot.book)
        /\ snapshot = Absent => granted = {}
        /\ stateFile \notin {Absent, Torn} /\ ~Excepted
               => granted \subseteq Active(stateFile.book)

LEMMA RememberInit == PrimeInit => RememberInv
  BY DEF PrimeInit, RememberInv, Idle, NoCall

(* An operation loses no loan but the one that is settled. *)
LEMMA OthersStay ==
    ASSUME PrimeCore, call.loan \in Loans, call.before \in Books,
           Sound(call.op, call.loan, call.before),
           granted \subseteq Active(call.before) \ {call.loan}
    PROVE  /\ granted \subseteq Active(Applied)
           /\ GrantedAfter(call.op, call.loan) \subseteq Active(Applied)
  <1>1. call.op \in {"open", "settle", "dispute"}
    BY DEF Sound
  <1>2. /\ call.op = "open" => Active(Applied) = Active(call.before) \cup {call.loan}
        /\ call.op = "settle" => Active(Applied) = Active(call.before) \ {call.loan}
        /\ call.op = "dispute" => Active(Applied) = Active(call.before)
    BY ChangedActive DEF Applied
  <1> QED
    BY <1>1, <1>2 DEF GrantedAfter

(* A state file that was written with such a book, or kept, has them too. *)
LEMMA FileRemembers ==
    ASSUME NEW o \in {"saved", "kept", "torn"}, NEW p, NEW g,
           stateFile \notin {Absent, Torn} => g \subseteq Active(stateFile.book),
           g \subseteq Active(p.book)
    PROVE  FileAfter(o, p) \notin {Absent, Torn} => g \subseteq Active(FileAfter(o, p).book)
  BY DEF FileAfter

LEMMA RememberStep == PrimeCore /\ RememberInv /\ [PrimeNext]_primeVars => RememberInv'
  <1> SUFFICES ASSUME PrimeCore, RememberInv, [PrimeNext]_primeVars,
                      ~(Excepted' /\ restarts' > 0)
               PROVE  /\ granted' \subseteq Active(book')
                      /\ ~Idle' => granted' \subseteq Active(call'.before) \ {call'.loan}
                      /\ snapshot' # Absent => granted' \subseteq Active(snapshot'.book)
                      /\ snapshot' = Absent => granted' = {}
                      /\ stateFile' \notin {Absent, Torn} /\ ~Excepted'
                             => granted' \subseteq Active(stateFile'.book)
    BY DEF RememberInv, Active
  <1> DEFINE Goal == /\ granted' \subseteq Active(book')
                     /\ ~Idle' => granted' \subseteq Active(call'.before) \ {call'.loan}
                     /\ snapshot' # Absent => granted' \subseteq Active(snapshot'.book)
                     /\ snapshot' = Absent => granted' = {}
                     /\ stateFile' \notin {Absent, Torn} /\ ~Excepted'
                            => granted' \subseteq Active(stateFile'.book)
             Now == /\ granted \subseteq Active(book)
                    /\ ~Idle => granted \subseteq Active(call.before) \ {call.loan}
                    /\ snapshot # Absent => granted \subseteq Active(snapshot.book)
                    /\ snapshot = Absent => granted = {}
                    /\ stateFile \notin {Absent, Torn} /\ ~Excepted
                           => granted \subseteq Active(stateFile.book)
  <1>a. ~(Excepted /\ restarts > 0) => Now
    BY DEF RememberInv
  <1>b. book \in Books /\ call.before \in Books /\ stock \in Int \cup {Untracked}
        /\ restarts \in Nat /\ NoCall.at = "idle"
    BY InternalPrimeAssumption DEF PrimeCore, PrimeTypeOK, NoCall
  <1> HIDE DEF Now
  <1>1. ASSUME NEW l \in Loans, BeginOpen(l) \/ BeginSettle(l) \/ BeginDispute(l)
        PROVE  Goal
    <2>1. PICK op \in {"open", "settle", "dispute"} : Begin(op, l)
      BY <1>1, BeginFacts
    <2>2. /\ granted' = granted \ {l} /\ call'.before = book /\ call'.loan = l
          /\ UNCHANGED <<book, stateFile, snapshot, restarts, struck, coordinated>>
      BY <2>1 DEF Begin, memVars, diskVars, bounds
    <2>3. Excepted' = Excepted /\ Now
      BY <1>a, <2>2 DEF Excepted
    <2> QED
      BY <2>2, <2>3 DEF Now
  <1>2. ASSUME NEW ok \in BOOLEAN, MoveInventory(ok) PROVE Goal
    <2>1. /\ ~Idle /\ call.loan \in Loans /\ Sound(call.op, call.loan, call.before)
          /\ book' = Applied /\ call'.before = call.before /\ call'.loan = call.loan
          /\ ~coordinated
          /\ UNCHANGED <<stateFile, snapshot, granted, coordinated, restarts>>
      BY <1>2, MoveInventoryFacts DEF Idle, bounds
    <2>2. ~Excepted /\ ~Excepted' /\ Now
      BY <1>a, <2>1 DEF Excepted
    <2>3. granted \subseteq Active(call.before) \ {call.loan}
      BY <2>1, <2>2 DEF Now
    <2>4. granted \subseteq Active(Applied)
      BY <1>b, <2>1, <2>3, OthersStay
    <2> QED
      BY <2>1, <2>2, <2>3, <2>4 DEF Now
  <1>3. ASSUME NEW o \in {"saved", "kept", "torn"}, SaveState(o) PROVE Goal
    <2>1. /\ ~Idle /\ ~coordinated /\ stateFile' = FileAfter(o, Payload(book, stock))
          /\ call'.before = call.before /\ call'.loan = call.loan
          /\ UNCHANGED <<book, snapshot, granted, coordinated, restarts>>
      BY <1>3, SaveStateFacts DEF Idle, bounds
    <2>2. ~Excepted /\ ~Excepted' /\ Now
      BY <1>a, <2>1 DEF Excepted
    <2>3. stateFile' \notin {Absent, Torn} => granted \subseteq Active(stateFile'.book)
      <3>1. Payload(book, stock).book = book
        BY DEF Payload
      <3> QED
        BY <2>1, <2>2, <3>1, FileRemembers DEF Now
    <2> QED
      BY <2>1, <2>2, <2>3 DEF Now
  <1>4. ASSUME NEW o \in {"saved", "kept", "torn"}, Adopt(o) PROVE Goal
    <2>1. /\ ~Idle /\ call.loan \in Loans /\ Sound(call.op, call.loan, call.before)
          /\ snapshot # Absent /\ snapshot.book = Applied /\ book' = Applied
          /\ stateFile' = FileAfter(o, snapshot)
          /\ granted' = GrantedAfter(call.op, call.loan) /\ call' = NoCall
          /\ struck' = (IF o = "kept" THEN struck \cup {"state"} ELSE struck)
          /\ coordinated /\ UNCHANGED <<snapshot, coordinated, restarts>>
      BY <1>4, AdoptFacts DEF Idle, bounds
    <2>2. Now /\ (Excepted => Excepted')
      BY <1>a, <2>1 DEF Excepted
    <2>3. granted' \subseteq Active(Applied)
      <3>1. granted \subseteq Active(call.before) \ {call.loan}
        BY <2>1, <2>2 DEF Now
      <3> QED
        BY <1>b, <2>1, <3>1, OthersStay
    <2>4. stateFile' \notin {Absent, Torn} /\ ~Excepted'
              => granted' \subseteq Active(stateFile'.book)
      <3>1. ~Excepted' => o # "kept"
        BY <2>1 DEF Excepted
      <3>2. o = "saved" => stateFile' = snapshot
        BY <2>1 DEF FileAfter
      <3>3. o = "torn" => stateFile' = Torn
        BY <2>1 DEF FileAfter
      <3> QED
        BY <2>1, <2>3, <3>1, <3>2, <3>3
    <2> QED
      BY <1>b, <2>1, <2>3, <2>4 DEF Idle
  <1>5. ASSUME NEW o \in {"saved", "kept", "torn"}, NEW ok \in BOOLEAN, Rollback(ok, o)
        PROVE  Goal
    <2>1. /\ ~Idle /\ ~coordinated /\ book' = call.before /\ call' = NoCall
          /\ stateFile' = FileAfter(o, Payload(book', stock'))
          /\ UNCHANGED <<snapshot, granted, coordinated, restarts>>
      BY <1>5, RollbackFacts DEF Idle
    <2>2. ~Excepted /\ ~Excepted' /\ Now
      BY <1>a, <2>1 DEF Excepted
    <2>3. granted \subseteq Active(call.before)
      BY <2>1, <2>2 DEF Now
    <2>4. stateFile' \notin {Absent, Torn} => granted \subseteq Active(stateFile'.book)
      <3>1. Payload(book', stock').book = call.before
        BY <2>1 DEF Payload
      <3> QED
        BY <2>1, <2>2, <2>3, <3>1, FileRemembers DEF Now
    <2> QED
      BY <1>b, <2>1, <2>2, <2>3, <2>4 DEF Now, Idle
  <1>6. ASSUME NEW o \in RowOutcomes, WriteJournal(o) PROVE Goal
    <2>1. /\ ~Idle /\ ~coordinated
          /\ call' = NoCall \/ (call'.before = call.before /\ call'.loan = call.loan)
          /\ UNCHANGED <<book, stateFile, snapshot, granted, coordinated, restarts>>
      BY <1>6, WriteJournalFacts DEF Idle, GoesOn
    <2>2. ~Excepted /\ ~Excepted' /\ Now
      BY <1>a, <2>1 DEF Excepted
    <2> QED
      BY <1>b, <2>1, <2>2 DEF Now, Idle
  <1>7. ASSUME NEW o \in RecordOutcomes, RecordSnapshot(o) PROVE Goal
    <2>1. /\ ~Idle /\ ~coordinated /\ call.loan \in Loans
          /\ Sound(call.op, call.loan, call.before)
          /\ book = Applied /\ stateFile = Payload(book, stock)
          /\ snapshot' = IF o \in {"none", "raised"} THEN snapshot ELSE Payload(book, stock)
          /\ UNCHANGED <<book, stateFile, coordinated, restarts>>
          /\ granted' = IF o = "ok" THEN GrantedAfter(call.op, call.loan) ELSE granted
          /\ \/ call' = NoCall
             \/ o # "ok" /\ call'.before = call.before /\ call'.loan = call.loan
      BY <1>7, RecordSnapshotFacts DEF Idle, GoesOn
    <2>2. ~Excepted /\ ~Excepted' /\ Now
      BY <1>a, <2>1 DEF Excepted
    <2>3. granted \subseteq Active(call.before) \ {call.loan}
      BY <2>1, <2>2 DEF Now
    <2>4. granted' \subseteq Active(book)
      BY <1>b, <2>1, <2>3, OthersStay
    <2>5. Payload(book, stock) # Absent /\ Payload(book, stock).book = book
      BY <1>b, PayloadType
    <2>6. /\ snapshot' # Absent => granted' \subseteq Active(snapshot'.book)
          /\ snapshot' = Absent => granted' = {}
      <3>1. CASE o \in {"none", "raised"}
        <4>1. snapshot' = snapshot /\ granted' = granted
          BY <2>1, <3>1
        <4> QED
          BY <2>2, <4>1 DEF Now
      <3>2. CASE o \notin {"none", "raised"}
        BY <2>1, <2>4, <2>5, <3>2
      <3> QED
        BY <3>1, <3>2
    <2>7. ~Idle' => granted' \subseteq Active(call'.before) \ {call'.loan}
      BY <1>b, <2>1, <2>3 DEF Idle
    <2>8. stateFile' \notin {Absent, Torn} => granted' \subseteq Active(stateFile'.book)
      BY <2>1, <2>4, <2>5
    <2> QED
      BY <2>1, <2>4, <2>6, <2>7, <2>8
  <1>8. CASE Commit
    <2>1. /\ ~Idle /\ call.loan \in Loans /\ Sound(call.op, call.loan, call.before)
          /\ Applied \in Books /\ StockAfter(call.op, call.loan) \in Int \cup {Untracked}
          /\ snapshot' = Payload(Applied, StockAfter(call.op, call.loan))
          /\ call'.before = call.before /\ call'.loan = call.loan
          /\ UNCHANGED <<book, stateFile, granted, coordinated, restarts, struck>>
      BY <1>8, CommitFacts DEF Idle, bounds
    <2>2. Excepted' = Excepted /\ Now
      BY <1>a, <2>1 DEF Excepted
    <2>3. granted \subseteq Active(call.before) \ {call.loan}
      BY <2>1, <2>2 DEF Now
    <2>4. granted \subseteq Active(Applied)
      BY <1>b, <2>1, <2>3, OthersStay
    <2>5. snapshot' # Absent /\ snapshot'.book = Applied
      BY <2>1, PayloadType
    <2> QED
      BY <2>1, <2>2, <2>3, <2>4, <2>5 DEF Now
  <1>9. CASE RestartPrime
    <2>1. /\ book' = Loaded.book /\ call' = NoCall /\ restarts' = restarts + 1
          /\ UNCHANGED <<stateFile, snapshot, granted, coordinated, struck>>
      BY <1>9 DEF RestartPrime, diskVars
    <2>2. ~Excepted /\ ~Excepted' /\ Now
      BY <1>a, <1>b, <2>1 DEF Excepted
    <2>3. granted \subseteq Active(Loaded.book)
      BY <2>2 DEF Now, Loaded, WithStock, Payload
    <2> QED
      BY <1>b, <2>1, <2>2, <2>3 DEF Now, Idle
  <1>10. CASE Untrack \/ Seed \/ UNCHANGED primeVars
    <2>1. UNCHANGED <<book, call, stateFile, snapshot, granted, coordinated, struck, restarts>>
      BY <1>10 DEF Untrack, Seed, primeVars, bounds
    <2>2. Excepted' = Excepted /\ Now
      BY <1>a, <2>1 DEF Excepted
    <2> QED
      BY <2>1, <2>2 DEF Now, Idle
  <1> QED
    BY <1>1, <1>2, <1>3, <1>4, <1>5, <1>6, <1>7, <1>8, <1>9, <1>10
    DEF PrimeNext, RowOutcomes, RecordOutcomes

(* A loan a caller was given is active until the caller asks for its       *)
(* settlement, whatever fails and whenever the process restarts            *)
(* (_load_state, adopt_state_payload), for any loans; with a writer a      *)
(* state file that stayed as it was is the one exception.                  *)
THEOREM GrantedRememberedHolds == PrimeSpec => []GrantedRemembered
  <1>1. RememberInv => GrantedRemembered
    BY DEF RememberInv, GrantedRemembered, Excepted
  <1>2. PrimeSpec => []RememberInv
    BY PrimeCoreHolds, RememberInit, RememberStep, PTL DEF PrimeSpec
  <1> QED
    BY <1>1, <1>2, PTL

-----------------------------------------------------------------------------
(* InternalPrime: the journal reconciles with the book.                    *)

(* The rows of a journal are those of the active loans of a book, for the  *)
(* loans that are not in a.                                                *)
Rows(j, b, a) ==
    \A l \in Loans \ a : j[l].opened - j[l].settled = IF l \in Active(b) THEN 1 ELSE 0

(* The journal goes with the book before the operation until its row is    *)
(* written, and with the book after it from then on.                       *)
JournalInv ==
    restarts = 0 =>
        /\ call.at \in {"idle", "snapshot"} => Rows(journal, book, astray)
        /\ call.at \in {"inventory", "state", "journal", "rollback"}
               => Rows(journal, call.before, astray)
        /\ call.at = "adopt" => Rows(journal, snapshot.book, astray)

LEMMA JournalInit == PrimeInit => JournalInv
  BY DEF PrimeInit, JournalInv, NoCall, Rows, Active, EmptyBook

(* The row of an operation takes the journal from one book to the next. *)
LEMMA RowsFollow ==
    ASSUME PrimeCore, call.loan \in Loans, call.before \in Books,
           Sound(call.op, call.loan, call.before), Rows(journal, call.before, astray)
    PROVE  Rows(Journaled(call.op, call.loan), Applied, astray)
  <1> DEFINE k == call.loan
             j == Journaled(call.op, call.loan)
             Was == Active(call.before)
             Is == Active(Applied)
  <1>1. call.op \in {"open", "settle", "dispute"}
    BY DEF Sound
  <1>2. /\ call.op = "open" => k \notin Was /\ Is = Was \cup {k}
        /\ call.op = "settle" => k \in Was /\ Is = Was \ {k}
        /\ call.op = "dispute" => Is = Was
    BY ChangedActive DEF Applied
  <1>3. journal \in [Loans -> [opened : Nat, settled : Nat]]
    BY DEF PrimeCore, PrimeTypeOK
  <1>4. /\ call.op = "open" => j = [journal EXCEPT ![k].opened = @ + 1]
        /\ call.op = "settle" => j = [journal EXCEPT ![k].settled = @ + 1]
        /\ call.op = "dispute" => j = journal
    BY DEF Journaled
  <1> SUFFICES ASSUME NEW l \in Loans \ astray
               PROVE  j[l].opened - j[l].settled = IF l \in Is THEN 1 ELSE 0
    BY DEF Rows
  <1>5. journal[l].opened - journal[l].settled = IF l \in Was THEN 1 ELSE 0
    BY DEF Rows
  <1> HIDE DEF j, Is, Was
  <1>6. CASE l # k
    <2>1. j[l] = journal[l]
      BY <1>1, <1>3, <1>4, <1>6
    <2>2. l \in Is <=> l \in Was
      BY <1>1, <1>2, <1>6
    <2> QED
      BY <1>5, <2>1, <2>2
  <1>7. CASE l = k
    <2>1. /\ call.op = "open" => /\ j[l].opened = journal[l].opened + 1
                                 /\ j[l].settled = journal[l].settled
          /\ call.op = "settle" => /\ j[l].settled = journal[l].settled + 1
                                   /\ j[l].opened = journal[l].opened
          /\ call.op = "dispute" => j[l] = journal[l]
      BY <1>3, <1>4, <1>7
    <2>2. journal[l].opened \in Nat /\ journal[l].settled \in Nat
      BY <1>3
    <2>3. CASE call.op = "open"
      <3>1. l \notin Was /\ l \in Is
        BY <1>2, <1>7, <2>3
      <3> QED
        BY <1>5, <2>1, <2>2, <2>3, <3>1
    <2>4. CASE call.op = "settle"
      <3>1. l \in Was /\ l \notin Is
        BY <1>2, <1>7, <2>4
      <3> QED
        BY <1>5, <2>1, <2>2, <2>4, <3>1
    <2>5. CASE call.op = "dispute"
      BY <1>2, <1>5, <2>1, <2>5
    <2> QED
      BY <1>1, <2>3, <2>4, <2>5
  <1> QED
    BY <1>6, <1>7

(* It changes the rows and the book of its own loan only. *)
LEMMA OthersSame ==
    ASSUME PrimeCore, call.loan \in Loans, call.before \in Books,
           Sound(call.op, call.loan, call.before), NEW l \in Loans \ JournaledLoan
    PROVE  /\ l \in Active(Applied) <=> l \in Active(call.before)
           /\ Journaled(call.op, call.loan)[l] = journal[l]
  <1>1. call.op \in {"open", "settle", "dispute"}
    BY DEF Sound
  <1>2. /\ call.op = "open" => Active(Applied) = Active(call.before) \cup {call.loan}
        /\ call.op = "settle" => Active(Applied) = Active(call.before) \ {call.loan}
        /\ call.op = "dispute" => Active(Applied) = Active(call.before)
    BY ChangedActive DEF Applied
  <1>3. journal \in [Loans -> [opened : Nat, settled : Nat]]
    BY DEF PrimeCore, PrimeTypeOK
  <1>4. call.op # "dispute" => l # call.loan
    BY DEF JournaledLoan
  <1>5. Journaled(call.op, call.loan)[l] = journal[l]
    BY <1>1, <1>3, <1>4 DEF Journaled
  <1> QED
    BY <1>1, <1>2, <1>4, <1>5

(* If the loan is astray, the rows go with either book. *)
LEMMA RowsAstray ==
    ASSUME PrimeCore, call.loan \in Loans, call.before \in Books,
           Sound(call.op, call.loan, call.before)
    PROVE  /\ Rows(journal, call.before, astray) =>
                  /\ Rows(Journaled(call.op, call.loan), call.before,
                          astray \cup JournaledLoan)
                  /\ Rows(journal, Applied, astray \cup JournaledLoan)
           /\ Rows(journal, Applied, astray) =>
                  Rows(journal, call.before, astray \cup JournaledLoan)
  BY OthersSame DEF Rows

LEMMA JournalStep == PrimeCore /\ JournalInv /\ [PrimeNext]_primeVars => JournalInv'
  <1> SUFFICES ASSUME PrimeCore, JournalInv, [PrimeNext]_primeVars,
                      restarts' = 0
               PROVE  /\ call'.at \in {"idle", "snapshot"} => Rows(journal', book', astray')
                      /\ call'.at \in {"inventory", "state", "journal", "rollback"}
                             => Rows(journal', call'.before, astray')
                      /\ call'.at = "adopt" => Rows(journal', snapshot'.book, astray')
    BY DEF JournalInv, Rows, Active
  <1> DEFINE Goal == /\ call'.at \in {"idle", "snapshot"} => Rows(journal', book', astray')
                     /\ call'.at \in {"inventory", "state", "journal", "rollback"}
                            => Rows(journal', call'.before, astray')
                     /\ call'.at = "adopt" => Rows(journal', snapshot'.book, astray')
             Now == /\ call.at \in {"idle", "snapshot"} => Rows(journal, book, astray)
                    /\ call.at \in {"inventory", "state", "journal", "rollback"}
                           => Rows(journal, call.before, astray)
                    /\ call.at = "adopt" => Rows(journal, snapshot.book, astray)
  <1>a. restarts = 0 => Now
    BY DEF JournalInv
  <1>b. book \in Books /\ call.before \in Books /\ restarts \in Nat /\ NoCall.at = "idle"
    BY InternalPrimeAssumption DEF PrimeCore, PrimeTypeOK, NoCall
  <1> HIDE DEF Now
  <1>1. ASSUME NEW l \in Loans, BeginOpen(l) \/ BeginSettle(l) \/ BeginDispute(l)
        PROVE  Goal
    <2>1. PICK op \in {"open", "settle", "dispute"} : Idle /\ Begin(op, l)
      BY <1>1, BeginFacts
    <2>2. /\ call.at = "idle" /\ call'.at = "inventory" /\ call'.before = book
          /\ UNCHANGED <<journal, restarts, astray>>
      BY <2>1 DEF Begin, Idle, diskVars, bounds
    <2> QED
      BY <1>a, <2>2 DEF Now
  <1>2. ASSUME NEW ok \in BOOLEAN, MoveInventory(ok) PROVE Goal
    <2>1. /\ call.at = "inventory" /\ call'.at \in {"state", "rollback"}
          /\ call'.before = call.before /\ UNCHANGED <<journal, restarts, astray>>
      BY <1>2, MoveInventoryFacts DEF bounds
    <2> QED
      BY <1>a, <2>1 DEF Now
  <1>3. ASSUME NEW o \in {"saved", "kept", "torn"}, SaveState(o) PROVE Goal
    <2>1. /\ call.at = "state" /\ call'.at \in {"journal", "rollback"}
          /\ call'.before = call.before /\ UNCHANGED <<journal, restarts, astray>>
      BY <1>3, SaveStateFacts DEF bounds
    <2> QED
      BY <1>a, <2>1 DEF Now
  <1>4. ASSUME NEW o \in {"saved", "kept", "torn"}, Adopt(o) PROVE Goal
    <2>1. /\ call.at = "adopt" /\ call' = NoCall
          /\ snapshot.book = Applied /\ book' = Applied
          /\ UNCHANGED <<journal, restarts, astray>>
      BY <1>4, AdoptFacts DEF bounds
    <2> QED
      BY <1>a, <1>b, <2>1 DEF Now
  <1>5. ASSUME NEW o \in {"saved", "kept", "torn"}, NEW ok \in BOOLEAN, Rollback(ok, o)
        PROVE  Goal
    <2>1. /\ call.at = "rollback" /\ book' = call.before /\ call' = NoCall
          /\ UNCHANGED <<journal, restarts, astray>>
      BY <1>5, RollbackFacts
    <2> QED
      BY <1>a, <1>b, <2>1 DEF Now
  <1>6. ASSUME NEW o \in RowOutcomes, WriteJournal(o) PROVE Goal
    <2>1. /\ call.at = "journal" /\ call.loan \in Loans
          /\ book = Applied /\ Sound(call.op, call.loan, call.before)
          /\ journal' = IF o \in {"gone", "raised"} THEN journal
                        ELSE Journaled(call.op, call.loan)
          /\ astray' = IF o \in {"kept", "raised"} THEN astray \cup JournaledLoan ELSE astray
          /\ \/ o \in {"raised", "rowraised"} /\ call' = NoCall
             \/ o = "ok" /\ call'.at = "snapshot"
             \/ o \in {"gone", "kept"} /\ call'.at = "rollback" /\ call'.before = call.before
          /\ UNCHANGED <<book, restarts>>
      BY <1>6, WriteJournalFacts DEF GoesOn
    <2>2. Rows(journal, call.before, astray)
      BY <1>a, <2>1 DEF Now
    <2>3. /\ Rows(Journaled(call.op, call.loan), Applied, astray)
          /\ Rows(Journaled(call.op, call.loan), call.before, astray \cup JournaledLoan)
          /\ Rows(journal, Applied, astray \cup JournaledLoan)
      BY <1>b, <2>1, <2>2, RowsFollow, RowsAstray
    <2>4. CASE o = "gone"
      BY <2>1, <2>2, <2>4
    <2>5. CASE o = "kept"
      BY <2>1, <2>3, <2>5
    <2>6. CASE o = "ok"
      BY <2>1, <2>3, <2>6
    <2>7. CASE o = "raised"
      BY <1>b, <2>1, <2>3, <2>7
    <2>8. CASE o = "rowraised"
      BY <1>b, <2>1, <2>3, <2>8
    <2> QED
      BY <2>1, <2>4, <2>5, <2>6, <2>7, <2>8
  <1>7. ASSUME NEW o \in RecordOutcomes, RecordSnapshot(o) PROVE Goal
    <2>1. /\ call.at = "snapshot" /\ call.loan \in Loans
          /\ book = Applied /\ Sound(call.op, call.loan, call.before)
          /\ astray' = IF o \in {"none", "noevent"} THEN astray \cup JournaledLoan ELSE astray
          /\ \/ o \in {"ok", "raised", "eventraised"} /\ call' = NoCall
             \/ o \in {"none", "noevent"} /\ call'.at = "rollback" /\ call'.before = call.before
          /\ UNCHANGED <<book, journal, restarts>>
      BY <1>7, RecordSnapshotFacts DEF GoesOn
    <2>2. Rows(journal, book, astray)
      BY <1>a, <2>1 DEF Now
    <2>3. CASE call' = NoCall /\ o \in {"ok", "raised", "eventraised"}
      BY <1>b, <2>1, <2>2, <2>3
    <2>4. CASE o \in {"none", "noevent"} /\ call'.at = "rollback" /\ call'.before = call.before
      <3>1. Rows(journal, call.before, astray \cup JournaledLoan)
        BY <1>b, <2>1, <2>2, RowsAstray
      <3> QED
        BY <2>1, <2>4, <3>1
    <2> QED
      BY <2>1, <2>3, <2>4
  <1>8. CASE Commit
    <2>1. /\ call.at = "inventory" /\ call.loan \in Loans
          /\ Sound(call.op, call.loan, call.before)
          /\ Applied \in Books /\ StockAfter(call.op, call.loan) \in Int \cup {Untracked}
          /\ snapshot' = Payload(Applied, StockAfter(call.op, call.loan))
          /\ call'.at = "adopt" /\ journal' = Journaled(call.op, call.loan)
          /\ UNCHANGED <<restarts, astray>>
      BY <1>8, CommitFacts DEF bounds
    <2>2. Rows(journal, call.before, astray)
      BY <1>a, <2>1 DEF Now
    <2>3. Rows(Journaled(call.op, call.loan), Applied, astray)
      BY <1>b, <2>1, <2>2, RowsFollow
    <2>4. snapshot'.book = Applied
      BY <2>1, PayloadType
    <2> QED
      BY <2>1, <2>3, <2>4
  <1>9. CASE RestartPrime
    BY <1>b, <1>9 DEF RestartPrime
  <1>10. CASE Untrack \/ Seed \/ UNCHANGED primeVars
    <2>1. UNCHANGED <<book, call, snapshot, journal, astray, restarts>>
      BY <1>10 DEF Untrack, Seed, primeVars, bounds
    <2> QED
      BY <1>a, <2>1 DEF Now
  <1> QED
    BY <1>1, <1>2, <1>3, <1>4, <1>5, <1>6, <1>7, <1>8, <1>9, <1>10
    DEF PrimeNext, RowOutcomes, RecordOutcomes

(* Between two operations, until the process restarts, the journal has one *)
(* opening row more than settlement rows exactly for the active loans,     *)
(* loan by loan: excepted is only a loan whose row could not be taken back *)
(* or, for an error of the database, not be written                        *)
(* (_write_ledger_transaction, which nobody rolls back then;               *)
(* _record_state_snapshot), for any loans.                                 *)
THEOREM JournalReconcilesHolds == PrimeSpec => []JournalReconciles
  <1>1. JournalInv => JournalReconciles
    BY DEF JournalInv, JournalReconciles, Idle, Rows
  <1>2. PrimeSpec => []JournalInv
    BY PrimeCoreHolds, JournalInit, JournalStep, PTL DEF PrimeSpec
  <1> QED
    BY <1>1, <1>2, PTL
=============================================================================
