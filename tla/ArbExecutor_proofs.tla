------------------------ MODULE ArbExecutor_proofs ------------------------
(***************************************************************************)
(* Theorems about ArbExecutor, for any tokens, venues, route lengths,      *)
(* amounts, depth of nested callbacks and misbehaviour of others.          *)
(* ContextInv counts the open callbacks against the trades, DebtInv adds   *)
(* the debts of the suspended callbacks up, and the last two parts say for *)
(* the borrowed token and for the others how far above its old balance a   *)
(* token is: of the borrowed token only the first callback can tell.       *)
(***************************************************************************)
EXTENDS ArbExecutor, SequenceTheorems, TLAPS

(* The type invariant, with the parameters known while a transaction runs. *)
ExecTypes ==
    /\ spenderAllowed \subseteq Spenders
    /\ withdrawalAllowed \subseteq Destinations
    /\ stables \subseteq Tokens
    /\ balance \in [Tokens -> Nat]
    /\ before \in [Tokens -> Nat]
    /\ pc \in {"idle", "lender", "callback", "legs", "swap", "repay"}
    /\ inFlight \in Params \union {None}
    /\ params \in Params \union {None}
    /\ leg \in Nat
    /\ amountIn \in Nat
    /\ beforeOut \in Nat
    /\ preExisting \in Nat
    /\ premium \in Nat
    /\ owed \in Nat
    /\ trades \in Nat
    /\ nested \in Nat
    /\ outer \in Seq(Frames)
    /\ short \subseteq Tokens

(* The callbacks that have been accepted and have not traded yet. *)
Open == Len(outer) + (IF pc \in {"legs", "swap"} THEN 1 ELSE 0)

(* While the context is open nothing has traded and every callback but the *)
(* first is nested; once it is closed the callbacks that are open and the  *)
(* trades make up the first callback and the nested ones.                  *)
ContextInv ==
    /\ pc = "idle" => inFlight = None /\ trades = 0 /\ nested = 0
    /\ pc \in {"idle", "lender"} => outer = << >>
    /\ pc = "repay" => inFlight = None
    /\ pc # "idle" =>
          /\ params \in Params
          /\ RouteOK(params.legs, params.token)
          /\ \/ inFlight = params /\ trades = 0 /\ nested = IF Open = 0 THEN 0 ELSE Open - 1
             \/ inFlight = None /\ trades + Open = 1 + nested
    /\ pc = "legs" => leg \in 1 .. Len(params.legs) + 1
    /\ pc = "swap" => leg \in 1 .. Len(params.legs)
    /\ \A k \in 1 .. Len(outer) : outer[k].leg \in 1 .. Len(params.legs)

(* What is owed for the first k of the suspended callbacks. *)
Below(k) == IF k = 0 THEN 0 ELSE outer[k].owed

DebtInv ==
    /\ pc \in {"idle", "lender"} => owed = 0
    /\ pc \notin {"idle", "lender"} => owed = Below(Len(outer)) + Repay
    /\ \A k \in 1 .. Len(outer) :
          outer[k].owed = Below(k - 1) + params.amount + outer[k].premium

(* The token that the next leg spends. *)
Cursor == IF leg = 1 THEN params.token ELSE params.legs[leg - 1].tokenOut

(* Leg i is measured and delivers token t. *)
Watches(i, t) == params.legs[i].venue \in Measured /\ params.legs[i].tokenOut = t

(* The tokens that are not borrowed. *)
OthersInv ==
    pc # "idle" =>
        \A t \in Tokens \ (short \union {params.token}) :
            /\ balance[t] >= before[t] + (IF pc = "legs" /\ t = Cursor THEN amountIn ELSE 0)
            /\ pc = "swap" /\ Watches(leg, t) => beforeOut >= before[t]
            /\ \A k \in 1 .. Len(outer) :
                  Watches(outer[k].leg, t) => outer[k].beforeOut >= before[t]

(* What the first callback holds of the borrowed token for its lender. *)
Held == CASE pc = "callback" -> params.amount
          [] pc = "repay" -> Repay
          [] OTHER -> 0

(* The borrowed token. *)
BorrowedInv ==
    pc # "idle" /\ params.token \notin short =>
        /\ outer # << >> => outer[1].preExisting >= before[params.token]
        /\ outer = << >> =>
              IF pc \in {"legs", "swap"}
                THEN preExisting >= before[params.token]
                ELSE balance[params.token] >= before[params.token] + Held

IInv == ExecTypes /\ ContextInv /\ DebtInv /\ OthersInv /\ BorrowedInv

-----------------------------------------------------------------------------
(* What a call's parameters are. *)
LEMMA ParamsType ==
    ASSUME NEW p \in Params
    PROVE  /\ p.token \in Tokens
           /\ p.amount \in Nat
           /\ p.minProfit \in Nat
           /\ p.legs \in Seq(Legs)
           /\ Len(p.legs) \in Nat
           /\ \A i \in 1 .. Len(p.legs) :
                 /\ p.legs[i].tokenIn \in Tokens
                 /\ p.legs[i].tokenOut \in Tokens
                 /\ p.legs[i].minOut \in Nat
  <1>1. /\ p.token \in Tokens /\ p.amount \in 1 .. MaxLoan /\ p.minProfit \in Minima
        /\ p.legs \in Routes
    BY DEF Params
  <1>2. MaxLoan \in Nat /\ MaxMinimum \in Nat /\ MaxLegs \in Nat
    BY ExecutorAssumption
  <1>3. 1 .. MaxLoan \subseteq Nat /\ Minima \subseteq Nat
    BY <1>2 DEF Minima
  <1>4. p.legs \in Seq(Legs)
    <2>1. PICK n \in 1 .. MaxLegs : p.legs \in [1 .. n -> Legs]
      BY <1>1 DEF Routes
    <2>2. n \in Nat
      BY <1>2
    <2> QED
      BY <2>1, <2>2, SeqDef
  <1>5. Len(p.legs) \in Nat /\ \A i \in 1 .. Len(p.legs) : p.legs[i] \in Legs
    BY <1>4
  <1>6. \A l \in Legs : l.tokenIn \in Tokens /\ l.tokenOut \in Tokens /\ l.minOut \in Nat
    BY <1>3 DEF Legs
  <1> QED
    BY <1>1, <1>3, <1>4, <1>5, <1>6

(* The callback that was suspended last. *)
LEMMA PopFacts ==
    ASSUME outer \in Seq(Frames), outer # << >>
    PROVE  /\ Len(outer) \in Nat \ {0}
           /\ Last(outer) = outer[Len(outer)]
           /\ Last(outer) \in Frames
           /\ Front(outer) \in Seq(Frames)
           /\ Len(Front(outer)) = Len(outer) - 1
           /\ \A k \in 1 .. Len(outer) - 1 : Front(outer)[k] = outer[k]
           /\ Front(outer) = << >> <=> Len(outer) = 1
  <1>1. Len(outer) \in Nat \ {0}
    BY EmptySeq
  <1>2. Last(outer) = outer[Len(outer)] /\ Last(outer) \in Frames
    BY <1>1, ElementOfSeq DEF Last
  <1>3. Front(outer) = SubSeq(outer, 1, Len(outer) - 1)
    BY DEF Front
  <1>4. \A i \in 1 .. Len(outer) - 1 : outer[i] \in Frames
    BY <1>1, ElementOfSeq
  <1>5. /\ Front(outer) \in Seq(Frames)
        /\ Len(Front(outer)) = Len(outer) - 1
        /\ \A k \in 1 .. Len(outer) - 1 : Front(outer)[k] = outer[k]
    <2> DEFINE m == Len(outer) - 1
    <2>1. m \in Nat
      BY <1>1
    <2>2. \A i \in 1 .. m : outer[i] \in Frames
      BY <1>4
    <2> HIDE DEF m
    <2>5. m - 1 + 1 = m /\ (1 <= m \/ m = 0)
      BY <2>1
    <2>3. /\ SubSeq(outer, 1, m) \in Seq(Frames)
          /\ Len(SubSeq(outer, 1, m)) = IF 1 <= m THEN m - 1 + 1 ELSE 0
          /\ \A k \in 1 .. m - 1 + 1 : SubSeq(outer, 1, m)[k] = outer[1 + k - 1]
      BY <2>1, <2>2, SubSeqProperties
    <2>4. \A k \in 1 .. m : 1 + k - 1 = k
      BY <2>1
    <2> QED
      BY <1>3, <2>1, <2>3, <2>4, <2>5 DEF m
  <1>6. Front(outer) = << >> <=> Len(Front(outer)) = 0
    BY <1>5, EmptySeq
  <1> QED
    BY <1>1, <1>2, <1>5, <1>6

(* A callback is suspended. *)
LEMMA PushFacts ==
    ASSUME outer \in Seq(Frames), NEW f \in Frames, outer' = Append(outer, f)
    PROVE  /\ outer' \in Seq(Frames) /\ outer' # << >>
           /\ Len(outer) \in Nat
           /\ Len(outer') = Len(outer) + 1
           /\ \A k \in 1 .. Len(outer) : outer'[k] = outer[k]
           /\ outer'[Len(outer) + 1] = f
           /\ outer = << >> <=> Len(outer) = 0
  BY AppendProperties, EmptySeq, LenProperties

(* The length of the stack. *)
LEMMA StackType ==
    ASSUME outer \in Seq(Frames)
    PROVE  /\ Len(outer) \in Nat
           /\ outer = << >> <=> Len(outer) = 0
           /\ \A k \in 1 .. Len(outer) :
                 /\ outer[k].leg \in Nat /\ outer[k].amountIn \in Nat
                 /\ outer[k].beforeOut \in Nat /\ outer[k].preExisting \in Nat
                 /\ outer[k].premium \in Nat /\ outer[k].owed \in Nat
  <1>1. Len(outer) \in Nat /\ (outer = << >> <=> Len(outer) = 0)
    BY EmptySeq, LenProperties
  <1>2. \A k \in 1 .. Len(outer) : outer[k] \in Frames
    BY ElementOfSeq
  <1> QED
    BY <1>1, <1>2 DEF Frames

(* Taking n of the borrowed token out. *)
LEMMA DebitToken ==
    ASSUME balance \in [Tokens -> Nat], NEW n \in Nat, params.token \in Tokens,
           Debit(params.token, n)
    PROVE  /\ balance' \in [Tokens -> Nat]
           /\ balance[params.token] >= n
           /\ \A t \in Tokens :
                 balance'[t] = IF t = params.token THEN balance[t] - n ELSE balance[t]
  BY DEF Debit

(* The initial state. *)
LEMMA InitIInv == Init => IInv
  <1> SUFFICES ASSUME Init PROVE IInv
    OBVIOUS
  <1>a. outer \in Seq(Frames) /\ Len(outer) = 0
    BY EmptySeq DEF Init
  <1>1. ExecTypes
    <2>1. NoFunds \in [Tokens -> Nat]
      BY DEF NoFunds
    <2>2. {Aave, Vault, Router} \subseteq Spenders
      BY ExecutorAssumption DEF Spenders
    <2> QED
      BY <1>a, <2>1, <2>2 DEF Init, ExecTypes
  <1>2. ContextInv
    BY <1>a DEF Init, ContextInv
  <1>3. DebtInv
    BY <1>a DEF Init, DebtInv
  <1>4. OthersInv /\ BorrowedInv
    BY DEF Init, OthersInv, BorrowedInv
  <1> QED
    BY <1>1, <1>2, <1>3, <1>4 DEF IInv

(* Between transactions anything may happen to configuration and funds. *)
LEMMA IdleStep ==
    ASSUME IInv, pc = "idle", UNCHANGED <<inFlight, txVars>>,
           spenderAllowed' \subseteq Spenders, withdrawalAllowed' \subseteq Destinations,
           stables' \subseteq Tokens, balance' \in [Tokens -> Nat]
    PROVE  IInv'
  <1>1. ExecTypes'
    BY DEF IInv, ExecTypes, txVars, callbackVars
  <1>2. ContextInv'
    BY DEF IInv, ContextInv, txVars, callbackVars, Open
  <1>3. DebtInv'
    BY DEF IInv, DebtInv, Below, txVars, callbackVars
  <1>4. OthersInv' /\ BorrowedInv'
    BY DEF OthersInv, BorrowedInv, txVars
  <1> QED
    BY <1>1, <1>2, <1>3, <1>4 DEF IInv

(* execute opens the context and has moved nothing yet. *)
LEMMA ExecuteStep == ASSUME IInv, NEW p \in Params, Execute(p) PROVE IInv'
  <1>1. /\ inFlight' = p /\ params' = p /\ before' = balance /\ pc' = "lender" /\ pc = "idle"
        /\ UNCHANGED <<spenderAllowed, withdrawalAllowed, stables, balance, leg, amountIn,
                       beforeOut, preExisting, premium, outer, owed, trades, nested, short>>
        /\ RouteOK(p.legs, p.token)
    BY DEF Execute, config, callbackVars
  <1>2. outer = << >> /\ Len(outer) = 0
    BY <1>1, StackType DEF IInv, ContextInv, ExecTypes
  <1>3. ExecTypes'
    BY <1>1 DEF IInv, ExecTypes
  <1>4. ContextInv'
    BY <1>1, <1>2 DEF IInv, ContextInv, Open
  <1>5. DebtInv'
    BY <1>1, <1>2 DEF IInv, DebtInv
  <1>6. OthersInv'
    BY <1>1, <1>2 DEF IInv, ExecTypes, OthersInv
  <1>7. BorrowedInv'
    <2>1. p.token \in Tokens
      BY ParamsType
    <2> QED
      BY <1>1, <1>2, <2>1 DEF IInv, ExecTypes, BorrowedInv, Held
  <1> QED
    BY <1>3, <1>4, <1>5, <1>6, <1>7 DEF IInv

(* What a loan changes: the tokens that are not borrowed stay where they   *)
(* are, and the borrowed one grows by the loan unless it is short.         *)
LEMMA LoanFacts ==
    ASSUME IInv, NEW got \in Amounts, NEW fee \in 0 .. MaxFee, Loan(got, fee), pc # "idle"
    PROVE  /\ params \in Params /\ params.token \in Tokens /\ params.amount \in Nat
           /\ fee \in Nat /\ pc' = "callback" /\ premium' = fee
           /\ owed' = owed + params.amount + fee /\ owed' \in Nat
           /\ balance' \in [Tokens -> Nat]
           /\ short \subseteq short' /\ short' \subseteq Tokens
           /\ \A t \in Tokens : t # params.token => balance'[t] = balance[t]
           /\ params.token \notin short' =>
                 balance'[params.token] >= balance[params.token] + params.amount
           /\ leg' = 0 /\ amountIn' = 0 /\ beforeOut' = 0 /\ preExisting' = 0
           /\ UNCHANGED <<spenderAllowed, withdrawalAllowed, stables, inFlight, params, before,
                          trades, nested>>
  <1>a. got \in Nat /\ fee \in Nat
    BY ExecutorAssumption DEF Amounts
  <1>1. /\ pc' = "callback" /\ premium' = fee
        /\ balance' = [balance EXCEPT ![params.token] = @ + got]
        /\ owed' = owed + params.amount + fee
        /\ short' = IF got < params.amount THEN short \union {params.token} ELSE short
        /\ leg' = 0 /\ amountIn' = 0 /\ beforeOut' = 0 /\ preExisting' = 0
        /\ UNCHANGED <<spenderAllowed, withdrawalAllowed, stables, inFlight, params, before,
                       trades, nested>>
    BY DEF Loan, Credit, config, NoLocals
  <1>2. params \in Params /\ params.token \in Tokens /\ params.amount \in Nat
    BY ParamsType DEF IInv, ContextInv
  <1>3. balance \in [Tokens -> Nat] /\ owed \in Nat /\ short \subseteq Tokens
    BY DEF IInv, ExecTypes
  <1>4. balance' \in [Tokens -> Nat] /\ owed' \in Nat
    BY <1>a, <1>1, <1>2, <1>3
  <1>5. \A t \in Tokens : balance'[t] = IF t = params.token THEN balance[t] + got ELSE balance[t]
    BY <1>1, <1>2, <1>3
  <1>6. short \subseteq short' /\ short' \subseteq Tokens
    BY <1>1, <1>2, <1>3
  <1>7. params.token \notin short' => got >= params.amount
    BY <1>a, <1>1, <1>2
  <1>8. balance[params.token] \in Nat
    BY <1>2, <1>3
  <1> QED
    BY <1>a, <1>1, <1>2, <1>4, <1>5, <1>6, <1>7, <1>8

(* The loan of execute's own lender. *)
LEMMA LendStep ==
    ASSUME IInv, NEW got \in Amounts, NEW fee \in 0 .. MaxFee, Lend(got, fee)
    PROVE  IInv'
  <1>1. pc = "lender" /\ Loan(got, fee) /\ outer' = outer
    BY DEF Lend
  <1>2. outer = << >> /\ Len(outer) = 0
    BY <1>1, StackType DEF IInv, ContextInv, ExecTypes
  <1>3. /\ params \in Params /\ params.token \in Tokens /\ params.amount \in Nat
        /\ fee \in Nat /\ pc' = "callback" /\ premium' = fee
        /\ owed' = owed + params.amount + fee /\ owed' \in Nat
        /\ balance' \in [Tokens -> Nat]
        /\ short \subseteq short' /\ short' \subseteq Tokens
        /\ \A t \in Tokens : t # params.token => balance'[t] = balance[t]
        /\ params.token \notin short' =>
              balance'[params.token] >= balance[params.token] + params.amount
        /\ leg' = 0 /\ amountIn' = 0 /\ beforeOut' = 0 /\ preExisting' = 0
        /\ UNCHANGED <<spenderAllowed, withdrawalAllowed, stables, inFlight, params, before,
                       trades, nested>>
    BY <1>1, LoanFacts
  <1>4. ExecTypes'
    BY <1>1, <1>3 DEF IInv, ExecTypes
  <1>5. ContextInv'
    BY <1>1, <1>2, <1>3 DEF IInv, ContextInv, Open
  <1>6. DebtInv'
    <2>1. owed = 0
      BY <1>1 DEF IInv, DebtInv
    <2>2. owed' = Below(Len(outer))' + Repay'
      BY <1>1, <1>2, <1>3, <2>1 DEF Below, Repay
    <2> QED
      BY <1>1, <1>2, <1>3, <2>2 DEF DebtInv
  <1>7. OthersInv'
    <2>1. ASSUME NEW t \in Tokens, t \notin short', t # params.token
          PROVE  balance'[t] >= before[t] + 0
      <3>1. balance[t] >= before[t] + 0
        BY <1>1, <1>3, <2>1 DEF IInv, OthersInv
      <3> QED
        BY <1>3, <2>1, <3>1
    <2> QED
      BY <1>1, <1>2, <1>3, <2>1 DEF OthersInv
  <1>8. BorrowedInv'
    <2> SUFFICES ASSUME params.token \notin short'
                 PROVE  balance'[params.token] >= before[params.token] + params.amount
      BY <1>1, <1>2, <1>3 DEF BorrowedInv, Held
    <2>1. balance[params.token] >= before[params.token] + 0
      BY <1>1, <1>2, <1>3 DEF IInv, BorrowedInv, Held
    <2>2. /\ balance[params.token] \in Nat /\ before[params.token] \in Nat
          /\ balance'[params.token] \in Nat
      BY <1>3 DEF IInv, ExecTypes
    <2> QED
      BY <1>3, <2>1, <2>2
  <1> QED
    BY <1>4, <1>5, <1>6, <1>7, <1>8 DEF IInv

(* A loan in a leg suspends the callback that runs it. *)
LEMMA LendInLegStep ==
    ASSUME IInv, NEW got \in Amounts, NEW fee \in 0 .. MaxFee, LendInLeg(got, fee)
    PROVE  IInv'
  <1> DEFINE f == [leg |-> leg, amountIn |-> amountIn, beforeOut |-> beforeOut,
                   preExisting |-> preExisting, premium |-> premium, owed |-> owed]
  <1>1. pc = "swap" /\ Loan(got, fee) /\ outer' = Append(outer, f)
    BY DEF LendInLeg
  <1>2. f \in Frames /\ outer \in Seq(Frames)
    BY DEF Frames, IInv, ExecTypes
  <1>f. /\ f.leg = leg /\ f.beforeOut = beforeOut /\ f.preExisting = preExisting
        /\ f.premium = premium /\ f.owed = owed
    OBVIOUS
  <1> HIDE DEF f
  <1>3. /\ outer' \in Seq(Frames) /\ outer' # << >>
        /\ Len(outer) \in Nat
        /\ Len(outer') = Len(outer) + 1
        /\ \A k \in 1 .. Len(outer) : outer'[k] = outer[k]
        /\ outer'[Len(outer) + 1] = f
        /\ outer = << >> <=> Len(outer) = 0
    BY <1>1, <1>2, PushFacts
  <1>4. /\ params \in Params /\ params.token \in Tokens /\ params.amount \in Nat
        /\ fee \in Nat /\ pc' = "callback" /\ premium' = fee
        /\ owed' = owed + params.amount + fee /\ owed' \in Nat
        /\ balance' \in [Tokens -> Nat]
        /\ short \subseteq short' /\ short' \subseteq Tokens
        /\ \A t \in Tokens : t # params.token => balance'[t] = balance[t]
        /\ leg' = 0 /\ amountIn' = 0 /\ beforeOut' = 0 /\ preExisting' = 0
        /\ UNCHANGED <<spenderAllowed, withdrawalAllowed, stables, inFlight, params, before,
                       trades, nested>>
    BY <1>1, LoanFacts
  <1>k. \A k \in 1 .. Len(outer') : k \in 1 .. Len(outer) \/ k = Len(outer) + 1
    BY <1>3
  <1>5. ExecTypes'
    BY <1>3, <1>4 DEF IInv, ExecTypes
  <1>6. ContextInv'
    <2>1. \A k \in 1 .. Len(outer') : outer'[k].leg \in 1 .. Len(params.legs)
      <3>1. leg \in 1 .. Len(params.legs)
        BY <1>1 DEF IInv, ContextInv
      <3>2. \A k \in 1 .. Len(outer) : outer[k].leg \in 1 .. Len(params.legs)
        BY DEF IInv, ContextInv
      <3> QED
        BY <1>3, <1>k, <1>f, <3>1, <3>2
    <2>2. Open' = Open
      BY <1>1, <1>3, <1>4 DEF Open
    <2> QED
      BY <1>1, <1>4, <2>1, <2>2 DEF IInv, ContextInv
  <1>7. DebtInv'
    <2>1. \A k \in 0 .. Len(outer) : Below(k)' = Below(k)
      BY <1>3 DEF Below
    <2>3. owed' = Below(Len(outer))' + Repay'
      <3>1. Below(Len(outer))' = owed
        <4>1. Len(outer') # 0 /\ outer'[Len(outer')].owed = owed
          BY <1>3, <1>f
        <4> QED
          BY <4>1 DEF Below
      <3>2. owed \in Nat
        BY DEF IInv, ExecTypes
      <3>3. Repay' = params.amount + fee
        BY <1>4 DEF Repay
      <3> QED
        BY <1>4, <3>1, <3>2, <3>3
    <2>4. ASSUME NEW k \in 1 .. Len(outer')
          PROVE  outer'[k].owed = Below(k - 1)' + params.amount + outer'[k].premium
      <3>1. CASE k \in 1 .. Len(outer)
        <4>1. outer[k].owed = Below(k - 1) + params.amount + outer[k].premium
          BY <3>1 DEF IInv, DebtInv
        <4>2. k - 1 \in 0 .. Len(outer)
          BY <1>3, <3>1
        <4> QED
          BY <1>3, <2>1, <3>1, <4>1, <4>2
      <3>2. CASE k = Len(outer) + 1
        <4>1. owed = Below(Len(outer)) + params.amount + premium
          <5>1. owed = Below(Len(outer)) + Repay
            BY <1>1 DEF IInv, DebtInv
          <5>2. Below(Len(outer)) \in Nat
            BY <1>2, StackType DEF Below
          <5>3. premium \in Nat
            BY DEF IInv, ExecTypes
          <5> QED
            BY <1>4, <5>1, <5>2, <5>3 DEF Repay
        <4>2. k - 1 = Len(outer) /\ k - 1 \in 0 .. Len(outer)
          BY <1>3, <3>2
        <4>3. Below(k - 1)' = Below(Len(outer))
          BY <2>1, <4>2
        <4> QED
          BY <1>3, <1>f, <3>2, <4>1, <4>3
      <3> QED
        BY <1>k, <3>1, <3>2
    <2> QED
      BY <1>4, <2>3, <2>4 DEF DebtInv
  <1>8. OthersInv'
    <2> SUFFICES ASSUME NEW t \in Tokens, t \notin short', t # params.token
                 PROVE  /\ balance'[t] >= before[t] + 0
                        /\ \A k \in 1 .. Len(outer') :
                              Watches(outer'[k].leg, t) => outer'[k].beforeOut >= before[t]
      BY <1>4 DEF OthersInv, Watches
    <2>1. /\ balance[t] >= before[t] + 0
          /\ Watches(leg, t) => beforeOut >= before[t]
          /\ \A k \in 1 .. Len(outer) :
                Watches(outer[k].leg, t) => outer[k].beforeOut >= before[t]
      BY <1>1, <1>4 DEF IInv, OthersInv
    <2> QED
      BY <1>3, <1>4, <1>f, <1>k, <2>1
  <1>9. BorrowedInv'
    <2> SUFFICES ASSUME params.token \notin short
                 PROVE  outer'[1].preExisting >= before[params.token]
      BY <1>3, <1>4 DEF BorrowedInv
    <2>1. CASE outer = << >>
      <3>1. preExisting >= before[params.token]
        BY <1>1, <2>1 DEF IInv, BorrowedInv
      <3> QED
        BY <1>3, <1>f, <2>1, <3>1
    <2>2. CASE outer # << >>
      <3>1. outer[1].preExisting >= before[params.token]
        BY <1>1, <2>2 DEF IInv, BorrowedInv
      <3>2. 1 \in 1 .. Len(outer)
        BY <1>3, <2>2
      <3> QED
        BY <1>3, <3>1, <3>2
    <2> QED
      BY <2>1, <2>2
  <1> QED
    BY <1>5, <1>6, <1>7, <1>8, <1>9 DEF IInv

(* The callback finds at least what was there before the loan. *)
LEMMA EnterStep == ASSUME IInv, EnterCallback PROVE IInv'
  <1>1. /\ pc = "callback" /\ pc' = "legs" /\ inFlight = params
        /\ preExisting' = IF balance[params.token] > params.amount
                            THEN balance[params.token] - params.amount ELSE 0
        /\ leg' = 1 /\ amountIn' = params.amount
        /\ nested' = IF outer = << >> THEN nested ELSE nested + 1
        /\ UNCHANGED <<spenderAllowed, withdrawalAllowed, stables, balance, inFlight, params,
                       beforeOut, premium, outer, before, owed, trades, short>>
    BY DEF EnterCallback, config
  <1>b. /\ params \in Params /\ params.token \in Tokens /\ params.amount \in Nat
        /\ Len(params.legs) \in Nat
    BY <1>1, ParamsType DEF IInv, ContextInv
  <1>c. balance[params.token] \in Nat /\ before[params.token] \in Nat
    BY <1>b DEF IInv, ExecTypes
  <1>d. Len(outer) \in Nat /\ (outer = << >> <=> Len(outer) = 0)
    BY StackType DEF IInv, ExecTypes
  <1>2. ExecTypes'
    <2>1. preExisting' \in Nat
      BY <1>1, <1>b, <1>c
    <2> QED
      BY <1>1, <1>b, <2>1 DEF IInv, ExecTypes
  <1>3. ContextInv'
    <2>1. trades = 0 /\ nested = IF Len(outer) = 0 THEN 0 ELSE Len(outer) - 1
      BY <1>1, <1>b, <1>d, NoneAssumption DEF IInv, ContextInv, Open
    <2>2. Open' = Len(outer) + 1
      BY <1>1 DEF Open
    <2>3. nested' = IF Open' = 0 THEN 0 ELSE Open' - 1
      BY <1>1, <1>d, <2>1, <2>2
    <2>4. 1 \in 1 .. Len(params.legs) + 1
      BY <1>b
    <2> QED
      BY <1>1, <1>b, <2>1, <2>3, <2>4 DEF IInv, ContextInv
  <1>4. DebtInv'
    <2>1. \A k : Below(k)' = Below(k)
      BY <1>1 DEF Below
    <2> QED
      BY <1>1, <2>1 DEF IInv, DebtInv, Repay
  <1>5. OthersInv'
    <2> SUFFICES ASSUME NEW t \in Tokens \ (short \union {params.token})
                 PROVE  /\ balance[t] >= before[t] + (IF t = Cursor' THEN amountIn' ELSE 0)
                        /\ \A k \in 1 .. Len(outer) :
                              Watches(outer[k].leg, t) => outer[k].beforeOut >= before[t]
      BY <1>1 DEF OthersInv, Watches
    <2>1. Cursor' = params.token
      BY <1>1 DEF Cursor
    <2>2. /\ balance[t] >= before[t] + 0
          /\ \A k \in 1 .. Len(outer) :
                Watches(outer[k].leg, t) => outer[k].beforeOut >= before[t]
      BY <1>1 DEF IInv, OthersInv
    <2> QED
      BY <2>1, <2>2
  <1>6. BorrowedInv'
    <2>1. ASSUME params.token \notin short, outer = << >>
          PROVE  preExisting' >= before[params.token]
      <3>1. balance[params.token] >= before[params.token] + params.amount
        BY <1>1, <2>1 DEF IInv, BorrowedInv, Held
      <3> QED
        BY <1>1, <1>b, <1>c, <3>1
    <2>2. ASSUME params.token \notin short, outer # << >>
          PROVE  outer[1].preExisting >= before[params.token]
      BY <1>1, <2>2 DEF IInv, BorrowedInv
    <2> QED
      BY <1>1, <2>1, <2>2 DEF BorrowedInv
  <1> QED
    BY <1>2, <1>3, <1>4, <1>5, <1>6 DEF IInv

(* What is known of the leg that runs. *)
LEMMA LegType ==
    ASSUME IInv, pc \in {"legs", "swap"}, leg <= Len(params.legs)
    PROVE  /\ params \in Params /\ RouteOK(params.legs, params.token)
           /\ leg \in 1 .. Len(params.legs) /\ Len(params.legs) \in Nat
           /\ params.token \in Tokens
           /\ CurrentLeg.tokenIn \in Tokens /\ CurrentLeg.tokenOut \in Tokens
           /\ CurrentLeg.minOut \in Nat
  <1>1. params \in Params /\ RouteOK(params.legs, params.token)
        /\ leg \in 1 .. Len(params.legs) + 1
    <2>1. params \in Params /\ RouteOK(params.legs, params.token)
      BY DEF IInv, ContextInv
    <2>2. Len(params.legs) \in Nat
      BY <2>1, ParamsType
    <2> QED
      BY <2>1, <2>2 DEF IInv, ContextInv
  <1>2. /\ Len(params.legs) \in Nat /\ params.token \in Tokens
        /\ \A i \in 1 .. Len(params.legs) :
              /\ params.legs[i].tokenIn \in Tokens /\ params.legs[i].tokenOut \in Tokens
              /\ params.legs[i].minOut \in Nat
    BY <1>1, ParamsType
  <1>3. leg \in 1 .. Len(params.legs)
    BY <1>1, <1>2
  <1> QED
    BY <1>1, <1>2, <1>3 DEF CurrentLeg

(* The venue takes what the leg before it reported. *)
LEMMA CallVenueStep == ASSUME IInv, CallVenue PROVE IInv'
  <1>1. /\ pc = "legs" /\ pc' = "swap" /\ leg <= Len(params.legs)
        /\ balance[CurrentLeg.tokenIn] >= amountIn
        /\ balance' = [balance EXCEPT ![CurrentLeg.tokenIn] = @ - amountIn]
        /\ beforeOut' = IF CurrentLeg.venue \in Measured THEN balance[CurrentLeg.tokenOut]
                                                        ELSE 0
        /\ UNCHANGED <<spenderAllowed, withdrawalAllowed, stables, inFlight, params, leg,
                       amountIn, preExisting, premium, outer, before, owed, trades, nested,
                       short>>
    BY DEF CallVenue, Debit, config
  <1>b. /\ params \in Params /\ RouteOK(params.legs, params.token)
        /\ leg \in 1 .. Len(params.legs) /\ Len(params.legs) \in Nat
        /\ params.token \in Tokens
        /\ CurrentLeg.tokenIn \in Tokens /\ CurrentLeg.tokenOut \in Tokens
    BY <1>1, LegType
  <1>c. CurrentLeg.tokenIn = Cursor
    BY <1>b DEF RouteOK, Cursor, CurrentLeg
  <1>d. balance \in [Tokens -> Nat] /\ before \in [Tokens -> Nat] /\ amountIn \in Nat
    BY DEF IInv, ExecTypes
  <1>e. balance' \in [Tokens -> Nat]
    BY <1>1, <1>b, <1>d
  <1>f. \A t \in Tokens : balance'[t] = IF t = Cursor THEN balance[t] - amountIn ELSE balance[t]
    BY <1>1, <1>b, <1>c, <1>d
  <1>2. ExecTypes'
    <2>1. beforeOut' \in Nat
      BY <1>1, <1>b, <1>d
    <2> QED
      BY <1>1, <1>e, <2>1 DEF IInv, ExecTypes
  <1>3. ContextInv'
    <2>1. Open' = Open
      BY <1>1 DEF Open
    <2> QED
      BY <1>1, <1>b, <2>1 DEF IInv, ContextInv
  <1>4. DebtInv'
    <2>1. \A k : Below(k)' = Below(k)
      BY <1>1 DEF Below
    <2> QED
      BY <1>1, <2>1 DEF IInv, DebtInv, Repay
  <1>5. OthersInv'
    <2> SUFFICES ASSUME NEW t \in Tokens \ (short \union {params.token})
                 PROVE  /\ balance'[t] >= before[t] + 0
                        /\ Watches(leg, t) => beforeOut' >= before[t]
                        /\ \A k \in 1 .. Len(outer) :
                              Watches(outer[k].leg, t) => outer[k].beforeOut >= before[t]
      BY <1>1 DEF OthersInv, Watches
    <2>1. /\ balance[t] >= before[t] + (IF t = Cursor THEN amountIn ELSE 0)
          /\ \A k \in 1 .. Len(outer) :
                Watches(outer[k].leg, t) => outer[k].beforeOut >= before[t]
      BY <1>1 DEF IInv, OthersInv
    <2>2. balance[t] \in Nat /\ before[t] \in Nat
      BY <1>d
    <2>3. balance'[t] >= before[t] + 0
      BY <1>d, <1>f, <2>1, <2>2
    <2>4. Watches(leg, t) => beforeOut' = balance[t]
      BY <1>1 DEF Watches, CurrentLeg
    <2> QED
      BY <1>d, <2>1, <2>2, <2>3, <2>4
  <1>6. BorrowedInv'
    BY <1>1 DEF IInv, BorrowedInv
  <1> QED
    BY <1>2, <1>3, <1>4, <1>5, <1>6 DEF IInv

(* The next leg may spend what arrived, unless the token is short: a       *)
(* measured venue's leg counts it, another venue reports it.               *)
LEMMA VenueReturnsStep ==
    ASSUME IInv, NEW reported \in Amounts, NEW got \in Amounts, VenueReturns(reported, got)
    PROVE  IInv'
  <1> DEFINE u == CurrentLeg.tokenOut
             measured == CurrentLeg.venue \in Measured
             out == IF measured THEN balance[u] + got - beforeOut ELSE reported
  <1>a. got \in Nat /\ reported \in Nat /\ got <= reported
    BY ExecutorAssumption DEF Amounts, VenueReturns, Delivers
  <1>1. /\ pc = "swap" /\ pc' = "legs"
        /\ balance' = [balance EXCEPT ![u] = @ + got]
        /\ amountIn' = out /\ amountIn' >= CurrentLeg.minOut /\ leg' = leg + 1
        /\ beforeOut' = 0
        /\ short' = IF got < reported /\ ~measured THEN short \union ({u} \ {params.token})
                                                  ELSE short
        /\ UNCHANGED <<spenderAllowed, withdrawalAllowed, stables, inFlight, params,
                       preExisting, premium, outer, before, owed, trades, nested>>
    BY DEF VenueReturns, Credit, config
  <1>b. /\ params \in Params /\ RouteOK(params.legs, params.token)
        /\ leg \in 1 .. Len(params.legs) /\ Len(params.legs) \in Nat
        /\ params.token \in Tokens /\ u \in Tokens /\ CurrentLeg.minOut \in Nat
    <2>1. leg \in 1 .. Len(params.legs) /\ params \in Params
      BY <1>1 DEF IInv, ContextInv
    <2>2. Len(params.legs) \in Nat
      BY <2>1, ParamsType
    <2>3. leg <= Len(params.legs)
      BY <2>1, <2>2
    <2> QED
      BY <1>1, <2>3, LegType
  <1>d. /\ balance \in [Tokens -> Nat] /\ before \in [Tokens -> Nat] /\ beforeOut \in Nat
        /\ short \subseteq Tokens
    BY DEF IInv, ExecTypes
  <1>c. u = params.legs[leg].tokenOut /\ (measured <=> params.legs[leg].venue \in Measured)
    BY DEF CurrentLeg
  <1>o. /\ measured => out = balance[u] + got - beforeOut
        /\ ~measured => out = reported
    OBVIOUS
  <1> HIDE DEF u, measured, out
  <1>e. balance' \in [Tokens -> Nat]
    BY <1>a, <1>1, <1>b, <1>d
  <1>f. \A t \in Tokens : balance'[t] = IF t = u THEN balance[t] + got ELSE balance[t]
    BY <1>1, <1>b, <1>d
  <1>g. out \in Nat
    <2>1. balance[u] \in Nat
      BY <1>b, <1>d
    <2>2. out \in Int
      BY <1>a, <1>d, <1>o, <2>1
    <2> QED
      BY <1>1, <1>b, <2>2
  <1>2. ExecTypes'
    <2>1. short' \subseteq Tokens
      BY <1>1, <1>b, <1>d
    <2>2. leg' \in Nat
      BY <1>1, <1>b
    <2> QED
      BY <1>1, <1>e, <1>g, <2>1, <2>2 DEF IInv, ExecTypes
  <1>3. ContextInv'
    <2>1. leg' \in 1 .. Len(params.legs) + 1
      BY <1>1, <1>b
    <2>2. Open' = Open
      BY <1>1 DEF Open
    <2> QED
      BY <1>1, <2>1, <2>2 DEF IInv, ContextInv
  <1>4. DebtInv'
    <2>1. \A k : Below(k)' = Below(k)
      BY <1>1 DEF Below
    <2> QED
      BY <1>1, <2>1 DEF IInv, DebtInv, Repay
  <1>5. OthersInv'
    <2> SUFFICES ASSUME NEW t \in Tokens, t \notin short', t # params.token
                 PROVE  /\ balance'[t] >= before[t] + (IF t = Cursor' THEN amountIn' ELSE 0)
                        /\ \A k \in 1 .. Len(outer) :
                              Watches(outer[k].leg, t) => outer[k].beforeOut >= before[t]
      BY <1>1 DEF OthersInv, Watches
    <2>1. t \notin short
      BY <1>1
    <2>2. /\ balance[t] >= before[t] + 0
          /\ Watches(leg, t) => beforeOut >= before[t]
          /\ \A k \in 1 .. Len(outer) :
                Watches(outer[k].leg, t) => outer[k].beforeOut >= before[t]
      BY <1>1, <2>1 DEF IInv, OthersInv
    <2>3. Cursor' = u
      <3>1. leg' # 1 /\ leg' - 1 = leg
        BY <1>1, <1>b
      <3> QED
        BY <1>1, <1>c, <3>1 DEF Cursor
    <2>4. balance[t] \in Nat /\ before[t] \in Nat
      BY <1>d
    <2>5. CASE t # u
      BY <1>f, <2>2, <2>3, <2>5
    <2>6. CASE t = u /\ measured
      <3>1. beforeOut >= before[t]
        BY <1>c, <2>2, <2>6 DEF Watches
      <3>2. out = balance[t] + got - beforeOut /\ balance'[t] = balance[t] + got
        BY <1>f, <1>o, <2>6
      <3> QED
        BY <1>1, <1>a, <1>d, <1>g, <2>2, <2>3, <2>4, <2>6, <3>1, <3>2
    <2>7. CASE t = u /\ ~measured
      <3>1. got = reported
        BY <1>a, <1>1, <2>7
      <3>2. out = reported /\ balance'[t] = balance[t] + got
        BY <1>f, <1>o, <2>7
      <3> QED
        BY <1>1, <1>a, <2>2, <2>3, <2>4, <2>7, <3>1, <3>2
    <2> QED
      BY <2>5, <2>6, <2>7
  <1>6. BorrowedInv'
    <2>1. params.token \notin short' => params.token \notin short
      BY <1>1
    <2> QED
      BY <1>1, <2>1 DEF IInv, BorrowedInv
  <1> QED
    BY <1>2, <1>3, <1>4, <1>5, <1>6 DEF IInv

(* What is known when the legs are done: enough for the repayment above    *)
(* the pre-existing balance, and the other tokens back where they were.    *)
LEMMA LegsDoneFacts ==
    ASSUME IInv, LegsDone
    PROVE  /\ pc = "legs" /\ params \in Params /\ params.token \in Tokens
           /\ trades' \in Nat /\ trades' + Len(outer) = 1 + nested
           /\ Repay \in Nat /\ Profit \in Nat
           /\ preExisting \in Nat
           /\ balance[params.token] = preExisting + Repay + Profit
           /\ \A t \in Tokens \ (short \union {params.token}) : balance[t] >= before[t]
           /\ UNCHANGED <<spenderAllowed, withdrawalAllowed, stables, params, before, nested,
                          short>>
  <1>1. pc = "legs" /\ Profit >= params.minProfit /\ trades' = trades + 1
    BY DEF LegsDone
  <1>2. params \in Params
    BY <1>1 DEF IInv, ContextInv
  <1>3. params.token \in Tokens /\ params.amount \in Nat /\ params.minProfit \in Nat
    BY <1>2, ParamsType
  <1>4. Repay \in Nat
    BY <1>3 DEF Repay, IInv, ExecTypes
  <1>5. balance[params.token] \in Nat /\ preExisting \in Nat
    BY <1>3 DEF IInv, ExecTypes
  <1>6. Profit \in Nat /\ balance[params.token] = preExisting + Repay + Profit
    <2>1. Profit = balance[params.token] - preExisting - Repay
      BY DEF Profit
    <2> QED
      BY <1>1, <1>3, <1>4, <1>5, <2>1
  <1>7. UNCHANGED <<spenderAllowed, withdrawalAllowed, stables, params, before, nested, short>>
    BY DEF LegsDone, config
  <1>8. trades' \in Nat /\ trades' + Len(outer) = 1 + nested
    <2>1. Len(outer) \in Nat /\ trades \in Nat /\ nested \in Nat
      BY StackType DEF IInv, ExecTypes
    <2>2. Open = Len(outer) + 1
      BY <1>1 DEF Open
    <2>3. \/ trades = 0 /\ nested = IF Open = 0 THEN 0 ELSE Open - 1
          \/ trades + Open = 1 + nested
      BY <1>1 DEF IInv, ContextInv
    <2> QED
      BY <1>1, <2>1, <2>2, <2>3
  <1>9. ASSUME NEW t \in Tokens \ (short \union {params.token}) PROVE balance[t] >= before[t]
    <2>1. balance[t] >= before[t] + (IF t = Cursor THEN amountIn ELSE 0)
      BY <1>1 DEF IInv, OthersInv
    <2>2. balance[t] \in Nat /\ before[t] \in Nat /\ amountIn \in Nat
      BY DEF IInv, ExecTypes
    <2> QED
      BY <2>1, <2>2
  <1> QED
    BY <1>1, <1>2, <1>3, <1>4, <1>5, <1>6, <1>7, <1>8, <1>9

(* Aave's callback pays the profit and leaves the repayment. *)
LEMMA OperationStep == ASSUME IInv, ExecuteOperationEnds PROVE IInv'
  <1>1. /\ LegsDone /\ Debit(params.token, Profit) /\ inFlight' = None /\ pc' = "repay"
        /\ UNCHANGED <<leg, amountIn, beforeOut, preExisting, premium, outer, owed>>
    BY DEF ExecuteOperationEnds, callbackVars
  <1>2. /\ pc = "legs" /\ params \in Params /\ params.token \in Tokens
        /\ trades' \in Nat /\ trades' + Len(outer) = 1 + nested
        /\ Repay \in Nat /\ Profit \in Nat
        /\ preExisting \in Nat
        /\ balance[params.token] = preExisting + Repay + Profit
        /\ \A t \in Tokens \ (short \union {params.token}) : balance[t] >= before[t]
        /\ UNCHANGED <<spenderAllowed, withdrawalAllowed, stables, params, before, nested,
                       short>>
    BY <1>1, LegsDoneFacts
  <1>3. /\ balance' \in [Tokens -> Nat]
        /\ \A t \in Tokens :
              balance'[t] = IF t = params.token THEN balance[t] - Profit ELSE balance[t]
    BY <1>1, <1>2, DebitToken DEF IInv, ExecTypes
  <1>4. ExecTypes'
    BY <1>1, <1>2, <1>3 DEF IInv, ExecTypes
  <1>5. ContextInv'
    <2>1. Open' = Len(outer)
      BY <1>1, StackType DEF Open, IInv, ExecTypes
    <2> QED
      BY <1>1, <1>2, <2>1 DEF IInv, ContextInv
  <1>6. DebtInv'
    <2>1. \A k : Below(k)' = Below(k)
      BY <1>1 DEF Below
    <2> QED
      BY <1>1, <1>2, <2>1 DEF IInv, DebtInv, Repay
  <1>7. OthersInv'
    <2> SUFFICES ASSUME NEW t \in Tokens \ (short \union {params.token})
                 PROVE  /\ balance'[t] >= before[t] + 0
                        /\ \A k \in 1 .. Len(outer) :
                              Watches(outer[k].leg, t) => outer[k].beforeOut >= before[t]
      BY <1>1, <1>2 DEF OthersInv, Watches
    <2>1. balance[t] \in Nat /\ before[t] \in Nat
      BY DEF IInv, ExecTypes
    <2>2. \A k \in 1 .. Len(outer) :
             Watches(outer[k].leg, t) => outer[k].beforeOut >= before[t]
      BY <1>2 DEF IInv, OthersInv
    <2> QED
      BY <1>2, <1>3, <2>1, <2>2
  <1>8. BorrowedInv'
    <2>1. ASSUME params.token \notin short, outer = << >>
          PROVE  balance'[params.token] >= before[params.token] + Repay
      <3>1. preExisting >= before[params.token] /\ before[params.token] \in Nat
        BY <1>2, <2>1 DEF IInv, BorrowedInv, ExecTypes
      <3>2. balance'[params.token] = preExisting + Repay
        BY <1>2, <1>3
      <3> QED
        BY <1>2, <3>1, <3>2
    <2>2. ASSUME params.token \notin short, outer # << >>
          PROVE  outer[1].preExisting >= before[params.token]
      BY <1>2, <2>2 DEF IInv, BorrowedInv
    <2>3. Held' = Repay
      BY <1>1, <1>2 DEF Held, Repay
    <2> QED
      BY <1>1, <1>2, <2>1, <2>2, <2>3 DEF BorrowedInv
  <1> QED
    BY <1>4, <1>5, <1>6, <1>7, <1>8 DEF IInv

(* A callback ends with its lender paid: execute goes on, or the callback  *)
(* that was suspended in a leg.                                            *)
LEMMA OverStep ==
    ASSUME IInv, CallbackOver, pc \in {"legs", "repay"},
           UNCHANGED <<spenderAllowed, withdrawalAllowed, stables, params, before, nested,
                       short>>,
           inFlight' = None, trades' \in Nat, trades' + Len(outer) = 1 + nested,
           Repay \in Nat, owed' = owed - Repay, balance' \in [Tokens -> Nat],
           \A t \in Tokens \ (short \union {params.token}) : balance'[t] >= before[t],
           outer = << >> /\ params.token \notin short =>
               balance'[params.token] >= before[params.token]
    PROVE  IInv'
  <1>a. /\ params \in Params /\ RouteOK(params.legs, params.token) /\ params.token \in Tokens
        /\ params.amount \in Nat
    BY ParamsType DEF IInv, ContextInv
  <1>b. /\ outer \in Seq(Frames) /\ owed \in Nat /\ Len(outer) \in Nat
        /\ outer = << >> <=> Len(outer) = 0
    BY StackType DEF IInv, ExecTypes
  <1>c. Below(Len(outer)) \in Nat /\ owed' = Below(Len(outer))
    <2>1. owed = Below(Len(outer)) + Repay
      BY DEF IInv, DebtInv
    <2>2. Below(Len(outer)) \in Nat
      BY <1>b, StackType DEF Below
    <2> QED
      BY <2>1, <2>2
  <1>1. CASE outer = << >>
    <2>1. /\ pc' = "lender" /\ outer' = outer /\ premium' = 0
          /\ leg' = 0 /\ amountIn' = 0 /\ beforeOut' = 0 /\ preExisting' = 0
      BY <1>1 DEF CallbackOver, NoLocals
    <2>2. owed' = 0 /\ Len(outer) = 0
      BY <1>1, <1>b, <1>c DEF Below
    <2>3. ExecTypes'
      BY <2>1, <2>2 DEF IInv, ExecTypes
    <2>4. ContextInv'
      BY <1>1, <1>a, <2>1, <2>2 DEF ContextInv, Open
    <2>5. DebtInv'
      BY <2>1, <2>2 DEF DebtInv
    <2>6. OthersInv'
      <3>1. ASSUME NEW t \in Tokens \ (short \union {params.token})
            PROVE  balance'[t] >= before[t] + 0
        BY DEF IInv, ExecTypes
      <3> QED
        BY <2>1, <2>2, <3>1 DEF OthersInv
    <2>7. BorrowedInv'
      <3>1. before[params.token] \in Nat
        BY <1>a DEF IInv, ExecTypes
      <3> QED
        BY <1>1, <2>1, <3>1 DEF BorrowedInv, Held
    <2> QED
      BY <2>3, <2>4, <2>5, <2>6, <2>7 DEF IInv
  <1>2. CASE outer # << >>
    <2> DEFINE f == Last(outer)
               n == Len(outer)
    <2>1. /\ pc' = "swap" /\ outer' = Front(outer) /\ premium' = f.premium /\ leg' = f.leg
          /\ amountIn' = f.amountIn /\ beforeOut' = f.beforeOut
          /\ preExisting' = f.preExisting
      BY <1>2 DEF CallbackOver
    <2>2. /\ n \in Nat \ {0} /\ f = outer[n] /\ f \in Frames
          /\ outer' \in Seq(Frames) /\ Len(outer') = n - 1
          /\ \A k \in 1 .. n - 1 : outer'[k] = outer[k]
          /\ outer' = << >> <=> n = 1
      BY <1>2, <1>b, <2>1, PopFacts
    <2> HIDE DEF f, n
    <2>l. n = Len(outer)
      BY DEF n
    <2>3. ExecTypes'
      BY <1>b, <1>c, <2>1, <2>2 DEF IInv, ExecTypes, Frames
    <2>4. ContextInv'
      <3>1. \A k \in 1 .. n : outer[k].leg \in 1 .. Len(params.legs)
        BY <2>l DEF IInv, ContextInv
      <3>2. leg' \in 1 .. Len(params.legs)
        BY <2>1, <2>2, <3>1
      <3>3. ASSUME NEW k \in 1 .. Len(outer')
            PROVE  outer'[k].leg \in 1 .. Len(params.legs)
        <4>1. k \in 1 .. n /\ outer'[k] = outer[k]
          BY <2>2
        <4> QED
          BY <3>1, <4>1
      <3>4. Open' = n
        BY <2>1, <2>2 DEF Open
      <3> QED
        BY <1>a, <2>1, <2>l, <3>2, <3>3, <3>4 DEF ContextInv
    <2>5. DebtInv'
      <3>1. \A k \in 1 .. n : outer[k].owed = Below(k - 1) + params.amount + outer[k].premium
        BY <2>l DEF IInv, DebtInv
      <3>2. \A k \in 0 .. n - 1 : Below(k)' = Below(k)
        BY <2>2 DEF Below
      <3>3. owed' = f.owed
        BY <1>c, <2>2, <2>l DEF Below
      <3>4. f.owed = Below(n - 1) + params.amount + f.premium
        BY <2>2, <3>1
      <3>5. Below(Len(outer))' = Below(n - 1) /\ Below(n - 1) \in Nat
        <4>1. Below(n - 1) \in Nat
          BY <1>b, <2>2, <2>l, StackType DEF Below
        <4>2. n # 1 => n - 1 \in 1 .. n - 1 /\ outer'[n - 1] = outer[n - 1]
          BY <2>2
        <4>3. Below(Len(outer))' = IF n - 1 = 0 THEN 0 ELSE outer'[n - 1].owed
          BY <2>2 DEF Below
        <4> QED
          BY <2>2, <4>1, <4>2, <4>3 DEF Below
      <3>6. owed' = Below(Len(outer))' + Repay'
        <4>1. Repay' = params.amount + f.premium
          BY <2>1 DEF Repay
        <4>2. f.premium \in Nat
          BY <2>2 DEF Frames
        <4> QED
          BY <1>a, <3>3, <3>4, <3>5, <4>1, <4>2
      <3>7. ASSUME NEW k \in 1 .. Len(outer')
            PROVE  outer'[k].owed = Below(k - 1)' + params.amount + outer'[k].premium
        <4>1. k \in 1 .. n /\ k - 1 \in 0 .. n - 1 /\ outer'[k] = outer[k]
          BY <2>2
        <4> QED
          BY <3>1, <3>2, <4>1
      <3> QED
        BY <2>1, <3>6, <3>7 DEF DebtInv
    <2>6. OthersInv'
      <3> SUFFICES ASSUME NEW t \in Tokens \ (short \union {params.token})
                   PROVE  /\ balance'[t] >= before[t] + 0
                          /\ Watches(f.leg, t) => f.beforeOut >= before[t]
                          /\ \A k \in 1 .. Len(outer') :
                                Watches(outer'[k].leg, t) => outer'[k].beforeOut >= before[t]
        BY <2>1 DEF OthersInv, Watches
      <3>1. \A k \in 1 .. n : Watches(outer[k].leg, t) => outer[k].beforeOut >= before[t]
        BY <2>l DEF IInv, OthersInv
      <3>2. balance'[t] >= before[t] + 0
        BY DEF IInv, ExecTypes
      <3>3. Watches(f.leg, t) => f.beforeOut >= before[t]
        BY <2>2, <3>1
      <3>4. ASSUME NEW k \in 1 .. Len(outer')
            PROVE  Watches(outer'[k].leg, t) => outer'[k].beforeOut >= before[t]
        <4>1. k \in 1 .. n /\ outer'[k] = outer[k]
          BY <2>2
        <4> QED
          BY <3>1, <4>1
      <3> QED
        BY <3>2, <3>3, <3>4
    <2>7. BorrowedInv'
      <3> SUFFICES ASSUME params.token \notin short
                   PROVE  /\ outer' # << >> => outer'[1].preExisting >= before[params.token]
                          /\ outer' = << >> => f.preExisting >= before[params.token]
        BY <2>1 DEF BorrowedInv
      <3>1. outer[1].preExisting >= before[params.token]
        BY <1>2 DEF IInv, BorrowedInv
      <3> QED
        BY <2>2, <3>1
    <2> QED
      BY <2>3, <2>4, <2>5, <2>6, <2>7 DEF IInv
  <1> QED
    BY <1>1, <1>2

(* Balancer's callback repays and pays the profit. *)
LEMMA FlashLoanStep == ASSUME IInv, ReceiveFlashLoanEnds PROVE IInv'
  <1>1. /\ LegsDone /\ Debit(params.token, Repay + Profit) /\ inFlight' = None
        /\ owed' = owed - Repay /\ CallbackOver
    BY DEF ReceiveFlashLoanEnds
  <1>2. /\ pc = "legs" /\ params \in Params /\ params.token \in Tokens
        /\ trades' \in Nat /\ trades' + Len(outer) = 1 + nested
        /\ Repay \in Nat /\ Profit \in Nat
        /\ preExisting \in Nat
        /\ balance[params.token] = preExisting + Repay + Profit
        /\ \A t \in Tokens \ (short \union {params.token}) : balance[t] >= before[t]
        /\ UNCHANGED <<spenderAllowed, withdrawalAllowed, stables, params, before, nested,
                       short>>
    BY <1>1, LegsDoneFacts
  <1>3. /\ balance' \in [Tokens -> Nat]
        /\ \A t \in Tokens :
              balance'[t] = IF t = params.token THEN balance[t] - (Repay + Profit)
                                                ELSE balance[t]
    <2>1. Repay + Profit \in Nat
      BY <1>2
    <2> QED
      BY <1>1, <1>2, <2>1, DebitToken DEF IInv, ExecTypes
  <1>4. \A t \in Tokens \ (short \union {params.token}) : balance'[t] >= before[t]
    BY <1>2, <1>3
  <1>5. outer = << >> /\ params.token \notin short =>
           balance'[params.token] >= before[params.token]
    <2>1. balance'[params.token] = preExisting
      BY <1>2, <1>3
    <2> QED
      BY <1>2, <2>1 DEF IInv, BorrowedInv
  <1> QED
    BY <1>1, <1>2, <1>3, <1>4, <1>5, OverStep

(* Aave takes the repayment and no more. *)
LEMMA PullStep == ASSUME IInv, AavePulls PROVE IInv'
  <1>1. /\ pc = "repay" /\ Debit(params.token, Repay) /\ owed' = owed - Repay /\ CallbackOver
        /\ UNCHANGED <<spenderAllowed, withdrawalAllowed, stables, inFlight, params, before,
                       trades, nested, short>>
    BY DEF AavePulls, config
  <1>2. params \in Params /\ inFlight = None
    BY <1>1 DEF IInv, ContextInv
  <1>3. params.token \in Tokens /\ Repay \in Nat
    BY <1>2, ParamsType DEF Repay, IInv, ExecTypes
  <1>4. trades' \in Nat /\ trades' + Len(outer) = 1 + nested
    <2>1. Open = Len(outer)
      BY <1>1, StackType DEF Open, IInv, ExecTypes
    <2>2. trades + Open = 1 + nested
      BY <1>1, <1>2, NoneAssumption DEF IInv, ContextInv
    <2> QED
      BY <1>1, <2>1, <2>2 DEF IInv, ExecTypes
  <1>5. /\ balance' \in [Tokens -> Nat]
        /\ \A t \in Tokens :
              balance'[t] = IF t = params.token THEN balance[t] - Repay ELSE balance[t]
    BY <1>1, <1>3, DebitToken DEF IInv, ExecTypes
  <1>6. ASSUME NEW t \in Tokens \ (short \union {params.token})
        PROVE  balance'[t] >= before[t]
    <2>1. balance[t] >= before[t] + 0
      BY <1>1 DEF IInv, OthersInv
    <2>2. before[t] \in Nat
      BY DEF IInv, ExecTypes
    <2> QED
      BY <1>5, <2>1, <2>2
  <1>7. ASSUME outer = << >>, params.token \notin short
        PROVE  balance'[params.token] >= before[params.token]
    <2>1. balance[params.token] >= before[params.token] + Repay
      BY <1>1, <1>7 DEF IInv, BorrowedInv, Held
    <2>2. balance[params.token] \in Nat /\ before[params.token] \in Nat
      BY <1>3 DEF IInv, ExecTypes
    <2> QED
      BY <1>3, <1>5, <2>1, <2>2
  <1> QED
    BY <1>1, <1>2, <1>3, <1>4, <1>5, <1>6, <1>7, OverStep

(* A transaction that is over leaves the idle state. *)
LEMMA FinishedStep ==
    ASSUME IInv, Finished, owed' = 0, balance' \in [Tokens -> Nat]
    PROVE  IInv'
  <1>1. NoFunds \in [Tokens -> Nat] /\ << >> \in Seq(Frames) /\ Len(<< >>) = 0
    BY EmptySeq DEF NoFunds
  <1>2. ExecTypes'
    BY <1>1 DEF Finished, NoLocals, config, IInv, ExecTypes
  <1>3. ContextInv'
    BY <1>1 DEF Finished, ContextInv
  <1>4. DebtInv'
    BY <1>1 DEF Finished, DebtInv
  <1>5. OthersInv' /\ BorrowedInv'
    BY DEF Finished, OthersInv, BorrowedInv
  <1> QED
    BY <1>2, <1>3, <1>4, <1>5 DEF IInv

(* Between transactions funds only come in, or go out where they are. *)
LEMMA IdleFunds ==
    ASSUME balance \in [Tokens -> Nat]
    PROVE  /\ \A t \in Tokens, n \in Amounts : Deposit(t, n) => balance' \in [Tokens -> Nat]
           /\ \A t \in Tokens, d \in Destinations, n \in Amounts :
                 Withdraw(t, d, n) => balance' \in [Tokens -> Nat]
           /\ \A t, u \in Tokens, d \in Destinations, n, reported, got \in Amounts,
                 m \in Minima : ConvertAndWithdraw(t, u, n, m, d, reported, got) =>
                                 balance' \in [Tokens -> Nat]
  <1>a. Amounts \subseteq Nat
    BY ExecutorAssumption DEF Amounts
  <1>1. ASSUME NEW t \in Tokens, NEW n \in Amounts, Deposit(t, n)
        PROVE  balance' \in [Tokens -> Nat]
    BY <1>a, <1>1 DEF Deposit, Credit
  <1>2. ASSUME NEW t \in Tokens, NEW d \in Destinations, NEW n \in Amounts,
               Withdraw(t, d, n)
        PROVE  balance' \in [Tokens -> Nat]
    BY <1>a, <1>2 DEF Withdraw, Debit
  <1>3. ASSUME NEW t \in Tokens, NEW u \in Tokens, NEW d \in Destinations,
               NEW n \in Amounts, NEW reported \in Amounts, NEW got \in Amounts,
               NEW m \in Minima, ConvertAndWithdraw(t, u, n, m, d, reported, got)
        PROVE  balance' \in [Tokens -> Nat]
    <2>1. CASE t = u
      BY <1>a, <1>3, <2>1 DEF ConvertAndWithdraw, Debit
    <2>2. CASE t # u
      <3>1. /\ balance[t] >= n
            /\ balance[u] + got >= reported
            /\ balance' = [balance EXCEPT ![t] = @ - n, ![u] = @ + got - reported]
        BY <1>3, <2>2 DEF ConvertAndWithdraw
      <3>2. balance[t] - n \in Nat /\ balance[u] + got - reported \in Nat
        BY <1>a, <3>1
      <3> QED
        BY <2>2, <3>1, <3>2
    <2> QED
      BY <2>1, <2>2
  <1> QED
    BY <1>1, <1>2, <1>3

(* Every step keeps the invariant. *)
LEMMA NextIInv == IInv /\ [Next]_vars => IInv'
  <1> SUFFICES ASSUME IInv, [Next]_vars PROVE IInv'
    OBVIOUS
  <1>t. /\ balance \in [Tokens -> Nat] /\ before \in [Tokens -> Nat]
        /\ spenderAllowed \subseteq Spenders /\ withdrawalAllowed \subseteq Destinations
        /\ stables \subseteq Tokens
    BY DEF IInv, ExecTypes
  <1>1. ASSUME NEW s \in Togglable, NEW b \in BOOLEAN, SetSpenderAllowed(s, b) PROVE IInv'
    <2>1. s \in Spenders
      BY ExecutorAssumption DEF Spenders
    <2>2. spenderAllowed' \subseteq Spenders
      BY <1>1, <1>t, <2>1 DEF SetSpenderAllowed
    <2> QED
      BY <1>1, <1>t, <2>2, IdleStep DEF SetSpenderAllowed
  <1>2. ASSUME NEW d \in Destinations, NEW b \in BOOLEAN, SetWithdrawalAllowed(d, b)
        PROVE  IInv'
    <2>1. withdrawalAllowed' \subseteq Destinations
      BY <1>2, <1>t DEF SetWithdrawalAllowed
    <2> QED
      BY <1>2, <1>t, <2>1, IdleStep DEF SetWithdrawalAllowed
  <1>3. ASSUME NEW pair \in StablePairs, SetStableTokens(pair[1], pair[2]) PROVE IInv'
    <2>1. stables' \subseteq Tokens
      BY <1>3, ExecutorAssumption DEF SetStableTokens
    <2> QED
      BY <1>3, <1>t, <2>1, IdleStep DEF SetStableTokens
  <1>4. ASSUME NEW t \in Tokens, NEW n \in Amounts, Deposit(t, n) PROVE IInv'
    <2>1. balance' \in [Tokens -> Nat]
      BY <1>4, <1>t, IdleFunds
    <2> QED
      BY <1>4, <1>t, <2>1, IdleStep DEF Deposit, config
  <1>5. ASSUME NEW t \in Tokens, NEW d \in Destinations, NEW n \in Amounts,
               Withdraw(t, d, n)
        PROVE  IInv'
    <2>1. balance' \in [Tokens -> Nat]
      BY <1>5, <1>t, IdleFunds
    <2> QED
      BY <1>5, <1>t, <2>1, IdleStep DEF Withdraw, config
  <1>6. ASSUME NEW t \in Tokens, NEW u \in Tokens, NEW d \in Destinations,
               NEW n \in Amounts, NEW reported \in Amounts, NEW got \in Amounts,
               NEW m \in Minima, ConvertAndWithdraw(t, u, n, m, d, reported, got)
        PROVE  IInv'
    <2>1. balance' \in [Tokens -> Nat]
      BY <1>6, <1>t, IdleFunds
    <2> QED
      BY <1>6, <1>t, <2>1, IdleStep DEF ConvertAndWithdraw, config
  <1>7. ASSUME NEW p \in Params, Execute(p) PROVE IInv'
    BY <1>7, ExecuteStep
  <1>8. ASSUME NEW got \in Amounts, NEW fee \in 0 .. MaxFee, Lend(got, fee) \/ LendInLeg(got, fee)
        PROVE  IInv'
    BY <1>8, LendStep, LendInLegStep
  <1>9. ASSUME NEW reported \in Amounts, NEW got \in Amounts, VenueReturns(reported, got)
        PROVE  IInv'
    BY <1>9, VenueReturnsStep
  <1>10. CASE ExecuteReturns
    <2>1. owed' = 0
      BY <1>10 DEF ExecuteReturns, IInv, DebtInv
    <2> QED
      BY <1>10, <1>t, <2>1, FinishedStep DEF ExecuteReturns
  <1>11. CASE Revert
    BY <1>11, <1>t, FinishedStep DEF Revert
  <1>12. CASE UNCHANGED vars
    <2>1. ExecTypes' /\ ContextInv'
      BY <1>12 DEF vars, IInv, ExecTypes, ContextInv, Open
    <2>2. DebtInv'
      BY <1>12 DEF vars, IInv, DebtInv, Below, Repay
    <2>3. OthersInv' /\ BorrowedInv'
      BY <1>12 DEF vars, IInv, OthersInv, BorrowedInv, Watches, Cursor, Held, Repay
    <2> QED
      BY <2>1, <2>2, <2>3 DEF IInv
  <1> QED
    BY <1>1, <1>2, <1>3, <1>4, <1>5, <1>6, <1>7, <1>8, <1>9, <1>10, <1>11, <1>12, EnterStep,
       CallVenueStep, OperationStep, FlashLoanStep, PullStep DEF Next

(* The inductive invariant holds. *)
THEOREM IInvHolds == Spec => []IInv
  BY InitIInv, NextIInv, PTL DEF Spec

(* Every trade of an execute but the first belongs to a callback that came *)
(* while another one was open, and the execute ends with its lender paid   *)
(* for all of them and the context closed, however the lender calls back.  *)
THEOREM ExecuteSettlesThm == Spec => []ExecuteSettles
  <1>1. IInv => ExecuteSettles
    <2> SUFFICES ASSUME IInv PROVE ExecuteSettles
      OBVIOUS
    <2>1. trades \in Nat /\ nested \in Nat /\ Len(outer) \in Nat
      BY StackType DEF IInv, ExecTypes
    <2>2. trades <= 1 + nested
      BY <2>1 DEF IInv, ContextInv, Open
    <2>3. pc = "idle" => owed = 0 /\ inFlight = None
      BY DEF IInv, ContextInv, DebtInv
    <2> QED
      BY <2>2, <2>3 DEF ExecuteSettles
  <1> QED
    BY <1>1, IInvHolds, PTL

(* The funds at the end of a transaction. *)
LEMMA EndFunds ==
    ASSUME IInv, [Next]_vars, pc # "idle", pc' = "idle", NEW t \in Tokens \ short
    PROVE  balance'[t] >= before[t]
  <1>1. before[t] \in Nat /\ balance[t] \in Nat
    BY DEF IInv, ExecTypes
  <1>2. CASE ExecuteReturns
    <2>1. pc = "lender" /\ balance' = balance /\ outer = << >>
      BY <1>2 DEF ExecuteReturns, IInv, ContextInv
    <2>2. balance[t] >= before[t] + 0
      BY <2>1 DEF IInv, OthersInv, BorrowedInv, Held
    <2> QED
      BY <1>1, <2>1, <2>2
  <1>3. CASE Revert
    BY <1>1, <1>3 DEF Revert
  <1>4. ExecuteReturns \/ Revert
    BY DEF Next, vars, SetSpenderAllowed, SetWithdrawalAllowed, SetStableTokens, Deposit,
           Withdraw, ConvertAndWithdraw, Execute, Lend, LendInLeg, Loan, EnterCallback,
           CallVenue, VenueReturns, ExecuteOperationEnds, ReceiveFlashLoanEnds, AavePulls,
           CallbackOver
  <1> QED
    BY <1>2, <1>3, <1>4

(* No execute spends what the executor held before it, whatever venues and *)
(* lenders do, of a token that was delivered as it was said.               *)
THEOREM IdleFundsKeptThm == Spec => IdleFundsKept
  <1>1. IInv /\ [Next]_vars =>
           [pc # "idle" /\ pc' = "idle" =>
               \A t \in Tokens \ short : balance'[t] >= before[t]]_vars
    BY EndFunds
  <1> QED
    BY <1>1, IInvHolds, PTL DEF Spec, IdleFundsKept

(* Every variable has its type. *)
THEOREM TypeCorrect == Spec => []TypeOK
  <1>1. IInv => TypeOK
    BY DEF IInv, ExecTypes, TypeOK
  <1> QED
    BY <1>1, IInvHolds, PTL
=============================================================================
