---------------------------- MODULE ArbExecutor ----------------------------
(***************************************************************************)
(* The flash-loan executor (contracts/src/VictorArbExecutor.sol).  A call  *)
(* of execute borrows from Aave or Balancer, which call back; the callback *)
(* swaps along the route, checks the profit, repays and pays the profit    *)
(* out.  What the tokens, venues and lenders do is chosen by the           *)
(* environment: a venue may report more than it delivers, a token may take *)
(* a fee of every transfer, a lender may call back twice, not at all, or   *)
(* while a leg of the first callback runs (the vault swaps the dex-3 legs).*)
(*                                                                         *)
(* A transaction runs alone, and a revert restores the state it began in.  *)
(* Calls by anyone but the owner, calls past their deadline, and callbacks *)
(* by anyone but the lender revert and are left out; so are the lock of    *)
(* the two withdrawals (only the owner could enter them again), the        *)
(* approvals (unlimited once given) and maxSlippageBps, which no function  *)
(* reads.  A leg is named by the contract that spends for it.              *)
(*                                                                         *)
(* Limits: a venue takes exactly the amount of its leg and, a curve pool,  *)
(* trades the coins the leg names (aux agrees with tokenIn and tokenOut);  *)
(* a token makes no calls; a callback that reverts fails the transaction.  *)
(***************************************************************************)
EXTENDS Integers, SequencesExt

CONSTANTS
    Tokens,
    Venues,        \* routers and pools
    Measured,      \* the venues whose output is measured as a balance (dex 7)
    Router,        \* univ3SwapRouter
    Aave, Vault,   \* aavePool, balancerVault
    Destinations,
    MaxAmount,     \* bound: amounts
    MaxLoan,       \* bound: the amount of a loan
    MaxIdle,       \* bound: idle funds of a token when an execute begins
    MaxMinimum,    \* bound: minOut and minProfit
    MaxFee,        \* bound: the fee of a loan
    MaxLegs,       \* bound: the legs of a route
    MaxNested,     \* bound: callbacks nested in a leg
    Togglable,     \* bound: the spenders that are allowed and disallowed
    StablePairs,   \* bound: the pairs of setStableTokens
    None,
    Faults         \* which misbehaviour of others may happen

ASSUME ExecutorAssumption ==
    /\ Measured \subseteq Venues
    /\ Router \in Venues \ Measured
    /\ {MaxAmount, MaxLoan, MaxIdle, MaxMinimum, MaxFee, MaxLegs, MaxNested} \subseteq Nat
    /\ StablePairs \subseteq (Tokens \union {None}) \X (Tokens \union {None})
    /\ Togglable \subseteq Venues \union {Aave, Vault}
    /\ Faults \subseteq {"skim", "misreport", "twice", "silent", "nested"}

VARIABLES
    spenderAllowed,      \* set of spenders
    withdrawalAllowed,   \* set of destinations
    stables,             \* USDC and USDT
    balance,             \* what the executor holds of each token
    inFlight,            \* the parameters the in-flight context stands for, or None
    pc,                  \* where the transaction is
    params,              \* the parameters of the execute that runs
    leg, amountIn,       \* the loop of _runLegs
    beforeOut,           \* of a measured leg
    preExisting, premium,   \* of the callback
    outer,               \* the callbacks suspended in a leg, the innermost last
    before,              \* the balances when the transaction began
    owed,                \* history: what the lender is still to get back
    trades,              \* history: ArbExecuted events of the transaction
    nested,              \* history: callbacks accepted while another was open
    short                \* history: tokens of which less came in than was said

vars == <<spenderAllowed, withdrawalAllowed, stables, balance, inFlight, pc, params, leg,
          amountIn, beforeOut, preExisting, premium, outer, before, owed, trades, nested,
          short>>
config == <<spenderAllowed, withdrawalAllowed, stables>>
callbackVars == <<leg, amountIn, beforeOut, preExisting, premium>>
txVars == <<pc, params, callbackVars, outer, before, owed, trades, nested, short>>

Spenders == Venues \union {Aave, Vault}
Amounts == 0 .. MaxAmount
Minima == 0 .. MaxMinimum
Legs == [venue : Venues, tokenIn : Tokens, tokenOut : Tokens, minOut : Minima]

(* The checks of execute on the route: it is not empty, starts at the      *)
(* borrowed token and is contiguous.  The caller's route id is that of the *)
(* legs, or the call reverts.                                              *)
RouteOK(legs, token) ==
    /\ legs # << >>
    /\ legs[1].tokenIn = token
    /\ \A i \in 2 .. Len(legs) : legs[i].tokenIn = legs[i - 1].tokenOut

NoFunds == [t \in Tokens |-> 0]

Routes == UNION {[1 .. n -> Legs] : n \in 1 .. MaxLegs}

Init ==
    /\ spenderAllowed = {Aave, Vault, Router}
    /\ withdrawalAllowed \in SUBSET Destinations
    /\ stables = {}
    /\ balance = NoFunds
    /\ inFlight = None
    /\ pc = "idle"
    /\ params = None
    /\ leg = 0
    /\ amountIn = 0
    /\ beforeOut = 0
    /\ preExisting = 0
    /\ premium = 0
    /\ outer = << >>
    /\ before = NoFunds
    /\ owed = 0
    /\ trades = 0
    /\ nested = 0
    /\ short = {}

-----------------------------------------------------------------------------
(* Configuration and idle funds, between transactions.                     *)

SetSpenderAllowed(s, allowed) ==
    /\ pc = "idle"
    /\ spenderAllowed' = IF allowed THEN spenderAllowed \union {s} ELSE spenderAllowed \ {s}
    /\ UNCHANGED <<withdrawalAllowed, stables, balance, inFlight, txVars>>

SetWithdrawalAllowed(d, allowed) ==
    /\ pc = "idle"
    /\ withdrawalAllowed' =
          IF allowed THEN withdrawalAllowed \union {d} ELSE withdrawalAllowed \ {d}
    /\ UNCHANGED <<spenderAllowed, stables, balance, inFlight, txVars>>

SetStableTokens(usdc, usdt) ==
    /\ pc = "idle"
    /\ stables' = {usdc, usdt} \ {None}
    /\ UNCHANGED <<spenderAllowed, withdrawalAllowed, balance, inFlight, txVars>>

Credit(t, n) == balance' = [balance EXCEPT ![t] = @ + n]
Debit(t, n) == balance[t] >= n /\ balance' = [balance EXCEPT ![t] = @ - n]

(* Others deliver what they said, or less if they may. *)
Delivers(said, got, fault) == got = said \/ (got < said /\ fault \in Faults)

(* _approveIfNeeded *)
MaySpend(s) == s \in spenderAllowed

(* Somebody leaves tokens with the executor. *)
Deposit(t, n) ==
    /\ pc = "idle"
    /\ balance[t] + n <= MaxIdle
    /\ Credit(t, n)
    /\ UNCHANGED <<config, inFlight, txVars>>

(* withdraw *)
Withdraw(t, d, n) ==
    /\ pc = "idle"
    /\ d \in withdrawalAllowed
    /\ Debit(t, n)
    /\ UNCHANGED <<config, inFlight, txVars>>

(* convertAndWithdraw: pays out what the router reports, which it takes    *)
(* from idle funds where the router delivered less.                        *)
ConvertAndWithdraw(t, u, n, minOut, d, reported, got) ==
    /\ pc = "idle"
    /\ d \in withdrawalAllowed
    /\ u \in stables
    /\ IF t = u
         THEN n >= minOut /\ Debit(t, n)
         ELSE /\ Delivers(reported, got, "misreport")
              /\ MaySpend(Router)
              /\ balance[t] >= n
              /\ reported >= minOut
              /\ balance[u] + got >= reported
              /\ balance' = [balance EXCEPT ![t] = @ - n, ![u] = @ + got - reported]
    /\ UNCHANGED <<config, inFlight, txVars>>

-----------------------------------------------------------------------------
(* execute: the context is set before the lender is called. *)
Execute(p) ==
    /\ pc = "idle"
    /\ \A t \in Tokens : balance[t] <= MaxIdle
    /\ p.profitTo \in withdrawalAllowed
    /\ RouteOK(p.legs, p.token)
    /\ inFlight' = p
    /\ params' = p
    /\ before' = balance
    /\ pc' = "lender"
    /\ UNCHANGED <<config, balance, callbackVars, outer, owed, trades, nested, short>>

(* The locals of a callback before and after it. *)
NoLocals == leg' = 0 /\ amountIn' = 0 /\ beforeOut' = 0 /\ preExisting' = 0

(* A loan is transferred and called back for.  A token that takes a fee    *)
(* delivers less.                                                          *)
Loan(got, fee) ==
    /\ Delivers(params.amount, got, "skim")
    /\ Credit(params.token, got)
    /\ premium' = fee
    /\ owed' = owed + params.amount + fee
    /\ short' = IF got < params.amount THEN short \union {params.token} ELSE short
    /\ pc' = "callback"
    /\ NoLocals
    /\ UNCHANGED <<config, inFlight, params, before, trades, nested>>

(* The lender that execute called calls back, a second time only if it     *)
(* misbehaves.                                                             *)
Lend(got, fee) ==
    /\ pc = "lender"
    /\ trades = 0 \/ "twice" \in Faults
    /\ Loan(got, fee)
    /\ UNCHANGED outer

(* The lender gets control in a leg and calls back from there: the         *)
(* callback that runs the leg is suspended with its locals.                *)
LendInLeg(got, fee) ==
    /\ pc = "swap"
    /\ "nested" \in Faults
    /\ Len(outer) < MaxNested
    /\ Loan(got, fee)
    /\ outer' = Append(outer, [leg |-> leg, amountIn |-> amountIn, beforeOut |-> beforeOut,
                               preExisting |-> preExisting, premium |-> premium,
                               owed |-> owed])

(* Mutant: all of the balance may be used for the repayment. *)
EnterCallbackIgnoringIdle ==
    /\ pc = "callback"
    /\ inFlight = params
    /\ preExisting' = 0
    /\ leg' = 1
    /\ amountIn' = params.amount
    /\ nested' = IF outer = << >> THEN nested ELSE nested + 1
    /\ pc' = "legs"
    /\ UNCHANGED <<config, balance, inFlight, params, beforeOut, premium, outer, before, owed,
                   trades, short>>

(* Both callbacks up to _runLegs: only in the context that execute set up, *)
(* which is open until the legs have run.                                  *)
EnterCallback ==
    /\ pc = "callback"
    /\ inFlight = params
    /\ preExisting' = IF balance[params.token] > params.amount
                        THEN balance[params.token] - params.amount ELSE 0
    /\ leg' = 1
    /\ amountIn' = params.amount
    /\ nested' = IF outer = << >> THEN nested ELSE nested + 1
    /\ pc' = "legs"
    /\ UNCHANGED <<config, balance, inFlight, params, beforeOut, premium, outer, before, owed,
                   trades, short>>

CurrentLeg == params.legs[leg]

(* One turn of _runLegs up to the call of the venue, which takes what the  *)
(* leg spends.                                                             *)
CallVenue ==
    /\ pc = "legs"
    /\ leg <= Len(params.legs)
    /\ MaySpend(CurrentLeg.venue)
    /\ Debit(CurrentLeg.tokenIn, amountIn)
    /\ beforeOut' = IF CurrentLeg.venue \in Measured THEN balance[CurrentLeg.tokenOut] ELSE 0
    /\ pc' = "swap"
    /\ UNCHANGED <<config, inFlight, params, leg, amountIn, preExisting, premium, outer,
                   before, owed, trades, nested, short>>

(* The venue delivers and returns.  The next leg spends what this one      *)
(* reported, or, for a measured venue, what the balance grew by.           *)
VenueReturns(reported, got) ==
    LET t == CurrentLeg.tokenOut
        measured == CurrentLeg.venue \in Measured
    IN
    /\ pc = "swap"
    /\ Delivers(reported, got, "misreport")
    /\ Credit(t, got)
    /\ amountIn' = IF measured THEN balance[t] + got - beforeOut ELSE reported
    /\ amountIn' >= CurrentLeg.minOut
    /\ leg' = leg + 1
    /\ short' = IF got < reported /\ ~measured THEN short \union ({t} \ {params.token})
                                              ELSE short
    /\ beforeOut' = 0
    /\ pc' = "legs"
    /\ UNCHANGED <<config, inFlight, params, preExisting, premium, outer, before,
                   owed, trades, nested>>

Repay == params.amount + premium
Profit == balance[params.token] - preExisting - Repay

(* After _runLegs: the profit is what is left above the pre-existing       *)
(* balance and the repayment.                                              *)
LegsDone ==
    /\ pc = "legs"
    /\ leg > Len(params.legs)
    /\ Profit >= params.minProfit
    /\ trades' = trades + 1
    /\ UNCHANGED <<config, params, before, nested, short>>

(* A lender that has its repayment returns: to execute, or to the leg it   *)
(* was called in.                                                          *)
CallbackOver ==
    \/ /\ outer = << >>
       /\ pc' = "lender"
       /\ NoLocals
       /\ premium' = 0
       /\ UNCHANGED outer
    \/ /\ outer # << >>
       /\ leg' = Last(outer).leg
       /\ amountIn' = Last(outer).amountIn
       /\ beforeOut' = Last(outer).beforeOut
       /\ preExisting' = Last(outer).preExisting
       /\ premium' = Last(outer).premium
       /\ outer' = Front(outer)
       /\ pc' = "swap"

(* The end of executeOperation: Aave pulls the repayment afterwards. *)
ExecuteOperationEnds ==
    /\ LegsDone
    /\ params.provider = 1
    /\ MaySpend(Aave)
    /\ Debit(params.token, Profit)
    /\ inFlight' = None
    /\ pc' = "repay"
    /\ UNCHANGED <<callbackVars, outer, owed>>

(* Mutant: the context stays open until execute returns. *)
ReceiveFlashLoanEndsOpen ==
    /\ LegsDone
    /\ params.provider = 2
    /\ Debit(params.token, Repay + Profit)
    /\ owed' = owed - Repay
    /\ CallbackOver
    /\ UNCHANGED inFlight

(* The end of receiveFlashLoan: the vault is repaid here. *)
ReceiveFlashLoanEnds ==
    /\ LegsDone
    /\ params.provider = 2
    /\ Debit(params.token, Repay + Profit)
    /\ inFlight' = None
    /\ owed' = owed - Repay
    /\ CallbackOver

(* Aave takes the repayment with transferFrom, or the transaction fails. *)
AavePulls ==
    /\ pc = "repay"
    /\ Debit(params.token, Repay)
    /\ owed' = owed - Repay
    /\ CallbackOver
    /\ UNCHANGED <<config, inFlight, params, before, trades, nested, short>>

Finished ==
    /\ inFlight' = None
    /\ pc' = "idle"
    /\ params' = None
    /\ NoLocals
    /\ premium' = 0
    /\ outer' = << >>
    /\ before' = NoFunds
    /\ trades' = 0
    /\ nested' = 0
    /\ short' = {}
    /\ UNCHANGED config

(* The lender returns, and execute clears the context. *)
ExecuteReturns ==
    /\ pc = "lender"
    /\ trades > 0 \/ "silent" \in Faults
    /\ Finished
    /\ UNCHANGED <<balance, owed>>

(* Any of the checks failed, here or in a contract that was called. *)
Revert ==
    /\ pc # "idle"
    /\ balance' = before
    /\ owed' = 0
    /\ Finished

Params ==
    [provider : {1, 2}, token : Tokens, amount : 1 .. MaxLoan, minProfit : Minima,
     profitTo : Destinations, legs : Routes]

ASSUME NoneAssumption == None \notin Params

Next ==
    \/ \E s \in Togglable, b \in BOOLEAN : SetSpenderAllowed(s, b)
    \/ \E d \in Destinations, b \in BOOLEAN : SetWithdrawalAllowed(d, b)
    \/ \E pair \in StablePairs : SetStableTokens(pair[1], pair[2])
    \/ \E t \in Tokens, n \in Amounts : Deposit(t, n)
    \/ \E t \in Tokens, d \in Destinations, n \in Amounts : Withdraw(t, d, n)
    \/ \E t, u \in Tokens, d \in Destinations, n, reported, got \in Amounts, m \in Minima :
          ConvertAndWithdraw(t, u, n, m, d, reported, got)
    \/ \E p \in Params : Execute(p)
    \/ \E got \in Amounts, fee \in 0 .. MaxFee : Lend(got, fee) \/ LendInLeg(got, fee)
    \/ EnterCallback
    \/ CallVenue
    \/ \E reported, got \in Amounts : VenueReturns(reported, got)
    \/ ExecuteOperationEnds
    \/ ReceiveFlashLoanEnds
    \/ AavePulls
    \/ ExecuteReturns
    \/ Revert

Spec == Init /\ [][Next]_vars

-----------------------------------------------------------------------------
(* The locals of a suspended callback, and what was owed when it was. *)
Frames ==
    [leg : Nat, amountIn : Nat, beforeOut : Nat, preExisting : Nat, premium : Nat, owed : Nat]

(* Every variable has its type. *)
TypeOK ==
    /\ spenderAllowed \subseteq Spenders
    /\ withdrawalAllowed \subseteq Destinations
    /\ stables \subseteq Tokens
    /\ {balance, before} \subseteq [Tokens -> Nat]
    /\ {inFlight, params} \subseteq Params \union {None}
    /\ pc \in {"idle", "lender", "callback", "legs", "swap", "repay"}
    /\ {leg, amountIn, beforeOut, preExisting, premium, owed, trades, nested} \subseteq Nat
    /\ outer \in Seq(Frames)
    /\ short \subseteq Tokens

(* "Profit assertion is net of flash fee and must not consume pre-existing *)
(* balance": no execute leaves the executor with less of any token than it *)
(* had, whatever the venues pay, except of a token of which a loan or, on  *)
(* the way, a leg delivered less than was said.                            *)
IdleFundsKept ==
    [][pc # "idle" /\ pc' = "idle" =>
          \A t \in Tokens \ short : balance'[t] >= before[t]]_vars

(* The context that execute opens lets one callback trade, however often   *)
(* the lender calls back, and further ones only if they came while a leg   *)
(* of that one ran; when the execute is over the lender has what it is     *)
(* owed for every callback and none is accepted any more.                  *)
ExecuteSettles ==
    /\ trades <= 1 + nested
    /\ pc = "idle" => owed = 0 /\ inFlight = None
=============================================================================
