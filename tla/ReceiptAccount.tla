--------------------------- MODULE ReceiptAccount ---------------------------
(***************************************************************************)
(* What the settlement promises about the profit of a receipt, without     *)
(* calls, files, failures or restarts.  A receipt is unsettled until its   *)
(* ledger row is committed, then recorded, and complete once the ledger    *)
(* file and every state of the bankroll, in memory, in its file and in the *)
(* database, include it as well.  Receipts are recorded one by one.  What  *)
(* is complete stays complete: no older state that a restart loads, or     *)
(* that a later settlement writes back, loses it.  A recorded receipt may  *)
(* wait for ever for its copies; several may become complete together,     *)
(* with the first state of the bankroll that is written for all of them.   *)
(***************************************************************************)
CONSTANT Receipts

VARIABLE account

Stages == {"unsettled", "recorded", "complete"}

Recorded == {r \in Receipts : account[r] = "recorded"}

Init == account = [r \in Receipts |-> "unsettled"]

Record(r) ==
    /\ account[r] = "unsettled"
    /\ account' = [account EXCEPT ![r] = "recorded"]

Complete(S) ==
    account' = [r \in Receipts |-> IF r \in S THEN "complete" ELSE account[r]]

Next ==
    \/ \E r \in Receipts : Record(r)
    \/ \E S \in SUBSET Recorded : Complete(S)

Spec == Init /\ [][Next]_account
=============================================================================
