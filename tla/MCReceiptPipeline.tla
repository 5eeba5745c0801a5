-------------------------- MODULE MCReceiptPipeline --------------------------
(* Instances of ReceiptPipeline for TLC. *)
EXTENDS ReceiptPipeline, TLC

CONSTANTS t1, t2, t3

ThreeTxs == {t1, t2, t3}
TwoTxs == {t1, t2}

(* Unequal estimates, so that a wrong sum shows. *)
MCGasEst == [t \in Txs |-> IF t = t1 THEN 1 ELSE 2]
MCGasReal == [t \in Txs |-> 1]
=============================================================================
