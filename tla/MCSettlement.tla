---------------------------- MODULE MCSettlement ----------------------------
(* Instance of Settlement for TLC. *)
EXTENDS Settlement, TLC

CONSTANTS r1, r2, r3

MCReceipts == {r1, r2, r3}
MCLoaned == {r1, r2}

(* Two receipts with a loan are interchangeable. *)
Loans == Permutations(MCLoaned)
=============================================================================
