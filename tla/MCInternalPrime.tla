--------------------------- MODULE MCInternalPrime ---------------------------
(* Instance of InternalPrime for TLC: three loans in two families.  The    *)
(* first two fill their family's cap, the three together would exceed the  *)
(* capacity, and the first and the third take the whole stock.             *)
EXTENDS InternalPrime

CONSTANTS l1, l2, l3, f1, f2

MCLoans == {l1, l2, l3}
MCFamilies == {f1, f2}
MCFamilyOf == [l \in MCLoans |-> IF l = l3 THEN f2 ELSE f1]
MCNotional == [l \in MCLoans |-> IF l = l2 THEN 1 ELSE 2]
MCCollateral == [l \in MCLoans |-> IF l = l2 THEN 2 ELSE 3]
=============================================================================
