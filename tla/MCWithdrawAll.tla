--------------------------- MODULE MCWithdrawAll ---------------------------
(* Instance of WithdrawAll for TLC. *)
EXTENDS WithdrawAll, TLC

CONSTANTS c1, c2, t1, t2, d1

MCCalls == {c1, c2}
OneCall == {c1}
OneToken == <<t1>>
TwoTokens == <<t1, t2>>
OneDestination == {d1}

(* The requests are interchangeable. *)
Requests == Permutations(MCCalls)
=============================================================================
