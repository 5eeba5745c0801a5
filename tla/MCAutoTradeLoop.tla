-------------------------- MODULE MCAutoTradeLoop --------------------------
(* Instance of AutoTradeLoop for TLC. *)
EXTENDS AutoTradeLoop, TLC

CONSTANTS r1, r2, s1, s2

MCRoutes == {r1, r2}
MCSlots == {s1, s2}
=============================================================================
