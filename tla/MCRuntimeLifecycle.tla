------------------------- MODULE MCRuntimeLifecycle -------------------------
(* Instance of RuntimeLifecycle for TLC. *)
EXTENDS RuntimeLifecycle, TLC

CONSTANTS l1, l2, l3, l4, w1, w2, w3, r1, r2

MCLoops == {l1, l2, l3, l4}
MCWorkers == {w1, w2, w3}
MCRequests == {r1, r2}
=============================================================================
