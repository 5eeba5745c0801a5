-------------------------- MODULE MCExecutionModes --------------------------
(* Instance of ExecutionModes for TLC. *)
EXTENDS ExecutionModes
=============================================================================
