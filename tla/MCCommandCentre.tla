-------------------------- MODULE MCCommandCentre --------------------------
(* Instance of CommandCentre for TLC. *)
EXTENDS CommandCentre, TLC
=============================================================================
