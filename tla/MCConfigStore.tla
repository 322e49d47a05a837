---------------------------- MODULE MCConfigStore ----------------------------
(* An instance of ConfigStore small enough for TLC. *)
EXTENDS ConfigStore

AllFaults == FaultKinds
=============================================================================
