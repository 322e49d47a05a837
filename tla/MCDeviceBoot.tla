---------------------------- MODULE MCDeviceBoot ----------------------------
(* An instance of DeviceBoot small enough for TLC. *)
EXTENDS DeviceBoot

AllFaults == FaultKinds
=============================================================================
