---------------------------- MODULE MCStreamPipe ----------------------------
(* Instances of StreamPipe small enough for TLC. *)
EXTENDS StreamPipe

AllFaults == FaultKinds
NoFaults  == {}
=============================================================================
