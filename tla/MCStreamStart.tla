---------------------------- MODULE MCStreamStart ----------------------------
(* An instance of StreamStart small enough for TLC. *)
EXTENDS StreamStart

AllFaults == FaultKinds
=============================================================================
