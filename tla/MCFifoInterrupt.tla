--------------------------- MODULE MCFifoInterrupt ---------------------------
(* An instance of FifoInterrupt small enough for TLC. *)
EXTENDS FifoInterrupt

AllFaults == FaultKinds
=============================================================================
