-------------------------- MODULE MCCollectChannel --------------------------
(* Instances of CollectChannel small enough for TLC. *)
EXTENDS CollectChannelInv

RaceFaults   == {"stopInSetup", "drainTimeout"}
SafetyFaults == {"setupError", "diskFull", "unplug"}
LinkFaults   == {"unplug", "flushTimeout"}
DiskFaults   == {"diskFull"}
=============================================================================
