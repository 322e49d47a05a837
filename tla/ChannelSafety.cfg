CONSTANTS
  MaxRuns = 2
  MaxPackets = 4
  QueueMax = 1
  Faults <- SafetyFaults
SPECIFICATION Spec
CHECK_DEADLOCK FALSE
INVARIANTS OkRunHasNoHole IdleIsClean
PROPERTY FileFinal
