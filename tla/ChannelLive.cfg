CONSTANTS
  MaxRuns = 2
  MaxPackets = 2
  QueueMax = 1
  Faults <- LinkFaults
SPECIFICATION FairSpec
CHECK_DEADLOCK FALSE
PROPERTY RunEnds
