CONSTANTS
  MaxRuns = 1
  MaxPackets = 2
  QueueMax = 1
  Faults <- DiskFaults
SPECIFICATION FairSpec
CHECK_DEADLOCK FALSE
PROPERTY RunEnds
