CONSTANTS
  MaxRuns = 2
  MaxPackets = 3
  QueueMax = 1
  Faults <- RaceFaults
SPECIFICATION Spec
CHECK_DEADLOCK FALSE
INVARIANTS TypeOK FilesInOrder
