CONSTANTS
  FifoSize = 3
  BurstMax = 2
  Decim = 2
  RingSize = 1
  PerPacket = 2
  MaxSamples = 12
  MaxLost = 1
  MaxOverruns = 1
  Faults <- AllFaults
SPECIFICATION Spec
CHECK_DEADLOCK FALSE
INVARIANTS ReceivedInOrder LossIsCounted
