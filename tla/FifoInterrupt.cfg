CONSTANTS
  FifoSize = 8
  Wtm = 3
  BurstMax = 3
  MissMax = 20
  Faults <- AllFaults
SPECIFICATION FifoFairSpec
INVARIANTS NeverDeaf FallbackMeansBroken
PROPERTY BrokenFallsBack
