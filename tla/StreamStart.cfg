CONSTANTS
  Channels = {"uart0", "jtag"}
  Stale = 2
  Faults <- AllFaults
SPECIFICATION Spec
INVARIANTS FailedStartGivesBack OnlyEarlyText GreenMeansData
