CONSTANTS
  Creds = {home, wrong}
  Accepted = {home}
  KconfigCred = home
  None = None
  MaxCommands = 2
  Faults <- AllFaults
SPECIFICATION FairSpec
INVARIANTS TypeOK RetryPending UpIsReported UsbReadsOnce
PROPERTIES SavesTestedUnlessMixed Reconnects
CHECK_DEADLOCK FALSE
