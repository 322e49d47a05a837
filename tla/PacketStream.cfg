CONSTANTS
  MaxSent = 3
  MaxRestarts = 1
  MaxPuts = 3
  MaxCopies = 2
  MaxSamples = 2
  Modulus = 16
  GapLimit = 6
  FirstSeqs <- AboutToTurn
  Versions <- BothVersions
  Payloads <- MagicPayloads
  BootLogs <- TextLogs
  Junk <- OtherDatagrams
SPECIFICATION Spec
CHECK_DEADLOCK FALSE
INVARIANT ChunkingIrrelevant
INVARIANT InSync
INVARIANT DamageLeavesATrace
INVARIANT MissingIsCounted
INVARIANT ConverterAgrees
INVARIANT CutFileReadsBack
