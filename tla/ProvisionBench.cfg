CONSTANTS
  Slots <- TwoSlots
  Boards <- TwoBoards
  Faulty <- OneFaulty
  Outdated <- OneOutdated
  MaxTty = 2
  MaxPort = 2
  MaxFaults = 2
  Forms <- SomeForms
  Packages <- AllPackages
  MaxUses = 2
SPECIFICATION Spec
CHECK_DEADLOCK FALSE
INVARIANT SuccessIsTrue
INVARIANT CancelIsNotInherited
INVARIANT RowsAreTrue
PROPERTY OnlyTheChosenBoard
PROPERTY HistoryIsTrueWhenWritten
PROPERTY JobsEnd
