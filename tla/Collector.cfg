CONSTANTS
  Holes <- TwoHoles
  Names <- TwoNames
  Dins <- TwoDins
  Ports <- OnePort
  Ids <- FourIds
  Sizes <- ShortAndLong
  Disk = 3
  Modes <- AllModes
  Setups <- FirstSetups
  MaxRuns = 2
  MaxOps = 3
SPECIFICATION Spec
CHECK_DEADLOCK FALSE
INVARIANT NothingLeaks
INVARIANT ChannelsFollowSettings
INVARIANT SpaceFits
PROPERTY BookSpec
PROPERTY NothingHangs
