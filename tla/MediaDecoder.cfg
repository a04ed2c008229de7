SPECIFICATION FairSpec
CONSTANTS
  File <- Skewed
  Landings <- SkewedLandings
  Capacity <- Deep
  Pending <- One
  Delay = 1
  Plans <- Some
PROPERTIES FileIsConsumed SeekReturns
INVARIANTS NothingLost EndIsTheEnd
CHECK_DEADLOCK FALSE
