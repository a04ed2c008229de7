SPECIFICATION FairSpec
CONSTANTS
  Representation = {"low", "high"}
  MaxSession = 2
  MaxGeneration = 3
  MaxTime = 3
  BlockSize = 2
  Media <- Some
INVARIANTS NoPictureOfEarlierSeek
PROPERTIES OperationReturns SoundContinuous 
CHECK_DEADLOCK FALSE
