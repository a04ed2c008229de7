SPECIFICATION FairSpec
CONSTANTS
  LastFrame = 5
  KeyOf <- TwoWindows
  Corrupt = {2}
  StreamedCapacity = 2
  DecodedCapacity = 2
  MaxGeneration = 1
  MaxSession = 2
INVARIANTS QueuesNeverFail BuiltOnOwnWindow InFlightInOrder AtMostOneLateMesh OneMeshPastEnd
PROPERTIES StreamedDrains
CHECK_DEADLOCK FALSE
