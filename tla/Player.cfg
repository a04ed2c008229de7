SPECIFICATION FairSpec
CONSTANTS
  LastFrame = 3
  NoMesh = {3}
  VideoCapacity = 2
  GeometryCapacity = 1
  StreamedCapacity = 1
  DecodedCapacity = 1
  Lookahead = 1
  MaxGeneration = 1
  HostSerialises = TRUE
PROPERTIES EveryPassPlaysOut ImplementsStream
CHECK_DEADLOCK FALSE
