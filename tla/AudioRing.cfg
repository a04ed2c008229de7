SPECIFICATION Spec
CONSTANTS
  Size = 3
  Reserve = 2
  Packet = 2
  Block = 2
  MaxTime = 4
  MaxSeek <- Seeks
  MaxPosition = 8
  Wrap = 32
INVARIANTS SoundInOrder ReadTimeIsExact NoUnderflow
CHECK_DEADLOCK FALSE
