SPECIFICATION FairSource
CONSTANTS
  LastBlock = 3
  BlockSize = 2
  CacheBytes = 6
  ReadAhead = 2
  FragmentAhead = 2
  Layouts <- Files
  Retries = 1
  Failures = {"retryable", "fatal"}
  MaxRead = 2
  MayCancel = TRUE
INVARIANT NeverAsleepInVain
PROPERTY CallsReturn
CHECK_DEADLOCK FALSE
