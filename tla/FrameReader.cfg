SPECIFICATION FairReader
CONSTANTS
  Callers = {c1, c2}
  LastTime = 2
  KeyOf <- Keys
  Landing <- Landings
  NoPair = {1}
  Bytes <- Sizes
  MaxEntries = 2
  MaxBytes = 2
  MaxFile = 2
  MaxControl = 3
INVARIANTS CacheOfOpenFile AnswersWhatWasAsked
PROPERTIES RequestReturns
CHECK_DEADLOCK FALSE
