SPECIFICATION FairPlayback
CONSTANTS
  Duration = 4
  Preroll = 1
  LoopGuard = 2
  Steps = {1, 2}
  LateEnd = TRUE
  CallsDuring = {"none"}
  MaxCalls = 1
  MaxOutages = 2
INVARIANTS HeldInSilence
PROPERTIES NoUninvitedLoop 
CHECK_DEADLOCK FALSE
