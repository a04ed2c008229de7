SPECIFICATION FairSpec
CONSTANTS
  Players <- Two
  Block = 2
  Leads = {1, 4}
  Budgets <- Some
INVARIANTS NoUseAfterDestroy ResamplerIsQuiet ClockCountsSound CentroidIsWhole
CHECK_DEADLOCK FALSE
