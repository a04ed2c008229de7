SPECIFICATION Spec
CONSTANTS
  N = 5
  Setups <- Some
  MaxJobs = 2
INVARIANTS UpdatesDecode CancelKeepsOutputs
PROPERTIES ManifestIsLast
CHECK_DEADLOCK FALSE
