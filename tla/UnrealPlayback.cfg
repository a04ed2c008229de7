SPECIFICATION FairSpec
CONSTANTS
  Bandwidth <- Rungs
  Duration = 4
  Segment = 1
  Lead = 2
  DowngradeDwell = 1
  UpgradeDwell = 2
  FirstBackoff = 1
  LastBackoff = 2
  Transfers = {3, 16}
  Downloads = {0, 8}
  UploadSlots = 2
  EarlyEnd = FALSE
  Setups <- Some
INVARIANTS NoStaleSound PendingIsNear NoTornUpload
PROPERTIES DowngradeIsSustained
CHECK_DEADLOCK FALSE
