SPECIFICATION FairSession
CONSTANTS
  Paths = {"sound", "silent", "remote", "absent", "corrupt", "twoVideos", "noVideoCodec", "noAudioCodec"}
  Media <- FileOf
  MaxOpen = 3
PROPERTIES CloseReturns ImplementsLifecycle
CHECK_DEADLOCK FALSE
