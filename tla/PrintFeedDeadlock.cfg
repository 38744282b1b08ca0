SPECIFICATION FairSpec
CONSTANTS
  Clients = {c1}
  Sensors <- NoSensors
  Nobody = nobody
  Files <- FeedFiles
  Commands <- StopCommands
  Chunk = 3
  MayFail = FALSE
  MayStop = FALSE
PROPERTIES StopReturns
