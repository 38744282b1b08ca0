SPECIFICATION FairSpec
CONSTANTS
  Clients = {c1}
  Sensors <- NoSensors
  Nobody = nobody
  Files <- MixedFiles
  Commands <- ToolCommands
  Chunk = 3
  MayFail = TRUE
  MayStop = TRUE
INVARIANTS RightTool
PROPERTIES StopReturns
