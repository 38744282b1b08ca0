SPECIFICATION Spec
CONSTANTS
  Clients = {c1}
  Sensors = {s1}
  Nobody = nobody
  Files <- PauseFiles
  Commands <- FileCommands
  Chunk = 2
  MayFail = TRUE
  MayStop = TRUE
INVARIANTS ResumesWhereItStopped
PROPERTIES ShutdownIsFinal
