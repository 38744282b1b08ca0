SPECIFICATION Spec
CONSTANTS
  Clients = {c1, c2}
  Sensors <- NoSensors
  Nobody = nobody
  Files <- PlainFiles
  Commands <- StopCommands
  Chunk = 3
  MayFail = TRUE
  MayStop = FALSE
INVARIANTS ReportsPrinting ClosesOpenFile
PROPERTIES CompleteMeansWhole StopIsFinal
