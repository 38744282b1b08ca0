SPECIFICATION FairSpec
CONSTANTS
  Chunks <- ShippedChunks
  Versions = {1}
  Scripts = {"network", "local"}
  MaxRuns = 2
  MaxBoots = 1
INVARIANTS BootsWhole RunningSlotUntouched
PROPERTIES WritersLeave ScriptEnds
CHECK_DEADLOCK FALSE
