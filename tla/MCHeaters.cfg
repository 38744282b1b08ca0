SPECIFICATION FairSpec
CONSTANTS
  Extruders = {e0, e1, e2}
  Nobody = nobody
  MaxHeating = 2
  MaxTemp = 1
  Requests = {1, 2}
  MayStop = TRUE
INVARIANTS PowerBudget OffStaysOff
PROPERTIES WaitEnds
