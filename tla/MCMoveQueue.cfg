SPECIFICATION FairSpec
CONSTANTS
  KinDelay = 1
  StepFlush = 1
  MinKin = 1
  Start = 4
  Low = 5
  High = 7
  FlushLow = 3
  FlushBatch = 1
  FlushExtra = 1
  DripTime = 1
  Short = 1
  Second = 4
  ReadyTimeout = 2
  IdleTimeout = 5
  Moves = {2}
  Dwells = {5}
  MaxQueue = 4
  MaxAhead = 5
  Past = 5
INVARIANTS MovesStartInTime StepsAreAhead
PROPERTIES MovesAreMade HeatersGoOff
