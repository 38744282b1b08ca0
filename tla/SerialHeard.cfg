SPECIFICATION FairSpec
CONSTANTS
  SeqSize = 4
  MaxPending = 3
  BlockMax = 1
  RecvWindow = 2
  Messages = 3
  Queries <- AskedMessages
  MaxLosses = 2
  MaxSpurious = 0
  MaxReports = 1
  MaxEvents = 2
INVARIANTS WindowHolds
PROPERTIES EveryMessageRuns EveryQueryIsHeard
