SPECIFICATION Spec
CONSTANTS
  SeqSize = 3
  MaxPending = 2
  BlockMax = 2
  RecvWindow = 4
  Messages = 4
  Queries <- AskedMessages
  MaxLosses = 2
  MaxSpurious = 1
  MaxReports = 1
  MaxEvents = 2
INVARIANTS RunInOrder NothingForgotten NoLateResponse
PROPERTIES TimeIsOfItsBlock
