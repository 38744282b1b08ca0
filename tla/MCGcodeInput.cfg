SPECIFICATION InputFairSpec
CONSTANTS
  Pty = pty
  g1 = g1
  g2 = g2
  Greenlets <- AllGreenlets
  MaxPending = 3
  MaxLines = 5
INVARIANTS MutualExclusion LinesInOrder StopIsHeard
PROPERTIES ServesInOrder EveryLineRuns
