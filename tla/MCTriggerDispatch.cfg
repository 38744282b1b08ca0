SPECIFICATION Spec
CONSTANTS
  Boards = {b0, b1}
  First = b0
  Nobody = nobody
  Expire = 2
  Report = 1
  Extend = 1
  MaxTime = 3
  MaxRounds = 2
INVARIANTS StopTogether EndIsOfThisMove NothingLeftOver HitMeansHit
CHECK_DEADLOCK FALSE
