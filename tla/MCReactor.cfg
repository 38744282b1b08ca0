SPECIFICATION FairSpec
CONSTANTS
  Greenlets = {g1, g2}
  Timers = {t1}
  Callbacks = {c1}
  MaxTime = 2
  MaxPosts = 1
INVARIANTS NoTimerForgotten WaiterIsDue
PROPERTIES UnregisteredIsQuiet DueIsRun PostIsSeen
