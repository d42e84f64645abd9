CONSTANTS
  v = v
  w = w
  N = 2
  Worker = {v, w}
  NoWorker = NoWorker
  MaxCalls = 1
  MaxPosts = 1
  MaxTouch = 1
SPECIFICATION FairSpec
INVARIANTS
  CountNotNegative
CHECK_DEADLOCK FALSE
