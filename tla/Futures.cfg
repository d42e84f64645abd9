CONSTANTS
  v = v
  w = w
  N = 3
  Worker = {v, w}
  NoWorker = NoWorker
  MaxCalls = 2
  MaxPosts = 1
  MaxTouch = 1
SPECIFICATION FairSpec
INVARIANTS
  TypeOK
  QueueIsPending
  OneRunner
  WaitersAreKnown
  NobodyLeftInLine
PROPERTIES
  TouchReturns
CONSTRAINT FewCalls
CHECK_DEADLOCK FALSE
