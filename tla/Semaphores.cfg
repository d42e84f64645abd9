CONSTANTS
  m = m
  a = a
  b = b
  s = s
  Thread = {m, a, b}
  Main = m
  NoThread = NoThread
  Sema = {s}
  Op = {s, m, a, b}
  NoOp = NoOp
  Corners = {}
  MaxCount = 1
  MaxUnusual = 2
  MaxWaitedFor = 1
SPECIFICATION Spec
CONSTRAINT FewUnusual
SYMMETRY Interchangeable
INVARIANTS
  TypeOK
  NeverCorrupted
  SuspendedStaysOut
  NoThreadLost
  QueuedCanTake
  NoIdleUnit
  NoStuckBreak
CHECK_DEADLOCK FALSE
PROPERTIES
  DeadForever
  FairLines
