CONSTANTS
  m = m
  a = a
  b = b
  e = e
  Thread = {m, a, b, e}
  Main = m
  None = None
  MaxTime = 1
SPECIFICATION FairSpec
CONSTRAINT FourAwake
INVARIANTS
  TypeOK
  ChainIsList
PROPERTIES
  RoundRobin
  EveryoneRuns
CHECK_DEADLOCK FALSE
