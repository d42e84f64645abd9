CONSTANTS
  main = main
  a = a
  b = b
  Place = {main, a, b}
  Main = main
  NoPlace = NoPlace
  InitialSize = 3
  MaxRequests = 2
SPECIFICATION FairSpec
INVARIANTS
  TypeOK
  NeverAborts
  StopTheWorld
  TokensAreForWaiters
PROPERTIES
  RequestServed
  EveryoneComesBack
CHECK_DEADLOCK FALSE
