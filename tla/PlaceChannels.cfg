CONSTANTS
  main = main
  a = a
  b = b
  Place = {main, a, b}
  Main = main
  NoPlace = NoPlace
  Sender = {main, a}
  Receiver = {a, b}
  InitialSize = 1
  MaxSends = 4
SPECIFICATION FairSpec
INVARIANTS
  TypeOK
  MessagesInOrder
  ReferencesCounted
  SleepsOnlyWithoutMessages
PROPERTIES
  KillTakesEffect
CHECK_DEADLOCK FALSE
