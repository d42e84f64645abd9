CONSTANTS
  main = main
  a = a
  b = b
  Place = {main, a}
  Main = main
  NoPlace = NoPlace
  Sender = {main}
  Receiver = {a}
  InitialSize = 1
  MaxSends = 2
SPECIFICATION FairSpec
PROPERTIES
  MessageWakesReceiver
CHECK_DEADLOCK FALSE
