CONSTANTS
  m = m
  a = a
  b = b
  Thread = {m, a, b}
  Main = m
  NoThread = NoThread
  Receive = Receive
  Op = {Receive}
  NoOp = NoOp
  Corners = {}
  x = x
  y = y
  Message = {x, y}
  MaxUnusual = 2
  MaxReceivers = 1
SPECIFICATION Spec
CONSTRAINT FewUnusual
SYMMETRY Interchangeable
INVARIANTS
  TypeOK
  NeverCorrupted
  MailInOrder
  WaitsOnlyWithoutMail
  FlagMeansBlocked
CHECK_DEADLOCK FALSE
