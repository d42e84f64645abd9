CONSTANTS
  m = m
  a = a
  b = b
  c = c
  v = v
  w = w
  Thread = {m, a, b}
  Main = m
  NoThread = NoThread
  Channel = {c}
  Value = {v, w}
  NoValue = NoValue
  Op <- MCOp
  NoOp = NoOp
  Corners = {}
  MaxUnusual = 2
SPECIFICATION Spec
CONSTRAINT FewUnusual
SYMMETRY Interchangeable
INVARIANTS
  TypeOK
  PutExactlyOnce
  GetHasValue
  NobodyMissesPartner
  LinesAreWaiters
CHECK_DEADLOCK FALSE
