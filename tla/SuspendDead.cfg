CONSTANTS
  m = m
  a = a
  b = b
  s = s
  Thread = {m, a, b}
  Main = m
  NoThread = NoThread
  Sema = {s}
  Op = {s, m, a, b}
  NoOp = NoOp
  Corners = {"suspend-dead"}
  MaxCount = 1
  MaxUnusual = 2
  MaxWaitedFor = 1
SPECIFICATION Spec
CONSTRAINT FewUnusual
SYMMETRY Interchangeable
INVARIANT NeverCorrupted
CHECK_DEADLOCK FALSE
