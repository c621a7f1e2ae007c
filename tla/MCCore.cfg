CONSTANTS
  B = 4
  OB = 2
  S = 2
  Impossible = 5
  Threads = {t1, t2, t3}
  SIZE_MAX <- MCSizeMax
  Users = {u1, u2}
  Fns = {f, g}
  Nested = {g}
  MaxRegs = 4
SPECIFICATION CoreSpec
INVARIANTS
  ExactlyOnce
  ReturnAfterFn
  ListLifo
  AllCalled
PROPERTIES
  CallReturns
  ExitEnds
  ArithmeticRight
  PolysRight
  PointsRight
  CodesRead
CHECK_DEADLOCK FALSE
