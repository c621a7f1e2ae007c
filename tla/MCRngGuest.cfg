CONSTANTS
  Threads = {t1, t2}
  Guests = {t2}
  LateClosers = {}
  RefIds = {1, 2}
  SIZE_MAX <- MCSizeMax
  Amounts <- MCAmounts
  Counts = {1, 2}
  KeyLen = 2
  MaxCalls = 3
SPECIFICATION Spec
INVARIANT AssertsHold
CHECK_DEADLOCK FALSE
