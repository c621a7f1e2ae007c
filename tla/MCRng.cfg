CONSTANTS
  Threads = {t1, t2}
  Guests = {}
  LateClosers = {}
  RefIds = {1}
  SIZE_MAX <- MCSizeMax
  Amounts <- MCAmounts
  Counts = {1, 2}
  KeyLen = 2
  MaxCalls = 4
SPECIFICATION FairSpec
INVARIANTS
  MutexHeld
  RefsRight
  AssertsHold
  OutputFresh
PROPERTIES
  NobodyStuck
  ServesStream
CHECK_DEADLOCK FALSE
