CONSTANTS
  B = 6
  Addr = {1}
  HeaderSize = 1
  PageSize = 3
  MaxSize = 1
  Octet = {1}
SPECIFICATION Spec
CHECK_DEADLOCK FALSE
INVARIANTS
  SignedAccepted
