CONSTANTS
  B = 6
  Addr = {1, 2, 3}
  HeaderSize = 1
  PageSize = 3
  MaxSize = 4
  Octet = {1}
SPECIFICATION Spec
CHECK_DEADLOCK FALSE
INVARIANTS
  SignaturesRight
  KeysAgree
  ParametersGood
  SecretShared
  BlobsKept
