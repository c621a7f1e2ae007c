CONSTANTS
  Q = 5
  TwoL = 2
  HashT <- MCHashT
  PrivKeys = {1, 2}
  Flags <- MCAllFlags
  Hellos = {h1, h2}
  MaxSlips = 1
  MaxFaults = 1
  Protocols = {"bmqv", "bsts", "bpace", "bauth"}
  Levels = {128}
  NR = 2
  MaxBlocks = 2
SPECIFICATION MCSpec
INVARIANTS
  KeysConfirmed
  SameView
  PartnersBound
  PartnersServed
  MemoryBack
PROPERTIES
  Agrees
  EveryRunEnds
CHECK_DEADLOCK FALSE
