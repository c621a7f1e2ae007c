CONSTANTS
  Base = 2
  CtrLen = 2
  Suites <- MCSuites
  Statics = {p1, p2}
  Sessions = {s1, s2}
  TheStatic = p1
  TheSession = s1
  MaxMade = 3
  MaxTaken = 3
  MaxAsked = 2
  MaxTime = 2
  CdfLens <- MCCdfLens
  RdfLens <- MCRdfLens
  CtrBase = 4
  CtrDigits = 2
  MaxSends = 4
  MaxFaults = 2
  MaxCode = 9
  MaxActs = 2
SPECIFICATION MCSpec
INVARIANTS
  PinRight
  OtpRight
  CtrFresh
  AsSent
  CommandsRead
PROPERTY OwnerUnlocks
CHECK_DEADLOCK FALSE
