CONSTANTS
  B = 2
SPECIFICATION Spec
CHECK_DEADLOCK FALSE
INVARIANTS
  PiecesMakeOneStream
  AutomatonInStep
PROPERTIES
  WholeDataRight
