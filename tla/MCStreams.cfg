SPECIFICATION Spec
CONSTANTS
  MaxBlocks = 3
  MaxDeltas = 2
  Burst = 1
INVARIANTS TypeOK ClientOrder SameAnswer NoFalseEnd NothingLost SignedShown
PROPERTY StreamEnds
CHECK_DEADLOCK FALSE
