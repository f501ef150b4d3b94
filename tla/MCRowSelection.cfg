SPECIFICATION Spec
CONSTANTS
  N = 5
  MaxOffset = 5
  GALLOP_RATIO = 1
INVARIANT SelectsExactly
INVARIANT PiecesPartition
