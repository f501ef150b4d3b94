\* One handle at a time, one index: every store a chain of operations can make.
CONSTANTS
  Quads <- MCQuads
  Handles = {h1}
  Indexes = {posg}
  Hash <- MCHash
  PartialPatterns <- MCPartialPatterns
  Batches <- MCBatches
  MaxGeneration = 4
  MaxFiles = 2
  MaxWindow = 1
  AUTO_COMPACT_TAIL_FLOOR = 2
  AUTO_COMPACT_BASE_RATIO = 1
  AUTO_COMPACT_TAIL_CAP = 3
VIEW View
SPECIFICATION Spec
INVARIANTS TypeOK SetSemantics IndexesAddressBase KeysAddressTail
PROPERTY ImplementsDataset
CHECK_DEADLOCK FALSE
