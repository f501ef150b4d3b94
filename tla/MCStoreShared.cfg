\* Two handles over one file and one generation counter.
CONSTANTS
  Quads <- MCFewQuads
  Handles = {h1, h2}
  Indexes = {}
  Hash <- MCNoHash
  PartialPatterns <- MCFewPatterns
  Batches <- MCOneBatch
  MaxGeneration = 3
  MaxFiles = 2
  MaxWindow = 0
  AUTO_COMPACT_TAIL_FLOOR = 1
  AUTO_COMPACT_BASE_RATIO = 1
  AUTO_COMPACT_TAIL_CAP = 2
SYMMETRY Symmetry
VIEW View
SPECIFICATION Spec
INVARIANTS GenerationIdentifiesData
CHECK_DEADLOCK FALSE
