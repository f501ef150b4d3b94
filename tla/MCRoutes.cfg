SPECIFICATION Spec
CONSTANTS
  GALLOP_RATIO = 2
  Absent = 9
  FIRST_PIECE_ROWS = 2
  POINT_GATHER_MAX_ROWS = 1
  BITMAP_BITS_PER_ID = 2
  SPLIT_ROWS = 4
  ZONE_ROWS = 2
  PIECE_GROWTH = 2
  POINT_READ_ROWS = 3
  TAKE_ROWS = 2
  POINT_IDS_PER_SPLIT = 1
  PIN_POINT_MIN_ROWS = 2
  MASK_BITS = 2
  INDEX_ROUTING_MIN_ROWS = 3
  CHAIN_MIN_ROWS = 3
  LOCATED_SET_ROWS_PER_CODE = 3
  KEEP_DECODE_ROWS_PER_ID = 1
  KEEP_PIECE_ROWS = 4
  Stores <- MCStores
  Patterns <- MCPatterns
  Keeps <- MCKeeps
  Pages <- MCPages
  MaxRows = 3
  Parts = {2, 3}
INVARIANTS
  Readable
  ReadsExact
  CountsAgree
  IdsAgree
CHECK_DEADLOCK FALSE
