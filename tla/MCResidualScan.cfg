SPECIFICATION Spec
CONSTANTS
  Columns = {1, 2}
  Tables <- MCTables
  Starts <- MCStarts
  Equalities <- MCEqualities
  Tombstones <- MCTombstones
  ZoneKinds <- MCZoneKinds
  ZONE_ROWS = 3
  MAX_VALUES = 2
  PIECE_GROWTH = 2
  MaxRows = 4
  GALLOP_RATIO = 1
INVARIANT MatchIsExact
INVARIANT CountsAreExact
INVARIANT WindowsAreExact
CHECK_DEADLOCK FALSE
