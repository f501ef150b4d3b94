CONSTANTS
  Tasks = {t1}
  Names = {a}
  Inodes = {i1, i2, i3}
  None = None
  SpecialKinds = {"device", "pipe", "dir"}
  Others = {"unlink", "permissions"}
  Building = {t1}
SPECIFICATION FairSpec
INVARIANTS NameIsComplete NoTempLeftBehind
PROPERTIES AcknowledgedRowsShow WritesEnd
CHECK_DEADLOCK FALSE
