CONSTANTS
  Tasks = {t1, t2}
  Names = {a}
  Inodes = {i1, i2, i3, i4}
  None = None
  SpecialKinds = {}
  Others = {}
  Building = {}
SPECIFICATION Spec
SYMMETRY InodeSymmetry
PROPERTIES ReplacesOnlyOpened
CHECK_DEADLOCK FALSE
