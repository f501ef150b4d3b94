CONSTANTS
  Tasks = {t1, t2}
  Names = {a, b}
  Inodes = {i1, i2, i3}
  None = None
  SpecialKinds = {}
  Others = {"relink"}
  Building = {t1, t2}
SPECIFICATION Spec
SYMMETRY Symmetry
INVARIANTS OnlyLateReplacement
PROPERTIES MappingsAreStable
CHECK_DEADLOCK FALSE
