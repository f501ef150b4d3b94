SPECIFICATION Spec
CONSTANTS
  Word = 10
  FL_CHUNK = 4
  LANES = 2
  INTERPOLATION_STEPS = 2
  INTERPOLATION_MIN = 1
  UNPACK_ONE_BY_ONE = 1
  UNPACK_CROSSOVER = 2
  Tasks = {1, 2}
  Columns <- MCColumns
  Queries <- MCQueries
  Rivals <- MCRivals
  MaxFaults = 1
INVARIANT AnswersExact
INVARIANT WindowLocal
CHECK_DEADLOCK FALSE
