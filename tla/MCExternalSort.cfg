SPECIFICATION FairSpec
CONSTANTS
  Builds <- MCBuilds
  TERM_CAP = 3
  ROW_LIMIT = 3
  STAMPS = 2
INVARIANT BuildersAgree
INVARIANT FamiliesAgree
INVARIANT RunsHoldInput
INVARIANT RunsFollowReaders
PROPERTY FirstMergeEnds
CHECK_DEADLOCK FALSE
