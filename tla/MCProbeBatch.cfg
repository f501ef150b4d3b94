SPECIFICATION FairSpec
CONSTANTS
  Probes = 5
  Lookahead = 2
  Threads = {t1, t2}
  NoThread = NoThread
  MaxCalls = 6
INVARIANT Bounded
INVARIANT InOrder
INVARIANT CollectsAll
PROPERTY CancelEndsPull
PROPERTY OverStopsProbes
PROPERTY CallsReturn
CHECK_DEADLOCK FALSE
