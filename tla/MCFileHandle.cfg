CONSTANTS
    Literals <- MCLiterals
    Iris <- MCIris
    Blanks <- MCBlanks
    Underscore <- MCUnderscore
    Canonical <- MCCanonical
    Unclosed <- MCUnclosed
    MemoMinRows = 2
    MemoMaxSlots = 2
    MemoTrial = 3
    MemoMissesPerHit = 2
    Buckets = 2
    Failed = Failed
    None = None
    Threads = {t1, t2}
    Files <- MCFiles
    Queries <- MCQueries
    Shapes = {s1, s2, s3}
    Columns = {c1, c2}
    OnceColumns = {c1}
    Workloads <- MCWorkloads
    Budget = 30
    Overhead = 2
    MemoCap = 2
SPECIFICATION Spec
INVARIANT ResidencyAgrees
INVARIANT CacheAccounted
INVARIANT IdentitiesPinned
INVARIANT AskedInGeneration
INVARIANT HandlesShared
PROPERTY TreesNeverGoBack
CHECK_DEADLOCK FALSE
