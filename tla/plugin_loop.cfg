SPECIFICATION FairSpec
CONSTANTS
    g1 = g1  g2 = g2
    NotRead = NotRead
    Games = {g1, g2}
    MaxChanges = 2
    MaxCalls = 2
    MaxFailures = 1
    MaxCooling = 1
INVARIANTS
    TypeOK
    ToldIsCached
    QuietIsCurrent
    UnpushedIsMarked
PROPERTIES
    ChangesAreTold
    CacheIsPushed
CHECK_DEADLOCK FALSE
