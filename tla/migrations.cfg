CONSTANTS
    r1 = r1 r2 = r2 h1 = h1 h2 = h2
    None = None
    Replicas = {r1, r2}
    Handlers = {h1}
    Last = 2
    PoolSize = 1
    HandlerDeadline = 1
    ReadTimeout = 3
    ShutdownTimeout = 3
    Production = FALSE
    MaxAge = 4
    MaxStarts = 2
SPECIFICATION FairSpec
INVARIANTS TypeOK ServesCompleteSchema DirtyOnlyByDeath
PROPERTY StoppedProcessEnds
