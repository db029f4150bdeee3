CONSTANTS
    K = 2
    M = 3
    F = 2
    TsBound = 40
    Workloads <- MCWorkloads

SPECIFICATION Spec

INVARIANT TypeOK
INVARIANT FrameOwnership
INVARIANT ExclusiveRun
INVARIANT SingleEntry
INVARIANT CompletionSound
INVARIANT HelloNotStolen
PROPERTY LRUEviction
PROPERTY AllComplete
