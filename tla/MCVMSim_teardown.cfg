CONSTANTS
    K = 2
    M = 3
    F = 2
    TsBound = 40
    Workloads <- MCWorkloads
SPECIFICATION Spec
INVARIANT CompletionMeansExited
