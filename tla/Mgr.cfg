CONSTANT PTSize = 4
SPECIFICATION Spec
INVARIANT TypeOK
INVARIANT TableMatchesKernel
INVARIANT NoneLeftAtExit
PROPERTY ExecedJobReturns
