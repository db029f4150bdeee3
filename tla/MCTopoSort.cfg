\* boss.c/worker.c on a diamond 0 -> {1, 2} -> 3 plus an isolated node 4,
\* workers started after "Setup done"
CONSTANTS
  N = 5
  Edges <- MCDiamond
  EarlyStart = FALSE
SPECIFICATION Spec
INVARIANT TypeOK
INVARIANT ExclusiveInsert
INVARIANT TopoOrder
