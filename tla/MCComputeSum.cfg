\* computesum.c on a root with two leaves; the library has 100 slots in the
\* code, 3 are enough for 3 node threads
CONSTANTS
  Main = Main
  NoThread = NoThread
  CompDone = CompDone
  FuncExec = FuncExec
  Nodes <- MCNodes3
  Parent <- MCParent3
  Threads <- MCThreads3
  Barriers <- MCBarriers3
  Mutexes <- MCMutexes3
  LeafVals = {1, 2}
  ThreadsMax = 3
SPECIFICATION Spec
INVARIANT TypeOK
INVARIANT PartialSumsComplete
INVARIANT ResultCorrect
INVARIANT JoinedBeforeExit
PROPERTY Termination
