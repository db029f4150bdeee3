\* three threads reusing one barrier of three parties
CONSTANTS
  Threads = {t1, t2, t3}
  Main = t1
  NoThread = NoThread
  B = B
  Barriers = {B}
  Mutexes = {}
  ThreadsMax = 3
SPECIFICATION Spec
INVARIANT TypeOK
PROPERTY BarrierRefinement
