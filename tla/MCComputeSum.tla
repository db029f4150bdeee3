--------------------------- MODULE MCComputeSum ---------------------------
EXTENDS ComputeSum, TLC

\* a root with two leaves
MCNodes3 == 0..2
MCParent3 == [x \in MCNodes3 |-> 0]

MCThreads3 == MCNodes3 \cup {Main}
MCBarriers3 == MCNodes3 \cup {CompDone}
MCMutexes3 == MCNodes3 \cup {FuncExec}
=============================================================================
