----------------------------- MODULE TopoSort -----------------------------
(***************************************************************************)
(* boss.c and worker.c (Assignment 5): n worker processes, one per graph   *)
(* node, write a topological order into the shared array T.  Semaphore    *)
(* sync[i] starts at the in-degree of node i; worker i waits for it to be *)
(* zero, takes mtx, appends i at T[idx++], decrements sync[j] for each     *)
(* edge i -> j and posts ntfy.  The boss posts mtx once per ntfy it takes *)
(* (ntfy starts at 1), stops once idx = n, and checks T.                  *)
(*                                                                         *)
(* One step per semop; the plain reads and writes of shared memory after a *)
(* semop go with it, except the boss's read of *idx after V(mtx), which a  *)
(* worker may overtake.  The semaphores and segments come from semget and  *)
(* shmget with IPC_CREAT: a worker started before the boss's SETVALs finds *)
(* them zero.  EarlyStart says whether workers may start that early.      *)
(***************************************************************************)
EXTENDS Integers, FiniteSets, FiniteSetsExt

CONSTANTS
  N,           \* n, the number of nodes
  Edges,       \* the edges of graph.txt's adjacency matrix, a DAG
  EarlyStart   \* may a worker run before the boss has set the semaphores up

Nodes == 0..N-1
Succ(i) == {j \in Nodes : <<i, j>> \in Edges}
InDeg(j) == Cardinality({i \in Nodes : <<i, j>> \in Edges})

ASSUME Edges \subseteq Nodes \X Nodes /\ EarlyStart \in BOOLEAN

VARIABLES
  sync, mtx, ntfy,   \* the System V semaphores
  T, idx,            \* the shared array and index
  bpc, done, correct,
  wpc,               \* per worker: its point in main
  rest               \* per worker: the successors whose sync it has not yet decremented

vars == <<sync, mtx, ntfy, T, idx, bpc, done, correct, wpc, rest>>

Init ==
  /\ sync = [j \in Nodes |-> 0] /\ mtx = 0 /\ ntfy = 0
  /\ T = [k \in Nodes |-> 0] /\ idx = 0
  /\ bpc = "setup" /\ done = 0 /\ correct = 1
  /\ wpc = [w \in Nodes |-> "idle"]
  /\ rest = [w \in Nodes |-> Succ(w)]

-----------------------------------------------------------------------------
(* The code's check of T: indeg[T[i]] must be 0, then T[i]'s edges are    *)
(* removed; the first non-zero in-degree makes the output wrong.  The boss *)
(* checks only once idx = n, so every T[k] is a node; an entry that is not *)
(* (indeg[-1] in C, outside the array) is taken as a failed check.         *)

RECURSIVE CheckFrom(_, _)
CheckFrom(k, indeg) ==
  IF k = N THEN 1
  ELSE IF T[k] \notin Nodes \/ indeg[T[k]] /= 0 THEN 0
  ELSE CheckFrom(k + 1, [j \in Nodes |-> IF <<T[k], j>> \in Edges THEN indeg[j] - 1 ELSE indeg[j]])

-----------------------------------------------------------------------------
(* boss *)

\* fill A, T[i] = -1, *idx = 0, SETVAL sync[i] = indeg[i], mtx = 0, ntfy = 1
BossSetup ==
  /\ bpc = "setup"
  /\ T' = [k \in Nodes |-> -1] /\ idx' = 0
  /\ sync' = [j \in Nodes |-> InDeg(j)] /\ mtx' = 0 /\ ntfy' = 1
  /\ bpc' = "loop"
  /\ UNCHANGED <<done, correct, wpc, rest>>

\* mutant: V(mtx) without first taking a ntfy
BossGrantNoWait ==
  /\ bpc = "loop"
  /\ done' = done + 1 /\ mtx' = mtx + 1
  /\ bpc' = "test"
  /\ UNCHANGED <<sync, ntfy, T, idx, correct, wpc, rest>>

\* P(ntfy); done++; V(mtx)
BossGrant ==
  /\ bpc = "loop" /\ ntfy > 0
  /\ ntfy' = ntfy - 1 /\ done' = done + 1 /\ mtx' = mtx + 1
  /\ bpc' = "test"
  /\ UNCHANGED <<sync, T, idx, correct, wpc, rest>>

\* if (*idx == n) break
BossTest ==
  /\ bpc = "test"
  /\ bpc' = IF idx = N THEN "check" ELSE "loop"
  /\ UNCHANGED <<sync, mtx, ntfy, T, idx, done, correct, wpc, rest>>

\* print T, run the check, remove the semaphores and segments
BossCheck ==
  /\ bpc = "check"
  /\ correct' = CheckFrom(0, [j \in Nodes |-> InDeg(j)])
  /\ bpc' = "removed"
  /\ UNCHANGED <<sync, mtx, ntfy, T, idx, done, wpc, rest>>

-----------------------------------------------------------------------------
(* worker i *)

\* the worker is started: after "Setup done", or at any time if EarlyStart
WorkerStart(w) ==
  /\ wpc[w] = "idle" /\ (EarlyStart \/ bpc /= "setup")
  /\ wpc' = [wpc EXCEPT ![w] = "zero"]
  /\ UNCHANGED <<sync, mtx, ntfy, T, idx, bpc, done, correct, rest>>

\* semop(sync[i], 0): wait until sync[i] is zero
WorkerWaitZero(w) ==
  /\ wpc[w] = "zero" /\ sync[w] = 0
  /\ wpc' = [wpc EXCEPT ![w] = "mtx"]
  /\ UNCHANGED <<sync, mtx, ntfy, T, idx, bpc, done, correct, rest>>

\* mutant: the worker tests mtx without taking it
WorkerInsertNoTake(w) ==
  /\ wpc[w] = "mtx" /\ mtx > 0
  /\ T' = [T EXCEPT ![idx] = w]
  /\ idx' = idx + 1
  /\ wpc' = [wpc EXCEPT ![w] = "edges"]
  /\ UNCHANGED <<mtx, sync, ntfy, bpc, done, correct, rest>>

\* mutant: T[++(*idx)] = i, the index bumped before the store
WorkerInsertPreIncrement(w) ==
  /\ wpc[w] = "mtx" /\ mtx > 0
  /\ mtx' = mtx - 1
  /\ T' = [T EXCEPT ![idx + 1] = w]
  /\ idx' = idx + 1
  /\ wpc' = [wpc EXCEPT ![w] = "edges"]
  /\ UNCHANGED <<sync, ntfy, bpc, done, correct, rest>>

\* P(mtx); T[*idx] = i; *idx = *idx + 1
WorkerInsert(w) ==
  /\ wpc[w] = "mtx" /\ mtx > 0
  /\ mtx' = mtx - 1
  /\ T' = [T EXCEPT ![idx] = w]
  /\ idx' = idx + 1
  /\ wpc' = [wpc EXCEPT ![w] = "edges"]
  /\ UNCHANGED <<sync, ntfy, bpc, done, correct, rest>>

\* for each edge i -> j in order of j: semop(sync[j], -1)
WorkerRelease(w) ==
  /\ wpc[w] = "edges" /\ rest[w] /= {}
  /\ LET j == Min(rest[w]) IN
       /\ sync[j] > 0
       /\ sync' = [sync EXCEPT ![j] = @ - 1]
       /\ rest' = [rest EXCEPT ![w] = @ \ {j}]
  /\ UNCHANGED <<mtx, ntfy, T, idx, bpc, done, correct, wpc>>

\* V(ntfy), detach, return (after the boss removed ntfy the semop fails)
WorkerNotify(w) ==
  /\ wpc[w] = "edges" /\ rest[w] = {}
  /\ ntfy' = IF bpc = "removed" THEN ntfy ELSE ntfy + 1
  /\ wpc' = [wpc EXCEPT ![w] = "exited"]
  /\ UNCHANGED <<sync, mtx, T, idx, bpc, done, correct, rest>>

Boss == BossSetup \/ BossGrant \/ BossTest \/ BossCheck
Worker(w) == WorkerStart(w) \/ WorkerWaitZero(w) \/ WorkerInsert(w)
             \/ WorkerRelease(w) \/ WorkerNotify(w)

\* every process has returned
Finished == bpc = "removed" /\ \A w \in Nodes : wpc[w] = "exited" /\ UNCHANGED vars

Next == Boss \/ (\E w \in Nodes : Worker(w)) \/ Finished

\* the kernel runs every process whose semop can complete
Spec == Init /\ [][Next]_vars /\ WF_vars(Boss) /\ \A w \in Nodes : WF_vars(Worker(w))

-----------------------------------------------------------------------------
(* Properties *)

TypeOK ==
  /\ sync \in [Nodes -> Nat] /\ mtx \in 0..1 /\ ntfy \in 0..1
  /\ T \in [Nodes -> Nodes \cup {-1, 0}] /\ idx \in 0..N
  /\ wpc \in [Nodes -> {"idle", "zero", "mtx", "edges", "exited"}]

\* a worker holds mtx from P(mtx) until its V(ntfy)
InCritical(w) == wpc[w] = "edges"

\* At most one worker is between P(mtx) and V(ntfy): the boss posts mtx
\* only after it takes a ntfy, so the appends to T and the idx++ of two
\* workers never interleave.
ExclusiveInsert == \A v, w \in Nodes : InCritical(v) /\ InCritical(w) => v = w

\* When the boss checks T, every node is in it, and each node comes after
\* all its predecessors: "Well done, my team".
TopoOrder ==
  bpc = "removed" =>
    /\ {T[k] : k \in Nodes} = Nodes
    /\ \A k, l \in Nodes : <<T[l], T[k]>> \in Edges => l < k
    /\ correct = 1

=============================================================================
