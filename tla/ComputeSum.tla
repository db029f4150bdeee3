---------------------------- MODULE ComputeSum ----------------------------
(***************************************************************************)
(* computesum.c (Assignment 7), the client of the foothread library: one   *)
(* thread per tree node.  Node x waits on barrier[x] (num_child[x] + 1     *)
(* parties) until its children have added their partial sums to sum[x],   *)
(* then, under mutex func_exec, a leaf reads its value and an internal     *)
(* node prints sum[x]; x adds sum[x] to sum[parent] under mutex_sum[parent]*)
(* and waits on its parent's barrier (the root sets total_sum and waits on *)
(* computation_done with the main thread).  The main thread creates the    *)
(* threads, waits on computation_done, prints total_sum, destroys every    *)
(* barrier and mutex and joins the threads in foothread_exit.              *)
(***************************************************************************)
EXTENDS Foothread, FiniteSetsExt

CONSTANTS
  Nodes,       \* 0..n-1, the tree nodes read from tree.txt
  Parent,      \* parent[]: the root is its own parent
  LeafVals,    \* the positive integers a leaf may read with scanf
  CompDone,    \* the barrier computation_done
  FuncExec     \* the mutex func_exec

ASSUME Nodes = 0..Cardinality(Nodes)-1 /\ Parent \in [Nodes -> Nodes]
ASSUME Threads = Nodes \cup {Main} /\ Main \notin Nodes
ASSUME Barriers = Nodes \cup {CompDone} /\ Mutexes = Nodes \cup {FuncExec}

Root == CHOOSE x \in Nodes : Parent[x] = x
Children(x) == {c \in Nodes \ {x} : Parent[c] = x}
NoValue == -1

\* the partial sum a node's subtree should yield: its leaves' values
RECURSIVE SubtreeSum(_, _)
SubtreeSum(x, leaf_val) ==
  IF Children(x) = {} THEN leaf_val[x]
  ELSE MapThenSumSet(LAMBDA c : SubtreeSum(c, leaf_val), Children(x))

VARIABLES
  sum,        \* sum[]: partial sums
  total_sum,
  leaf_val,   \* the value each leaf read (0 until it reads)
  i,          \* the main thread's loop index
  printed     \* the total_sum main printed, NoValue before

clientVars == <<sum, total_sum, leaf_val, i, printed>>
vars == <<libVars, clientVars>>

\* mutant: computation_done initialised for one party
BarrierSizeMainAlone == [b \in Barriers |-> IF b = CompDone THEN 1 ELSE Cardinality(Children(b)) + 1]

\* barrier_init(&barrier[i], num_child[i] + 1); barrier_init(&computation_done, 2)
BarrierSize == [b \in Barriers |-> IF b = CompDone THEN 2 ELSE Cardinality(Children(b)) + 1]

Init ==
  /\ LibInit(BarrierSize)
  /\ pc = [t \in Threads |-> IF t = Main THEN "mCreate" ELSE "new"]
  /\ at = [t \in Threads |-> t]
  /\ ret = [t \in Threads |-> "none"]
  /\ sum = [x \in Nodes |-> 0]
  /\ total_sum = 0
  /\ leaf_val = [x \in Nodes |-> 0]
  /\ i = 0
  /\ printed = NoValue

-----------------------------------------------------------------------------
(* main *)

\* for (i < n) foothread_create(&threads[i], JOINABLE, compute_sum, i);
\* then foothread_barrier_wait(&computation_done)
MainCreate ==
  /\ Running /\ pc[Main] = "mCreate"
  /\ IF i \in Nodes THEN Call(Main, "fcClone", i, "mCreate")
                    ELSE Call(Main, "bwEnter", CompDone, "mPrint")
  /\ i' = IF i \in Nodes THEN i + 1 ELSE 0
  /\ UNCHANGED <<maxt, idx, barrier, mutex, manager, manager_mutex, init_done, proc,
                 sum, total_sum, leaf_val, printed>>

\* printf total_sum, then the clean-up loop
MainPrint ==
  /\ Running /\ pc[Main] = "mPrint"
  /\ printed' = total_sum
  /\ Goto(Main, "mDestroy")
  /\ UNCHANGED <<maxt, idx, barrier, mutex, manager, manager_mutex, init_done, proc,
                 sum, total_sum, leaf_val, i>>

\* barrier_destroy(&barrier[i]); mutex_destroy(&mutex_sum[i]) for each i,
\* then computation_done and func_exec, then foothread_exit()
MainDestroy ==
  /\ Running
  /\ \/ /\ pc[Main] = "mDestroy"
        /\ IF i \in Nodes THEN Call(Main, "bdestroy", i, "mDestroyMutex")
                          ELSE Call(Main, "bdestroy", CompDone, "mDestroyLast")
        /\ UNCHANGED i
     \/ /\ pc[Main] = "mDestroyMutex"
        /\ Call(Main, "mdestroy", i, "mDestroy")
        /\ i' = i + 1
     \/ /\ pc[Main] = "mDestroyLast"
        /\ Call(Main, "mdestroy", FuncExec, "meRead")
        /\ UNCHANGED i
  /\ UNCHANGED <<maxt, idx, barrier, mutex, manager, manager_mutex, init_done, proc,
                 sum, total_sum, leaf_val, printed>>

-----------------------------------------------------------------------------
(* compute_sum(node_id) *)

\* a step of compute_sum that calls the library and changes nothing else
NodeCall(x, from, entry, obj, r) ==
  /\ Running /\ pc[x] = from
  /\ Call(x, entry, obj, r)
  /\ UNCHANGED <<maxt, idx, barrier, mutex, manager, manager_mutex, init_done, proc>>

NodeStep(x) ==
  \/ /\ NodeCall(x, "fsStart", "bwEnter", x, "csIO")
     /\ UNCHANGED clientVars
  \/ /\ NodeCall(x, "csIO", "mlock", FuncExec, "csRead")
     /\ UNCHANGED clientVars
  \* a leaf reads its value with scanf, then locks its own mutex_sum
  \/ /\ Children(x) = {}
     /\ \E v \in LeafVals :
          /\ NodeCall(x, "csRead", "mlock", x, "csStoreLeaf")
          /\ leaf_val' = [leaf_val EXCEPT ![x] = v]
     /\ UNCHANGED <<sum, total_sum, i, printed>>
  \/ /\ Children(x) /= {}
     /\ NodeCall(x, "csRead", "mlock", x, "csShow")
     /\ UNCHANGED clientVars
  \/ /\ NodeCall(x, "csStoreLeaf", "munlock", x, "csIOEnd")
     /\ sum' = [sum EXCEPT ![x] = leaf_val[x]]
     /\ UNCHANGED <<total_sum, leaf_val, i, printed>>
  \/ /\ NodeCall(x, "csShow", "munlock", x, "csIOEnd")
     /\ UNCHANGED clientVars
  \/ /\ NodeCall(x, "csIOEnd", "munlock", FuncExec, "csAdd")
     /\ UNCHANGED clientVars
  \/ /\ NodeCall(x, "csAdd", "mlock", Parent[x], "csAdded")
     /\ UNCHANGED clientVars
  \* under mutex_sum[parent]: sum[parent] += sum[node] unless x is the root
  \/ /\ NodeCall(x, "csAdded", "munlock", Parent[x], "csNotify")
     /\ sum' = IF x /= Parent[x] THEN [sum EXCEPT ![Parent[x]] = @ + sum[x]] ELSE sum
     /\ UNCHANGED <<total_sum, leaf_val, i, printed>>
  \* the root publishes total_sum and meets main; others meet their parent
  \/ /\ x = Root
     /\ NodeCall(x, "csNotify", "bwEnter", CompDone, "csExit")
     /\ total_sum' = sum[x]
     /\ UNCHANGED <<sum, leaf_val, i, printed>>
  \/ /\ x /= Root
     /\ NodeCall(x, "csNotify", "bwEnter", Parent[x], "csExit")
     /\ UNCHANGED clientVars
  \/ /\ NodeCall(x, "csExit", "feRead", x, "done")
     /\ UNCHANGED clientVars

\* exit(EXIT_SUCCESS) in main ends the process
Finished == proc = "exited" /\ UNCHANGED vars

ThreadStep(t) ==
  \/ LibStep(t) /\ UNCHANGED clientVars
  \/ t = Main /\ (MainCreate \/ MainPrint \/ MainDestroy)
  \/ t \in Nodes /\ NodeStep(t)

Next == (\E t \in Threads : ThreadStep(t)) \/ Finished

\* every thread is a kernel task the scheduler keeps running
Fairness == \A t \in Threads : WF_vars(ThreadStep(t))

Spec == Init /\ [][Next]_vars /\ Fairness

-----------------------------------------------------------------------------
(* Properties *)

ClientLabels == {"new", "fsStart", "csIO", "csRead", "csStoreLeaf", "csShow",
                 "csIOEnd", "csAdd", "csAdded", "csNotify", "csExit", "done",
                 "mCreate", "mPrint", "mDestroy", "mDestroyMutex", "mDestroyLast"}
LibLabels == BarrierLabels \cup {"mlock", "munlock", "mdestroy", "bdestroy",
             "fcClone", "fcRecord", "feRead", "fePost", "meRead", "meLoop",
             "meJoin", "meFree"}

TypeOK ==
  /\ pc \in [Threads -> ClientLabels \cup LibLabels]
  /\ barrier \in [Barriers -> [is_live : BOOLEAN, n : Nat, count : Nat,
                               mutex : 0..1, sem1 : 0..1, sem2 : 0..1]]
  /\ mutex \in [Mutexes -> [is_live : BOOLEAN, is_locked : BOOLEAN,
                            owner : Threads \cup {NoThread}, sem : 0..1]]
  /\ manager.count \in 0..Cardinality(Nodes)
  /\ sum \in [Nodes -> Nat] /\ leaf_val \in [Nodes -> {0} \cup LeafVals]
  /\ proc \in {"running", "exited"}

\* x is past foothread_barrier_wait(&barrier[x]) at the top of compute_sum
PassedOwnBarrier(x) ==
  /\ pc[x] \notin {"new", "fsStart"}
  /\ ~(pc[x] \in BarrierLabels /\ at[x] = x)

\* When an internal node leaves its own barrier (and prints "gets the
\* partial sum"), every child has already added its whole subtree into
\* sum[x]: the barrier of num_child + 1 parties, the children's additions
\* under mutex_sum and their arrival order together guarantee it.
PartialSumsComplete ==
  \A x \in Nodes :
    Children(x) /= {} /\ PassedOwnBarrier(x) => sum[x] = SubtreeSum(x, leaf_val)

\* The total main prints after computation_done is the sum of all leaves.
ResultCorrect == printed /= NoValue => printed = SubtreeSum(Root, leaf_val)

\* exit(EXIT_SUCCESS) in main's foothread_exit happens only after every
\* node thread has finished foothread_exit (posted its join semaphore).
JoinedBeforeExit == proc = "exited" => \A x \in Nodes : pc[x] = "done"

\* The program always ends: main reaches exit(EXIT_SUCCESS).
Termination == <>(proc = "exited")

\* No barrier is destroyed while a thread is still inside
\* foothread_barrier_wait on it (POSIX leaves any use of a destroyed
\* semaphore undefined).
NoDestroyInUse ==
  \A b \in Barriers :
    ~barrier[b].is_live => \A t \in Threads : ~(pc[t] \in BarrierLabels /\ at[t] = b)

=============================================================================
