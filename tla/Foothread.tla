----------------------------- MODULE Foothread -----------------------------
(***************************************************************************)
(* The foothread library of Assignment 7 (foothread.c): a thread manager   *)
(* that records cloned threads and joins them in foothread_exit, a mutex   *)
(* built on one semaphore, and a reusable barrier built on three           *)
(* semaphores (mutex, sem1, sem2) in two phases.                           *)
(*                                                                         *)
(* A library call is a short procedure: the caller sets pc[t] to the       *)
(* entry label, at[t] to the object it is called on and ret[t] to the      *)
(* label to continue at.  Each semaphore operation is one step; the plain  *)
(* reads and writes between two semaphore operations go with the step     *)
(* before them.  A sem_wait followed at once by a sem_post of the same     *)
(* semaphore (the turnstiles) is one step.  Client modules extend this one *)
(* and add their own labels and variables.                                 *)
(*                                                                         *)
(* The error exits a correct client never reaches (NULL arguments, use of  *)
(* a destroyed object on entry, more than FOOTHREAD_THREADS_MAX threads)   *)
(* are left out; sem_destroy is a no-op in glibc, so operations on a       *)
(* destroyed barrier's semaphores go on working in the model.              *)
(***************************************************************************)
EXTENDS Integers, FiniteSets

CONSTANTS
  Threads,      \* thread ids, including Main
  Main,         \* the thread that calls foothread_create and exits last
  Barriers,     \* foothread_barrier_t objects
  Mutexes,      \* foothread_mutex_t objects
  ThreadsMax,   \* slots of the manager (FOOTHREAD_THREADS_MAX)
  NoThread      \* an empty slot or an unowned mutex

ASSUME Main \in Threads /\ NoThread \notin Threads
ASSUME ThreadsMax \in Nat /\ Cardinality(Threads) - 1 <= ThreadsMax

Slots == 0..ThreadsMax-1

VARIABLES
  pc, at, ret,       \* per thread: label, object of the current call, return label
  maxt, idx,         \* locals of foothread_exit
  barrier,           \* Barriers -> [is_live, n, count, mutex, sem1, sem2]
  mutex,             \* Mutexes -> [is_live, is_locked, owner, sem]
  manager,           \* [count, tid, live, join]: foothread_manager
  manager_mutex,     \* semaphore guarding manager
  init_done,
  proc               \* "running" until exit(EXIT_SUCCESS) ends every thread

libVars == <<pc, at, ret, maxt, idx, barrier, mutex, manager, manager_mutex,
             init_done, proc>>

BarrierLabels == {"bwEnter", "bwOpen", "bwUnlock1", "bwTurn1", "bwLock2",
                  "bwClose", "bwUnlock2", "bwTurn2"}

\* foothread_mutex_init: live, unlocked, semaphore 1
MutexInit == [is_live |-> TRUE, is_locked |-> FALSE, owner |-> NoThread, sem |-> 1]

\* foothread_barrier_init(barrier, n): count 0, mutex 1, sem1 0, sem2 1
BarrierInit(n) == [is_live |-> TRUE, n |-> n, count |-> 0,
                   mutex |-> 1, sem1 |-> 0, sem2 |-> 1]

ManagerInit == [count |-> 0, tid |-> [i \in Slots |-> NoThread],
                live |-> [i \in Slots |-> FALSE], join |-> [i \in Slots |-> 0]]

Call(t, entry, obj, r) ==
  /\ pc' = [pc EXCEPT ![t] = entry]
  /\ at' = [at EXCEPT ![t] = obj]
  /\ ret' = [ret EXCEPT ![t] = r]

Goto(t, l) == pc' = [pc EXCEPT ![t] = l] /\ UNCHANGED <<at, ret>>
Return(t) == Goto(t, ret[t])
Running == proc = "running"

-----------------------------------------------------------------------------
(* Mutex *)

\* foothread_mutex_lock: sem_wait, then record the owner
MutexLock(t) ==
  LET m == at[t] IN
  /\ Running /\ pc[t] = "mlock"
  /\ mutex[m].sem > 0
  /\ mutex' = [mutex EXCEPT ![m].sem = @ - 1, ![m].is_locked = TRUE, ![m].owner = t]
  /\ Return(t)
  /\ UNCHANGED <<maxt, idx, barrier, manager, manager_mutex, init_done, proc>>

\* foothread_mutex_unlock: owner checks pass in a correct client
MutexUnlock(t) ==
  LET m == at[t] IN
  /\ Running /\ pc[t] = "munlock"
  /\ mutex[m].is_locked /\ mutex[m].owner = t
  /\ mutex' = [mutex EXCEPT ![m].is_locked = FALSE, ![m].sem = @ + 1]
  /\ Return(t)
  /\ UNCHANGED <<maxt, idx, barrier, manager, manager_mutex, init_done, proc>>

MutexDestroy(t) ==
  LET m == at[t] IN
  /\ Running /\ pc[t] = "mdestroy"
  /\ mutex' = [mutex EXCEPT ![m].is_live = FALSE, ![m].is_locked = FALSE]
  /\ Return(t)
  /\ UNCHANGED <<maxt, idx, barrier, manager, manager_mutex, init_done, proc>>

-----------------------------------------------------------------------------
(* Barrier: foothread_barrier_wait, one action per semaphore operation *)

BStep(t, from, to, enabled(_), upd(_)) ==
  LET b == at[t] IN
  /\ Running /\ pc[t] = from
  /\ enabled(barrier[b])
  /\ barrier' = [barrier EXCEPT ![b] = upd(@)]
  /\ Goto(t, to)
  /\ UNCHANGED <<maxt, idx, mutex, manager, manager_mutex, init_done, proc>>

Always(r) == TRUE

\* mutant: the n-1-th arrival already opens the turnstile
BarrierEnterEarly(t) ==
  BStep(t, "bwEnter",
        IF barrier[at[t]].count + 1 = barrier[at[t]].n - 1 THEN "bwOpen" ELSE "bwUnlock1",
        LAMBDA r : r.mutex > 0,
        LAMBDA r : [r EXCEPT !.mutex = @ - 1, !.count = @ + 1])

\* sem_wait(mutex); count++; the n-th arrival goes on to open the turnstile
BarrierEnter(t) ==
  BStep(t, "bwEnter",
        IF barrier[at[t]].count + 1 = barrier[at[t]].n THEN "bwOpen" ELSE "bwUnlock1",
        LAMBDA r : r.mutex > 0,
        LAMBDA r : [r EXCEPT !.mutex = @ - 1, !.count = @ + 1])

\* sem_wait(sem2); sem_post(sem1)
BarrierOpen(t) ==
  BStep(t, "bwOpen", "bwUnlock1", LAMBDA r : r.sem2 > 0,
        LAMBDA r : [r EXCEPT !.sem2 = @ - 1, !.sem1 = @ + 1])

\* sem_post(mutex)
BarrierUnlock1(t) ==
  BStep(t, "bwUnlock1", "bwTurn1", Always, LAMBDA r : [r EXCEPT !.mutex = @ + 1])

\* mutant: the turnstile posts sem1 without waiting on it
BarrierTurn1PostOnly(t) ==
  BStep(t, "bwTurn1", "bwLock2", Always, LAMBDA r : [r EXCEPT !.sem1 = @ + 1])

\* sem_wait(sem1); sem_post(sem1)
BarrierTurn1(t) ==
  BStep(t, "bwTurn1", "bwLock2", LAMBDA r : r.sem1 > 0, LAMBDA r : r)

\* sem_wait(mutex); count--; the last to leave goes on to close sem1
BarrierLock2(t) ==
  BStep(t, "bwLock2",
        IF barrier[at[t]].count - 1 = 0 THEN "bwClose" ELSE "bwUnlock2",
        LAMBDA r : r.mutex > 0,
        LAMBDA r : [r EXCEPT !.mutex = @ - 1, !.count = @ - 1])

\* sem_wait(sem1); sem_post(sem2)
BarrierClose(t) ==
  BStep(t, "bwClose", "bwUnlock2", LAMBDA r : r.sem1 > 0,
        LAMBDA r : [r EXCEPT !.sem1 = @ - 1, !.sem2 = @ + 1])

\* sem_post(mutex)
BarrierUnlock2(t) ==
  BStep(t, "bwUnlock2", "bwTurn2", Always, LAMBDA r : [r EXCEPT !.mutex = @ + 1])

\* mutant: the second turnstile posts sem2 without waiting on it
BarrierTurn2PostOnly(t) ==
  BStep(t, "bwTurn2", ret[t], Always, LAMBDA r : [r EXCEPT !.sem2 = @ + 1])

\* sem_wait(sem2); sem_post(sem2); return
BarrierTurn2(t) ==
  BStep(t, "bwTurn2", ret[t], LAMBDA r : r.sem2 > 0, LAMBDA r : r)

\* foothread_barrier_destroy: is_live = 0 (sem_destroy changes nothing)
BarrierDestroy(t) ==
  BStep(t, "bdestroy", ret[t], Always, LAMBDA r : [r EXCEPT !.is_live = FALSE])

BarrierStep(t) ==
  \/ BarrierEnter(t) \/ BarrierOpen(t) \/ BarrierUnlock1(t) \/ BarrierTurn1(t)
  \/ BarrierLock2(t) \/ BarrierClose(t) \/ BarrierUnlock2(t) \/ BarrierTurn2(t)

-----------------------------------------------------------------------------
(* Thread manager *)

\* foothread_create up to clone: set up the manager on first use,
\* sem_wait(manager_mutex), clone: the new thread at[t] starts running
\* foothread_start before the manager has recorded it.
CreateClone(t) ==
  LET new == at[t]
      sem == IF init_done THEN manager_mutex ELSE 1
  IN
  /\ Running /\ pc[t] = "fcClone"
  /\ sem > 0
  /\ manager_mutex' = sem - 1
  /\ init_done' = TRUE
  /\ manager' = IF init_done THEN manager ELSE ManagerInit
  /\ pc' = [pc EXCEPT ![t] = "fcRecord", ![new] = "fsStart"]
  /\ UNCHANGED <<at, ret, maxt, idx, barrier, mutex, proc>>

\* fill in slot count (tid, join semaphore 0, live), count++, sem_post
CreateRecord(t) ==
  LET i == manager.count IN
  /\ Running /\ pc[t] = "fcRecord"
  /\ manager' = [manager EXCEPT !.tid[i] = at[t], !.live[i] = TRUE,
                                !.join[i] = 0, !.count = i + 1]
  /\ manager_mutex' = manager_mutex + 1
  /\ Return(t)
  /\ UNCHANGED <<maxt, idx, barrier, mutex, init_done, proc>>

\* foothread_exit in a child: read count under manager_mutex
ExitRead(t) ==
  /\ Running /\ pc[t] = "feRead"
  /\ manager_mutex > 0
  /\ maxt' = [maxt EXCEPT ![t] = manager.count]
  /\ Goto(t, "fePost")
  /\ UNCHANGED <<idx, barrier, mutex, manager, manager_mutex, init_done, proc>>

\* mutant: the search for the own slot stops one short of maxt
ExitPostShort(t) ==
  LET mine == {i \in 0..maxt[t]-2 : manager.live[i] /\ manager.tid[i] = t} IN
  /\ Running /\ pc[t] = "fePost"
  /\ manager' = IF mine = {} THEN manager
                ELSE LET i == CHOOSE i \in mine : \A j \in mine : i <= j
                     IN [manager EXCEPT !.join[i] = @ + 1]
  /\ Return(t)
  /\ UNCHANGED <<maxt, idx, barrier, mutex, manager_mutex, init_done, proc>>

\* post the join semaphore of the first live slot below maxt holding t
ExitPost(t) ==
  LET mine == {i \in 0..maxt[t]-1 : manager.live[i] /\ manager.tid[i] = t} IN
  /\ Running /\ pc[t] = "fePost"
  /\ manager' = IF mine = {} THEN manager
                ELSE LET i == CHOOSE i \in mine : \A j \in mine : i <= j
                     IN [manager EXCEPT !.join[i] = @ + 1]
  /\ Return(t)
  /\ UNCHANGED <<maxt, idx, barrier, mutex, manager_mutex, init_done, proc>>

\* foothread_exit in the main thread: read count, start the join loop
MainExitRead(t) ==
  /\ Running /\ pc[t] = "meRead"
  /\ manager_mutex > 0
  /\ maxt' = [maxt EXCEPT ![t] = manager.count]
  /\ idx' = [idx EXCEPT ![t] = 0]
  /\ Goto(t, "meLoop")
  /\ UNCHANGED <<barrier, mutex, manager, manager_mutex, init_done, proc>>

\* loop head: past maxt, exit(EXIT_SUCCESS) ends the process; a dead slot
\* is skipped; a live slot (every thread is created JOINABLE) is joined
MainExitLoop(t) ==
  /\ Running /\ pc[t] = "meLoop"
  /\ \/ /\ idx[t] >= maxt[t]
        /\ proc' = "exited"
        /\ UNCHANGED <<pc, at, ret, idx>>
     \/ /\ idx[t] < maxt[t]
        /\ pc' = [pc EXCEPT ![t] = IF manager.live[idx[t]] THEN "meJoin" ELSE "meLoop"]
        /\ idx' = IF manager.live[idx[t]] THEN idx ELSE [idx EXCEPT ![t] = @ + 1]
        /\ UNCHANGED <<at, ret, proc>>
  /\ UNCHANGED <<maxt, barrier, mutex, manager, manager_mutex, init_done>>

\* mutant: the join does not block on the slot's semaphore
MainExitJoinNoWait(t) ==
  /\ Running /\ pc[t] = "meJoin"
  /\ manager' = [manager EXCEPT !.join[idx[t]] = @ - 1]
  /\ Goto(t, "meFree")
  /\ UNCHANGED <<maxt, idx, barrier, mutex, manager_mutex, init_done, proc>>

\* sem_wait on the slot's join semaphore
MainExitJoin(t) ==
  /\ Running /\ pc[t] = "meJoin"
  /\ manager.join[idx[t]] > 0
  /\ manager' = [manager EXCEPT !.join[idx[t]] = @ - 1]
  /\ Goto(t, "meFree")
  /\ UNCHANGED <<maxt, idx, barrier, mutex, manager_mutex, init_done, proc>>

\* under manager_mutex: live = 0; then under it again: maxt = count
MainExitFree(t) ==
  /\ Running /\ pc[t] = "meFree"
  /\ manager_mutex > 0
  /\ manager' = [manager EXCEPT !.live[idx[t]] = FALSE]
  /\ maxt' = [maxt EXCEPT ![t] = manager.count]
  /\ idx' = [idx EXCEPT ![t] = @ + 1]
  /\ Goto(t, "meLoop")
  /\ UNCHANGED <<barrier, mutex, manager_mutex, init_done, proc>>

\* every step of library code thread t may take
LibStep(t) ==
  \/ MutexLock(t) \/ MutexUnlock(t) \/ MutexDestroy(t)
  \/ BarrierStep(t) \/ BarrierDestroy(t)
  \/ CreateClone(t) \/ CreateRecord(t)
  \/ ExitRead(t) \/ ExitPost(t)
  \/ MainExitRead(t) \/ MainExitLoop(t) \/ MainExitJoin(t) \/ MainExitFree(t)

\* the library state after the client's initialisation and before any call
LibInit(barrierSize) ==
  /\ barrier = [b \in Barriers |-> BarrierInit(barrierSize[b])]
  /\ mutex = [m \in Mutexes |-> MutexInit]
  /\ manager = ManagerInit
  /\ manager_mutex = 0
  /\ init_done = FALSE
  /\ maxt = [t \in Threads |-> 0]
  /\ idx = [t \in Threads |-> 0]
  /\ proc = "running"

=============================================================================
