# TLA+ models of Operating_Systems-IITKGP-CSE

This directory holds TLA+ models of the programs in `src/`, the TLC
configurations that check them, and `PROJECT.json`. That file lists the
components, runs, mutants, the map from definitions to source lines, the
findings and the hazards.

## 1. Inventory

The repository is a set of OS lab exercises. The core, which `spec.md`
describes, is **Assignment 8**: a simulation of demand-paged virtual memory.
The other assignments are separate programs.

### Assignment 8: virtual memory simulation (core)

Four kinds of OS process talk through three System V message queues and two
shared memory segments.

| Component | Source | State | Operations |
|---|---|---|---|
| Master (bootstrap) | `master.c` | SM1 (per-process `mi`, page table, fault and illegal counters), SM2 (free-frame list with a `-1` sentinel), `sync_sem`, the queue ids | initialise SM1/SM2; fork sched and mmu; receive the MMU's pid (type 100 on MQ2); generate `mi` and reference strings; fork the k processes; `P(sync_sem)`; kill sched and mmu and remove all IPC; SIGINT handler doing the same cleanup |
| Scheduler | `sched.c` | `k`, `msg1.pid` | loop: receive a type-1 "ready" message from MQ1 (the FCFS ready queue), send a grant of type pid; receive *any* message of MQ2: type 1 puts the pid back on MQ1, type 2 does `k--`; at `k = 0`, `V(sync_sem)` |
| MMU | `mmu.c` | `timestamp`, `total_num_processes`, writes SM1 and SM2 | receive a request (type 1 on MQ3), `timestamp++`, look up the pid, then one of: `-9` terminate (free frames, type 2 to sched); page `>= mi` illegal (count, reply -2, free, type 2); hit (refresh timestamp, reply frame); fault (count, reply -1, then take the lowest free frame, or the process's own LRU page's frame, or with neither just re-admit), type 1 to sched; SIGINT report |
| Process | `process.c` | reference string, cursor `i`, `prev_i` | send ready (type 1 on MQ1), wait for a grant; for each page: send request, receive reply; -2 exit; -1 wait for a grant and retry the same page; frame: advance; at the end send `-9` and exit |

How the components interact:
- MQ1 carries ready messages (type 1) and grants (type pid).
- MQ2 carries the MMU's notices to the scheduler (type 1 re-admit, type 2
  terminated) and the MMU's start-up message to master (type 100).
- MQ3 carries requests (type 1) and replies (type pid).
- SM1 and SM2 are written by master before the processes start and by the
  MMU afterwards.

Nothing but the protocol keeps page-table updates serial. The scheduler
grants one process, then blocks on MQ2 until the MMU reports that process's
fault or termination. A hit produces no message to the scheduler.

The hard behaviours are these:
- interleaving of the k+3 OS processes;
- selective receives by message type on shared queues;
- the retry loop when no frame can be found;
- teardown by master while processes still have messages in flight;
- stale IPC objects left by an earlier run on the same ftok keys.

Properties that make it correct:
- **Frame ownership**: a frame is free iff no valid entry holds it, and at
  most one entry holds it.
- **Mutual exclusion**: only the granted process runs or has a request
  queued.
- **Single admission**: a process is at most once in the ready queue or
  holding a grant.
- **Completion**: `k = 0` only once all terminations were handled and
  every frame was returned.
- **Start-up ordering**: the scheduler never consumes the type-100 message.
- **LRU**: the page that gives up its frame was referenced less recently
  than every other resident page of the faulting process. Recency is read
  from the process's reference string up to its cursor (`LastRef`), not from
  the timestamps. So the property also checks the bookkeeping that the scan
  relies on: every hit refreshes its timestamp (`mmu.c:201`) and every load
  stamps one. Its mutant is a hit that leaves the timestamp alone. The
  scan that keeps the last candidate instead of the oldest is caught too.
- **Termination**: every run ends.

### Other programs

| Assignment | Source | What it is | Interesting behaviour |
|---|---|---|---|
| 1 | `proctree.c` | recursive fork printing a process tree | sequential |
| 2 | `mgr.c` | job-control shell with a process table (modelled: `Mgr`) | signal forwarding to the running job, job states |
| 3 | `CSE.c` | command/execute pair over two pipes in two xterms (modelled: `CSE`) | mode swapping between the two children; pipe ends nobody closes |
| 4 | `prodcons.c` | producer and n consumers over a 2-int shared segment, busy waiting (modelled: `ProdCons`) | hand-off through `M[0]` (recipient) and `M[1]` (item) written in that order |
| 5 | `boss.c`, `worker.c` | topological sort by n worker processes (modelled: `TopoSort`) | semaphore array initialised to in-degrees, `mtx`, `ntfy`, shared `T`/`idx` |
| 6 | `session.c` | doctor's office simulation with pthreads (modelled: `DoctorOffice`, `FormatTime`) | mutex and condition-variable protocol between doctor and visitor threads |
| 7 | `foothread.c/.h`, `computesum.c` | user-level thread library on `clone` (modelled: `Foothread`, `ComputeSum`, `BarrierLoop`, `BarrierSpec`) | mutex with owner checks, two-phase semaphore barrier, join via per-thread semaphores in `foothread_exit` |
| 9 | `sync.c` | recursive directory synchroniser (modelled: `Sync`) | two passes over the trees; quick check by size and mtime; directory mtimes disturbed by the first pass |

## 2. Plan

Done so far: `VMSim` (Assignment 8), `Foothread` with `ComputeSum`,
`BarrierLoop` and `BarrierSpec` (Assignment 7), `DoctorOffice` and
`FormatTime` (Assignment 6), `ProdCons` (Assignment 4), `TopoSort`
(Assignment 5), `Mgr` (Assignment 2), `Sync` (Assignment 9) and `CSE`
(Assignment 3).

Still to do, in order of importance:
1. A stale-IPC restart run of `VMSim`: the initial queues hold leftover
   messages of a run killed without cleanup.
2. An abstract `Paging` specification refined by `VMSim` (frames as a partial
   injective map from (process, page) to frame).
3. `RefString`: the `"%d."` encoding of master.c and the digit parser of
   process.c as RECURSIVE operators.

## 3. Modules

### `VMSim.tla`: Assignment 8

Each variable corresponds to code as follows:
- `mi`, `ref`: `sm1[i].mi` and the reference string. `Init` picks them from
  the constant `Workloads`. The `ASSUME` states that each workload is one
  master.c can generate: `mi` in `1..m`, length in `2*mi..10*mi`, pages
  `< m`.
- `pt[p][pg]`: `sm1[p].pagetable[pg]` as `[frame, valid, ts]`, with
  `frame = -1` and `ts = INT_MAX` when empty. `sm2[f]` is SM2 (1 free, 0
  occupied).
- `faults`, `illegal`, `timestamp`, `mmuTerminated`: the MMU's counters
  (`mmuTerminated` is `total_num_processes`). `report` is the number of
  SM1 slots the MMU's SIGINT handler printed, `-1` before it runs
  (`SigHandlerReport`).
- MQ1 is split into `mq1` (the sequence of type-1 ready pids, FIFO) and
  `grant[p]` (the number of type-pid grants). MQ2 is `mq2`, a sequence of
  `[type, pid]` received from its head, since the scheduler takes any type.
  MQ3 is `mq3` (requests) and `reply[p]` (type-pid replies).
- `schedPc`, `schedK`, `schedCur`: the scheduler's loop point, `k` and
  `msg1.pid`. `masterPc`, `spawned`, `syncSem` and `ipc` belong to master;
  `ipc` becomes "removed" at cleanup. `procPc` and `cursor` belong to each
  process.

Each action models one handler or loop body:
- master: `MasterRecvHello`, `MasterSpawn` (one fork per step, in slot
  order), `MasterCleanup` (queues emptied, MMU killed, its handler's
  report printed), and `MasterInterrupt`: SIGINT or SIGQUIT at any point
  before master ends (`sighand`, `cleanup_on_exit`). It kills the
  scheduler, kills the MMU (whose handler prints its report) only once
  master has its pid from the type-100 message, and removes the queues.
  Processes not yet forked never are.
- scheduler: `SchedAdmit`, `SchedReadmit`, `SchedTerminated`.
- process: `ProcStart`, `ProcRecvGrant`, `ProcRequest`, `ProcFinish`,
  `ProcRecvReply`, and `ProcRecvFailed`. The last is a `msgrcv` on a removed
  queue, whose failure process.c ignores, so it uses the stale buffer as a
  frame. `ProcRecvGrantFailed` is the same for the grant's `msgrcv`
  (process.c:77 and :127): the process runs on without a grant. Every
  `msgsnd` goes through `Send`, which drops the message once the queues are
  removed.
- MMU: `MMUStart`, then one action per branch: `MMUTerminate`, `MMUIllegal`,
  `MMUHit`, `MMUFaultFree`, `MMUFaultReplace`, `MMUFaultNoVictim`. Each is
  the whole branch, including the reply, the table update and the notice to
  the scheduler. The shared parts are the operators `Receive` and `Fault`.

The MMU's work on a request is one atomic step. That is sound because the MMU
is one process: the only thing another process could observe between the
reply and the notice is the reply. A process that got `-1` waits for a grant,
which needs the notice first.

`Finished` is the stutter after master's `return 0`. Any other state with no
successor is a deadlock, and TLC checks for it. The deadlock check cannot
show that `TsBound`, the model's cap on the MMU's timestamp, is never
reached: `MasterInterrupt` (a ^C) is enabled in every state before master's
end, so a stuck MMU is never a deadlock. `AllComplete` shows it instead.
The interrupt has no fairness, so a run whose MMU stopped at the cap would
never reach master's `done` and would violate `AllComplete`.

**Fairness.** Each of master, the scheduler, the MMU and every process gets
weak fairness. Each is an OS process that blocks only in `msgrcv`/`semop`,
and the kernel eventually runs a process whose message has arrived.
`MasterInterrupt` is the user's keystroke and has no fairness: a run may
or may not be interrupted. `AllComplete` therefore accepts both ends: a
natural one with every process exited, and an interrupted one where every
forked process has run to its end against the removed queues.

Not modelled in `VMSim`:
- the MMU handler's wait for a key (`scanf`) before it exits;
- the MMU's exit on an unknown pid (every request comes from a registered
  pid);
- printing;
- the textual encoding of the reference string (planned as `RefString`).

### `Foothread.tla`: the thread library of Assignment 7

A library call is a small procedure: `pc[t]` is the label, `at[t]` the
object called on, `ret[t]` the label to return to (`Call`, `Goto`,
`Return`). One step per semaphore operation; the plain reads and writes
between two semaphore operations go with the step before; a turnstile
(`sem_wait(s); sem_post(s)`) is one step.
- `mutex[m]` is `foothread_mutex_t` (`is_live`, `is_locked`, `owner`, `sem`):
  `MutexLock`, `MutexUnlock`, `MutexDestroy`.
- `barrier[b]` is `foothread_barrier_t` (`is_live`, `n`, `count`, and the
  semaphores `mutex`, `sem1`, `sem2`). `foothread_barrier_wait` is
  `BarrierEnter` (wait mutex, count++), `BarrierOpen` (the n-th: wait sem2,
  post sem1), `BarrierUnlock1`, `BarrierTurn1`, `BarrierLock2` (count--),
  `BarrierClose` (the last out: wait sem1, post sem2), `BarrierUnlock2`,
  `BarrierTurn2`. `BarrierDestroy` sets `is_live` only: `sem_destroy` does
  nothing in glibc.
- `manager` is `foothread_manager` (count, tid, live and the join semaphore
  per slot) with `manager_mutex` and `init_done`. `CreateClone` (first-use
  set-up, wait manager_mutex, clone: the new thread starts) and
  `CreateRecord` (fill the slot, count++, post) are `foothread_create`.
  `ExitRead`/`ExitPost` are a child's `foothread_exit`; `MainExitRead`,
  `MainExitLoop`, `MainExitJoin`, `MainExitFree` are the main thread's, which
  ends the process (`proc = "exited"`).
Error exits a correct client never reaches are left out.

### `ComputeSum.tla`: computesum.c over Foothread

One thread per tree node plus `Main`. `sum`, `total_sum`, `leaf_val` (the
value each leaf read; the input is any of `LeafVals`) and `printed` (what
main printed). `MainCreate`, `MainPrint`, `MainDestroy` are main's loop
bodies; `NodeStep(x)` is `compute_sum`, one disjunct per library call.
`SubtreeSum` is the RECURSIVE reference: the sum of a subtree's leaves.
Fairness: weak fairness per thread (each is a kernel task).

### `BarrierSpec.tla` and `BarrierLoop.tla`: the barrier refines a barrier

`BarrierSpec` is what a barrier promises: `inside` grows by `Arrive(t)` and
empties by `Release` only when every party is inside. `BarrierLoop` lets
the threads call `foothread_barrier_wait` on one barrier forever; its
`Inside` (threads that entered the round not yet released: between
`bwOpen` and `bwTurn1` while `sem1 = 0`) maps it onto `BarrierSpec`, and
`BarrierRefinement == Abstract!Spec` is checked as a PROPERTY, with the
abstract fairness included.

### `FormatTime.tla`: format_time of session.c

`Clock24` (the two branches: after 9am, and before it with the hour borrow,
the `min == 60` fix and the roll into the previous day) and `FormatTime`
(period and the 12 for 0) are operators, checked against `WallClock`, the
plain definition of the time of day, on every time `DoctorOffice` prints
(`PrintedTimesRight` in doctor_core).

### `DoctorOffice.tla`: session.c

Threads: `Main`, `Doctor` and a visitor `<<kind, id>>` per arrival. The
pthread mutexes are holders (`mutex`, `doc_mutex`); each condition variable
is the set of its `waiters`. `CondWait` releases and blocks in one step;
`Signal` wakes one waiter, `Broadcast` all; a woken thread relocks and
re-tests its `while` in one step at `WakeAt(cv)`. The three visitor kinds
share one body, with `<kind>_cnt`, `_wait`, `_curr`, `_done` as functions
of the kind. `E` is the event queue as a bag; event.h is not in the
repository, so `nextevent` is any earliest event (ties either order).
- main: `MainEventD`, `MainEventArrival`, `MainEndSession`,
  `MainJoinDoctor`, `MainCreate`, `MainAwaitInit`, `MainSchedule`
  (reporters, then patients, then sales representatives),
  `MainSignalDoctor`, `MainAwaitDoctor`, `MainAdvance`, `MainJoinVisitor`,
  `MainReturn`.
- doctor: `DoctorWait`, `DoctorLeave`, `DoctorSee`.
- visitors: `VisitorInit`, `VisitorTurn`.
`seen` and `entered` count the "Doctor has next visitor" and "... is in
doctor's chamber" lines. Weak fairness for main, the doctor and each visitor.
The quotas 25 and 3 and the array sizes 25, 100, 3 are the constants
`Quota` and `Cap`, scaled down in the configurations.

### `ProdCons.tla`: prodcons.c

`M0` and `M1` are the two ints of the shared segment. The producer's loop
is `ProdChoose` (the two `rand()` calls, any of `Values` and any consumer),
`ProdWriteRecipient` (the spin on `M[0] != 0`, then `M[0] = cons_no`),
`ProdWriteItem` (`M[1] = rand_no` and the producer's counts), `ProdEnd`
(the spin, then `M[0] = -1`) and `ProdWait` (the n `wait(0)` calls).
`consumption_loop` is `ConsOuter`, `ConsInner` (the spin, which leaves on
its own number or on `-1`), `ConsRead` and `ConsClear`. Every read or write
of the segment is its own step, because nothing else orders them. A spin is
a step enabled only when the value it waits for is there. Weak fairness per
process: each spins on a CPU the kernel keeps giving it.

### `TopoSort.tla`: boss.c and worker.c

`sync`, `mtx` and `ntfy` are the semaphores, `T` and `idx` the shared
segments. The boss is `BossSetup` (T to -1, `idx = 0`, the SETVALs: sync to
the in-degrees, mtx 0, ntfy 1), `BossGrant` (P(ntfy), `done++`, V(mtx)),
`BossTest` (the read of `*idx` after the V) and `BossCheck` (the check of
T and the removal). `CheckFrom` is the check as a RECURSIVE operator. A
worker is `WorkerStart` (it is run), `WorkerWaitZero` (semop 0 on its
sync), `WorkerInsert` (P(mtx), `T[*idx] = i`, `*idx++`), `WorkerRelease`
(one `semop -1` per successor, in order) and `WorkerNotify` (V(ntfy), which
fails once the boss removed the set). The segments and semaphores start at
zero because semget and shmget with IPC_CREAT create them so. `EarlyStart`
says whether a worker may run before the boss's set-up. Weak fairness per
process: each blocks only in semop.

### `Mgr.tla`: mgr.c

`mpc` is where mgr is: `prompt` (the `scanf`), then the lines of `r`
(`r108`, `r120`, `r122`, `r123`) and of `c` (`c179`, `c181`, `c182`)
between which a signal can arrive. `jobId`, `rjp` and `st` are `job_id`,
`running_job_pid` and the statuses of `PT`; job `j` is the job of slot
`j`, and its pid is `j`. `jpc[j]` is the kernel's view of job `j`: a child
before line 108, 116 or 117, the `job` program running, stopped, or dead
(exited, signalled, killed). `ownGrp[j]` says it has left mgr's process
group; `pend` and `mpend` are the pending signals.

Each command is an action: `MgrRunFull`, `MgrFork`/`MgrForkFail`,
`MgrPickCont` and `MgrKill` (for a valid pick) and `MgrQuit`; the steps of
`r` and `c` after them are mgr's own actions. `TermSignal` is the user's
^C or ^Z, sent to mgr's group. `MgrHandle` is `signal_handler` in mgr;
`ChildHandle` is the same handler in a child that has not yet exec'd,
whose `kill(0, signo)` re-signals itself. A pending signal is delivered
before the process runs more code, so a child's steps need an empty
pending set. `JobExit` and `JobSignal` are the `job` program (not in the
repository: taken to end, to die on SIGINT and to stop on SIGTSTP). SIGCONT
discards pending stop signals. `PTSize = 4` instead of 11 reaches a full
table after three jobs.

**Signals sent with a stale `running_job_pid`.** Two paths make mgr
forward a key to a job that is no longer in the foreground. `k` kills the
job and leaves `running_job_pid` set (mgr.c:231), so at the prompt ^C and
^Z go to the dead, unreaped job and the prompt is not reprinted. Between
`waitpid` returning for a stopped job and `running_job_pid = -1`
(mgr.c:123), a ^C goes to the stopped job; it stays pending, and the job
dies of it when `c` sends SIGCONT. The model does both, and
`TableMatchesKernel` shows that the table still records the job's real
state afterwards. Neither is stated as a property of its own: the code
forwards to the pid it holds by design, and whether that ^C was meant for
the job is the user's to say.

**Fairness.** Weak fairness on each of mgr's and each job's steps
separately, so a stream of ^C handled by mgr does not excuse its
`waitpid`. The user's commands and keys have none.

### `Sync.tla`: sync.c

sync is sequential, so a whole run of `synchronize()` is one step, `Run`
(main), and the state machine only records the file system before and
after: `fs` maps a path to a node, a directory or a regular file with its
data, mtime and mode; `fs0` is the file system before the first run; `pc`
counts the runs; `rep` is the set of `[c] path` lines the last run printed.
The recursion is translated function by function: `SyncDirs` and
`SyncEntry` are `sync_dirs` (its first loop's body for one source entry,
with the three cases of a directory, a new file and an existing entry),
`RemoveStale` is the body of its second loop, `RemoveDirectory` is
`remove_directory`, `SetTimePerm` and `SyncTimePerm` are
`sync_time_permissions`. A loop over a directory's entries is a `FoldSet`
over their names: the entries touch disjoint subtrees, and the one thing
they share, the directory's mtime, each sets to NOW, so readdir's order
does not matter. The kernel's side is `MakeDir` (mode with the umask
applied), `RemoveFile`, `CopyFile` (O_TRUNC keeps the mode, O_CREAT applies
the umask) and `Touch`: creating or removing an entry sets the parent's
mtime to NOW.

`MCSync` starts from every pair of trees of this shape: the source root
holds nothing, a file or a directory at `x`, and such a directory nothing,
a file or an empty directory at `z`; the destination root has the same
choices at `x` and a file or an empty directory at `y` (never in the
source). Files hold `"a"`, `"b"` (the same size) or `"cc"`, mtimes 1 or 2,
modes `m1` or `m2`, where the umask turns `m2` into `m1`. That covers a
directory over a file and a file over a directory at two depths, stale
files and directories, equal-size files with different data, and every
attribute mismatch, in 111,537 initial states.

### `CSE.tla`: CSE.c

`sup` is the supervisor (its two forks and two `wait(0)` calls); a child is
the xterm with the CSE it runs, and `life` says whether it is unborn,
running, terminated or reaped. `mode` and `state` are the variables of
the same names in each child: mode 2 is command-input and 3 execute, and
`state` picks the pipe through `writep` (argv[5] or argv[3]) and `readp`
(argv[4] or argv[2]). `pipe[1]` and `pipe[2]` are p1 and p2 as sequences of
whole lines (each line is one `printf` and `fflush` of less than PIPE_BUF
bytes). `CType` is one turn of the command-input loop: a line typed, sent,
and on `swaprole` or `exit` the break and what follows it. `ERecv` is one
turn of the execute loop: a line read, the swap or exit, or the fork of
the command; `EDone` is the `waitpid` for it. `HangUp` is the user closing
a window. `sent` and `nrecv` record the lines typed and read, for the
properties.

**Fairness.** Weak fairness on the supervisor's steps and on each child's
`ERecv` and `EDone`: the kernel runs what is not blocked, and the commands
E runs are taken to end. Typing and closing windows are the user's and
have none. `MaxLines = 7` lets a behaviour swap three times, run commands
on both sides and exit.

## 4. Runs

The VMSim runs use `MCVMSim.tla`. Its workloads for `m = 3` are: a
two-reference string with `mi = 1`, one with an illegal page, a
four-reference string with `mi = 2` that ends on an illegal page, and a
six-reference string with `mi = 3`, `0.1.0.2.2.1`, that forces LRU
replacement over two frames. Its hits on 0 and 2 make the least recently
used page differ both from the oldest load and from the highest-numbered
candidate.

| Run | cfg | Bounds | Checks | Result |
|---|---|---|---|---|
| vm_core | `MCVMSim.cfg` | K=2, M=3, F=2, 16 initial workload pairs | TypeOK, FrameOwnership, ExclusiveRun, SingleEntry, CompletionSound, HelloNotStolen, LRUEviction (action), AllComplete (liveness) | pass, 92,442 states |
| vm_teardown_race | `MCVMSim_teardown.cfg` | as vm_core | CompletionMeansExited | violation (finding) |
| vm_interrupt_report | `MCVMSim_interrupt.cfg` | as vm_core | ReportCoversAll | violation (finding) |

Runs of the other programs:

| Run | Module / cfg | Bounds | Checks | Result |
|---|---|---|---|---|
| cs_core | `MCComputeSum` / `MCComputeSum.cfg` | root with two leaves, leaf values {1,2}, 3 slots | TypeOK, PartialSumsComplete, ResultCorrect, JoinedBeforeExit, Termination | pass, 77,712 states |
| barrier_reuse | `BarrierLoop` / `MCBarrierLoop.cfg` | 3 threads, one barrier, unbounded rounds | TypeOK, BarrierRefinement | pass, 203 states |
| doctor_core | `MCDoctorOffice` / `MCDoctorOffice.cfg` | a reporter at 11:00pm the day before (offset -600, which format_time prints only through its `min == 60` fix and its roll below hour 0), then 7 arrivals tying with each other and with 'D' events, quotas P=2, S=1, a reporter after the quotas are met; times in steps of 215 minutes, up to 10:05am the next day | TypeOK, SeenThenEntered, QueuesInBounds, PrintedTimesRight, EveryVisitorEnters, Termination | pass, 3,762 states |
| prodcons_core | `ProdCons` / `ProdCons.cfg` | n=2, t=3, two item values | TypeOK, ItemCountsAgree, Termination | pass, 9,820 states |
| topo_core | `MCTopoSort` / `MCTopoSort.cfg` | 5 nodes: a diamond 0->1,2->3 and an isolated node 4; workers run after set-up | TypeOK, ExclusiveInsert, TopoOrder | pass |
| mgr_core | `Mgr` / `Mgr.cfg` | PT of 4 entries (3 jobs), any ^C/^Z at any time | TypeOK, TableMatchesKernel, NoneLeftAtExit, ExecedJobReturns | pass, 67,796 states |
| mgr_sigint_hang | `Mgr` / `Mgr_hang.cfg` | as mgr_core | ReturnsToPrompt | violation (finding) |
| cse_core | `CSE` / `CSE.cfg` | one command word, up to seven lines typed, either window closed at any time | TypeOK, RolesMatch, SwapIsLast, EveryLineRead, ExitEndsSession | pass, 12,792 states |
| sync_core | `MCSync` / `MCSync.cfg` | the trees of `MCSync` (section 3), two runs of sync | TypeOK, SyncMirrors, ReportsComplete (action), SecondRunQuiet (action) | pass, 334,611 states |

**sync_core.** `SyncMirrors` says that after a run the destination holds
the source's names, kinds, data, mtimes and modes, the roots included,
whenever the quick check (line 222) cannot be fooled: no destination file
has the source's size and mtime but other data. It depends on the order of
the passes: the first pass leaves every directory it touched with mtime
NOW, and `sync_time_permissions` puts a directory's mtime back only after
its entries. `ReportsComplete` says that every destination path the run
created, removed or changed is named by a report (remove_directory reports
every entry it deletes), and `SecondRunQuiet` that running sync again
changes nothing and prints nothing.

Deadlock is checked in every run but sync_core, where the two runs of the
program end and the model stops, and cse_core, where the children wait for
the user's next line, which may never come: `Finished` (main returned, or the
process exited) is the only state without a successor. In doctor_core it
confirms that the opposite lock orders of main's end-of-session path
(`mutex` then `doc_mutex`) and of doctor() (`doc_mutex` then `mutex`) never
meet.

**Barrier destroy (computesum.c:82).** main destroys `barrier[i]` right
after `computation_done`, while a node thread released from `barrier[i]`
can still be in the second phase of `foothread_barrier_wait` on it.
`ComputeSum.tla` states this as `NoDestroyInUse`, which TLC finds violated
on cs_core's instance. POSIX leaves using a destroyed semaphore undefined;
glibc's `sem_destroy` does nothing, so the program works there, and no
configuration checks it.

**Finding (mgr_sigint_hang).** The child of `fork()` keeps mgr's
`signal_handler` until `execl`, and line 108 sets its copy of
`running_job_pid` to 0. A ^C or ^Z reaching the child in that window
(forwarded by mgr once its own line 108 has run, or from the terminal
before `setpgid`) runs the handler, whose `kill(0, signo)` signals the
child's own group. The signal is pending again when the handler returns,
so the child loops in its handler and never reaches `execl`. mgr blocks
in `waitpid` for good. TLC's trace: `r`, both `setpgid`s, ^C and ^Z,
mgr forwards both, and the child loops from then on.

**The checksum race (prodcons.c:95).** prodcons.c writes `M[0] = cons_no`
before `M[1] = rand_no`. The consumer spinning on `M[0]` can add `M[1]` to
its checksum before the new item is written, so it adds the previous item
(or the initial 0), and the checksums the two sides print disagree. This is
the race the `SLEEP` build widens on purpose, to show it, so no run states
the checksums as agreeing; the item counts do agree (prodcons_core).

**The closed window (CSE.c:165).** No process of CSE closes the pipe ends
it does not use, so the execute side holds the write end of the pipe it
reads and never sees end-of-file. TLC finds `(hung # {}) ~> (sup = "done")`
violated on `CSE.tla` in eight steps: the first child types `swaprole` and
its window is closed; the supervisor reaps it; the second child reads the
swap, types `swaprole` in its turn, and then waits on p1, which nobody
writes, for ever, and so does the supervisor's second `wait`. Closing the
unused ends would not be enough: the code has no end-of-file test and
would run the empty line for ever.

**Start order (worker.c:102).** worker.c creates the semaphores with
IPC_CREAT and waits for `sync[i]` to be zero. A worker run before the boss
prints "Setup done" finds a fresh, zero semaphore and passes its wait, and
can be appended to `T` before its predecessors. `EarlyStart = TRUE` lets
the model start workers that early, and TopoOrder then fails. The runs keep
it `FALSE`: the start order is the user's, not the code's.

**Reporter overflow (session.c:330).** Reporters have no quota
(session.c:296-331): the 101st reporter admitted before the session ends is
stored past `reporterQ[100]` and `reporter_tids[100]`. `QueuesInBounds`
states the bound and checks it for patients and sales representatives,
and exercises the patient quota test (session.c:266) with the third
patient, who is turned away. doctor_core's instance never has more
reporters than `reporterQ` holds. Setting `MCCapTies` to `R |-> 1` makes
`QueuesInBounds` fail when the second reporter is stored.

Why the bounds are enough for these: a root with two leaves has both leaves
race for `func_exec` and for the root's barrier; a depth-2 tree (an internal node that is both a
barrier owner and a child) is not in a run: with liveness it needs
several minutes, and every ComputeSum mutant is caught on the flat tree; three threads on one barrier exercise a late
leaver of round k beside an early arriver of round k+1; the doctor
scenarios reach every branch of main (turned away by quota and by the end
of the session, each scheduling priority, the end of the session) and
every action fires. For prodcons, two consumers with three
items give a consumer several items, one none, and a hand-off while the
other consumer spins; two values tell a stale item from the right one. For
the topological sort, the diamond gives a node two predecessors and two
workers ready at once, and the isolated node a worker ready from the start.

Why these bounds are enough:
- Two processes with two frames reach every MMU branch, including
  replacement (`mi = 3`) and the no-victim branch (one process holding both
  frames).
- Illegal references occur before and after a process owns frames.
- Two processes already race for the ready queue, the frames and the MMU.
  No run has three processes: every VMSim mutant below is caught with two.
- Every action fires in the passing runs.

**Finding (vm_interrupt_report).** `spec.md` says the final per-workload
totals of faults and illegal accesses are emitted on interrupt or natural
completion. On SIGINT, master sends SIGINT to the MMU, whose handler
(mmu.c:65) prints `sm1[i]` only for `i < total_num_processes`, the number of
processes that have finished. TLC's trace: the MMU says hello, master
receives it, and the user interrupts before any process finishes; the
report covers 0 of 2 workloads. The slots printed are also the first n,
not the n that finished. Before the hello, the interrupt does not reach the
MMU at all (`pid_mmu` is still -1), which leaves it running.

**Finding (vm_teardown_race).**
1. On an illegal reference the MMU replies `-2` and immediately sends type 2
   to the scheduler.
2. The scheduler can reach `k = 0` and signal master before the process has
   called `msgrcv` for that reply.
3. Master removes the queues.
4. The process's `msgrcv` fails (`process.c:115`), unchecked. It reads the
   page it sent as a frame, reports it as allocated, and walks the rest of
   its string against removed queues.

`CompletionSound` states what the code does guarantee at completion: every
process has exited or has only its `-2` reply left to read, no request is
pending, and all frames are free.

Every property of every passing run has a mutant in `PROJECT.json`. A mutant
is a plausible bug in the mapped code, and TLC finds the property violated
under it. The mutants are:
- a grant without waiting on MQ2;
- a hit that notifies the scheduler;
- an illegal path that keeps its frames;
- a victim left valid;
- a frame not marked occupied;
- a loop `while (k > 1)`;
- forking before receiving the MMU's pid;
- a missed `min_time` update;
- the no-victim branch that forgets its message;
- a process that retries without a grant;
- a process that enqueues itself.

Mutants of the other programs:
- a barrier whose (n-1)-th arrival opens it;
- turnstiles that post without waiting (first and second phase);
- computation_done initialised for one party;
- a join that does not wait on the slot's semaphore;
- a child whose search for its slot stops one short;
- format_time without the hour borrow;
- a scheduling branch that decrements `reporter_wait` (copy-paste);
- main not waiting on `doc_done`;
- an end-of-session test without `reporter_wait == 0`;
- a quota test off by one;
- a missing `pthread_cond_broadcast`;
- a 'D' event queued without joining the visitor;
- a consumer number `rand() % n` without the `+ 1`;
- the end marker written without waiting for the last item to be taken;
- an inner spin that does not break out on `-1`;
- the boss posting `mtx` without taking a `ntfy`;
- a worker that tests `mtx` without taking it;
- `T[++(*idx)] = i` instead of `T[*idx] = i; *idx++`;
- a successor loop that does not advance after a `semop`.

## 5. Not modelled

- Assignment 1 (`proctree.c`): one process runs at a time (each parent
  waits for a child before forking the next), so the program prints a
  fixed preorder walk of treeinfo.txt. What can go wrong is string
  handling (the 100-byte line, a name that is a prefix of another), which
  a model over abstract node names would not reach.
- CSE.c: a failing `execlp` (the child would fall through into the
  supervisor's code), end-of-file on a terminal (scanf fails and the empty
  line is sent and run for ever), and lines longer than the 50-byte buffer
  or of more than nine words. The printing and the prompts.
- sync.c: symbolic links, modes the owner cannot write, a missing
  destination root and every failing system call. Each error path of the
  code prints a message and skips the entry, so modelling them adds one
  "skip" branch per call and no new behaviour of the successful path; the
  hazards of PROJECT.json name the two that would matter most (a read-only
  source directory, a symbolic link handed to `remove_directory`); a short
  write in the overwrite branch leaves a truncated file that the next run,
  seeing size or mtime differ, copies again. Access times are not modelled.
- mmu.c: the int timestamp overflowing after 2^31 requests (the counter
  is bounded by `TsBound`), and the pid lookup that reads
  `sm1[process_idx]` before testing the index (every pid the MMU is sent is
  in the table in the model).
- mgr.c: `h`, `p` and invalid input (no state change), the random job
  name, and a failing `execl` (the child would run a second mgr loop on the
  same terminal). The `job` program is not in the repository.
- prodcons.c: reading n and t; the `SLEEP` delay is a widening of a window
  every interleaving already has.
- boss.c and worker.c: reading graph.txt, the prints, the attach code
  beyond what IPC_CREAT implies. The compiler may hoist the non-volatile
  busy-wait reads of prodcons.c; the model assumes each read sees memory.
- `foothread.h`: types and constants only.
- Printing and input parsing everywhere, except where a property needs them
  (`format_time`).
