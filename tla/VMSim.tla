------------------------------- MODULE VMSim -------------------------------
(***************************************************************************)
(* Demand-paged virtual memory simulation of "Assignment 8": the master    *)
(* (master.c), the scheduler (sched.c), the memory management unit         *)
(* (mmu.c) and the k workload processes (process.c), communicating through *)
(* three System V message queues, with the page tables (SM1) and the free  *)
(* frame list (SM2) in shared memory.                                      *)
(*                                                                         *)
(* Message queue 1 carries "ready" messages of type 1 (FIFO ready queue)   *)
(* and grants of type pid; they are the variables mq1 and grant.           *)
(* Message queue 2 carries MMU -> scheduler notices of type 1 (re-admit)   *)
(* and 2 (terminated) and the MMU's start-up message of type 100: mq2.     *)
(* Message queue 3 carries page requests of type 1 (mq3) and the MMU's     *)
(* replies of type pid (reply).                                            *)
(***************************************************************************)
EXTENDS Integers, Sequences, FiniteSets
LOCAL INSTANCE SequencesExt
LOCAL INSTANCE FiniteSetsExt

CONSTANTS
    K,          \* number of workload processes (k read by master.c)
    M,          \* virtual address space size (m)
    F,          \* number of physical frames (f)
    Workloads,  \* the (mi, reference string) pairs master.c may generate
    TsBound     \* bound on the MMU's timestamp counter, for TLC

Procs  == 1..K
Pages  == 0..M-1
Frames == 0..F-1

\* Page numbers in replies and requests (process.c, mmu.c).
FAULT   == -1      \* reply: page fault, wait to be re-admitted
ILLEGAL == -2      \* reply: illegal page number, terminate
TERM    == -9      \* request: the process has finished its string
INT_MAX == 2147483647
NoFrame == -1
NoReport == -1    \* the MMU has not printed its report

\* master.c draws mi from 1..m, a string of 2*mi..10*mi references, each
\* either legal (< mi) or, only when m > mi, illegal (in mi..m-1).
ASSUME WorkloadsGenerable ==
    \A w \in Workloads :
        /\ w.mi \in 1..M
        /\ Len(w.ref) \in 2 * w.mi .. 10 * w.mi
        /\ \A j \in 1..Len(w.ref) : w.ref[j] \in Pages
ASSUME K >= 1 /\ M >= 1 /\ F \in Nat /\ TsBound \in Nat

VARIABLES
    mi, ref,            \* sm1[i].mi and the process's reference string
    pt,                 \* sm1[i].pagetable: [frame, valid, timestamp]
    sm2,                \* free frame list: 1 free, 0 occupied
    faults, illegal,    \* sm1[i].total_page_faults / total_illegal_access
    timestamp,          \* mmu.c: timestamp
    mmuTerminated,      \* mmu.c: total_num_processes
    mmuPc,
    report,             \* slots the MMU's SIGINT handler printed
    mq1, grant, mq2, mq3, reply,
    schedPc, schedK, schedCur,   \* sched.c: loop point, k, msg1.pid
    masterPc, spawned, syncSem,
    ipc,                \* "alive" until master removes queues and segments
    procPc, cursor      \* process.c: control point, index of the page

mmuVars    == <<timestamp, mmuTerminated, mmuPc, report>>
tableVars  == <<pt, sm2, faults, illegal>>
schedVars  == <<schedPc, schedK, schedCur>>
masterVars == <<masterPc, spawned, syncSem, ipc>>
procVars   == <<procPc, cursor>>
msgVars    == <<mq1, grant, mq2, mq3, reply>>
vars == <<mi, ref, mmuVars, tableVars, schedVars, masterVars, procVars, msgVars>>

EmptyPTE == [frame |-> NoFrame, valid |-> 0, ts |-> INT_MAX]

Msg2(t, p) == [type |-> t, pid |-> p]

-----------------------------------------------------------------------------
(* master.c: initialisation of SM1, SM2 and the reference strings.         *)

Init ==
    /\ \E w \in [Procs -> Workloads] :
          /\ mi  = [p \in Procs |-> w[p].mi]
          /\ ref = [p \in Procs |-> w[p].ref]
    /\ pt = [p \in Procs |-> [pg \in Pages |-> EmptyPTE]]
    /\ sm2 = [f \in Frames |-> 1]
    /\ faults = [p \in Procs |-> 0]
    /\ illegal = [p \in Procs |-> 0]
    /\ timestamp = 0
    /\ mmuTerminated = 0
    /\ mmuPc = "start"
    /\ report = NoReport
    /\ mq1 = <<>>
    /\ grant = [p \in Procs |-> 0]
    /\ mq2 = <<>>
    /\ mq3 = <<>>
    /\ reply = [p \in Procs |-> <<>>]
    /\ schedPc = "admit"
    /\ schedK = K
    /\ schedCur = 0
    /\ masterPc = "waitHello"
    /\ spawned = 0
    /\ syncSem = 0
    /\ ipc = "alive"
    /\ procPc = [p \in Procs |-> "unspawned"]
    /\ cursor = [p \in Procs |-> 1]

-----------------------------------------------------------------------------
(* master.c                                                                *)

\* Receive the MMU's start-up message (type 100) to learn its pid.
MasterRecvHello ==
    /\ masterPc = "waitHello"
    /\ \E i \in 1..Len(mq2) : mq2[i].type = 100
    /\ mq2' = RemoveAt(mq2, SelectInSeq(mq2, LAMBDA m : m.type = 100))
    /\ masterPc' = "spawn"
    /\ UNCHANGED <<mi, ref, mmuVars, tableVars, schedVars, spawned, syncSem,
                   ipc, procVars, mq1, grant, mq3, reply>>

\* Mutant: processes forked before the MMU's start-up message is received.
MasterSpawnEarly ==
    /\ masterPc \in {"waitHello", "spawn"}
    /\ spawned < K
    /\ procPc' = [procPc EXCEPT ![spawned + 1] = "start"]
    /\ spawned' = spawned + 1
    /\ masterPc' = IF spawned + 1 = K THEN "waitSync" ELSE masterPc
    /\ UNCHANGED <<mi, ref, mmuVars, tableVars, schedVars, syncSem, ipc,
                   cursor, msgVars>>

\* Fork the next process; the child records its pid in sm1[i] and execs.
MasterSpawn ==
    /\ masterPc = "spawn"
    /\ spawned < K
    /\ procPc' = [procPc EXCEPT ![spawned + 1] = "start"]
    /\ spawned' = spawned + 1
    /\ masterPc' = IF spawned + 1 = K THEN "waitSync" ELSE "spawn"
    /\ UNCHANGED <<mi, ref, mmuVars, tableVars, schedVars, syncSem, ipc,
                   cursor, msgVars>>

\* The MMU's SIGINT handler prints sm1[i] for i < total_num_processes, the
\* count of processes it has seen terminate or access an illegal page.
SigHandlerReport == mmuTerminated

\* P(sync_sem), then kill the scheduler and the MMU and remove the message
\* queues: messages still in them are lost.
MasterCleanup ==
    /\ masterPc = "waitSync"
    /\ syncSem > 0
    /\ syncSem' = syncSem - 1
    /\ mmuPc' = "killed"
    /\ report' = SigHandlerReport
    /\ masterPc' = "done"
    /\ ipc' = "removed"
    /\ mq1' = <<>>
    /\ grant' = [p \in Procs |-> 0]
    /\ mq2' = <<>>
    /\ mq3' = <<>>
    /\ reply' = [p \in Procs |-> <<>>]
    /\ UNCHANGED <<mi, ref, timestamp, mmuTerminated, tableVars, schedVars,
                   spawned, procVars>>

\* SIGINT or SIGQUIT to master (sighand, cleanup_on_exit): the scheduler
\* is killed; the MMU is sent SIGINT, and its handler prints the first
\* total_num_processes slots of SM1, once master knows its pid (after the
\* type-100 message); the queues are removed and master exits.  Processes
\* not yet forked never are; the forked ones run on against removed queues.
MasterInterrupt ==
    /\ masterPc \in {"waitHello", "spawn", "waitSync"}
    /\ schedPc' = "killed"
    /\ mmuPc' = IF masterPc = "waitHello" THEN mmuPc ELSE "killed"
    /\ report' = IF masterPc = "waitHello" THEN report ELSE SigHandlerReport
    /\ masterPc' = "interrupted"
    /\ ipc' = "removed"
    /\ mq1' = <<>>
    /\ grant' = [p \in Procs |-> 0]
    /\ mq2' = <<>>
    /\ mq3' = <<>>
    /\ reply' = [p \in Procs |-> <<>>]
    /\ UNCHANGED <<mi, ref, timestamp, mmuTerminated, tableVars, schedK,
                   schedCur, spawned, syncSem, procVars>>

-----------------------------------------------------------------------------
(* sched.c                                                                 *)

\* Mutant: the scheduler grants without then waiting on queue 2.
SchedAdmitNoWait ==
    /\ schedPc = "admit"
    /\ mq1 # <<>>
    /\ schedCur' = Head(mq1)
    /\ mq1' = Tail(mq1)
    /\ grant' = [grant EXCEPT ![Head(mq1)] = @ + 1]
    /\ UNCHANGED <<mi, ref, mmuVars, tableVars, schedPc, schedK, masterVars,
                   procVars, mq2, mq3, reply>>

\* msgrcv a type-1 message from queue 1, then grant that process (type pid).
SchedAdmit ==
    /\ schedPc = "admit"
    /\ mq1 # <<>>
    /\ schedCur' = Head(mq1)
    /\ mq1' = Tail(mq1)
    /\ grant' = [grant EXCEPT ![Head(mq1)] = @ + 1]
    /\ schedPc' = "await"
    /\ UNCHANGED <<mi, ref, mmuVars, tableVars, schedK, masterVars, procVars,
                   mq2, mq3, reply>>

\* msgrcv any message of queue 2; type 1: put the pid back in the ready queue.
SchedReadmit ==
    /\ schedPc = "await"
    /\ mq2 # <<>>
    /\ Head(mq2).type = 1
    /\ mq2' = Tail(mq2)
    /\ mq1' = Append(mq1, Head(mq2).pid)
    /\ schedPc' = "admit"
    /\ UNCHANGED <<mi, ref, mmuVars, tableVars, schedK, schedCur, masterVars,
                   procVars, grant, mq3, reply>>

\* Mutant: the loop runs while k > 1, one termination too early.
SchedTerminatedEarly ==
    /\ schedPc = "await"
    /\ mq2 # <<>>
    /\ Head(mq2).type = 2
    /\ mq2' = Tail(mq2)
    /\ schedK' = schedK - 1
    /\ schedPc' = IF schedK - 1 > 1 THEN "admit" ELSE "done"
    /\ syncSem' = IF schedK - 1 > 1 THEN syncSem ELSE syncSem + 1
    /\ UNCHANGED <<mi, ref, mmuVars, tableVars, schedCur, masterPc, spawned,
                   ipc, procVars, mq1, grant, mq3, reply>>

\* Type 2: k--; when k reaches 0 leave the loop and V(sync_sem).
SchedTerminated ==
    /\ schedPc = "await"
    /\ mq2 # <<>>
    /\ Head(mq2).type = 2
    /\ mq2' = Tail(mq2)
    /\ schedK' = schedK - 1
    /\ schedPc' = IF schedK - 1 > 0 THEN "admit" ELSE "done"
    /\ syncSem' = IF schedK - 1 > 0 THEN syncSem ELSE syncSem + 1
    /\ UNCHANGED <<mi, ref, mmuVars, tableVars, schedCur, masterPc, spawned,
                   ipc, procVars, mq1, grant, mq3, reply>>

-----------------------------------------------------------------------------
(* process.c                                                               *)

\* msgsnd on a removed queue fails and the message is lost.
Send(q, m) == IF ipc = "alive" THEN Append(q, m) ELSE q

\* Send the pid to the ready queue (type 1).
ProcStart(p) ==
    /\ procPc[p] = "start"
    /\ mq1' = Send(mq1, p)
    /\ procPc' = [procPc EXCEPT ![p] = "awaitGrant"]
    /\ UNCHANGED <<mi, ref, mmuVars, tableVars, schedVars, masterVars, cursor,
                   grant, mq2, mq3, reply>>

\* msgrcv of type pid on queue 1: initial start or re-admission after a fault
\* (the cursor was left on the faulting page, i = prev_i).
ProcRecvGrant(p) ==
    /\ procPc[p] = "awaitGrant"
    /\ grant[p] > 0
    /\ grant' = [grant EXCEPT ![p] = @ - 1]
    /\ procPc' = [procPc EXCEPT ![p] = "run"]
    /\ UNCHANGED <<mi, ref, mmuVars, tableVars, schedVars, masterVars, cursor,
                   mq1, mq2, mq3, reply>>

\* Send the next page of the reference string to the MMU.
ProcRequest(p) ==
    /\ procPc[p] = "run"
    /\ cursor[p] <= Len(ref[p])
    /\ mq3' = Send(mq3, [pid |-> p, page |-> ref[p][cursor[p]]])
    /\ procPc' = [procPc EXCEPT ![p] = "awaitReply"]
    /\ UNCHANGED <<mi, ref, mmuVars, tableVars, schedVars, masterVars, cursor,
                   mq1, grant, mq2, reply>>

\* String exhausted: send the -9 sentinel and exit.
ProcFinish(p) ==
    /\ procPc[p] = "run"
    /\ cursor[p] > Len(ref[p])
    /\ mq3' = Send(mq3, [pid |-> p, page |-> TERM])
    /\ procPc' = [procPc EXCEPT ![p] = "exited"]
    /\ UNCHANGED <<mi, ref, mmuVars, tableVars, schedVars, masterVars, cursor,
                   mq1, grant, mq2, reply>>

\* Mutant: on a fault the process retries at once, without a grant.
ProcRecvReplyNoWait(p) ==
    /\ procPc[p] = "awaitReply"
    /\ reply[p] # <<>>
    /\ reply' = [reply EXCEPT ![p] = Tail(@)]
    /\ \/ /\ Head(reply[p]) = ILLEGAL
          /\ procPc' = [procPc EXCEPT ![p] = "exited"]
          /\ UNCHANGED cursor
       \/ /\ Head(reply[p]) = FAULT
          /\ procPc' = [procPc EXCEPT ![p] = "run"]
          /\ UNCHANGED cursor
       \/ /\ Head(reply[p]) >= 0
          /\ procPc' = [procPc EXCEPT ![p] = "run"]
          /\ cursor' = [cursor EXCEPT ![p] = @ + 1]
    /\ UNCHANGED <<mi, ref, mmuVars, tableVars, schedVars, masterVars,
                   mq1, grant, mq2, mq3>>

\* Mutant: on a fault the process also puts itself in the ready queue.
ProcRecvReplySelfEnqueue(p) ==
    /\ procPc[p] = "awaitReply"
    /\ reply[p] # <<>>
    /\ reply' = [reply EXCEPT ![p] = Tail(@)]
    /\ \/ /\ Head(reply[p]) = ILLEGAL
          /\ procPc' = [procPc EXCEPT ![p] = "exited"]
          /\ UNCHANGED <<cursor, mq1>>
       \/ /\ Head(reply[p]) = FAULT
          /\ procPc' = [procPc EXCEPT ![p] = "awaitGrant"]
          /\ mq1' = Append(mq1, p)
          /\ UNCHANGED cursor
       \/ /\ Head(reply[p]) >= 0
          /\ procPc' = [procPc EXCEPT ![p] = "run"]
          /\ cursor' = [cursor EXCEPT ![p] = @ + 1]
          /\ UNCHANGED mq1
    /\ UNCHANGED <<mi, ref, mmuVars, tableVars, schedVars, masterVars,
                   grant, mq2, mq3>>

\* The MMU's reply: -2 terminates, -1 waits for a grant, a frame advances.
ProcRecvReply(p) ==
    /\ procPc[p] = "awaitReply"
    /\ reply[p] # <<>>
    /\ reply' = [reply EXCEPT ![p] = Tail(@)]
    /\ \/ /\ Head(reply[p]) = ILLEGAL
          /\ procPc' = [procPc EXCEPT ![p] = "exited"]
          /\ UNCHANGED cursor
       \/ /\ Head(reply[p]) = FAULT
          /\ procPc' = [procPc EXCEPT ![p] = "awaitGrant"]
          /\ UNCHANGED cursor
       \/ /\ Head(reply[p]) >= 0
          /\ procPc' = [procPc EXCEPT ![p] = "run"]
          /\ cursor' = [cursor EXCEPT ![p] = @ + 1]
    /\ UNCHANGED <<mi, ref, mmuVars, tableVars, schedVars, masterVars,
                   mq1, grant, mq2, mq3>>

\* The msgrcv for a grant (at start or after a fault) on a removed queue
\* returns -1, unchecked: the process runs on as if it had been granted.
ProcRecvGrantFailed(p) ==
    /\ procPc[p] = "awaitGrant"
    /\ ipc = "removed"
    /\ procPc' = [procPc EXCEPT ![p] = "run"]
    /\ UNCHANGED <<mi, ref, mmuVars, tableVars, schedVars, masterVars, cursor,
                   msgVars>>

\* msgrcv on a removed queue returns -1; its return value is not checked and
\* msg3.page_frame still holds the page just sent (>= 0), which is taken
\* for a frame: the process advances to its next page.
ProcRecvFailed(p) ==
    /\ procPc[p] = "awaitReply"
    /\ ipc = "removed"
    /\ procPc' = [procPc EXCEPT ![p] = "run"]
    /\ cursor' = [cursor EXCEPT ![p] = @ + 1]
    /\ UNCHANGED <<mi, ref, mmuVars, tableVars, schedVars, masterVars,
                   msgVars>>

-----------------------------------------------------------------------------
(* mmu.c                                                                   *)

\* Announce the MMU's pid to master (type 100 on queue 2).
MMUStart ==
    /\ mmuPc = "start"
    /\ mq2' = Send(mq2, Msg2(100, 0))
    /\ mmuPc' = "loop"
    /\ UNCHANGED <<mi, ref, timestamp, mmuTerminated, report, tableVars, schedVars,
                   masterVars, procVars, mq1, grant, mq3, reply>>

\* Common part of every request: msgrcv type 1 on queue 3, timestamp++.
Receive ==
    /\ mmuPc = "loop"
    /\ mq3 # <<>>
    /\ timestamp < TsBound
    /\ mq3' = Tail(mq3)
    /\ timestamp' = timestamp + 1

Req == Head(mq3)

\* Page-table lines of process p after returning all its frames to SM2.
FreedTable(p) ==
    [pg \in Pages |-> IF pg < mi[p] /\ pt[p][pg].frame # NoFrame
                      THEN EmptyPTE ELSE pt[p][pg]]
FreedSM2(p) ==
    [f \in Frames |-> IF \E pg \in 0..mi[p]-1 : pt[p][pg].frame = f
                      THEN 1 ELSE sm2[f]]

\* page == -9: free the frames, total_num_processes++, type 2 to scheduler.
MMUTerminate ==
    /\ Receive
    /\ Req.page = TERM
    /\ pt' = [pt EXCEPT ![Req.pid] = FreedTable(Req.pid)]
    /\ sm2' = FreedSM2(Req.pid)
    /\ mmuTerminated' = mmuTerminated + 1
    /\ mq2' = Append(mq2, Msg2(2, Req.pid))
    /\ UNCHANGED <<mi, ref, mmuPc, report, faults, illegal, schedVars, masterVars,
                   procVars, mq1, grant, reply>>

\* Mutant: msg3.page_frame is not set to -2 (the page is echoed back).
MMUIllegalNoCode ==
    /\ Receive
    /\ Req.page # TERM
    /\ Req.page >= mi[Req.pid]
    /\ illegal' = [illegal EXCEPT ![Req.pid] = @ + 1]
    /\ mmuTerminated' = mmuTerminated + 1
    /\ reply' = [reply EXCEPT ![Req.pid] = Append(@, Req.page)]
    /\ pt' = [pt EXCEPT ![Req.pid] = FreedTable(Req.pid)]
    /\ sm2' = FreedSM2(Req.pid)
    /\ mq2' = Append(mq2, Msg2(2, Req.pid))
    /\ UNCHANGED <<mi, ref, mmuPc, report, faults, schedVars, masterVars, procVars,
                   mq1, grant>>

\* page >= mi: count it, reply -2, free the frames, type 2 to scheduler.
MMUIllegal ==
    /\ Receive
    /\ Req.page # TERM
    /\ Req.page >= mi[Req.pid]
    /\ illegal' = [illegal EXCEPT ![Req.pid] = @ + 1]
    /\ mmuTerminated' = mmuTerminated + 1
    /\ reply' = [reply EXCEPT ![Req.pid] = Append(@, ILLEGAL)]
    /\ pt' = [pt EXCEPT ![Req.pid] = FreedTable(Req.pid)]
    /\ sm2' = FreedSM2(Req.pid)
    /\ mq2' = Append(mq2, Msg2(2, Req.pid))
    /\ UNCHANGED <<mi, ref, mmuPc, report, faults, schedVars, masterVars, procVars,
                   mq1, grant>>

IsHit(p, pg) == pt[p][pg].frame # NoFrame /\ pt[p][pg].valid = 1

\* Mutant: a hit also notifies the scheduler with a type-1 message.
MMUHitNotifies ==
    /\ Receive
    /\ Req.page # TERM
    /\ Req.page < mi[Req.pid]
    /\ IsHit(Req.pid, Req.page)
    /\ pt' = [pt EXCEPT ![Req.pid][Req.page].ts = timestamp + 1]
    /\ reply' = [reply EXCEPT ![Req.pid] = Append(@, pt[Req.pid][Req.page].frame)]
    /\ mq2' = Append(mq2, Msg2(1, Req.pid))
    /\ UNCHANGED <<mi, ref, mmuPc, report, mmuTerminated, sm2, faults, illegal,
                   schedVars, masterVars, procVars, mq1, grant>>

\* Mutant: a hit replies with the frame but leaves the timestamp alone.
MMUHitNoRefresh ==
    /\ Receive
    /\ Req.page # TERM
    /\ Req.page < mi[Req.pid]
    /\ IsHit(Req.pid, Req.page)
    /\ reply' = [reply EXCEPT ![Req.pid] = Append(@, pt[Req.pid][Req.page].frame)]
    /\ UNCHANGED <<mi, ref, mmuPc, report, mmuTerminated, pt, sm2, faults, illegal,
                   schedVars, masterVars, procVars, mq1, grant, mq2>>

\* Valid page: refresh its timestamp and reply with the frame.
MMUHit ==
    /\ Receive
    /\ Req.page # TERM
    /\ Req.page < mi[Req.pid]
    /\ IsHit(Req.pid, Req.page)
    /\ pt' = [pt EXCEPT ![Req.pid][Req.page].ts = timestamp + 1]
    /\ reply' = [reply EXCEPT ![Req.pid] = Append(@, pt[Req.pid][Req.page].frame)]
    /\ UNCHANGED <<mi, ref, mmuPc, report, mmuTerminated, sm2, faults, illegal,
                   schedVars, masterVars, procVars, mq1, grant, mq2>>

\* Page fault: count it, reply -1; the three ways of resolving it follow.
Fault ==
    /\ Receive
    /\ Req.page # TERM
    /\ Req.page < mi[Req.pid]
    /\ ~IsHit(Req.pid, Req.page)
    /\ faults' = [faults EXCEPT ![Req.pid] = @ + 1]
    /\ reply' = [reply EXCEPT ![Req.pid] = Append(@, FAULT)]
    /\ mq2' = Append(mq2, Msg2(1, Req.pid))
    /\ UNCHANGED <<mi, ref, mmuPc, report, mmuTerminated, illegal, schedVars,
                   masterVars, procVars, mq1, grant>>

FreeFrames == {f \in Frames : sm2[f] = 1}

\* Mutant: the frame found free is not marked occupied in SM2.
MMUFaultFreeNoMark ==
    /\ Fault
    /\ FreeFrames # {}
    /\ LET f == Min(FreeFrames) IN
         /\ pt' = [pt EXCEPT ![Req.pid][Req.page] =
                       [frame |-> f, valid |-> 1, ts |-> timestamp + 1]]
    /\ UNCHANGED sm2

\* The scan of SM2 takes the lowest-numbered free frame.
MMUFaultFree ==
    /\ Fault
    /\ FreeFrames # {}
    /\ LET f == Min(FreeFrames) IN
         /\ sm2' = [sm2 EXCEPT ![f] = 0]
         /\ pt' = [pt EXCEPT ![Req.pid][Req.page] =
                       [frame |-> f, valid |-> 1, ts |-> timestamp + 1]]

\* Candidate victims of the LRU scan: p's pages with a frame and a
\* timestamp below min_time = INT_MAX.
LRUCandidates(p) ==
    {i \in 0..mi[p]-1 : pt[p][i].frame # NoFrame /\ pt[p][i].ts < INT_MAX}

\* Mutant: min_time is never lowered, so the last candidate is kept.
LRUVictimLast(p) ==
    CHOOSE i \in LRUCandidates(p) : \A j \in LRUCandidates(p) : j <= i

\* The scan keeps the first page of strictly smallest timestamp.
LRUVictim(p) ==
    CHOOSE i \in LRUCandidates(p) :
        \A j \in LRUCandidates(p) :
            \/ pt[p][i].ts < pt[p][j].ts
            \/ pt[p][i].ts = pt[p][j].ts /\ i <= j

\* Mutant: the victim's entry is not invalidated after its frame is taken.
MMUFaultReplaceKeepVictim ==
    /\ Fault
    /\ FreeFrames = {}
    /\ LRUCandidates(Req.pid) # {}
    /\ LET p == Req.pid
           v == LRUVictim(p)
       IN  pt' = [pt EXCEPT ![p][Req.page] =
                          [frame |-> pt[p][v].frame, valid |-> 1,
                           ts |-> timestamp + 1]]
    /\ UNCHANGED sm2

\* No free frame: give the faulting page the frame of p's LRU page.
MMUFaultReplace ==
    /\ Fault
    /\ FreeFrames = {}
    /\ LRUCandidates(Req.pid) # {}
    /\ LET p == Req.pid
           v == LRUVictim(p)
       IN  pt' = [pt EXCEPT ![p][Req.page] =
                          [frame |-> pt[p][v].frame, valid |-> 1,
                           ts |-> timestamp + 1],
                        ![p][v] = EmptyPTE]
    /\ UNCHANGED sm2

\* Mutant: the no-victim branch does not message the scheduler.
MMUFaultNoVictimSilent ==
    /\ Receive
    /\ Req.page # TERM
    /\ Req.page < mi[Req.pid]
    /\ ~IsHit(Req.pid, Req.page)
    /\ FreeFrames = {}
    /\ LRUCandidates(Req.pid) = {}
    /\ faults' = [faults EXCEPT ![Req.pid] = @ + 1]
    /\ reply' = [reply EXCEPT ![Req.pid] = Append(@, FAULT)]
    /\ UNCHANGED <<mi, ref, mmuPc, report, mmuTerminated, illegal, pt, sm2, schedVars,
                   masterVars, procVars, mq1, grant, mq2>>

\* No free frame and p owns none: re-admit p to retry the page later.
MMUFaultNoVictim ==
    /\ Fault
    /\ FreeFrames = {}
    /\ LRUCandidates(Req.pid) = {}
    /\ UNCHANGED <<pt, sm2>>

-----------------------------------------------------------------------------

\* Master has returned or exited; the stutter of the end.
Finished ==
    /\ masterPc \in {"done", "interrupted"}
    /\ UNCHANGED vars

MasterStep == MasterRecvHello \/ MasterSpawn \/ MasterCleanup
SchedStep  == SchedAdmit \/ SchedReadmit \/ SchedTerminated
MMUStep    == MMUStart \/ MMUTerminate \/ MMUIllegal \/ MMUHit
              \/ MMUFaultFree \/ MMUFaultReplace \/ MMUFaultNoVictim
ProcStep(p) == ProcStart(p) \/ ProcRecvGrant(p) \/ ProcRequest(p)
               \/ ProcFinish(p) \/ ProcRecvReply(p) \/ ProcRecvFailed(p)
               \/ ProcRecvGrantFailed(p)

Next ==
    \/ MasterStep
    \/ SchedStep
    \/ MMUStep
    \/ \E p \in Procs : ProcStep(p)
    \/ MasterInterrupt
    \/ Finished

\* Each of master, scheduler, MMU and the k processes is an OS process
\* blocked only in msgrcv/semop: once its message is there it runs.  The
\* interrupt comes from the user and is not forced by any fairness.
Fairness ==
    /\ WF_vars(MasterStep)
    /\ WF_vars(SchedStep)
    /\ WF_vars(MMUStep)
    /\ \A p \in Procs : WF_vars(ProcStep(p))

Spec == Init /\ [][Next]_vars /\ Fairness

-----------------------------------------------------------------------------
(* Properties                                                              *)

TypeOK ==
    /\ mi \in [Procs -> 1..M]
    /\ pt \in [Procs -> [Pages -> [frame : {NoFrame} \cup Frames,
                                   valid : {0, 1},
                                   ts : 0..TsBound \cup {INT_MAX}]]]
    /\ sm2 \in [Frames -> {0, 1}]
    /\ faults \in [Procs -> Nat] /\ illegal \in [Procs -> Nat]
    /\ timestamp \in 0..TsBound
    /\ mmuPc \in {"start", "loop", "killed"} /\ report \in {NoReport} \cup 0..K
    /\ mq1 \in Seq(Procs) /\ grant \in [Procs -> Nat]
    /\ mq2 \in Seq([type : {1, 2, 100}, pid : Procs \cup {0}])
    /\ mq3 \in Seq([pid : Procs, page : Pages \cup {TERM}])
    /\ reply \in [Procs -> Seq({FAULT, ILLEGAL} \cup Frames)]
    /\ schedPc \in {"admit", "await", "done", "killed"}
    /\ schedK \in 0..K /\ schedCur \in Procs \cup {0}
    /\ masterPc \in {"waitHello", "spawn", "waitSync", "done", "interrupted"}
    /\ spawned \in 0..K /\ syncSem \in 0..1 /\ ipc \in {"alive", "removed"}
    /\ procPc \in [Procs -> {"unspawned", "start", "awaitGrant", "run",
                             "awaitReply", "exited"}]
    /\ cursor \in [Procs -> Nat]

Owners(f) == {<<p, pg>> \in Procs \X Pages :
                 pt[p][pg].valid = 1 /\ pt[p][pg].frame = f}

\* The frame table of SM2 and the page tables of SM1 agree: a frame is marked
\* free exactly when no valid page-table entry of any process holds it, and
\* is held by at most one (process, page), across LRU replacement, illegal
\* accesses and terminations (mmu.c fault, replacement and free loops).
FrameOwnership ==
    \A f \in Frames :
        /\ Cardinality(Owners(f)) <= 1
        /\ (sm2[f] = 1) <=> (Owners(f) = {})

\* While the IPC exists (until master's cleanup), only the process the
\* scheduler granted last may run or have a request in
\* the MMU's queue, and at most one request is ever queued: the turn-taking
\* of sched.c (grant, then block on queue 2) is what keeps mmu.c's updates to
\* the shared page tables serial with respect to the processes.
ExclusiveRun ==
    /\ Len(mq3) <= 1
    /\ \A p \in Procs :
          (/\ ipc = "alive"
           /\ \/ procPc[p] = "run" \/ grant[p] > 0
              \/ \E i \in 1..Len(mq3) : mq3[i].pid = p)
          => schedPc = "await" /\ schedCur = p

\* A process is never entered twice: it is at most once in the ready queue,
\* holds at most one grant, and is not queued while it runs (sched.c
\* re-admits only on the MMU's type-1 notices).
SingleEntry ==
    \A p \in Procs :
        Len(SelectSeq(mq1, LAMBDA q : q = p)) + grant[p]
          + (IF procPc[p] = "run" THEN 1 ELSE 0) <= 1

\* The scheduler signals master only once the MMU has handled every
\* process's last request and returned every frame; each process has exited
\* or has only its -2 reply left to read (sched.c's k reaches 0 then).
CompletionSound ==
    schedPc = "done" /\ ipc = "alive" =>
        /\ \A p \in Procs :
              \/ procPc[p] = "exited"
              \/ procPc[p] = "awaitReply" /\ reply[p] = <<ILLEGAL>>
        /\ mq3 = <<>>
        /\ \A f \in Frames : sm2[f] = 1

\* The spec: the scheduler signals master when all workloads have
\* terminated (sched.c's V(sync_sem)).
CompletionMeansExited ==
    schedPc = "done" /\ ipc = "alive" => \A p \in Procs : procPc[p] = "exited"

\* The scheduler never takes the MMU's start-up message (type 100) from
\* queue 2: master consumes it before it forks any process.
HelloNotStolen ==
    schedPc = "await" /\ mq2 # <<>> => Head(mq2).type # 100

\* The position in p's reference string of its last request for page pg
\* before the one it is waiting on (0 if none): the recency that the
\* page-table timestamps are meant to record.
LastRef(p, pg) ==
    SelectLastInSubSeq(ref[p], 1, Min({cursor[p], Len(ref[p]) + 1}) - 1,
                       LAMBDA x : x = pg)

\* LRU replacement (mmu.c) evicts the least recently referenced page: when
\* a page of p takes the frame of another page v of p, no other resident
\* page of p was last referenced earlier in p's string than v.  Recency is
\* read from the reference string, so this holds only if every hit
\* refreshes the timestamp, every load stamps it, the scan compares them
\* the right way and stays within p's own table.
LRUEviction ==
    [][\A p \in Procs, v, u \in Pages :
          (/\ pt[p][v].valid = 1 /\ pt'[p][v].valid = 0
           /\ pt[p][u].valid = 0 /\ pt'[p][u].valid = 1
           /\ pt'[p][u].frame = pt[p][v].frame)
          => \A j \in Pages \ {v} :
                 pt[p][j].valid = 1 => LastRef(p, v) < LastRef(p, j)
      ]_pt

\* Every run of the simulation ends: every process terminates and master
\* is woken, even when frames are scarce and a process with no frame keeps
\* faulting (mmu.c's no-victim branch re-admits it).
AllComplete ==
    <>(\/ masterPc = "done" /\ \A p \in Procs : procPc[p] = "exited"
       \/ masterPc = "interrupted"
          /\ \A p \in Procs : procPc[p] \in {"exited", "unspawned"})

\* The spec: the final per-workload totals of faults and illegal accesses
\* are reported on interrupt or natural completion (mmu.c's sig_handler,
\* run when master sends the MMU SIGINT): the report covers every workload.
ReportCoversAll == report # NoReport => report = K


=============================================================================
