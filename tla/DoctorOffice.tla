--------------------------- MODULE DoctorOffice ---------------------------
(***************************************************************************)
(* session.c (Assignment 6): a doctor's office driven by an event queue.   *)
(* The main thread pops events in time order.  A 'D' event frees the       *)
(* doctor (or, once the quotas are met, sends the doctor home); an arrival *)
(* of a patient, reporter or sales representative creates a visitor       *)
(* thread, after a handshake on <kind>_done/<kind>_init.  When the doctor  *)
(* is free, main picks the next visitor (reporters, then patients, then    *)
(* sales representatives), wakes the doctor thread through doc_state and   *)
(* doc_cond, waits on doc_done, advances <kind>_curr and broadcasts        *)
(* <kind>_cond so that visitor thread enters, joins it and schedules a 'D' *)
(* event at the end of the visit.                                          *)
(*                                                                         *)
(* Each step runs from one blocking call (lock, cond_wait, join) to the    *)
(* next.  pthread_cond_wait is atomic release-and-enqueue; a woken thread  *)
(* reacquires the mutex and re-tests its while condition in one step.     *)
(* Printing is left out, but for the times it prints with format_time    *)
(* (module FormatTime); the prints the properties speak of are counted.    *)
(***************************************************************************)
EXTENDS Integers, Sequences, FiniteSets, Bags, FormatTime

CONSTANTS
  Main, Doctor,   \* the main and doctor threads
  NoOne,          \* an unheld mutex
  Arrivals,       \* arrival.txt: a sequence of [type, time, dur]
  Quota,          \* [P, S]: patients and sales representatives per session (25, 3)
  Cap             \* [P, R, S]: the sizes of the <kind>Q and <kind>_tids arrays (25, 100, 3)

Kinds == {"P", "R", "S"}
Priority == <<"R", "P", "S">>
NumOf(k) == Cardinality({j \in DOMAIN Arrivals : Arrivals[j].type = k})
Visitors == UNION {{<<k, id>> : id \in 1..NumOf(k)} : k \in Kinds}
Threads == {Main, Doctor} \cup Visitors
DoneEvent(t) == [type |-> "D", time |-> t, dur |-> 0]
NoEvent == [type |-> "none", time |-> 0, dur |-> 0]
\* curr_time before the first event (session.c initialises it to -1e9).
InitTime == -1000000000

CondOf == [P |-> "patient_cond", R |-> "reporter_cond", S |-> "salesrep_cond"]
InitOf == [P |-> "patient_init", R |-> "reporter_init", S |-> "salesrep_init"]
CondVars == {"doc_cond", "doc_done"} \cup {CondOf[k] : k \in Kinds} \cup {InitOf[k] : k \in Kinds}
\* where a thread woken on a condition variable resumes: relock, retest
WakeAt(cv) == CASE cv = "doc_cond" -> "dLock"
                [] cv = "doc_done" -> "waitDocLock"
                [] cv \in {InitOf[k] : k \in Kinds} -> "initLock"
                [] OTHER -> "vTurn"

ASSUME \A j \in DOMAIN Arrivals : Arrivals[j].type \in Kinds

VARIABLES
  E,                     \* the event queue, a bag of events
  cnt, wait, curr, done, \* <kind>_cnt, <kind>_wait, <kind>_curr, <kind>_done
  curr_time, doc_free, doc_session_end, doc_state,
  mutex, doc_mutex,      \* holder of each pthread mutex, or NoOne
  waiters,               \* the threads blocked on each condition variable
  pc,
  ev, cur_id, kind, visitor, current_time,  \* locals of main
  Q,                     \* <kind>Q: the stored arrival events by id
  seen, entered          \* "Doctor has next visitor" and "... is in doctor's chamber" lines

vars == <<E, cnt, wait, curr, done, curr_time, doc_free, doc_session_end, doc_state,
          mutex, doc_mutex, waiters, pc, ev, cur_id, kind, visitor, current_time,
          Q, seen, entered>>
mainLocals == <<ev, cur_id, kind, visitor, current_time>>

Init ==
  /\ E = [e \in {Arrivals[j] : j \in DOMAIN Arrivals} \cup {DoneEvent(0)} |->
            Cardinality({j \in DOMAIN Arrivals : Arrivals[j] = e})
            + (IF e = DoneEvent(0) THEN 1 ELSE 0)]
  /\ cnt = [k \in Kinds |-> 0] /\ wait = [k \in Kinds |-> 0]
  /\ curr = [k \in Kinds |-> 0] /\ done = [k \in Kinds |-> 0]
  /\ curr_time = InitTime /\ doc_free = 0 /\ doc_session_end = 0 /\ doc_state = 0
  /\ mutex = NoOne /\ doc_mutex = NoOne
  /\ waiters = [cv \in CondVars |-> {}]
  /\ pc = [t \in Threads |-> CASE t = Main -> "loop" [] t = Doctor -> "dLock"
                                  [] OTHER -> "none"]
  /\ ev = NoEvent /\ cur_id = 0 /\ kind = "P" /\ visitor = NoEvent /\ current_time = 0
  /\ Q = [k \in Kinds |-> [id \in 1..NumOf(k) |-> NoEvent]]
  /\ seen = 0 /\ entered = 0

-----------------------------------------------------------------------------
(* pthread primitives *)

\* self moves to next, the threads in S wake on cv
Wake(self, next, cv, S) ==
  /\ pc' = [t \in Threads |-> IF t = self THEN next
                              ELSE IF t \in S THEN WakeAt(cv) ELSE pc[t]]
  /\ waiters' = [waiters EXCEPT ![cv] = @ \ S]

\* pthread_cond_signal: at least one waiter (one here) wakes, if any waits
Signal(self, next, cv) ==
  \E S \in IF waiters[cv] = {} THEN {{}} ELSE {{w} : w \in waiters[cv]} :
    Wake(self, next, cv, S)

Broadcast(self, next, cv) == Wake(self, next, cv, waiters[cv])

\* pthread_cond_wait: release the mutex and block, in one step
CondWait(self, cv) ==
  /\ pc' = [pc EXCEPT ![self] = "waiting"]
  /\ waiters' = [waiters EXCEPT ![cv] = @ \cup {self}]

Goto(self, l) == pc' = [pc EXCEPT ![self] = l] /\ UNCHANGED waiters


-----------------------------------------------------------------------------
(* main: the event loop *)

\* the events nextevent may return: the earliest ones (event.h is not in
\* the repository, so ties are broken either way)
Earliest == {e \in BagToSet(E) : \A f \in BagToSet(E) : e.time <= f.time}

\* mutant: the session ends without looking at waiting reporters
SessionOverIgnoringReporters == curr["P"] = Quota["P"] /\ curr["S"] = Quota["S"]

\* the session is over once every patient and sales representative of the
\* quotas has been seen and no reporter waits
SessionOver == curr["P"] = Quota["P"] /\ curr["S"] = Quota["S"] /\ wait["R"] = 0

\* nextevent, delevent, lock(mutex), curr_time = time; a 'D' event frees
\* the doctor, or sends it home with mutex still held
MainEventD ==
  /\ pc[Main] = "loop" /\ mutex = NoOne
  /\ \E e \in Earliest :
       /\ e.type = "D"
       /\ E' = E (-) SetToBag({e})
       /\ curr_time' = e.time
       /\ doc_free' = 1
       /\ IF SessionOver THEN mutex' = Main /\ Goto(Main, "endLockDoc")
                         ELSE UNCHANGED mutex /\ Goto(Main, "sched")
  /\ UNCHANGED <<cnt, wait, curr, done, doc_session_end, doc_state, doc_mutex,
                 mainLocals, Q, seen, entered>>

\* mutant: the quota test lets one visitor too many in
MainEventArrivalQuotaOffByOne ==
  /\ pc[Main] = "loop" /\ mutex = NoOne
  /\ \E e \in Earliest :
       LET k == e.type
           turnedAway == doc_session_end = 1 \/ (k \in DOMAIN Quota /\ cnt[k] > Quota[k])
       IN
       /\ k \in Kinds
       /\ E' = E (-) SetToBag({e})
       /\ curr_time' = e.time
       /\ cnt' = [cnt EXCEPT ![k] = @ + 1]
       /\ ev' = e
       /\ IF turnedAway
          THEN Goto(Main, "loop") /\ UNCHANGED <<wait, done, cur_id>>
          ELSE /\ wait' = [wait EXCEPT ![k] = @ + 1]
               /\ done' = [done EXCEPT ![k] = 0]
               /\ cur_id' = cnt[k] + 1
               /\ Goto(Main, "create")
  /\ UNCHANGED <<curr, doc_free, doc_session_end, doc_state, mutex, doc_mutex,
                 kind, visitor, current_time, Q, seen, entered>>

\* an arrival: <kind>_cnt++; it leaves if the session is over or the
\* quota is full, else <kind>_wait++, curr_id = cnt, <kind>_done = 0
MainEventArrival ==
  /\ pc[Main] = "loop" /\ mutex = NoOne
  /\ \E e \in Earliest :
       LET k == e.type
           turnedAway == doc_session_end = 1 \/ (k \in DOMAIN Quota /\ cnt[k] + 1 > Quota[k])
       IN
       /\ k \in Kinds
       /\ E' = E (-) SetToBag({e})
       /\ curr_time' = e.time
       /\ cnt' = [cnt EXCEPT ![k] = @ + 1]
       /\ ev' = e
       /\ IF turnedAway
          THEN Goto(Main, "loop") /\ UNCHANGED <<wait, done, cur_id>>
          ELSE /\ wait' = [wait EXCEPT ![k] = @ + 1]
               /\ done' = [done EXCEPT ![k] = 0]
               /\ cur_id' = cnt[k] + 1
               /\ Goto(Main, "create")
  /\ UNCHANGED <<curr, doc_free, doc_session_end, doc_state, mutex, doc_mutex,
                 kind, visitor, current_time, Q, seen, entered>>

\* holding mutex: lock(doc_mutex), doc_state = -1, signal(doc_cond),
\* unlock(doc_mutex), doc_session_end = 1, doc_free = 0, unlock(mutex)
MainEndSession ==
  /\ pc[Main] = "endLockDoc" /\ doc_mutex = NoOne
  /\ doc_state' = -1
  /\ Signal(Main, "joinDoc", "doc_cond")
  /\ doc_session_end' = 1 /\ doc_free' = 0 /\ mutex' = NoOne
  /\ UNCHANGED <<E, cnt, wait, curr, done, curr_time, doc_mutex, mainLocals, Q, seen, entered>>

\* pthread_join(doctor_tid); continue
MainJoinDoctor ==
  /\ pc[Main] = "joinDoc" /\ pc[Doctor] = "exited"
  /\ Goto(Main, "loop")
  /\ UNCHANGED <<E, cnt, wait, curr, done, curr_time, doc_free, doc_session_end,
                 doc_state, mutex, doc_mutex, mainLocals, Q, seen, entered>>

\* pthread_create of the visitor thread
MainCreate ==
  /\ pc[Main] = "create"
  /\ pc' = [pc EXCEPT ![Main] = "initLock", ![<<ev.type, cur_id>>] = "vInit"]
  /\ UNCHANGED <<E, cnt, wait, curr, done, curr_time, doc_free, doc_session_end,
                 doc_state, mutex, doc_mutex, waiters, mainLocals, Q, seen, entered>>

\* lock(mutex); while (<kind>_done == 0) cond_wait(<kind>_init); done = 0;
\* unlock(mutex); <kind>Q[curr_id-1] = newevent
MainAwaitInit ==
  LET k == ev.type IN
  /\ pc[Main] = "initLock" /\ mutex = NoOne
  /\ IF done[k] = 0
     THEN CondWait(Main, InitOf[k]) /\ UNCHANGED <<done, Q>>
     ELSE /\ done' = [done EXCEPT ![k] = 0]
          /\ Q' = [Q EXCEPT ![k][cur_id] = ev]
          /\ Goto(Main, "sched")
  /\ UNCHANGED <<E, cnt, wait, curr, curr_time, doc_free, doc_session_end,
                 doc_state, mutex, doc_mutex, mainLocals, seen, entered>>

\* mutant: every branch decrements reporter_wait (a copy-and-paste slip)
MainScheduleCopyPaste ==
  LET ready == {j \in 1..3 : wait[Priority[j]] > 0} IN
  /\ pc[Main] = "sched" /\ mutex = NoOne
  /\ IF doc_free = 1 /\ doc_session_end = 0 /\ ready /= {}
     THEN LET k == Priority[CHOOSE j \in ready : \A l \in ready : j <= l] IN
          /\ kind' = k
          /\ visitor' = Q[k][curr[k] + 1]
          /\ wait' = [wait EXCEPT !["R"] = @ - 1]
          /\ doc_free' = 0
          /\ Goto(Main, "signalDoc")
     ELSE Goto(Main, "loop") /\ UNCHANGED <<kind, visitor, wait, doc_free>>
  /\ UNCHANGED <<E, cnt, curr, done, curr_time, doc_session_end, doc_state, mutex,
                 doc_mutex, ev, cur_id, current_time, Q, seen, entered>>

\* lock(mutex); if the doctor is free and the session on, take the first
\* kind with a waiting visitor in the order reporter, patient, sales
\* representative: visitor = <kind>Q[curr], <kind>_wait--, doc_free = 0
MainSchedule ==
  LET ready == {j \in 1..3 : wait[Priority[j]] > 0} IN
  /\ pc[Main] = "sched" /\ mutex = NoOne
  /\ IF doc_free = 1 /\ doc_session_end = 0 /\ ready /= {}
     THEN LET k == Priority[CHOOSE j \in ready : \A l \in ready : j <= l] IN
          /\ kind' = k
          /\ visitor' = Q[k][curr[k] + 1]
          /\ wait' = [wait EXCEPT ![k] = @ - 1]
          /\ doc_free' = 0
          /\ Goto(Main, "signalDoc")
     ELSE Goto(Main, "loop") /\ UNCHANGED <<kind, visitor, wait, doc_free>>
  /\ UNCHANGED <<E, cnt, curr, done, curr_time, doc_session_end, doc_state, mutex,
                 doc_mutex, ev, cur_id, current_time, Q, seen, entered>>

\* lock(doc_mutex); doc_state = 1; signal(doc_cond); unlock(doc_mutex)
MainSignalDoctor ==
  /\ pc[Main] = "signalDoc" /\ doc_mutex = NoOne
  /\ doc_state' = 1
  /\ Signal(Main, "waitDocLock", "doc_cond")
  /\ UNCHANGED <<E, cnt, wait, curr, done, curr_time, doc_free, doc_session_end,
                 mutex, doc_mutex, mainLocals, Q, seen, entered>>

\* mutant: main does not wait for the doctor on doc_done
MainAwaitDoctorNoWait ==
  /\ pc[Main] = "waitDocLock" /\ doc_mutex = NoOne
  /\ Goto(Main, "advance")
  /\ UNCHANGED <<E, cnt, wait, curr, done, curr_time, doc_free, doc_session_end,
                 doc_state, mutex, doc_mutex, mainLocals, Q, seen, entered>>

\* lock(doc_mutex); while (doc_state == 1) cond_wait(doc_done); unlock
MainAwaitDoctor ==
  /\ pc[Main] = "waitDocLock" /\ doc_mutex = NoOne
  /\ IF doc_state = 1 THEN CondWait(Main, "doc_done") ELSE Goto(Main, "advance")
  /\ UNCHANGED <<E, cnt, wait, curr, done, curr_time, doc_free, doc_session_end,
                 doc_state, mutex, doc_mutex, mainLocals, Q, seen, entered>>

\* mutant: <kind>_cond is never broadcast
MainAdvanceNoBroadcast ==
  /\ pc[Main] = "advance" /\ mutex = NoOne
  /\ curr' = [curr EXCEPT ![kind] = @ + 1]
  /\ cur_id' = curr[kind] + 1
  /\ current_time' = curr_time
  /\ Goto(Main, "joinVisitor")
  /\ UNCHANGED <<E, cnt, wait, done, curr_time, doc_free, doc_session_end, doc_state,
                 mutex, doc_mutex, ev, kind, visitor, Q, seen, entered>>

\* lock(mutex); <kind>_curr++; broadcast(<kind>_cond); current_time = curr_time
MainAdvance ==
  /\ pc[Main] = "advance" /\ mutex = NoOne
  /\ curr' = [curr EXCEPT ![kind] = @ + 1]
  /\ cur_id' = curr[kind] + 1
  /\ current_time' = curr_time
  /\ Broadcast(Main, "joinVisitor", CondOf[kind])
  /\ UNCHANGED <<E, cnt, wait, done, curr_time, doc_free, doc_session_end, doc_state,
                 mutex, doc_mutex, ev, kind, visitor, Q, seen, entered>>

\* mutant: the 'D' event is queued without joining the visitor
MainJoinVisitorNoJoin ==
  /\ pc[Main] = "joinVisitor"
  /\ E' = E (+) SetToBag({DoneEvent(current_time + visitor.dur)})
  /\ Goto(Main, "loop")
  /\ UNCHANGED <<cnt, wait, curr, done, curr_time, doc_free, doc_session_end,
                 doc_state, mutex, doc_mutex, mainLocals, Q, seen, entered>>

\* pthread_join of the visitor; addevent('D', current_time + duration)
MainJoinVisitor ==
  /\ pc[Main] = "joinVisitor" /\ pc[<<kind, cur_id>>] = "exited"
  /\ E' = E (+) SetToBag({DoneEvent(current_time + visitor.dur)})
  /\ Goto(Main, "loop")
  /\ UNCHANGED <<cnt, wait, curr, done, curr_time, doc_free, doc_session_end,
                 doc_state, mutex, doc_mutex, mainLocals, Q, seen, entered>>

\* the queue is empty: destroy the mutexes and condition variables, return
MainReturn ==
  /\ pc[Main] = "loop" /\ BagToSet(E) = {}
  /\ Goto(Main, "returned")
  /\ UNCHANGED <<E, cnt, wait, curr, done, curr_time, doc_free, doc_session_end,
                 doc_state, mutex, doc_mutex, mainLocals, Q, seen, entered>>


-----------------------------------------------------------------------------
(* doctor() *)

\* lock(doc_mutex); while (doc_state == 0) cond_wait(doc_cond, doc_mutex)
DoctorWait ==
  /\ pc[Doctor] = "dLock" /\ doc_mutex = NoOne
  /\ IF doc_state = 0 THEN CondWait(Doctor, "doc_cond") /\ UNCHANGED doc_mutex
                      ELSE doc_mutex' = Doctor /\ Goto(Doctor, "dLockM")
  /\ UNCHANGED <<E, cnt, wait, curr, done, curr_time, doc_free, doc_session_end,
                 doc_state, mutex, mainLocals, Q, seen, entered>>

\* lock(mutex); doc_state == -1: "Doctor leaves", doc_session_end = 1,
\* unlock both, return
DoctorLeave ==
  /\ pc[Doctor] = "dLockM" /\ mutex = NoOne /\ doc_state = -1
  /\ doc_session_end' = 1 /\ doc_mutex' = NoOne
  /\ Goto(Doctor, "exited")
  /\ UNCHANGED <<E, cnt, wait, curr, done, curr_time, doc_free, doc_state, mutex,
                 mainLocals, Q, seen, entered>>

\* lock(mutex); "Doctor has next visitor"; unlock(mutex); doc_state = 0;
\* signal(doc_done); unlock(doc_mutex)
DoctorSee ==
  /\ pc[Doctor] = "dLockM" /\ mutex = NoOne /\ doc_state /= -1
  /\ seen' = seen + 1
  /\ doc_state' = 0 /\ doc_mutex' = NoOne
  /\ Signal(Doctor, "dLock", "doc_done")
  /\ UNCHANGED <<E, cnt, wait, curr, done, curr_time, doc_free, doc_session_end,
                 mutex, mainLocals, Q, entered>>

-----------------------------------------------------------------------------
(* patient(), reporter(), salesrep(): one body for the three kinds *)

\* lock(mutex); <kind>_done = 1; signal(<kind>_init); unlock(mutex)
VisitorInit(v) ==
  /\ pc[v] = "vInit" /\ mutex = NoOne
  /\ done' = [done EXCEPT ![v[1]] = 1]
  /\ Signal(v, "vTurn", InitOf[v[1]])
  /\ UNCHANGED <<E, cnt, wait, curr, curr_time, doc_free, doc_session_end, doc_state,
                 mutex, doc_mutex, mainLocals, Q, seen, entered>>

\* lock(mutex); while (<kind>_curr != id) cond_wait(<kind>_cond, mutex);
\* "... is in doctor's chamber"; unlock(mutex); return
VisitorTurn(v) ==
  /\ pc[v] = "vTurn" /\ mutex = NoOne
  /\ IF curr[v[1]] /= v[2] THEN CondWait(v, CondOf[v[1]]) /\ UNCHANGED entered
                           ELSE entered' = entered + 1 /\ Goto(v, "exited")
  /\ UNCHANGED <<E, cnt, wait, curr, done, curr_time, doc_free, doc_session_end,
                 doc_state, mutex, doc_mutex, mainLocals, Q, seen>>

-----------------------------------------------------------------------------

\* return 0 from main ends the process (a doctor still in cond_wait with it)
Finished == pc[Main] = "returned" /\ UNCHANGED vars

MainStep ==
  \/ MainEventD \/ MainEventArrival \/ MainEndSession \/ MainJoinDoctor
  \/ MainCreate \/ MainAwaitInit \/ MainSchedule \/ MainSignalDoctor
  \/ MainAwaitDoctor \/ MainAdvance \/ MainJoinVisitor \/ MainReturn

DoctorStep == DoctorWait \/ DoctorLeave \/ DoctorSee

VisitorStep(v) == VisitorInit(v) \/ VisitorTurn(v)

Next == MainStep \/ DoctorStep \/ (\E v \in Visitors : VisitorStep(v)) \/ Finished

\* every thread is scheduled by the kernel once it can run
Fairness == WF_vars(MainStep) /\ WF_vars(DoctorStep) /\ \A v \in Visitors : WF_vars(VisitorStep(v))

Spec == Init /\ [][Next]_vars /\ Fairness

-----------------------------------------------------------------------------
(* Properties *)

Holders == Threads \cup {NoOne}

TypeOK ==
  /\ cnt \in [Kinds -> Nat] /\ wait \in [Kinds -> Nat] /\ curr \in [Kinds -> Nat]
  /\ done \in [Kinds -> 0..1] /\ doc_free \in 0..1 /\ doc_session_end \in 0..1
  /\ doc_state \in -1..1 /\ mutex \in Holders /\ doc_mutex \in Holders
  /\ waiters \in [CondVars -> SUBSET Threads]
  /\ \A cv \in CondVars : \A t \in waiters[cv] : pc[t] = "waiting"

\* Every "Doctor has next visitor" line is followed by exactly one "... is
\* in doctor's chamber" line before the next one: main waits on doc_done
\* before it advances <kind>_curr, and joins the visitor before it takes
\* the next 'D' event.
SeenThenEntered == entered <= seen /\ seen <= entered + 1

\* Every visitor thread main creates is eventually called into the chamber.
EveryVisitorEnters == \A v \in Visitors : (pc[v] = "vInit") ~> (pc[v] = "exited")

\* The event loop ends: main returns.
Termination == <>(pc[Main] = "returned")

\* No store into <kind>Q[curr_id-1] or <kind>_tids[curr_id-1] is past the
\* array: 25 patients, 100 reporters, 3 sales representatives.
QueuesInBounds == pc[Main] = "initLock" => cur_id <= Cap[ev.type]

\* Every time main and the visitor threads print with format_time (an
\* event's curr_time, and the start and end of a visit, current_time and
\* current_time + duration) reads as the wall-clock time that many minutes
\* from 9:00am, before 9am and past midnight included, in the "%02d:%02d"
\* widths the 10-byte time buffers hold.
PrintedTimesRight ==
  \A t \in {curr_time, current_time, current_time + visitor.dur} \ {InitTime} :
    /\ FormatTime(t) = WallClock(t)
    /\ FormatTime(t).hh \in 1..12 /\ FormatTime(t).mm \in 0..59
=============================================================================
