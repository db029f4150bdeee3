---------------------------- MODULE BarrierLoop ----------------------------
(***************************************************************************)
(* The foothread barrier reused without end: every thread of Threads      *)
(* calls foothread_barrier_wait on one barrier B, initialised for all of   *)
(* them, in a loop.  This is the reuse computesum.c never exercises.       *)
(***************************************************************************)
EXTENDS Foothread

CONSTANT B

ASSUME Barriers = {B} /\ Mutexes = {}

\* for (;;) foothread_barrier_wait(&B);
Loop(t) ==
  /\ Running /\ pc[t] = "loop"
  /\ Call(t, "bwEnter", B, "loop")
  /\ UNCHANGED <<maxt, idx, barrier, mutex, manager, manager_mutex, init_done, proc>>

Init ==
  /\ LibInit([b \in Barriers |-> Cardinality(Threads)])
  /\ pc = [t \in Threads |-> "loop"]
  /\ at = [t \in Threads |-> B]
  /\ ret = [t \in Threads |-> "loop"]

ThreadStep(t) == Loop(t) \/ BarrierStep(t)

Next == \E t \in Threads : ThreadStep(t)

\* each thread is a kernel task that the scheduler keeps running
Spec == Init /\ [][Next]_libVars /\ \A t \in Threads : WF_libVars(ThreadStep(t))

TypeOK ==
  /\ pc \in [Threads -> {"loop"} \cup BarrierLabels]
  /\ barrier[B].count \in 0..Cardinality(Threads)
  /\ {barrier[B].mutex, barrier[B].sem1, barrier[B].sem2} \subseteq 0..1

(***************************************************************************)
(* Refinement.  A thread is inside the abstract barrier from its count++   *)
(* in phase 1 until the n-th arrival posts sem1: that one step releases    *)
(* the round, so threads still draining turnstile 1 or passing phase 2     *)
(* already count as outside.  sem1 is 0 exactly while a round is filling.  *)
(***************************************************************************)
Inside == {t \in Threads : pc[t] \in {"bwOpen", "bwUnlock1", "bwTurn1"}
                           /\ barrier[B].sem1 = 0}

Abstract == INSTANCE BarrierSpec WITH Parties <- Threads, inside <- Inside

\* foothread_barrier_wait, called over and over by the same threads, lets
\* no round go before all n have arrived, never mixes two rounds, and
\* always releases a full round (the abstract barrier's behaviour,
\* fairness included).
BarrierRefinement == Abstract!Spec
=============================================================================
