----------------------------- MODULE ProdCons -----------------------------
(***************************************************************************)
(* prodcons.c (Assignment 4): one producer and n consumer processes share  *)
(* a segment of two ints.  M[0] is the hand-off word: 0 free, c the        *)
(* consumer an item is for, -1 the end.  M[1] holds the item.  Everybody   *)
(* busy-waits; nothing but the order of the writes orders the hand-off.   *)
(*                                                                         *)
(* Each read or write of M[0] or M[1] is one step; a spin loop is a step   *)
(* enabled only when the value it waits for is there.  The segment comes  *)
(* from shmget(IPC_PRIVATE), so M[1] starts at 0.  The producer's          *)
(* per-consumer totals and each consumer's item_cnt and checksum are kept *)
(* for the final report; rand() is any value of Values and any consumer.  *)
(***************************************************************************)
EXTENDS Integers

CONSTANTS
  N,        \* n, the number of consumers
  T,        \* t, the number of items
  Values    \* the values rand() % 900 + 100 may take (a small subset)

Consumers == 1..N

VARIABLES
  M0, M1,          \* the shared segment
  ppc, i, rand_no, cons_no,
  item_cnt, checksum,    \* the producer's arrays, by consumer
  cpc,                   \* per consumer: its point in consumption_loop
  c_item_cnt, c_checksum \* per consumer: its local item_cnt and checksum

vars == <<M0, M1, ppc, i, rand_no, cons_no, item_cnt, checksum, cpc,
          c_item_cnt, c_checksum>>

Init ==
  /\ M0 = 0 /\ M1 = 0
  /\ ppc = "choose" /\ i = 0 /\ rand_no = 0 /\ cons_no = 1
  /\ item_cnt = [c \in Consumers |-> 0] /\ checksum = [c \in Consumers |-> 0]
  /\ cpc = [c \in Consumers |-> "outer"]
  /\ c_item_cnt = [c \in Consumers |-> 0] /\ c_checksum = [c \in Consumers |-> 0]

-----------------------------------------------------------------------------
(* The producer (main after the forks) *)

\* mutant: cons_no = rand() % n, without the + 1
ProdChooseNoPlusOne ==
  /\ ppc = "choose" /\ i < T
  /\ \E v \in Values, c \in 0..N-1 : rand_no' = v /\ cons_no' = c
  /\ ppc' = "spin"
  /\ UNCHANGED <<M0, M1, i, item_cnt, checksum, cpc, c_item_cnt, c_checksum>>

\* for (i < t): rand_no = rand() % 900 + 100; cons_no = rand() % n + 1
ProdChoose ==
  /\ ppc = "choose" /\ i < T
  /\ \E v \in Values, c \in Consumers : rand_no' = v /\ cons_no' = c
  /\ ppc' = "spin"
  /\ UNCHANGED <<M0, M1, i, item_cnt, checksum, cpc, c_item_cnt, c_checksum>>

\* while (M[0] != 0); M[0] = cons_no
ProdWriteRecipient ==
  /\ ppc = "spin" /\ M0 = 0
  /\ M0' = cons_no
  /\ ppc' = "item"
  /\ UNCHANGED <<M1, i, rand_no, cons_no, item_cnt, checksum, cpc, c_item_cnt, c_checksum>>

\* M[1] = rand_no; item_cnt[cons_no-1]++; checksum[cons_no-1] += rand_no
ProdWriteItem ==
  /\ ppc = "item"
  /\ M1' = rand_no
  /\ item_cnt' = [item_cnt EXCEPT ![cons_no] = @ + 1]
  /\ checksum' = [checksum EXCEPT ![cons_no] = @ + rand_no]
  /\ i' = i + 1
  /\ ppc' = "choose"
  /\ UNCHANGED <<M0, rand_no, cons_no, cpc, c_item_cnt, c_checksum>>

\* mutant: M[0] = -1 without waiting for the last item to be taken
ProdEndNoWait ==
  /\ ppc = "choose" /\ i >= T
  /\ M0' = -1
  /\ ppc' = "wait"
  /\ UNCHANGED <<M1, i, rand_no, cons_no, item_cnt, checksum, cpc, c_item_cnt, c_checksum>>

\* the loop is over: while (M[0] != 0); M[0] = -1
ProdEnd ==
  /\ ppc = "choose" /\ i >= T /\ M0 = 0
  /\ M0' = -1
  /\ ppc' = "wait"
  /\ UNCHANGED <<M1, i, rand_no, cons_no, item_cnt, checksum, cpc, c_item_cnt, c_checksum>>

\* wait(0) n times, print the totals, remove the segment
ProdWait ==
  /\ ppc = "wait" /\ \A c \in Consumers : cpc[c] = "done"
  /\ ppc' = "done"
  /\ UNCHANGED <<M0, M1, i, rand_no, cons_no, item_cnt, checksum, cpc, c_item_cnt, c_checksum>>

-----------------------------------------------------------------------------
(* consumption_loop(consumer_no, M) *)

ConsGoto(c, l) ==
  /\ cpc' = [cpc EXCEPT ![c] = l]
  /\ UNCHANGED <<M0, M1, ppc, i, rand_no, cons_no, item_cnt, checksum, c_item_cnt, c_checksum>>

\* while (M[0] != -1): the outer test
ConsOuter(c) ==
  /\ cpc[c] = "outer"
  /\ ConsGoto(c, IF M0 = -1 THEN "done" ELSE "inner")

\* mutant: the inner spin does not break out on -1
ConsInnerNoBreak(c) ==
  /\ cpc[c] = "inner"
  /\ M0 = c
  /\ ConsGoto(c, "read")

\* while (M[0] != consumer_no) { if (M[0] == -1) { flag = 1; break; } }
ConsInner(c) ==
  /\ cpc[c] = "inner"
  /\ M0 \in {c, -1}
  /\ ConsGoto(c, IF M0 = c THEN "read" ELSE "done")

\* item_cnt++; checksum += M[1]
ConsRead(c) ==
  /\ cpc[c] = "read"
  /\ c_item_cnt' = [c_item_cnt EXCEPT ![c] = @ + 1]
  /\ c_checksum' = [c_checksum EXCEPT ![c] = @ + M1]
  /\ cpc' = [cpc EXCEPT ![c] = "clear"]
  /\ UNCHANGED <<M0, M1, ppc, i, rand_no, cons_no, item_cnt, checksum>>

\* M[0] = 0
ConsClear(c) ==
  /\ cpc[c] = "clear"
  /\ M0' = 0
  /\ cpc' = [cpc EXCEPT ![c] = "outer"]
  /\ UNCHANGED <<M1, ppc, i, rand_no, cons_no, item_cnt, checksum, c_item_cnt, c_checksum>>

Producer == ProdChoose \/ ProdWriteRecipient \/ ProdWriteItem \/ ProdEnd \/ ProdWait
Consumer(c) == ConsOuter(c) \/ ConsInner(c) \/ ConsRead(c) \/ ConsClear(c)

\* return 0 from the producer
Finished == ppc = "done" /\ UNCHANGED vars

Next == Producer \/ (\E c \in Consumers : Consumer(c)) \/ Finished

\* every process spins on a CPU the kernel keeps giving it
Spec == Init /\ [][Next]_vars /\ WF_vars(Producer) /\ \A c \in Consumers : WF_vars(Consumer(c))

-----------------------------------------------------------------------------
(* Properties *)

TypeOK ==
  /\ M0 \in -1..N /\ M1 \in {0} \cup Values
  /\ cons_no \in Consumers /\ i \in 0..T
  /\ cpc \in [Consumers -> {"outer", "inner", "read", "clear", "done"}]

\* When the producer prints its totals, each consumer has taken exactly the
\* items produced for it: no item is lost to the end marker or to another
\* consumer, and none is taken twice.
ItemCountsAgree == ppc = "done" => c_item_cnt = item_cnt

\* The run always ends: the producer reaps every consumer.
Termination == <>(ppc = "done")
=============================================================================
