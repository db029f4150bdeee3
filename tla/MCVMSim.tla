------------------------------ MODULE MCVMSim ------------------------------
(* Model-checking instance of VMSim: two processes, a three-page virtual  *)
(* space, and reference strings that exercise hits, faults with a free     *)
(* frame, LRU replacement, illegal references and the -9 sentinel.         *)
EXTENDS VMSim

\* Strings as master.c could generate them for m = 3 (lengths 2*mi..10*mi).
\* In the last, the hit on page 0 makes page 1 the least recently used
\* when 2 faults, and the hit on 2 makes page 0 the one when 1 faults.
MCWorkloads ==
    { [mi |-> 1, ref |-> <<0, 0>>],
      [mi |-> 1, ref |-> <<0, 2>>],
      [mi |-> 2, ref |-> <<1, 0, 2, 1>>],
      [mi |-> 3, ref |-> <<0, 1, 0, 2, 2, 1>>] }

=============================================================================
