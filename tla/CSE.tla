--------------------------------- MODULE CSE ---------------------------------
(***************************************************************************)
(* The command/execute pair of Assignment 3 (CSE.c).  The supervisor       *)
(* creates two pipes and forks two children, each an xterm running CSE:    *)
(* the first in command-input mode (C, mode 2), the second in execute mode *)
(* (E, mode 3).  C sends each line typed at its terminal down a pipe; E    *)
(* reads lines from it and runs each as a command.  The line "swaprole"    *)
(* makes both change mode and move to the other pipe; "exit" ends both.    *)
(* Then the supervisor's two wait(0) calls return.                         *)
(*                                                                         *)
(* A child is the xterm together with the CSE it runs: it ends when CSE    *)
(* exits or when its window is closed (SIGHUP).  Each line is written by   *)
(* one printf + fflush of under PIPE_BUF bytes, so a pipe is a sequence of *)
(* whole lines.  Every process keeps all four pipe ends open: nobody       *)
(* closes the ends it does not use.                                        *)
(***************************************************************************)
EXTENDS Integers, Sequences

CONSTANTS
  Cmds,      \* the command lines a user types (anything but the two words)
  MaxLines   \* bound on the lines typed in one behaviour

Lines == Cmds \cup {"swaprole", "exit"}
Kids == {"first", "second"}

VARIABLES
  sup,       \* the supervisor: "fork1", "fork2", "wait1", "wait2", "done"
  life,      \* life[k]: "unborn", "live", "dead" (not yet waited for), "reaped"
  mode,      \* mode[k]: 2 (command-input) or 3 (execute)
  state,     \* state[k]: 0 before an odd number of swaps, 1 after
  kpc,       \* kpc[k]: "loop", or "cmd" while E waits for the command it forked
  pipe,      \* pipe[1], pipe[2]: the lines in p1 and p2
  sent,      \* every line typed at a command-input terminal, in order
  nrecv,     \* how many lines the execute side has read
  hung       \* the children whose window the user closed

vars == <<sup, life, mode, state, kpc, pipe, sent, nrecv, hung>>

\* sscanf(argv[state ? 5 : 3], "%d", &writep): the write end of p2 after
\* an odd number of swaps, of p1 before
writep(st) == IF st = 1 THEN 2 ELSE 1

\* mutant: the two argv indices of the read end exchanged
readpSwapped(st) == IF st = 1 THEN 1 ELSE 2

\* sscanf(argv[state ? 4 : 2], "%d", &readp)
readp(st) == IF st = 1 THEN 2 ELSE 1

\* supervisor mode: pipe(p1), pipe(p2)
Init ==
  /\ sup = "fork1"
  /\ life = [k \in Kids |-> "unborn"]
  /\ mode = [k \in Kids |-> 2]
  /\ state = [k \in Kids |-> 0]
  /\ kpc = [k \in Kids |-> "loop"]
  /\ pipe = [p \in {1, 2} |-> <<>>]
  /\ sent = <<>>
  /\ nrecv = 0
  /\ hung = {}

\* fork(); the child execs xterm -e ./CSE C|E; its main parses the mode
Fork(k, m, next) ==
  /\ life' = [life EXCEPT ![k] = "live"]
  /\ mode' = [mode EXCEPT ![k] = m]
  /\ sup' = next
  /\ UNCHANGED <<state, kpc, pipe, sent, nrecv, hung>>

SupFork1 == sup = "fork1" /\ Fork("first", 2, "fork2")
SupFork2 == sup = "fork2" /\ Fork("second", 3, "wait1")

\* wait(0): returns some terminated child, and blocks while there is none
SupWait ==
  /\ sup \in {"wait1", "wait2"}
  /\ \E k \in Kids :
       /\ life[k] = "dead"
       /\ life' = [life EXCEPT ![k] = "reaped"]
  /\ sup' = IF sup = "wait1" THEN "wait2" ELSE "done"
  /\ UNCHANGED <<mode, state, kpc, pipe, sent, nrecv, hung>>

Live(k) == life[k] = "live"

\* mutant: state++ in place of state = 1 - state
CTypeIncr(k, l) ==
  /\ Live(k) /\ mode[k] = 2 /\ Len(sent) < MaxLines
  /\ pipe' = [pipe EXCEPT ![writep(state[k])] = Append(@, l)]
  /\ sent' = Append(sent, l)
  /\ life' = IF l = "exit" THEN [life EXCEPT ![k] = "dead"] ELSE life
  /\ mode' = IF l = "swaprole" THEN [mode EXCEPT ![k] = 3] ELSE mode
  /\ state' = IF l = "swaprole" THEN [state EXCEPT ![k] = @ + 1] ELSE state
  /\ UNCHANGED <<sup, kpc, nrecv, hung>>

\* mutant: the inner loop does not break on "swaprole"
CTypeNoBreak(k, l) ==
  /\ Live(k) /\ mode[k] = 2 /\ Len(sent) < MaxLines
  /\ pipe' = [pipe EXCEPT ![writep(state[k])] = Append(@, l)]
  /\ sent' = Append(sent, l)
  /\ life' = IF l = "exit" THEN [life EXCEPT ![k] = "dead"] ELSE life
  /\ UNCHANGED <<sup, mode, state, kpc, nrecv, hung>>

\* command-input mode, one turn of the inner loop: scanf a line from the
\* terminal, printf it into the pipe (stdout is dup'ed onto writep); on
\* "swaprole" restore stdout, state = 1 - state, mode = 3; on "exit" exit
CType(k, l) ==
  /\ Live(k) /\ mode[k] = 2 /\ Len(sent) < MaxLines
  /\ pipe' = [pipe EXCEPT ![writep(state[k])] = Append(@, l)]
  /\ sent' = Append(sent, l)
  /\ life' = IF l = "exit" THEN [life EXCEPT ![k] = "dead"] ELSE life
  /\ mode' = IF l = "swaprole" THEN [mode EXCEPT ![k] = 3] ELSE mode
  /\ state' = IF l = "swaprole" THEN [state EXCEPT ![k] = 1 - @] ELSE state
  /\ UNCHANGED <<sup, kpc, nrecv, hung>>

\* mutant: the execute side forgets state = 1 - state
ERecvNoFlip(k) ==
  /\ Live(k) /\ mode[k] = 3 /\ kpc[k] = "loop"
  /\ pipe[readp(state[k])] # <<>>
  /\ LET l == Head(pipe[readp(state[k])])
     IN  /\ pipe' = [pipe EXCEPT ![readp(state[k])] = Tail(@)]
         /\ nrecv' = nrecv + 1
         /\ life' = IF l = "exit" THEN [life EXCEPT ![k] = "dead"] ELSE life
         /\ mode' = IF l = "swaprole" THEN [mode EXCEPT ![k] = 2] ELSE mode
         /\ kpc' = IF l \in Cmds THEN [kpc EXCEPT ![k] = "cmd"] ELSE kpc
  /\ UNCHANGED <<sup, state, sent, hung>>

\* mutant: the execute side has no test for "exit" and runs it
ERecvNoExit(k) ==
  /\ Live(k) /\ mode[k] = 3 /\ kpc[k] = "loop"
  /\ pipe[readp(state[k])] # <<>>
  /\ LET l == Head(pipe[readp(state[k])])
     IN  /\ pipe' = [pipe EXCEPT ![readp(state[k])] = Tail(@)]
         /\ nrecv' = nrecv + 1
         /\ mode' = IF l = "swaprole" THEN [mode EXCEPT ![k] = 2] ELSE mode
         /\ state' = IF l = "swaprole" THEN [state EXCEPT ![k] = 1 - @] ELSE state
         /\ kpc' = IF l # "swaprole" THEN [kpc EXCEPT ![k] = "cmd"] ELSE kpc
  /\ UNCHANGED <<sup, life, sent, hung>>

\* execute mode, one turn of the inner loop: scanf a line from the pipe
\* (stdin is dup'ed onto readp; the read blocks while the pipe is empty,
\* and never sees end-of-file, since this process itself holds the write
\* end); "swaprole" restores stdin, state = 1 - state, mode = 2; "exit"
\* exits; any other line is split into words and forked to execvp
ERecv(k) ==
  /\ Live(k) /\ mode[k] = 3 /\ kpc[k] = "loop"
  /\ pipe[readp(state[k])] # <<>>
  /\ LET l == Head(pipe[readp(state[k])])
     IN  /\ pipe' = [pipe EXCEPT ![readp(state[k])] = Tail(@)]
         /\ nrecv' = nrecv + 1
         /\ life' = IF l = "exit" THEN [life EXCEPT ![k] = "dead"] ELSE life
         /\ mode' = IF l = "swaprole" THEN [mode EXCEPT ![k] = 2] ELSE mode
         /\ state' = IF l = "swaprole" THEN [state EXCEPT ![k] = 1 - @] ELSE state
         /\ kpc' = IF l \in Cmds THEN [kpc EXCEPT ![k] = "cmd"] ELSE kpc
  /\ UNCHANGED <<sup, sent, hung>>

\* waitpid(pid_new): the command has ended
EDone(k) ==
  /\ Live(k) /\ kpc[k] = "cmd"
  /\ kpc' = [kpc EXCEPT ![k] = "loop"]
  /\ UNCHANGED <<sup, life, mode, state, pipe, sent, nrecv, hung>>

\* the user closes a child's window: SIGHUP ends xterm and its CSE
HangUp(k) ==
  /\ Live(k)
  /\ life' = [life EXCEPT ![k] = "dead"]
  /\ hung' = hung \cup {k}
  /\ UNCHANGED <<sup, mode, state, kpc, pipe, sent, nrecv>>

Next ==
  \/ SupFork1 \/ SupFork2 \/ SupWait
  \/ \E k \in Kids :
       \/ ERecv(k) \/ EDone(k) \/ HangUp(k)
       \/ \E l \in Lines : CType(k, l)

\* The kernel runs every process that is not blocked; the commands E runs
\* are taken to end.  The user, who types and closes windows, has no
\* fairness.
Fairness ==
  /\ WF_vars(SupFork1) /\ WF_vars(SupFork2) /\ WF_vars(SupWait)
  /\ \A k \in Kids : WF_vars(ERecv(k)) /\ WF_vars(EDone(k))

Spec == Init /\ [][Next]_vars /\ Fairness

(***************************************************************************)
(* Properties                                                              *)
(***************************************************************************)
\* Every variable holds a value of its kind; the pipes hold whole lines.
TypeOK ==
  /\ sup \in {"fork1", "fork2", "wait1", "wait2", "done"}
  /\ life \in [Kids -> {"unborn", "live", "dead", "reaped"}]
  /\ mode \in [Kids -> {2, 3}]
  /\ state \in [Kids -> {0, 1}]
  /\ kpc \in [Kids -> {"loop", "cmd"}]
  /\ pipe \in [{1, 2} -> Seq(Lines)]
  /\ nrecv \in 0..Len(sent)
  /\ hung \subseteq Kids

\* The two children never both take input from their terminals, and when
\* one is in command-input mode and the other in execute mode, the pipe the
\* first writes (chosen by its state) is the pipe the second reads (chosen
\* by its own state): the two state variables, flipped separately on the
\* two sides of a swap, stay in step.
RolesMatch ==
  \A c, e \in Kids :
    (Live(c) /\ Live(e) /\ c # e /\ mode[c] = 2) =>
      /\ mode[e] = 3
      /\ readp(state[e]) = writep(state[c])

\* "swaprole" and "exit" are always the last line of the pipe holding
\* them: the side that wrote one never writes that pipe again before the
\* other side has read it.  So the execute side's stdio buffer, which may
\* read several lines from the pipe at once, never holds a line after the
\* swap that, once stdin is dup'ed back to the terminal, the side (now in
\* command-input mode) would read as if typed and send back down the pipe.
SwapIsLast ==
  \A p \in {1, 2} : \A i \in 1..Len(pipe[p]) :
    pipe[p][i] \in {"swaprole", "exit"} => i = Len(pipe[p])

\* Every line typed is read by the execute side, whatever swaps come
\* between, unless the user closed a window.
EveryLineRead ==
  \A n \in 1..MaxLines : (Len(sent) >= n) ~> (nrecv >= n \/ hung # {})

\* Once "exit" is typed, both children end and the supervisor's two wait
\* calls return.
ExitEndsSession ==
  (\E i \in 1..Len(sent) : sent[i] = "exit") ~> (sup = "done")

=============================================================================
