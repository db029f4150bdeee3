-------------------------------- MODULE Mgr --------------------------------
(***************************************************************************)
(* Assignment 2, mgr.c: a job-control shell.  The user runs jobs ('r'),    *)
(* continues ('c') or kills ('k') a suspended one, and quits ('q').  ^C    *)
(* and ^Z go to mgr's process group; mgr's signal_handler forwards them to *)
(* running_job_pid, the job it is waiting for.  PT is the process table.   *)
(*                                                                         *)
(* Processes: mgr (mpc) and the job of each table slot j (jpc[j]).  A      *)
(* child runs mgr's code from fork to execl, with mgr's handler installed  *)
(* and its own copy of running_job_pid; after execl it is the "job"        *)
(* program, with the default dispositions.  A pending signal is delivered  *)
(* before the process runs any more of its code, so a child's steps are    *)
(* guarded by an empty pending set.  Job j has pid j: a slot index.        *)
(***************************************************************************)
EXTENDS Integers, FiniteSets

CONSTANT PTSize      \* entries of PT (11); slot 0 is mgr itself

ASSUME PTSize \in Nat /\ PTSize >= 2

Jobs == 1 .. PTSize - 1
NoJob == -1          \* running_job_pid = -1: no job in the foreground

\* process_status[]: the values of PT[i].status.
SELF == 0
FINISHED == 1
TERMINATED == 2
SUSPENDED == 3
KILLED == 4

Signals == {"INT", "TSTP"}

\* A child between fork and execl; "c108" has not yet run line 108.
PreExec == {"c108", "c116", "c117"}
Dead == {"exited", "signaled", "killed"}
\* States waitpid(..., WUNTRACED) reports.
Reportable == {"stopped", "exited", "signaled"}

VARIABLES
    mpc,       \* where mgr is in its loop
    jobId,     \* job_id: the next free slot of PT
    rjp,       \* mgr's running_job_pid
    st,        \* st[j] = PT[j].status
    jpc,       \* the kernel's view of job j
    ownGrp,    \* job j has left mgr's process group (setpgid)
    pend,      \* signals pending for job j
    mpend      \* signals pending for mgr

vars == <<mpc, jobId, rjp, st, jpc, ownGrp, pend, mpend>>
jobVars == <<jpc, ownGrp, pend>>

Init ==
    /\ mpc = "prompt"
    /\ jobId = 1
    /\ rjp = NoJob
    /\ st = [j \in Jobs |-> SELF]
    /\ jpc = [j \in Jobs |-> "none"]
    /\ ownGrp = [j \in Jobs |-> FALSE]
    /\ pend = [j \in Jobs |-> {}]
    /\ mpend = {}

\* The jobs recorded in PT, and the suspended ones 'c' and 'k' offer.
Recorded == 1 .. jobId - 1
Suspended == {j \in Recorded : st[j] = SUSPENDED}

\* set_new_process: fill PT[job_id], then job_id++.
SetNewProcess(status) ==
    /\ st' = [st EXCEPT ![jobId] = status]
    /\ jobId' = jobId + 1

\* The WIFEXITED / WIFSIGNALED / WIFSTOPPED chain on waitpid's status.
WaitStatus(j) ==
    CASE jpc[j] = "exited"   -> FINISHED
      [] jpc[j] = "signaled" -> TERMINATED
      [] jpc[j] = "stopped"  -> SUSPENDED

\* SIGKILL ends any process that is not dead yet.
SigKill(s) == IF s \in Dead THEN s ELSE "killed"

\* Mutant: the loop of kill_remaining_jobs stops one entry short.
KillRemainingShort ==
    LET short == {j \in 1 .. jobId - 2 : st[j] = SUSPENDED}
    IN  /\ jpc' = [j \in Jobs |-> IF j \in short THEN SigKill(jpc[j])
                                                ELSE jpc[j]]
        /\ st' = [j \in Jobs |-> IF j \in short THEN KILLED ELSE st[j]]

\* kill_remaining_jobs: SIGKILL every suspended entry, mark it KILLED.
KillRemaining ==
    /\ jpc' = [j \in Jobs |-> IF j \in Suspended THEN SigKill(jpc[j])
                                                 ELSE jpc[j]]
    /\ st' = [j \in Jobs |-> IF j \in Suspended THEN KILLED ELSE st[j]]

-----------------------------------------------------------------------------
(* mgr's commands (scanf at the prompt).  'h', 'p', an invalid command or  *)
(* an invalid pick change nothing.                                         *)

\* 'r' with a full table: kill the suspended jobs and exit(1).
MgrRunFull ==
    /\ mpc = "prompt" /\ jobId = PTSize
    /\ KillRemaining
    /\ mpc' = "exited"
    /\ UNCHANGED <<jobId, rjp, ownGrp, pend, mpend>>

\* Mutant: the table-full test lets 'r' fork with job_id == 11.
MgrForkUnchecked ==
    /\ mpc = "prompt" /\ jobId <= PTSize
    /\ jpc' = [jpc EXCEPT ![jobId] = "c108"]
    /\ mpc' = "r108"
    /\ UNCHANGED <<jobId, rjp, st, ownGrp, pend, mpend>>

\* 'r': fork.  The child starts with no pending signal and mgr's handler.
MgrFork ==
    /\ mpc = "prompt" /\ jobId < PTSize
    /\ jpc' = [jpc EXCEPT ![jobId] = "c108"]
    /\ mpc' = "r108"
    /\ UNCHANGED <<jobId, rjp, st, ownGrp, pend, mpend>>

\* fork fails: running_job_pid = -1, kill the suspended jobs, exit(1).
MgrForkFail ==
    /\ mpc = "prompt" /\ jobId < PTSize
    /\ rjp' = NoJob
    /\ KillRemaining
    /\ mpc' = "exited"
    /\ UNCHANGED <<jobId, ownGrp, pend, mpend>>

\* running_job_pid = pid_new (line 108, in mgr).
MgrSetRunning ==
    /\ mpc = "r108"
    /\ rjp' = jobId
    /\ mpc' = "r120"
    /\ UNCHANGED <<jobId, st, jobVars, mpend>>

\* setpgid(pid_new, 0): the child leaves mgr's group (if it has not yet).
MgrSetpgid ==
    /\ mpc = "r120"
    /\ ownGrp' = [ownGrp EXCEPT ![jobId] = TRUE]
    /\ mpc' = "r122"
    /\ UNCHANGED <<jobId, rjp, st, jpc, pend, mpend>>

\* Mutant: waitpid without WUNTRACED returns only when the job is dead.
MgrWaitRunNoUntraced ==
    /\ mpc = "r122"
    /\ jpc[jobId] \in {"exited", "signaled"}
    /\ mpc' = "r123"
    /\ UNCHANGED <<jobId, rjp, st, jobVars, mpend>>

\* waitpid(pid_new, &status, WUNTRACED) returns once the job stopped or died.
MgrWaitRun ==
    /\ mpc = "r122"
    /\ jpc[jobId] \in Reportable
    /\ mpc' = "r123"
    /\ UNCHANGED <<jobId, rjp, st, jobVars, mpend>>

\* running_job_pid = -1; record the job with the status waitpid gave.
MgrRecordRun ==
    /\ mpc = "r123"
    /\ rjp' = NoJob
    /\ SetNewProcess(WaitStatus(jobId))
    /\ mpc' = "prompt"
    /\ UNCHANGED <<jobVars, mpend>>

\* 'c' and a valid pick: running_job_pid = PT[op].pid.
MgrPickCont(op) ==
    /\ mpc = "prompt" /\ op \in Suspended
    /\ rjp' = op
    /\ mpc' = "c179"
    /\ UNCHANGED <<jobId, st, jobVars, mpend>>

\* kill(running_job_pid, SIGCONT): a stopped job runs again, and its
\* pending stop signals are discarded.
MgrSigCont ==
    /\ mpc = "c179"
    /\ jpc' = [jpc EXCEPT ![rjp] = IF @ = "stopped" THEN "job" ELSE @]
    /\ pend' = [pend EXCEPT ![rjp] = @ \ {"TSTP"}]
    /\ mpc' = "c181"
    /\ UNCHANGED <<jobId, rjp, st, ownGrp, mpend>>

\* waitpid(running_job_pid, &status, WUNTRACED).
MgrWaitCont ==
    /\ mpc = "c181"
    /\ jpc[rjp] \in Reportable
    /\ mpc' = "c182"
    /\ UNCHANGED <<jobId, rjp, st, jobVars, mpend>>

\* running_job_pid = -1; PT[op_num].status = the new status.
MgrRecordCont ==
    /\ mpc = "c182"
    /\ rjp' = NoJob
    /\ st' = [st EXCEPT ![rjp] = WaitStatus(rjp)]
    /\ mpc' = "prompt"
    /\ UNCHANGED <<jobId, jobVars, mpend>>

\* Mutant: 'k' sends SIGKILL but leaves the status SUSPENDED.
MgrKillNoMark(op) ==
    /\ mpc = "prompt" /\ op \in Suspended
    /\ rjp' = op
    /\ jpc' = [jpc EXCEPT ![op] = SigKill(@)]
    /\ UNCHANGED <<mpc, jobId, st, ownGrp, pend, mpend>>

\* 'k' and a valid pick: running_job_pid = PT[op].pid, SIGKILL, status
\* KILLED.  running_job_pid is not reset.
MgrKill(op) ==
    /\ mpc = "prompt" /\ op \in Suspended
    /\ rjp' = op
    /\ jpc' = [jpc EXCEPT ![op] = SigKill(@)]
    /\ st' = [st EXCEPT ![op] = KILLED]
    /\ UNCHANGED <<mpc, jobId, ownGrp, pend, mpend>>

\* 'q': leave the loop, kill the suspended jobs, exit(0).
MgrQuit ==
    /\ mpc = "prompt"
    /\ KillRemaining
    /\ mpc' = "exited"
    /\ UNCHANGED <<jobId, rjp, ownGrp, pend, mpend>>

-----------------------------------------------------------------------------
(* Signals.                                                                *)

\* The user types ^C or ^Z: the terminal signals its foreground group,
\* mgr's, which holds mgr and a child that has not yet left it.
TermSignal(s) ==
    /\ mpc # "exited"
    /\ mpend' = mpend \cup {s}
    /\ pend' = [j \in Jobs |-> IF jpc[j] \in PreExec /\ ~ownGrp[j]
                                  THEN pend[j] \cup {s} ELSE pend[j]]
    /\ UNCHANGED <<mpc, jobId, rjp, st, jpc, ownGrp>>

\* signal_handler in mgr: with no running job reprint the prompt, else
\* kill(running_job_pid, signo).  A signal to a dead (unreaped) job is lost.
MgrHandle(s) ==
    /\ mpc # "exited" /\ s \in mpend
    /\ mpend' = mpend \ {s}
    /\ pend' = IF rjp = NoJob \/ jpc[rjp] \in Dead THEN pend
               ELSE [pend EXCEPT ![rjp] = @ \cup {s}]
    /\ UNCHANGED <<mpc, jobId, rjp, st, jpc, ownGrp>>

\* signal_handler in a child before execl.  Before line 108 its copy of
\* running_job_pid is -1 and it reprints the prompt; after, it is 0 and
\* kill(0, signo) signals the child's own group: itself (the signal, blocked
\* while the handler runs, is pending again when it returns) and mgr too
\* while the child is still in mgr's group.
ChildHandle(j, s) ==
    /\ jpc[j] \in PreExec /\ s \in pend[j]
    /\ IF jpc[j] = "c108"
          THEN /\ pend' = [pend EXCEPT ![j] = @ \ {s}]
               /\ UNCHANGED mpend
          ELSE /\ mpend' = IF ownGrp[j] THEN mpend ELSE mpend \cup {s}
               /\ UNCHANGED pend
    /\ UNCHANGED <<mpc, jobId, rjp, st, jpc, ownGrp>>

\* The kernel delivers a signal to the job program: SIGINT (the lower
\* number, delivered first) ends it, SIGTSTP stops it.
JobSignal(j) ==
    /\ jpc[j] = "job" /\ pend[j] # {}
    /\ IF "INT" \in pend[j]
          THEN /\ jpc' = [jpc EXCEPT ![j] = "signaled"]
               /\ pend' = [pend EXCEPT ![j] = {}]
          ELSE /\ jpc' = [jpc EXCEPT ![j] = "stopped"]
               /\ pend' = [pend EXCEPT ![j] = @ \ {"TSTP"}]
    /\ UNCHANGED <<mpc, jobId, rjp, st, ownGrp, mpend>>

-----------------------------------------------------------------------------
(* The child's own code, then the job program.                            *)

\* running_job_pid = pid_new, which is 0 in the child.
ChildSetRunning(j) ==
    /\ jpc[j] = "c108" /\ pend[j] = {}
    /\ jpc' = [jpc EXCEPT ![j] = "c116"]
    /\ UNCHANGED <<mpc, jobId, rjp, st, ownGrp, pend, mpend>>

\* setpgid(0, 0).
ChildSetpgid(j) ==
    /\ jpc[j] = "c116" /\ pend[j] = {}
    /\ jpc' = [jpc EXCEPT ![j] = "c117"]
    /\ ownGrp' = [ownGrp EXCEPT ![j] = TRUE]
    /\ UNCHANGED <<mpc, jobId, rjp, st, pend, mpend>>

\* execl("job", ...): handlers are reset to the defaults.  A failing execl
\* is not modelled: the child would fall through into a second copy of
\* mgr's command loop reading the same terminal (see the README).
ChildExec(j) ==
    /\ jpc[j] = "c117" /\ pend[j] = {}
    /\ jpc' = [jpc EXCEPT ![j] = "job"]
    /\ UNCHANGED <<mpc, jobId, rjp, st, ownGrp, pend, mpend>>

\* The job program ends by itself.
JobExit(j) ==
    /\ jpc[j] = "job" /\ pend[j] = {}
    /\ jpc' = [jpc EXCEPT ![j] = "exited"]
    /\ UNCHANGED <<mpc, jobId, rjp, st, ownGrp, pend, mpend>>

-----------------------------------------------------------------------------

\* mgr has exited; the jobs it left are dead.
Finished ==
    /\ mpc = "exited"
    /\ UNCHANGED vars

\* What the user does at the prompt, and the keys typed at any time.
UserStep ==
    \/ MgrRunFull \/ MgrFork \/ MgrForkFail \/ MgrQuit
    \/ \E op \in Jobs : MgrPickCont(op) \/ MgrKill(op)
    \/ \E s \in Signals : TermSignal(s)

MgrStep ==
    \/ MgrSetRunning \/ MgrSetpgid \/ MgrWaitRun \/ MgrRecordRun
    \/ MgrSigCont \/ MgrWaitCont \/ MgrRecordCont
    \/ \E s \in Signals : MgrHandle(s)

JobStep(j) ==
    \/ ChildSetRunning(j) \/ ChildSetpgid(j) \/ ChildExec(j) \/ JobExit(j)
    \/ JobSignal(j) \/ \E s \in Signals : ChildHandle(j, s)

Next ==
    \/ UserStep
    \/ MgrStep
    \/ \E j \in Jobs : JobStep(j)
    \/ Finished

\* mgr and every child are processes the kernel runs and delivers signals
\* to; the job program is taken to end.  The user is under no obligation:
\* the commands and keys have no fairness.  Each step is scheduled on its
\* own: a stream of ^C handled by mgr does not stand for its waitpid.
Fairness ==
    /\ WF_vars(MgrSetRunning) /\ WF_vars(MgrSetpgid) /\ WF_vars(MgrWaitRun)
    /\ WF_vars(MgrRecordRun) /\ WF_vars(MgrSigCont) /\ WF_vars(MgrWaitCont)
    /\ WF_vars(MgrRecordCont) /\ \A s \in Signals : WF_vars(MgrHandle(s))
    /\ \A j \in Jobs :
          /\ WF_vars(ChildSetRunning(j)) /\ WF_vars(ChildSetpgid(j))
          /\ WF_vars(ChildExec(j)) /\ WF_vars(JobExit(j))
          /\ WF_vars(JobSignal(j))

Spec == Init /\ [][Next]_vars /\ Fairness

-----------------------------------------------------------------------------
(* Properties                                                              *)

TypeOK ==
    /\ mpc \in {"prompt", "r108", "r120", "r122", "r123", "c179", "c181",
                "c182", "exited"}
    /\ jobId \in 1 .. PTSize
    /\ rjp \in {NoJob} \cup Jobs
    /\ st \in [Jobs -> SELF .. KILLED]
    /\ jpc \in [Jobs -> {"none", "job", "stopped"} \cup PreExec \cup Dead]
    /\ ownGrp \in [Jobs -> BOOLEAN]
    /\ pend \in [Jobs -> SUBSET Signals] /\ mpend \in SUBSET Signals

\* The kernel state a PT status stands for.
KernelOf == [s \in FINISHED .. KILLED |->
               CASE s = FINISHED   -> "exited"
                 [] s = TERMINATED -> "signaled"
                 [] s = SUSPENDED  -> "stopped"
                 [] s = KILLED     -> "killed"]

\* Whenever mgr is back at its prompt, 'p' would print the truth: every
\* job in PT is in the state its status names (a SUSPENDED job is stopped
\* and can be continued or killed), and no job outside PT exists.  This
\* relies on waitpid's WUNTRACED report, SIGCONT, SIGKILL and the updates
\* of 'r', 'c', 'k' agreeing, whatever signals the user sends meanwhile.
TableMatchesKernel ==
    mpc = "prompt" =>
        \A j \in Jobs :
            IF j \in Recorded THEN jpc[j] = KernelOf[st[j]]
                              ELSE jpc[j] = "none"

\* When mgr exits, by 'q' or on a full table or a failed fork, no job it
\* started is left alive: kill_remaining_jobs kills every stopped one.
NoneLeftAtExit ==
    mpc = "exited" => \A j \in Jobs : jpc[j] \in {"none"} \cup Dead

\* Once the job of an 'r' has exec'd, mgr's waitpid returns and mgr is
\* back at the prompt, whether the job ends, is interrupted or is stopped
\* with ^Z (WUNTRACED).
ExecedJobReturns ==
    (mpc = "r122" /\ jpc[jobId] \notin PreExec) ~> (mpc = "prompt")

\* After 'r', mgr gets back to its prompt: a ^C or ^Z interrupts the job,
\* it never hangs the shell.
ReturnsToPrompt == (mpc = "r122") ~> (mpc = "prompt")

=============================================================================
