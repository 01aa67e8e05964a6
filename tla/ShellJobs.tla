----------------------------- MODULE ShellJobs -----------------------------
(***************************************************************************)
(* Job control of the shell (user/sh.c) at the terminal: a command line    *)
(* becomes a pipeline of children in a process group of their own, which   *)
(* is given the terminal and waited for, or becomes a job; fg, bg and wait *)
(* work on the jobs; a trapped signal is noted by its handler and its list *)
(* is run between commands.                                                *)
(*                                                                         *)
(* The shell is one thread: `shell' says which call it makes next.  The    *)
(* children run, exit, read the terminal and are stopped between any two   *)
(* of its calls; so do the keys Ctrl-C and Ctrl-Z, which the kernel sends  *)
(* to the group that has the terminal.  What the kernel does (waitpid,     *)
(* setpgid, tcsetpgrp, the stop for reading from the background) is what   *)
(* process.c does for one-threaded children.                               *)
(***************************************************************************)
EXTENDS Naturals, Sequences, FiniteSets

CONSTANTS
  ShPids,       \* process numbers, each used once: 1 .. n
  ShStages,     \* MAX_STAGES
  ShJobs,       \* MAX_JOBS
  ShTraps,      \* the trapped signals: 1 .. n
  ShTyped,      \* lines that are typed
  ShSignals,    \* trapped signals that come
  ShFaults      \* forks that fail

ShAssumption ==
  /\ ShPids \subseteq Nat \ {0} /\ IsFiniteSet(ShPids)
  /\ ShStages \in Nat \ {0} /\ ShJobs \in Nat /\ ShTraps \subseteq Nat \ {0}
  /\ ShTyped \in Nat /\ ShSignals \in Nat /\ ShFaults \in Nat

VARIABLES
  shell,        \* [at, pids, alive, count, i, background, job, stopped, ending]
  proc,         \* per process: [st, group, lead, ready, told, ttin]
  jobs,         \* per number: [used, pids, alive, stopped]
  tty,          \* foreground_pgid; 0 stands for the shell's own group
  trap,         \* [pending, waiting, k]: trap_pending, traps_waiting, run_traps' loop
  shLeft        \* what may still happen: [typed, signals, faults]
shVars == <<shell, proc, jobs, tty, trap, shLeft>>

ShellGroup == 0
GoTo(where, c) == [c EXCEPT !.at = where]
Idle(where) == [at |-> where, pids |-> <<>>, alive |-> <<>>, count |-> 0, i |-> 1, job |-> 0,
                background |-> FALSE, stopped |-> FALSE, ending |-> FALSE]
NoJob == [used |-> FALSE, pids |-> <<>>, alive |-> <<>>, stopped |-> FALSE]

-----------------------------------------------------------------------------
(***************************************************************************)
(* The kernel's side.                                                      *)
(***************************************************************************)
Living(p) == proc[p].st \in {"running", "stopped"}
Members(g) == {p \in ShPids : proc[p].st # "unused" /\ proc[p].st # "gone" /\ proc[p].group = g}

\* process_set_foreground: only to a group with a live member.
tcsetpgrp(g) == IF g = ShellGroup \/ \E p \in Members(g) : Living(p) THEN g ELSE tty

Stopped(P, S, reading) ==
  [p \in ShPids |-> IF p \in S /\ P[p].st = "running"
                    THEN [P[p] EXCEPT !.st = "stopped", !.told = FALSE, !.ttin = reading] ELSE P[p]]
Continued(P, S) ==
  [p \in ShPids |-> IF p \in S /\ P[p].st = "stopped"
                    THEN [P[p] EXCEPT !.st = "running", !.ttin = FALSE] ELSE P[p]]
Ended(P, S) ==
  [p \in ShPids |-> IF p \in S /\ P[p].st \in {"running", "stopped"}
                    THEN [P[p] EXCEPT !.st = "zombie"] ELSE P[p]]

-----------------------------------------------------------------------------
(***************************************************************************)
(* Children.  Until it is ready a child still ignores Ctrl-C and Ctrl-Z as *)
(* the shell does.                                                         *)
(***************************************************************************)
child_ready(p) ==
  /\ proc[p].st = "running" /\ ~proc[p].ready
  /\ proc' = [proc EXCEPT ![p].group = proc[p].lead, ![p].ready = TRUE]
  /\ UNCHANGED <<shell, jobs, tty, trap, shLeft>>

child_exits(p) ==
  /\ proc[p].st = "running" /\ proc[p].ready
  /\ proc' = Ended(proc, {p})
  /\ UNCHANGED <<shell, jobs, tty, trap, shLeft>>

\* process_terminal_access: a read from the background stops the whole group.
child_reads_terminal(p) ==
  /\ proc[p].st = "running" /\ proc[p].ready /\ tty # proc[p].group
  /\ proc' = Stopped(proc, Members(proc[p].group), TRUE)
  /\ UNCHANGED <<shell, jobs, tty, trap, shLeft>>

\* process_signal_foreground; the shell itself ignores both.
press_ctrl_c ==
  /\ tty # ShellGroup
  /\ proc' = Ended(proc, {p \in Members(tty) : proc[p].ready})
  /\ UNCHANGED <<shell, jobs, tty, trap, shLeft>>
press_ctrl_z ==
  /\ tty # ShellGroup
  /\ proc' = Stopped(proc, {p \in Members(tty) : proc[p].ready}, FALSE)
  /\ UNCHANGED <<shell, jobs, tty, trap, shLeft>>

\* The handler of every trap; in wait it also ends the sleep.
trap_noted(s) ==
  /\ shLeft.signals > 0
  /\ trap' = [trap EXCEPT !.pending = @ \cup {s}, !.waiting = TRUE]
  /\ shell' = IF shell.at = "wait_sleeps" THEN Idle("top") ELSE shell
  /\ shLeft' = [shLeft EXCEPT !.signals = @ - 1]
  /\ UNCHANGED <<proc, jobs, tty>>

-----------------------------------------------------------------------------
(***************************************************************************)
(* Starting a pipeline (run_pipeline, exec_pipeline).                      *)
(***************************************************************************)
type_command(n, background) ==
  /\ shell.at = "prompt" /\ shLeft.typed > 0
  /\ Cardinality({p \in ShPids : proc[p].st = "unused"}) >= n
  /\ shell' = [Idle("fork") EXCEPT !.count = n, !.background = background]
  /\ shLeft' = [shLeft EXCEPT !.typed = @ - 1]
  /\ UNCHANGED <<proc, jobs, tty, trap>>

Leader(c, p) == IF c.pids = <<>> THEN p ELSE c.pids[1]
fork_stage ==
  /\ shell.at = "fork" /\ Len(shell.pids) < shell.count
  /\ \E p \in ShPids :
       /\ proc[p].st = "unused" /\ \A q \in ShPids : q < p => proc[q].st # "unused"
       /\ proc' = [proc EXCEPT ![p] = [st |-> "running", group |-> ShellGroup, ready |-> FALSE,
                                       lead |-> Leader(shell, p), told |-> FALSE, ttin |-> FALSE]]
       /\ shell' = [shell EXCEPT !.at = "setpgid", !.pids = Append(@, p), !.alive = Append(@, TRUE)]
  /\ UNCHANGED <<jobs, tty, trap, shLeft>>
set_group ==
  /\ shell.at = "setpgid"
  /\ LET p == shell.pids[Len(shell.pids)] IN proc' = [proc EXCEPT ![p].group = shell.pids[1]]
  /\ shell' = GoTo(IF Len(shell.pids) = shell.count THEN "started" ELSE "fork", shell)
  /\ UNCHANGED <<jobs, tty, trap, shLeft>>
\* The stages before the one that failed run on.
fork_fails ==
  /\ shell.at = "fork" /\ shLeft.faults > 0
  /\ shell' = IF shell.pids = <<>> THEN Idle("top")
              ELSE [shell EXCEPT !.at = "started", !.count = Len(shell.pids)]
  /\ shLeft' = [shLeft EXCEPT !.faults = @ - 1]
  /\ UNCHANGED <<proc, jobs, tty, trap>>

\* The number of the first free entry, or 0.
FreeJob == IF \A n \in 1 .. ShJobs : jobs[n].used THEN 0
           ELSE CHOOSE n \in 1 .. ShJobs : ~jobs[n].used /\ \A k \in 1 .. n - 1 : jobs[k].used
job_add(n, c, stopped) ==
  [jobs EXCEPT ![n] = [used |-> TRUE, pids |-> c.pids, alive |-> c.alive, stopped |-> stopped]]

\* In the background it is a job, unless the table is full.
pipeline_started ==
  /\ shell.at = "started"
  /\ IF shell.background /\ FreeJob # 0
     THEN jobs' = job_add(FreeJob, shell, FALSE) /\ shell' = Idle("top")
     ELSE shell' = GoTo("give", shell) /\ UNCHANGED jobs
  /\ UNCHANGED <<proc, tty, trap, shLeft>>

-----------------------------------------------------------------------------
(***************************************************************************)
(* run_in_foreground.                                                      *)
(***************************************************************************)
give_terminal ==
  /\ shell.at = "give"
  /\ tty' = tcsetpgrp(shell.pids[1])
  /\ shell' = [shell EXCEPT !.at = "wait", !.i = 1, !.stopped = FALSE]
  /\ UNCHANGED <<proc, jobs, trap, shLeft>>

\* wait_foreground, once waitpid has answered for process i.
AfterWait(c) ==
  IF proc[c.pids[c.i]].st = "stopped" THEN [c EXCEPT !.stopped = TRUE, !.i = @ + 1]
  ELSE [c EXCEPT !.alive[c.i] = FALSE, !.i = @ + 1]

Reaped(P, p) ==
  IF P[p].st = "zombie" THEN [P EXCEPT ![p].st = "gone"] ELSE [P EXCEPT ![p].told = TRUE]
HasNews(p) == proc[p].st = "zombie" \/ (proc[p].st = "stopped" /\ ~proc[p].told)

wait_foreground ==
  /\ shell.at = "wait" /\ shell.i <= shell.count
  /\ IF shell.alive[shell.i]
     THEN /\ HasNews(shell.pids[shell.i])
          /\ proc' = Reaped(proc, shell.pids[shell.i])
          /\ shell' = AfterWait(shell)
     ELSE shell' = [shell EXCEPT !.i = @ + 1] /\ UNCHANGED proc
  \* fg waits with the job's own array
  /\ jobs' = IF shell.job = 0 THEN jobs ELSE [jobs EXCEPT ![shell.job].alive = shell'.alive]
  /\ UNCHANGED <<tty, trap, shLeft>>

\* No room to remember a stopped command: it is ended, and waited for.
no_room ==
  /\ proc' = Ended(proc, Members(shell.pids[1]))
  /\ shell' = [shell EXCEPT !.at = "wait", !.i = 1, !.stopped = FALSE, !.ending = TRUE]
  /\ UNCHANGED jobs

foreground_over ==
  /\ shell.at = "wait" /\ shell.i > shell.count
  /\ tty' = ShellGroup
  /\ CASE shell.ending -> shell' = Idle("top") /\ UNCHANGED <<proc, jobs>>
       [] ~shell.ending /\ ~shell.stopped ->
            /\ jobs' = IF shell.job = 0 THEN jobs ELSE [jobs EXCEPT ![shell.job].used = FALSE]
            /\ shell' = Idle("top") /\ UNCHANGED proc
       [] ~shell.ending /\ shell.stopped /\ shell.job # 0 ->
            jobs' = [jobs EXCEPT ![shell.job].stopped = TRUE] /\ shell' = Idle("top") /\ UNCHANGED proc
       [] ~shell.ending /\ shell.stopped /\ shell.job = 0 /\ FreeJob # 0 ->
            jobs' = job_add(FreeJob, shell, TRUE) /\ shell' = Idle("top") /\ UNCHANGED proc
       [] OTHER -> no_room
  /\ UNCHANGED <<trap, shLeft>>

-----------------------------------------------------------------------------
(***************************************************************************)
(* fg, bg and wait.  The job's array is waited through by fg itself.       *)
(***************************************************************************)
OfJob(n, where) == [at |-> where, pids |-> jobs[n].pids, alive |-> jobs[n].alive,
                    count |-> Len(jobs[n].pids), i |-> 1, background |-> FALSE, job |-> n,
                    stopped |-> FALSE, ending |-> FALSE]
type_fg(n) ==
  /\ shell.at = "prompt" /\ shLeft.typed > 0 /\ jobs[n].used
  /\ jobs' = [jobs EXCEPT ![n].stopped = FALSE]
  /\ tty' = tcsetpgrp(jobs[n].pids[1])
  /\ shell' = OfJob(n, "continue")
  /\ shLeft' = [shLeft EXCEPT !.typed = @ - 1]
  /\ UNCHANGED <<proc, trap>>
fg_continue ==
  /\ shell.at = "continue"
  /\ proc' = Continued(proc, Members(shell.pids[1]))
  /\ shell' = GoTo("give", shell)
  /\ UNCHANGED <<jobs, tty, trap, shLeft>>
type_bg(n) ==
  /\ shell.at = "prompt" /\ shLeft.typed > 0 /\ jobs[n].used
  /\ jobs' = [jobs EXCEPT ![n].stopped = FALSE]
  /\ proc' = Continued(proc, Members(jobs[n].pids[1]))
  /\ shell' = Idle("top")
  /\ shLeft' = [shLeft EXCEPT !.typed = @ - 1]
  /\ UNCHANGED <<tty, trap>>
\* wait %N: for every process of the job in turn, stops left untold.
type_wait(n) ==
  /\ shell.at = "prompt" /\ shLeft.typed > 0 /\ jobs[n].used
  /\ shell' = OfJob(n, "wait_calls")
  /\ shLeft' = [shLeft EXCEPT !.typed = @ - 1]
  /\ UNCHANGED <<proc, jobs, tty, trap>>
wait_job ==
  /\ shell.at \in {"wait_calls", "wait_sleeps"} /\ shell.i <= shell.count
  /\ LET n == shell.job
         p == shell.pids[shell.i]
     IN  CASE ~jobs[n].alive[shell.i] ->
                shell' = [shell EXCEPT !.i = @ + 1] /\ UNCHANGED <<proc, jobs>>
           [] jobs[n].alive[shell.i] /\ proc[p].st = "zombie" ->
                /\ proc' = Reaped(proc, p)
                /\ jobs' = [jobs EXCEPT ![n].alive[shell.i] = FALSE]
                /\ shell' = [shell EXCEPT !.at = "wait_calls", !.i = @ + 1]
           [] OTHER ->
                /\ shell.at = "wait_calls"
                /\ shell' = GoTo("wait_sleeps", shell) /\ UNCHANGED <<proc, jobs>>
  /\ UNCHANGED <<tty, trap, shLeft>>
wait_over ==
  /\ shell.at = "wait_calls" /\ shell.i > shell.count
  /\ jobs' = [jobs EXCEPT ![shell.job].used = FALSE]
  /\ shell' = Idle("top")
  /\ UNCHANGED <<proc, tty, trap, shLeft>>

-----------------------------------------------------------------------------
(***************************************************************************)
(* Between commands: run_traps, then check_jobs, then the prompt.          *)
(***************************************************************************)
BeginTraps == [trap EXCEPT !.waiting = FALSE, !.k = 1]
\* Mutant of EndTraps: what came meanwhile is taken to have been run
EndTrapsLate == [trap EXCEPT !.waiting = FALSE, !.k = 0]
EndTraps == [trap EXCEPT !.k = 0]

run_traps ==
  /\ shell.at = "top"
  /\ IF trap.waiting THEN trap' = BeginTraps /\ shell' = GoTo("traps", shell)
                     ELSE shell' = Idle("check") /\ UNCHANGED trap
  /\ UNCHANGED <<proc, jobs, tty, shLeft>>
run_trap ==
  /\ shell.at = "traps"
  /\ IF trap.k \in ShTraps
     THEN trap' = [trap EXCEPT !.pending = @ \ {trap.k}, !.k = @ + 1] /\ UNCHANGED shell
     ELSE trap' = EndTraps /\ shell' = Idle("check")
  /\ UNCHANGED <<proc, jobs, tty, shLeft>>

\* check_jobs: one look at every process of every job.
Checked(j) ==
  LET alive == [i \in DOMAIN j.pids |-> j.alive[i] /\ proc[j.pids[i]].st # "zombie"] IN
  [j EXCEPT !.alive = alive,
            !.used = \E i \in DOMAIN alive : alive[i],
            !.stopped = @ \/ \E i \in DOMAIN alive : alive[i] /\ HasNews(j.pids[i])]
check_jobs ==
  /\ shell.at = "check"
  /\ jobs' = [n \in 1 .. ShJobs |-> IF jobs[n].used THEN Checked(jobs[n]) ELSE jobs[n]]
  /\ proc' = [p \in ShPids |->
       IF HasNews(p) /\ \E n \in 1 .. ShJobs : jobs[n].used /\ \E i \in DOMAIN jobs[n].pids :
                          jobs[n].alive[i] /\ jobs[n].pids[i] = p
       THEN Reaped(proc, p)[p] ELSE proc[p]]
  /\ shell' = Idle("prompt")
  /\ UNCHANGED <<tty, trap, shLeft>>

ShInit ==
  /\ shell = Idle("prompt")
  /\ proc = [p \in ShPids |-> [st |-> "unused", group |-> 0, lead |-> 0, ready |-> FALSE,
                               told |-> FALSE, ttin |-> FALSE]]
  /\ jobs = [n \in 1 .. ShJobs |-> NoJob]
  /\ tty = ShellGroup
  /\ trap = [pending |-> {}, waiting |-> FALSE, k |-> 0]
  /\ shLeft = [typed |-> ShTyped, signals |-> ShSignals, faults |-> ShFaults]

ShNext ==
  \/ \E p \in ShPids : child_ready(p) \/ child_exits(p) \/ child_reads_terminal(p)
  \/ press_ctrl_c \/ press_ctrl_z
  \/ \E s \in ShTraps : trap_noted(s)
  \/ \E n \in 1 .. ShStages, b \in BOOLEAN : type_command(n, b)
  \/ fork_stage \/ set_group \/ fork_fails \/ pipeline_started
  \/ give_terminal \/ wait_foreground \/ foreground_over
  \/ \E n \in 1 .. ShJobs : type_fg(n) \/ type_bg(n) \/ type_wait(n)
  \/ fg_continue \/ wait_job \/ wait_over
  \/ run_traps \/ run_trap \/ check_jobs

-----------------------------------------------------------------------------
InCommand(p) == shell.job = 0 /\ \E i \in DOMAIN shell.pids : shell.pids[i] = p /\ shell.alive[i]
InJob(p) == \E n \in 1 .. ShJobs : jobs[n].used /\ \E i \in DOMAIN jobs[n].pids :
              jobs[n].pids[i] = p /\ jobs[n].alive[i]

\* Whatever the children and the keys do between the shell's calls, the shell
\* forgets no child: one it has not waited for is part of the command it runs
\* or alive in a job, and one it has waited for is in neither, so that every
\* waitpid is for a child it has.  A job whose processes have all been reported
\* as stopped is marked stopped, and at the prompt the terminal is the shell's
\* (run_in_foreground, wait_foreground, job_add, check_jobs).
JobsAreKnown ==
  /\ \A p \in ShPids :
       proc[p].st \in {"running", "stopped", "zombie"} <=> InCommand(p) \/ InJob(p)
  /\ shell.at \in {"prompt", "check"} =>
       /\ tty = ShellGroup
       /\ \A n \in 1 .. ShJobs :
            jobs[n].used /\ (\A i \in DOMAIN jobs[n].pids :
               jobs[n].alive[i] => proc[jobs[n].pids[i]].st = "stopped" /\ proc[jobs[n].pids[i]].told)
            => jobs[n].stopped

\* A signal that was noted will have its list run: the shell knows that one is
\* waiting, or run_traps has yet to come to it (trap_noted, run_traps).
TrapsAreRun ==
  \A s \in trap.pending : trap.waiting \/ (shell.at = "traps" /\ trap.k <= s)

\* "Ctrl-C or a trapped signal ends it at once" (wait_builtin): wait does not
\* sleep once a signal has been noted.
WaitEndsAtOnce == shell.at = "wait_sleeps" => ~trap.waiting

\* A command the shell runs in the foreground is not stopped for reading the
\* terminal: it is "given the terminal" (run_in_foreground).
ForegroundMayRead ==
  shell.at = "wait" /\ ~shell.ending =>
    \A i \in DOMAIN shell.pids : shell.alive[i] => ~proc[shell.pids[i]].ttin
=============================================================================
