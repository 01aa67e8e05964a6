----------------------------- MODULE ProcessLife -----------------------------
(***************************************************************************)
(* The life of processes and their threads: fork, thread_create, exec,     *)
(* exit, kill, stop and continue, waiting for children and for threads,    *)
(* adoption by init, and the kernel's reaper (sched.c and process.c).      *)
(*                                                                         *)
(* All of this happens in sections of the scheduler lock, and a step is    *)
(* one section.  task_end is three of them, with the locks free between:   *)
(* it says that it is exiting, stops counting as alive, and only later     *)
(* becomes a zombie.                                                       *)
(*                                                                         *)
(* Abstracted: which CPU a task runs on (RunQueue shows that a task woken  *)
(* here is run), its memory and files, and signals that have handlers.     *)
(* A task or process that is used once is not used again (a PID never is). *)
(***************************************************************************)
EXTENDS Naturals, FiniteSets

CONSTANTS
    Procs, Tasks,   \* process structures (named by PID) and task structures
    Kernel,         \* PID 0, which starts init and then is the reaper
    KernelTask,     \* its only task
    None,
    MaxThreads,     \* PROCESS_MAX_THREADS
    Overtaken       \* may init run before PID 0 has named it?

ASSUME LifeAssumption ==
    /\ Kernel \in Procs /\ KernelTask \in Tasks
    /\ IsFiniteSet(Tasks) /\ None \notin Procs /\ None \notin Tasks
    /\ "reaper" \notin Procs
    /\ MaxThreads \in Nat \ {0} /\ Overtaken \in BOOLEAN

VARIABLES
    st,             \* st[t]: its state; "live" is READY or RUNNING
    proc,           \* proc[t]: the process it is a thread of
    pc,             \* pc[t]: where its code is
    call,           \* call[t]: the waiting call it is in
    chan,           \* chan[t]: the channel it is BLOCKED on
    target,         \* target[t]: the thread thread_join waits for
    detached,       \* detached[t]: nobody will wait for it
    kill, stop,     \* kill_pending and stop_pending
    leader,         \* leader[p]: the task whose PID is the process's
    parent,         \* parent[p]: parent_pid
    live,           \* live[p]: threads that count as alive
    group_exit,     \* group_exit[p]: the process has been told to end
    exec_tid,       \* exec_tid[p]: the thread that waits to be alone
    stop_reported,  \* stop_reported[p]: the parent has heard of the stop
    init_task       \* the task structure that stands for init

taskVars == <<st, proc, pc, call, chan, target, detached, kill, stop>>
procVars == <<leader, parent, live, group_exit, exec_tid, stop_reported>>
vars == <<taskVars, procVars, init_task>>

-----------------------------------------------------------------------------
Reaper == "reaper"      \* reaper_channel; the other channels are processes

States == {"new", "live", "blocked", "stopped", "zombie", "freed"}
Leaving == {"leave", "die", "dielast", "gone"}
Locations == {"boot", "naming", "reap", "idle",
              "user", "look", "wake", "exec", "doomed"} \cup Leaving
Calls == {"none", "wait", "untraced", "join"}

TypeOK ==
    /\ st \in [Tasks -> States]
    /\ proc \in [Tasks -> Procs \cup {None}]
    /\ pc \in [Tasks -> Locations]
    /\ call \in [Tasks -> Calls]
    /\ chan \in [Tasks -> Procs \cup {Reaper, None}]
    /\ target \in [Tasks -> Tasks \cup {None}]
    /\ detached \in [Tasks -> BOOLEAN]
    /\ kill \in [Tasks -> BOOLEAN] /\ stop \in [Tasks -> BOOLEAN]
    /\ leader \in [Procs -> Tasks \cup {None}]
    /\ parent \in [Procs -> Procs \cup {None}]
    /\ live \in [Procs -> Nat]
    /\ group_exit \in [Procs -> BOOLEAN]
    /\ exec_tid \in [Procs -> Tasks \cup {None}]
    /\ stop_reported \in [Procs -> BOOLEAN]
    /\ init_task \in Tasks \cup {None}

\* kernel_main, about to start init
Init ==
    /\ st = [t \in Tasks |-> IF t = KernelTask THEN "live" ELSE "new"]
    /\ proc = [t \in Tasks |-> IF t = KernelTask THEN Kernel ELSE None]
    /\ pc = [t \in Tasks |-> IF t = KernelTask THEN "boot" ELSE "user"]
    /\ call = [t \in Tasks |-> "none"]
    /\ chan = [t \in Tasks |-> None]
    /\ target = [t \in Tasks |-> None]
    /\ detached = [t \in Tasks |-> TRUE]
    /\ kill = [t \in Tasks |-> FALSE]
    /\ stop = [t \in Tasks |-> FALSE]
    /\ leader = [p \in Procs |-> IF p = Kernel THEN KernelTask ELSE None]
    /\ parent = [p \in Procs |-> None]
    /\ live = [p \in Procs |-> IF p = Kernel THEN 1 ELSE 0]
    /\ group_exit = [p \in Procs |-> FALSE]
    /\ exec_tid = [p \in Procs |-> None]
    /\ stop_reported = [p \in Procs |-> FALSE]
    /\ init_task = None

-----------------------------------------------------------------------------
(* Helpers.                                                                *)

\* On the list of all tasks
Listed(t) == t # None /\ st[t] \notin {"new", "freed"}
Threads(p) == {t \in Tasks : proc[t] = p /\ Listed(t)}

\* A user task that may do something now
Runs(t) ==
    /\ st[t] = "live" /\ t # KernelTask
    /\ Overtaken \/ pc[KernelTask] # "naming"

\* sched_process_stopped_locked, for the task states s
AllStopped(p, s) ==
    live[p] # 0 /\ \A t \in Threads(p) : s[t] \in {"stopped", "zombie"}

\* The task states s once whoever sleeps on a channel of C is woken
Wake(s, C) ==
    [t \in Tasks |-> IF s[t] = "blocked" /\ chan[t] \in C THEN "live" ELSE s[t]]

\* sched_request_kill has an effect on these of the tasks S
Killable(S) ==
    {t \in S : /\ st[t] \in {"live", "blocked", "stopped"}
               /\ pc[t] \notin Leaving /\ ~kill[t]}

\* The task states once the tasks K have been killed: sleepers and stopped
\* ones are woken
Killed(K) == [t \in Tasks |-> IF t \in K THEN "live" ELSE st[t]]

Flagged(f, K, b) == [t \in Tasks |-> IF t \in K THEN b ELSE f[t]]

Goto(t, l) == pc' = [pc EXCEPT ![t] = l]

\* A task of process p starts to exist
Start(t, p, det) ==
    /\ st' = [st EXCEPT ![t] = "live"]
    /\ proc' = [proc EXCEPT ![t] = p]
    /\ detached' = [detached EXCEPT ![t] = det]

-----------------------------------------------------------------------------
(* PID 0.                                                                  *)

\* A new process with one thread
NewProcess(p, t, creator) ==
    /\ leader[p] = None /\ st[t] = "new"
    /\ Start(t, p, FALSE)
    /\ leader' = [leader EXCEPT ![p] = t]
    /\ parent' = [parent EXCEPT ![p] = creator]
    /\ live' = [live EXCEPT ![p] = 1]

\* process_spawn_init: the process is started ...
SpawnInit(p, t) ==
    /\ pc[KernelTask] = "boot"
    /\ NewProcess(p, t, Kernel)
    /\ Goto(KernelTask, "naming")
    /\ UNCHANGED <<call, chan, target, kill, stop, group_exit, exec_tid,
                   stop_reported, init_task>>

\* ... and then looked up by its PID and named as init (sched_set_init)
SetInit ==
    /\ pc[KernelTask] = "naming"
    /\ \E p \in Procs :
          /\ p # Kernel /\ parent[p] = Kernel /\ Listed(leader[p])
          /\ init_task' = leader[p]
          /\ detached' = [detached EXCEPT ![leader[p]] = TRUE]
    /\ Goto(KernelTask, "reap")
    /\ UNCHANGED <<st, proc, call, chan, target, kill, stop, procVars>>

\* reapable
Reapable(t) ==
    /\ st[t] = "zombie" /\ detached[t]
    /\ leader[proc[t]] # t \/ live[proc[t]] = 0

\* sched_reap
Reap ==
    /\ pc[KernelTask] = "reap" /\ st[KernelTask] = "live"
    /\ st' = [t \in Tasks |-> IF Reapable(t) THEN "freed" ELSE st[t]]
    /\ Goto(KernelTask, "idle")
    /\ UNCHANGED <<proc, call, chan, target, detached, kill, stop, procVars,
                   init_task>>

\* Mutant of WaitForReapable: it sleeps without looking
WaitUnchecked ==
    /\ pc[KernelTask] = "idle"
    /\ Goto(KernelTask, "reap")
    /\ st' = [st EXCEPT ![KernelTask] = "blocked"]
    /\ chan' = [chan EXCEPT ![KernelTask] = Reaper]
    /\ UNCHANGED <<proc, call, target, detached, kill, stop, procVars, init_task>>

\* sched_wait_for_reapable
WaitForReapable ==
    /\ pc[KernelTask] = "idle"
    /\ Goto(KernelTask, "reap")
    /\ IF \E t \in Tasks : Reapable(t)
       THEN UNCHANGED <<st, chan>>
       ELSE /\ st' = [st EXCEPT ![KernelTask] = "blocked"]
            /\ chan' = [chan EXCEPT ![KernelTask] = Reaper]
    /\ UNCHANGED <<proc, call, target, detached, kill, stop, procVars, init_task>>

-----------------------------------------------------------------------------
(* New processes and threads.                                              *)

\* process_fork: the child's parent is the process, whichever thread forks
Fork(t, p, u) ==
    /\ Runs(t) /\ pc[t] = "user"
    /\ NewProcess(p, u, proc[t])
    /\ UNCHANGED <<pc, call, chan, target, kill, stop, group_exit, exec_tid,
                   stop_reported, init_task>>

\* Mutant of AddThread: the new thread is not counted
AddThreadUncounted(t, u) ==
    /\ Runs(t) /\ pc[t] = "user" /\ st[u] = "new"
    /\ ~group_exit[proc[t]] /\ exec_tid[proc[t]] = None
    /\ ~kill[t] /\ live[proc[t]] < MaxThreads
    /\ Start(u, proc[t], FALSE)
    /\ UNCHANGED <<pc, call, chan, target, kill, stop, procVars, init_task>>

\* sched_add_thread: refused to a process that is ending or exec'ing
AddThread(t, u) ==
    /\ Runs(t) /\ pc[t] = "user" /\ st[u] = "new"
    /\ ~group_exit[proc[t]] /\ exec_tid[proc[t]] = None
    /\ ~kill[t] /\ live[proc[t]] < MaxThreads
    /\ Start(u, proc[t], FALSE)
    /\ live' = [live EXCEPT ![proc[t]] = @ + 1]
    /\ UNCHANGED <<pc, call, chan, target, kill, stop, leader, parent,
                   group_exit, exec_tid, stop_reported, init_task>>

-----------------------------------------------------------------------------
(* task_end.                                                               *)

\* The first section.  With `whole` the process ends too: the others are
\* killed, unless one of them is exec'ing and has killed this one.
Leave(t, whole) ==
    LET p == proc[t]
        ends == whole /\ exec_tid[p] \in {None, t} /\ ~group_exit[p]
        hit == IF ends THEN Killable(Threads(p) \ {t}) ELSE {}
    IN
    /\ Runs(t) /\ pc[t] \in {"user", "doomed"}
    /\ pc[t] = "doomed" \/ kill[t] => whole
    /\ group_exit' = [group_exit EXCEPT ![p] = @ \/ ends]
    /\ st' = Killed(hit)
    /\ kill' = [Flagged(kill, hit, TRUE) EXCEPT ![t] = FALSE]
    /\ stop' = Flagged(stop, hit, FALSE)
    /\ call' = [call EXCEPT ![t] = "none"]
    /\ Goto(t, "leave")
    /\ UNCHANGED <<proc, chan, target, detached, leader, parent, live, exec_tid,
                   stop_reported, init_task>>

\* The second: the thread no longer counts as alive
StopCounting(t) ==
    /\ Runs(t) /\ pc[t] = "leave"
    /\ live' = [live EXCEPT ![proc[t]] = @ - 1]
    /\ Goto(t, IF live[proc[t]] = 1 THEN "dielast" ELSE "die")
    /\ UNCHANGED <<st, proc, call, chan, target, detached, kill, stop, leader,
                   parent, group_exit, exec_tid, stop_reported, init_task>>

\* The third, of a thread that was not the last
Die(t) ==
    /\ Runs(t) /\ pc[t] = "die"
    /\ st' = [Wake(st, {proc[t]} \cup (IF detached[t] THEN {Reaper} ELSE {}))
              EXCEPT ![t] = "zombie"]
    /\ Goto(t, "gone")
    /\ UNCHANGED <<proc, call, chan, target, detached, kill, stop, procVars,
                   init_task>>

\* Processes, other than p, that are on the list and children of p
Children(p) == {q \in Procs \ {p} : Listed(leader[q]) /\ parent[q] = p}

\* Is init_task a thread of p?  A freed one may look like it
IsInit(p) ==
    IF init_task = None THEN {FALSE}
    ELSE IF st[init_task] = "freed" THEN BOOLEAN
    ELSE {proc[init_task] = p}

\* Mutant of DieLast: only the process that adopts is told, not the parent
DieLastQuietly(t) ==
    LET p == proc[t] IN
    /\ Runs(t) /\ pc[t] = "dielast"
    /\ \E was \in IsInit(p) :
       LET init == IF was THEN None ELSE init_task
           adopted == Children(p) # {} /\ init # None
           told == IF adopted THEN {proc[init]} ELSE {}
       IN
       /\ init_task' = init
       /\ parent' = [q \in Procs |-> IF adopted /\ q \in Children(p)
                                     THEN proc[init] ELSE parent[q]]
       /\ detached' = [u \in Tasks |->
             \/ detached[u]
             \/ u \in Threads(p) /\ leader[p] # u
             \/ init = None /\ \E q \in Children(p) : leader[q] = u]
       /\ st' = [Wake(st, {p, Reaper} \cup told) EXCEPT ![t] = "zombie"]
    /\ Goto(t, "gone")
    /\ UNCHANGED <<proc, call, chan, target, kill, stop, leader, live,
                   group_exit, exec_tid, stop_reported>>

\* Mutant of DieLast: with no init, the children stay the dead process's
DieLastKeeps(t) ==
    LET p == proc[t] IN
    /\ Runs(t) /\ pc[t] = "dielast"
    /\ \E was \in IsInit(p) :
       LET init == IF was THEN None ELSE init_task
           adopted == Children(p) # {} /\ init # None
           told == (IF adopted THEN {proc[init]} ELSE {})
                   \cup (IF parent[p] # None /\ Listed(leader[parent[p]])
                         THEN {parent[p]} ELSE {})
       IN
       /\ init_task' = init
       /\ parent' = [q \in Procs |-> IF adopted /\ q \in Children(p)
                                     THEN proc[init] ELSE parent[q]]
       /\ detached' = [u \in Tasks |->
             \/ detached[u]
             \/ u \in Threads(p) /\ leader[p] # u]
       /\ st' = [Wake(st, {p, Reaper} \cup told) EXCEPT ![t] = "zombie"]
    /\ Goto(t, "gone")
    /\ UNCHANGED <<proc, call, chan, target, kill, stop, leader, live,
                   group_exit, exec_tid, stop_reported>>

\* The third, of the last thread: nobody will join the others, init takes
\* over the children (or they are left to the reaper), and the parent hears
DieLast(t) ==
    LET p == proc[t] IN
    /\ Runs(t) /\ pc[t] = "dielast"
    /\ \E was \in IsInit(p) :
       LET init == IF was THEN None ELSE init_task
           adopted == Children(p) # {} /\ init # None
           told == (IF adopted THEN {proc[init]} ELSE {})
                   \cup (IF parent[p] # None /\ Listed(leader[parent[p]])
                         THEN {parent[p]} ELSE {})
       IN
       /\ init_task' = init
       /\ parent' = [q \in Procs |-> IF adopted /\ q \in Children(p)
                                     THEN proc[init] ELSE parent[q]]
       /\ detached' = [u \in Tasks |->
             \/ detached[u]
             \/ u \in Threads(p) /\ leader[p] # u
             \/ init = None /\ \E q \in Children(p) : leader[q] = u]
       /\ st' = [Wake(st, {p, Reaper} \cup told) EXCEPT ![t] = "zombie"]
    /\ Goto(t, "gone")
    /\ UNCHANGED <<proc, call, chan, target, kill, stop, leader, live,
                   group_exit, exec_tid, stop_reported>>

-----------------------------------------------------------------------------
(* Signals that act on a whole process: SIGKILL, SIGSTOP, SIGCONT.         *)

\* process_kill finds a process it may signal
Signallable(p) == p # Kernel /\ Listed(leader[p]) /\ live[p] > 0

KillProcess(p) ==
    /\ Signallable(p)
    /\ LET hit == Killable(Threads(p)) IN
       /\ hit # {}
       /\ st' = Killed(hit)
       /\ kill' = Flagged(kill, hit, TRUE)
       /\ stop' = Flagged(stop, hit, FALSE)
    /\ UNCHANGED <<proc, pc, call, chan, target, detached, procVars, init_task>>

\* sched_request_stop: a sleeper is woken so that it can stop
StopProcess(p) ==
    /\ Signallable(p)
    /\ LET hit == {t \in Threads(p) : /\ st[t] \in {"live", "blocked"}
                                      /\ pc[t] \notin Leaving /\ ~kill[t]} IN
       /\ \E t \in hit : ~stop[t]
       /\ st' = Killed(hit)
       /\ stop' = Flagged(stop, hit, TRUE)
    /\ UNCHANGED <<proc, pc, call, chan, target, detached, kill, procVars,
                   init_task>>

\* sched_continue
ContinueProcess(p) ==
    /\ Signallable(p)
    /\ \E t \in Threads(p) : stop[t] \/ st[t] = "stopped"
    /\ stop' = Flagged(stop, Threads(p), FALSE)
    /\ st' = [t \in Tasks |-> IF t \in Threads(p) /\ st[t] = "stopped"
                              THEN "live" ELSE st[t]]
    /\ UNCHANGED <<proc, pc, call, chan, target, detached, kill, procVars,
                   init_task>>

\* stop_current: the parent hears once every thread has stopped
StopNow(t) ==
    LET p == proc[t]
        s == [st EXCEPT ![t] = "stopped"]
        told == IF AllStopped(p, s) /\ parent[p] # None /\ Listed(leader[parent[p]])
                THEN {parent[p]} ELSE {}
    IN
    /\ st' = Wake(s, told)
    /\ stop' = [stop EXCEPT ![t] = FALSE]
    /\ stop_reported' = [stop_reported EXCEPT ![p] = FALSE]

\* sched_check_kill, at a safe point
CheckStop(t) ==
    /\ Runs(t) /\ pc[t] = "user" /\ stop[t] /\ ~kill[t]
    /\ StopNow(t)
    /\ UNCHANGED <<proc, pc, call, chan, target, detached, kill, leader, parent,
                   live, group_exit, exec_tid, init_task>>

-----------------------------------------------------------------------------
(* Waiting: process_wait and process_thread_join.                          *)

\* The children process_wait considers, the dead and the newly stopped ones
Waitable(t) == {p \in Children(proc[t]) : ~detached[leader[p]]}
Collectable(p) == st[leader[p]] = "zombie" /\ live[p] = 0
StopNews(p) == AllStopped(p, st) /\ ~stop_reported[p]

\* A call that waits begins
StartWait(t) ==
    /\ Runs(t) /\ pc[t] = "user" /\ ~kill[t]
    /\ \/ /\ \E c \in {"wait", "untraced"} : call' = [call EXCEPT ![t] = c]
          /\ UNCHANGED target
       \/ /\ call' = [call EXCEPT ![t] = "join"]
          /\ \E u \in Threads(proc[t]) \ {t, leader[proc[t]]} :
                target' = [target EXCEPT ![t] = u]
    /\ Goto(t, "look")
    /\ UNCHANGED <<st, proc, chan, detached, kill, stop, procVars, init_task>>

\* ... and ends
EndCall(t) ==
    /\ Goto(t, "user")
    /\ call' = [call EXCEPT ![t] = "none"]
    /\ target' = [target EXCEPT ![t] = None]

\* A stopped child is reported (once), with WUNTRACED
ReportStop(t) ==
    /\ Runs(t) /\ pc[t] = "look" /\ call[t] = "untraced"
    /\ \E p \in Waitable(t) :
          /\ StopNews(p)
          /\ stop_reported' = [stop_reported EXCEPT ![p] = TRUE]
    /\ EndCall(t)
    /\ UNCHANGED <<st, proc, chan, detached, kill, stop, leader, parent, live,
                   group_exit, exec_tid, init_task>>

\* A dead child, or the dead thread, is collected and freed; or there is none
Collect(t) ==
    /\ Runs(t) /\ pc[t] = "look"
    /\ \/ /\ call[t] \in {"wait", "untraced"}
          /\ \E p \in Waitable(t) :
                Collectable(p) /\ st' = [st EXCEPT ![leader[p]] = "freed"]
       \/ /\ call[t] \in {"wait", "untraced"} /\ Waitable(t) = {}
          /\ UNCHANGED st
       \/ /\ call[t] = "join" /\ st[target[t]] = "zombie"
          /\ proc[target[t]] = proc[t] /\ target[t] # leader[proc[t]]
          /\ st' = [st EXCEPT ![target[t]] = "freed"]
       \/ /\ call[t] = "join"
          /\ \/ st[target[t]] = "freed" \/ target[t] = leader[proc[t]]
          /\ UNCHANGED st
    /\ EndCall(t)
    /\ UNCHANGED <<proc, chan, detached, kill, stop, procVars, init_task>>

\* Is there nothing to return with?
NothingYet(t) ==
    IF call[t] = "join"
    THEN st[target[t]] \notin {"zombie", "freed"} /\ target[t] # leader[proc[t]]
    ELSE /\ Waitable(t) # {}
         /\ \A p \in Waitable(t) :
               ~Collectable(p) /\ (call[t] = "untraced" => ~StopNews(p))

\* Mutant of SleepOn: a killed task that may not sleep looks again
SleepOnSpins(t) ==
    /\ Runs(t) /\ pc[t] = "look" /\ NothingYet(t)
    /\ IF kill[t]
       THEN UNCHANGED <<pc, st, chan, stop, stop_reported>>
       ELSE IF stop[t]
       THEN StopNow(t) /\ UNCHANGED <<pc, chan>>
       ELSE /\ st' = [st EXCEPT ![t] = "blocked"]
            /\ chan' = [chan EXCEPT ![t] = proc[t]]
            /\ Goto(t, "wake")
            /\ UNCHANGED <<stop, stop_reported>>
    /\ UNCHANGED <<proc, call, target, detached, kill, leader, parent, live,
                   group_exit, exec_tid, init_task>>

\* sched_sleep_on_task_list, in the same section as the look: a killed task
\* ends here, one asked to stop stops instead of sleeping
SleepOn(t) ==
    /\ Runs(t) /\ pc[t] = "look" /\ NothingYet(t)
    /\ IF kill[t]
       THEN Goto(t, "doomed") /\ UNCHANGED <<st, chan, stop, stop_reported>>
       ELSE IF stop[t]
       THEN StopNow(t) /\ UNCHANGED <<pc, chan>>
       ELSE /\ st' = [st EXCEPT ![t] = "blocked"]
            /\ chan' = [chan EXCEPT ![t] = proc[t]]
            /\ Goto(t, "wake")
            /\ UNCHANGED <<stop, stop_reported>>
    /\ UNCHANGED <<proc, call, target, detached, kill, leader, parent, live,
                   group_exit, exec_tid, init_task>>

\* Woken: to die, or to look again
WakeUp(t) ==
    /\ Runs(t) /\ pc[t] = "wake"
    /\ Goto(t, IF kill[t] THEN "doomed" ELSE "look")
    /\ chan' = [chan EXCEPT ![t] = None]
    /\ UNCHANGED <<st, proc, call, target, detached, kill, stop, procVars,
                   init_task>>

-----------------------------------------------------------------------------
(* exec: sched_end_other_threads.                                          *)

\* The caller is alone from here on: the dead threads are left to the reaper,
\* and if the first is among them the caller takes over its PID
AloneNow(t, s) ==
    LET p == proc[t]
        others == Threads(p) \ {t}
    IN
    /\ exec_tid' = [exec_tid EXCEPT ![p] = None]
    /\ leader' = [leader EXCEPT ![p] = IF @ \in others THEN t ELSE @]
    /\ detached' = Flagged(detached, others, TRUE)
    /\ st' = IF others # {} THEN Wake(s, {Reaper}) ELSE s
    /\ Goto(t, "user")

Exec(t) ==
    LET p == proc[t]
        hit == Killable(Threads(p) \ {t})
    IN
    /\ Runs(t) /\ pc[t] = "user"
    /\ ~group_exit[p] /\ exec_tid[p] = None
    /\ IF live[p] > 1
       THEN /\ exec_tid' = [exec_tid EXCEPT ![p] = t]
            /\ st' = [Killed(hit) EXCEPT ![t] = "blocked"]
            /\ kill' = Flagged(kill, hit, TRUE)
            /\ stop' = Flagged(stop, hit, FALSE)
            /\ chan' = [chan EXCEPT ![t] = p]
            /\ Goto(t, "exec")
            /\ UNCHANGED <<leader, detached>>
       ELSE AloneNow(t, st) /\ UNCHANGED <<kill, stop, chan>>
    /\ UNCHANGED <<proc, call, target, parent, live, group_exit, stop_reported,
                   init_task>>

\* Mutant of ExecGoOn: one wake-up is taken for all of them
ExecGoOnce(t) ==
    /\ Runs(t) /\ pc[t] = "exec"
    /\ AloneNow(t, st)
    /\ chan' = [chan EXCEPT ![t] = None]
    /\ UNCHANGED <<proc, call, target, kill, stop, parent, live, group_exit,
                   stop_reported, init_task>>

\* Woken: uninterruptibly back to sleep while there are others
ExecGoOn(t) ==
    /\ Runs(t) /\ pc[t] = "exec"
    /\ IF live[proc[t]] > 1
       THEN /\ st' = [st EXCEPT ![t] = "blocked"]
            /\ UNCHANGED <<pc, chan, detached, leader, exec_tid>>
       ELSE AloneNow(t, st) /\ chan' = [chan EXCEPT ![t] = None]
    /\ UNCHANGED <<proc, call, target, kill, stop, parent, live, group_exit,
                   stop_reported, init_task>>

-----------------------------------------------------------------------------
\* A thread's own code, which it goes on with
Work(t) ==
    \/ StopCounting(t) \/ Die(t) \/ DieLast(t)
    \/ CheckStop(t) \/ ReportStop(t) \/ Collect(t) \/ SleepOn(t) \/ WakeUp(t)
    \/ ExecGoOn(t)
    \/ kill[t] /\ Leave(t, TRUE)

\* What programs may ask for
Demand ==
    \/ \E p \in Procs : KillProcess(p) \/ StopProcess(p) \/ ContinueProcess(p)
    \/ \E t \in Tasks :
          \/ \E whole \in BOOLEAN : ~kill[t] /\ pc[t] = "user" /\ Leave(t, whole)
          \/ StartWait(t) \/ Exec(t)
          \/ \E p \in Procs, u \in Tasks : Fork(t, p, u)
          \/ \E u \in Tasks : AddThread(t, u)

Boot == (\E p \in Procs, t \in Tasks : SpawnInit(p, t)) \/ SetInit
Reaping == Reap \/ WaitForReapable

Next == Boot \/ Reaping \/ Demand \/ \E t \in Tasks : Work(t)

Spec == Init /\ [][Next]_vars

-----------------------------------------------------------------------------
(* What makes it correct.                                                  *)

InCall(t, c) == st[t] = "blocked" /\ pc[t] = "wake" /\ call[t] = c

\* The last thread of p has not yet sent the wake-ups of its death
Telling(p) == \E u \in Threads(p) : pc[u] = "dielast"

\* "A child that exits ... cannot be missed" (process_wait_options): nobody
\* sleeps there with a child it could collect, unless it is about to be told
ChildNotMissed ==
    \A t \in Tasks : InCall(t, "wait") \/ InCall(t, "untraced")
        => \A p \in Waitable(t) : Collectable(p) => Telling(p)

\* Nobody sleeps in waitpid with WUNTRACED while it has a child that has
\* stopped and has not been reported (stop_current)
StopNotMissed ==
    \A t \in Tasks : InCall(t, "untraced") => \A p \in Waitable(t) : ~StopNews(p)

\* No parent sleeps through what waitpid promises it: a child that died or
\* stopped
ParentsTold == ChildNotMissed /\ StopNotMissed

\* Nobody sleeps in thread_join for a thread that has ended
JoinNotMissed ==
    \A t \in Tasks : InCall(t, "join") => st[target[t]] \notin {"zombie", "freed"}

\* exec sleeps only while another thread is alive, or about to wake it
ExecNotMissed ==
    \A t \in Tasks : pc[t] = "exec" /\ st[t] = "blocked"
        => live[proc[t]] > 1 \/ \E u \in Threads(proc[t]) : pc[u] = "die"

\* exec comes back to a process in which nobody else is alive
ExecIsAlone ==
    [][\A t \in Tasks : pc[t] = "exec" /\ pc'[t] = "user" =>
          \A u \in Threads(proc[t]) \ {t} : pc[u] \in {"die", "gone"}]_vars

\* The reaper sleeps (sched_wait_for_reapable) only while there is nothing to
\* reap, unless it is about to be told
ReaperNotMissed ==
    st[KernelTask] = "blocked" => \A t \in Tasks : Reapable(t) => Telling(proc[t])

\* A dead process is somebody's: the reaper's, or a child of a process that
\* still has a thread to wait for it (or one that is about to hand it on)
NobodyForgotten ==
    \A p \in Procs \ {Kernel} :
        Listed(leader[p]) /\ Collectable(p) =>
            \/ detached[leader[p]]
            \/ pc[KernelTask] = "naming"
            \/ /\ parent[p] # Kernel
               /\ \E u \in Threads(parent[p]) : pc[u] # "gone"

\* init_task never points at a task that has been freed
InitTaskValid == init_task # None => st[init_task] # "freed"

\* Whoever a dead process is left to is there: a parent that can wait, init
\* or the reaper (process_orphan, process_set_init)
OrphansKept == InitTaskValid /\ NobodyForgotten

\* No kill is slept through: a task that sleeps interruptibly, or is stopped,
\* has not been killed
KillNotSleptThrough ==
    \A t \in Tasks : kill[t] => st[t] # "stopped" /\ ~(st[t] = "blocked" /\ pc[t] = "wake")

\* Nobody sleeps through what it waits for: the end of the thread it joins
\* (thread_join), of the other threads (exec), work for the reaper, or its own
\* death (task_block)
SleepersTold == JoinNotMissed /\ ExecNotMissed /\ ReaperNotMissed /\ KillNotSleptThrough

\* The threads of p that have not passed the second section of task_end
Counted(p) == {t \in Threads(p) : pc[t] \notin {"die", "dielast", "gone"}}

\* live counts them: thread_exit by the last thread, and only by it, ends the
\* process, and exec waits for exactly the others
LiveCounts == \A p \in Procs : live[p] = Cardinality(Counted(p))

-----------------------------------------------------------------------------
(* Liveness.                                                               *)

Fairness == WF_vars(Boot) /\ WF_vars(Reaping) /\ \A t \in Tasks : WF_vars(Work(t))
FairSpec == Spec /\ Fairness

\* Whoever is killed dies
KilledDies == \A t \in Tasks : kill[t] ~> st[t] \in {"zombie", "freed"}

\* exec does not wait for ever for the other threads
ExecEnds == \A t \in Tasks : pc[t] = "exec" ~> pc[t] # "exec"

\* What must come to an end does (task_end, sched_end_other_threads)
EndsCome == KilledDies /\ ExecEnds

-----------------------------------------------------------------------------
(* Which structure a new process or thread gets makes no difference.       *)

LOCAL INSTANCE TLC
LifeSymmetry == Permutations(Procs \ {Kernel}) \cup Permutations(Tasks \ {KernelTask})

=============================================================================
