------------------------------ MODULE RunQueue ------------------------------
(***************************************************************************)
(* The per-CPU run queues of kernel/sched/sched.c: which task a CPU runs,  *)
(* how it gives the CPU away, and how other CPUs wake, move, steal and     *)
(* free tasks meanwhile.                                                   *)
(*                                                                         *)
(* Every CPU is an actor with a program counter.  One step is a stretch of *)
(* code that touches shared state at one instant: a critical section of a  *)
(* queue lock that no switch crosses (place_task's push, one victim of     *)
(* steal, one round of task_set_affinity) is one step; the sections that   *)
(* are held across several steps (the scheduler lock, and a CPU's own      *)
(* queue lock through schedule, ctx_switch and finish_switch) keep their   *)
(* lock taken from step to step.  Unlocked reads (loads, queued_on,        *)
(* affinity, current, resched_kicked) are steps of their own, so that what *)
(* is read may be stale when it is used.                                   *)
(*                                                                         *)
(* Abstracted: the words of a task's stack (stack[c] names the task whose  *)
(* kernel stack CPU c executes on), priorities and the length of a turn (a *)
(* tick may or may not end it), wait channels (any sleeper may be woken),  *)
(* and the reason a task gives for taking the scheduler lock.              *)
(***************************************************************************)
EXTENDS Naturals, Sequences

CONSTANTS
    NumCpus,    \* CPUs the bootloader reports (at most MAX_CPUS)
    Tasks,      \* the task structures (a freed one may be allocated again)
    Boot,       \* PID 0, which runs from sched_init on and never exits
    Idle,       \* "this CPU's idle task": never queued, moved, slept or freed
    None,       \* a null pointer
    AnyCpu,     \* TASK_ANY_CPU
    Pins        \* what task_set_affinity is asked for: CPUs or AnyCpu

Cpus == 0 .. NumCpus - 1

ASSUME ConstantsAssumption ==
    /\ NumCpus \in Nat \ {0}
    /\ Boot \in Tasks
    /\ Idle \notin Tasks /\ None \notin Tasks /\ Idle # None
    /\ None \notin Cpus /\ AnyCpu \notin Cpus
    /\ Pins \subseteq Cpus \cup {AnyCpu}

VARIABLES
    sched_lock,     \* the CPU that holds the scheduler lock, or None
    rq_lock,        \* rq_lock[c]: CPU c holds its queue's lock across steps
    queue,          \* queue[c]: READY tasks waiting for CPU c, oldest first
    queued_on,      \* queued_on[t]: whose queue t is in, or None (-1)
    state,          \* state[t]: task_state_t, or FREE before and after its life
    affinity,       \* affinity[t]: the only CPU it may run on, or AnyCpu
    last_cpu,       \* last_cpu[t]: the CPU it last ran on, None if it never ran
    current,        \* current[c]: cpu->current
    stack,          \* stack[c]: the task whose kernel stack CPU c is using
    kicked,         \* kicked[c]: cpu->resched_kicked
    ipi,            \* ipi[c]: the wake-up interrupt is pending at CPU c
    pc,             \* pc[c]: where CPU c is
    hand,           \* hand[c]: next_task, rq->moving or place_task's t
    waiting,        \* waiting[c]: the counts steal read, 0 once tried
    target,         \* target[c]: the CPU place_task, hand_over_work or
                    \*            task_set_affinity settled on
    subject,        \* subject[c]: the task a pointer of CPU c's refers to
    holding,        \* holding[c]: holding_sched, then rq->release_sched
    back            \* back[c]: where CPU c goes on after placing or kicking

lockVars  == <<sched_lock, rq_lock>>
queueVars == <<queue, queued_on>>
taskVars  == <<state, affinity, last_cpu>>
cpuVars   == <<current, stack>>
wakeVars  == <<kicked, ipi>>
localVars == <<hand, waiting, target, subject, holding, back>>
vars == <<lockVars, queueVars, taskVars, cpuVars, wakeVars, pc, localVars>>

-----------------------------------------------------------------------------
TaskStates == {"FREE", "READY", "RUNNING", "BLOCKED", "STOPPED", "ZOMBIE"}

\* Not runnable: what a task is made before it switches away for good or
\* until someone wakes it
Off == {"BLOCKED", "STOPPED", "ZOMBIE"}

\* A CPU that has not joined the scheduler yet is at "off"
Locations ==
    {"off", "run", "halt", "crit", "lock", "scan", "steal", "switch", "ctx",
     "finish", "choose", "push", "kick", "set", "send", "move", "unlink",
     "handover"}

\* Where a CPU holds its own queue lock
InSchedule == {"scan", "steal", "switch", "ctx", "finish"}

TypeOK ==
    /\ sched_lock \in Cpus \cup {None}
    /\ rq_lock \in [Cpus -> BOOLEAN]
    /\ queue \in [Cpus -> Seq(Tasks)]
    /\ queued_on \in [Tasks -> Cpus \cup {None}]
    /\ state \in [Tasks -> TaskStates]
    /\ affinity \in [Tasks -> Cpus \cup {AnyCpu}]
    /\ last_cpu \in [Tasks -> Cpus \cup {None}]
    /\ current \in [Cpus -> Tasks \cup {Idle}]
    /\ stack \in [Cpus -> Tasks \cup {Idle}]
    /\ kicked \in [Cpus -> BOOLEAN]
    /\ ipi \in [Cpus -> BOOLEAN]
    /\ pc \in [Cpus -> Locations]
    /\ hand \in [Cpus -> Tasks \cup {None}]
    /\ waiting \in [Cpus -> [Cpus -> Nat]]
    /\ target \in [Cpus -> Cpus]
    /\ subject \in [Cpus -> Tasks \cup {None}]
    /\ holding \in [Cpus -> BOOLEAN]
    /\ back \in [Cpus -> {"run", "halt", "crit", "lock", "ctx"}]

\* No counts: a CPU that is not in steal
Nothing == [d \in Cpus |-> 0]

\* sched_init has run on CPU 0: it is in the scheduler, running PID 0, which
\* is bound to it; the other CPUs are still off
Init ==
    /\ sched_lock = None
    /\ rq_lock = [c \in Cpus |-> FALSE]
    /\ queue = [c \in Cpus |-> <<>>]
    /\ queued_on = [t \in Tasks |-> None]
    /\ state = [t \in Tasks |-> IF t = Boot THEN "RUNNING" ELSE "FREE"]
    /\ affinity = [t \in Tasks |-> IF t = Boot THEN 0 ELSE AnyCpu]
    /\ last_cpu = [t \in Tasks |-> IF t = Boot THEN 0 ELSE None]
    /\ current = [c \in Cpus |-> IF c = 0 THEN Boot ELSE Idle]
    /\ stack = current
    /\ kicked = [c \in Cpus |-> FALSE]
    /\ ipi = [c \in Cpus |-> FALSE]
    /\ pc = [c \in Cpus |-> IF c = 0 THEN "run" ELSE "off"]
    /\ hand = [c \in Cpus |-> None]
    /\ waiting = [c \in Cpus |-> Nothing]
    /\ target = [c \in Cpus |-> c]
    /\ subject = [c \in Cpus |-> None]
    /\ holding = [c \in Cpus |-> FALSE]
    /\ back = [c \in Cpus |-> "run"]

-----------------------------------------------------------------------------
(* Helpers: loads, choices and queue operations.                           *)

Online == {c \in Cpus : pc[c] # "off"}

\* load_of
Load(c) == Len(queue[c]) + (IF current[c] # Idle THEN 1 ELSE 0)

\* c is the first of the least loaded CPUs of S
IsLeast(c, S) ==
    /\ c \in S
    /\ \A d \in S : Load(c) < Load(d) \/ (Load(c) = Load(d) /\ c <= d)

\* choose_cpu settles on c for task t.  A task that never ran (was_running is
\* false) has no last CPU.
Chosen(t, c) ==
    \/ affinity[t] # AnyCpu /\ c = affinity[t]
    \/ /\ affinity[t] = AnyCpu
       /\ \E least \in Online :
             /\ IsLeast(least, Online)
             /\ c = IF \/ last_cpu[t] = None
                       \/ Load(last_cpu[t]) > Load(least) + 1
                    THEN least
                    ELSE last_cpu[t]

\* The idle CPU, other than c, that kick_an_idle_cpu finds first
IsFirstIdle(d, c) ==
    /\ d \in Online \ {c} /\ current[d] = Idle
    /\ \A e \in Online \ {c} : current[e] = Idle => d <= e

\* The queue q without its i-th task (rq_unlink)
Unlink(q, i) ==
    [k \in 1 .. Len(q) - 1 |-> IF k < i THEN q[k] ELSE q[k + 1]]

\* i is the place in q of the oldest task not bound to a CPU (rq_take with
\* movable_only)
IsFirstMovable(q, i) ==
    /\ i \in 1 .. Len(q)
    /\ affinity[q[i]] = AnyCpu
    /\ \A j \in 1 .. i - 1 : affinity[q[j]] # AnyCpu

\* Of the CPUs whose count steal read and has not tried yet, d is next:
\* busiest first, equal ones in order of distance from here
Distance(here, d) == IF d > here THEN d - here ELSE d + NumCpus - here

IsNextVictim(here, d) ==
    /\ d \in Cpus \ {here} /\ waiting[here][d] > 0
    /\ \A e \in Cpus \ {here} :
          \/ waiting[here][e] < waiting[here][d]
          \/ /\ waiting[here][e] = waiting[here][d]
             /\ Distance(here, d) <= Distance(here, e)

\* Where a task that comes out of schedule goes on: the idle loop halts
\* (interrupts have been off since before it looked), a task runs
Resumed(task) == IF task = Idle THEN "halt" ELSE "run"

Goto(c, l) == pc' = [pc EXCEPT ![c] = l]

\* Back to where place_task or kick_cpu was called from: the CPU that was
\* chosen is forgotten
Return(c) ==
    /\ Goto(c, back[c])
    /\ back' = [back EXCEPT ![c] = "run"]
    /\ target' = [target EXCEPT ![c] = c]

-----------------------------------------------------------------------------
(* A CPU outside the scheduler: joining, interrupts, the idle loop.        *)

\* sched_join_this_cpu: a CPU starts as its idle task
Join(c) ==
    /\ pc[c] = "off" /\ sched_lock = None
    /\ Goto(c, "run")
    /\ UNCHANGED <<lockVars, queueVars, taskVars, cpuVars, wakeVars, localVars>>

\* The wake-up interrupt arrives: the handler does nothing to the queues, but
\* a halted CPU goes on with its idle loop
TakeIpi(c) ==
    /\ pc[c] \in {"run", "halt"} /\ ipi[c]
    /\ ipi' = [ipi EXCEPT ![c] = FALSE]
    /\ Goto(c, "run")
    /\ UNCHANGED <<lockVars, queueVars, taskVars, cpuVars, kicked, localVars>>

\* Any other interrupt (a device, the timer) also ends the halt
OtherInterrupt(c) ==
    /\ pc[c] = "halt"
    /\ Goto(c, "run")
    /\ UNCHANGED <<lockVars, queueVars, taskVars, cpuVars, wakeVars, localVars>>

\* sched_yield: by a task, by the idle loop, by a tick that ends the turn
Yield(c) ==
    /\ pc[c] = "run"
    /\ Goto(c, "lock")
    /\ UNCHANGED <<lockVars, queueVars, taskVars, cpuVars, wakeVars, localVars>>

\* sched_tick on a busy CPU, up to hand_over_work's choice of a CPU that is
\* more than one task less loaded (with none, a tick is a Yield or nothing),
\* and whether the turn is over
Tick(c) ==
    /\ pc[c] = "run" /\ current[c] # Idle /\ queue[c] # <<>>
    /\ \E d \in Online \ {c} :
          /\ IsLeast(d, Online \ {c})
          /\ Load(c) > Load(d) + 1
          /\ target' = [target EXCEPT ![c] = d]
    /\ \E l \in {"run", "lock"} : back' = [back EXCEPT ![c] = l]
    /\ Goto(c, "handover")
    /\ UNCHANGED <<lockVars, queueVars, taskVars, cpuVars, wakeVars,
                   hand, waiting, subject, holding>>

\* hand_over_work with this CPU's queue lock taken, and the other's if the
\* try-lock gets it: the oldest movable task changes queues
HandOver(c) ==
    /\ pc[c] = "handover" /\ ~rq_lock[c]
    /\ \/ /\ ~rq_lock[target[c]]
          /\ \E i \in 1 .. Len(queue[c]) :
                /\ IsFirstMovable(queue[c], i)
                /\ queue' = [queue EXCEPT
                      ![c] = Unlink(queue[c], i),
                      ![target[c]] = Append(queue[target[c]], queue[c][i])]
                /\ queued_on' = [queued_on EXCEPT ![queue[c][i]] = target[c]]
          /\ IF current[target[c]] = Idle /\ ~kicked[target[c]]
             THEN Goto(c, "set") /\ UNCHANGED <<target, back>>
             ELSE Return(c)
       \/ /\ \/ rq_lock[target[c]]
             \/ \A i \in 1 .. Len(queue[c]) : ~IsFirstMovable(queue[c], i)
          /\ Return(c)
          /\ UNCHANGED queueVars
    /\ UNCHANGED <<lockVars, taskVars, cpuVars, wakeVars,
                   hand, waiting, subject, holding>>

-----------------------------------------------------------------------------
(* schedule, ctx_switch and finish_switch.                                 *)

\* This CPU's queue lock is taken and the oldest task of its queue with it
ScheduleLock(c) ==
    /\ pc[c] = "lock" /\ ~rq_lock[c]
    /\ rq_lock' = [rq_lock EXCEPT ![c] = TRUE]
    /\ kicked' = [kicked EXCEPT ![c] = FALSE]
    /\ IF queue[c] # <<>>
       THEN /\ hand' = [hand EXCEPT ![c] = Head(queue[c])]
            /\ queue' = [queue EXCEPT ![c] = Unlink(queue[c], 1)]
            /\ queued_on' = [queued_on EXCEPT ![Head(queue[c])] = None]
            /\ Goto(c, "switch")
       ELSE /\ Goto(c, "scan")
            /\ UNCHANGED <<queueVars, hand>>
    /\ UNCHANGED <<sched_lock, taskVars, cpuVars, ipi,
                   waiting, target, subject, holding, back>>

\* steal reads the counts of the other queues without their locks
StealScan(c) ==
    /\ pc[c] = "scan"
    /\ waiting' = [waiting EXCEPT ![c] =
                     [d \in Cpus |-> IF d \in Online THEN Len(queue[d]) ELSE 0]]
    /\ Goto(c, "steal")
    /\ UNCHANGED <<lockVars, queueVars, taskVars, cpuVars, wakeVars,
                   hand, target, subject, holding, back>>

\* Mutant of StealTake: the victim's lock is not taken
StealUnlocked(c) ==
    /\ pc[c] = "steal"
    /\ \E d \in Cpus : \E i \in 1 .. Len(queue[d]) :
          /\ IsNextVictim(c, d)
          /\ IsFirstMovable(queue[d], i)
          /\ hand' = [hand EXCEPT ![c] = queue[d][i]]
          /\ queue' = [queue EXCEPT ![d] = Unlink(queue[d], i)]
          /\ queued_on' = [queued_on EXCEPT ![queue[d][i]] = None]
    /\ Goto(c, "switch")
    /\ waiting' = [waiting EXCEPT ![c] = Nothing]
    /\ UNCHANGED <<lockVars, taskVars, cpuVars, wakeVars,
                   target, subject, holding, back>>

\* The next victim's lock is free: its oldest movable task is taken, if any
StealTake(c) ==
    /\ pc[c] = "steal"
    /\ \E d \in Cpus : \E i \in 1 .. Len(queue[d]) :
          /\ IsNextVictim(c, d) /\ ~rq_lock[d]
          /\ IsFirstMovable(queue[d], i)
          /\ hand' = [hand EXCEPT ![c] = queue[d][i]]
          /\ queue' = [queue EXCEPT ![d] = Unlink(queue[d], i)]
          /\ queued_on' = [queued_on EXCEPT ![queue[d][i]] = None]
    /\ Goto(c, "switch")
    /\ waiting' = [waiting EXCEPT ![c] = Nothing]
    /\ UNCHANGED <<lockVars, taskVars, cpuVars, wakeVars,
                   target, subject, holding, back>>

\* The next victim has only bound tasks, or its lock was held at all 64 tries
\* (by its own CPU, or by one of the short sections that are one step here)
StealPass(c) ==
    /\ pc[c] = "steal"
    /\ \E d \in Cpus :
          /\ IsNextVictim(c, d)
          /\ waiting' = [waiting EXCEPT ![c][d] = 0]
    /\ UNCHANGED <<lockVars, queueVars, taskVars, cpuVars, wakeVars, pc,
                   hand, target, subject, holding, back>>

\* Every queue that had something has been tried
StealNothing(c) ==
    /\ pc[c] = "steal"
    /\ \A d \in Cpus : ~IsNextVictim(c, d)
    /\ Goto(c, "switch")
    /\ UNCHANGED <<lockVars, queueVars, taskVars, cpuVars, wakeVars, localVars>>

\* May the current task carry on here?
MayStay(c) ==
    current[c] # Idle =>
        state[current[c]] = "RUNNING" /\ affinity[current[c]] \in {AnyCpu, c}

\* Nobody else wants the CPU, and the current task may keep it
CarryOn(c) ==
    /\ pc[c] = "switch" /\ hand[c] = None /\ MayStay(c)
    /\ rq_lock' = [rq_lock EXCEPT ![c] = FALSE]
    /\ sched_lock' = IF holding[c] THEN None ELSE sched_lock
    /\ holding' = [holding EXCEPT ![c] = FALSE]
    /\ Goto(c, Resumed(current[c]))
    /\ UNCHANGED <<queueVars, taskVars, cpuVars, wakeVars,
                   hand, waiting, target, subject, back>>

\* The task in hand (or else the idle task) becomes the current one.  The
\* outgoing task, if still runnable, goes to the back of the queue, or into
\* rq->moving when it may not stay; if more than one task waits, an idle CPU
\* is kicked before the switch.
Switch(c) ==
    LET old  == current[c]
        next == IF hand[c] = None THEN Idle ELSE hand[c]
        runnable == old # Idle /\ state[old] = "RUNNING"
        pushed == runnable /\ MayStay(c)
    IN
    /\ pc[c] = "switch"
    /\ hand[c] # None \/ ~MayStay(c)
    /\ state' = [t \in Tasks |-> IF t = next THEN "RUNNING"
                                 ELSE IF runnable /\ t = old THEN "READY"
                                 ELSE state[t]]
    /\ last_cpu' = [t \in Tasks |-> IF t = next THEN c ELSE last_cpu[t]]
    /\ current' = [current EXCEPT ![c] = next]
    /\ hand' = [hand EXCEPT ![c] = IF runnable /\ ~pushed THEN old ELSE None]
    /\ IF pushed
       THEN /\ queue' = [queue EXCEPT ![c] = Append(queue[c], old)]
            /\ queued_on' = [queued_on EXCEPT ![old] = c]
       ELSE UNCHANGED queueVars
    /\ \/ /\ pushed /\ queue[c] # <<>>
          /\ \E d \in Cpus : /\ IsFirstIdle(d, c) /\ ~kicked[d]
                             /\ target' = [target EXCEPT ![c] = d]
          /\ back' = [back EXCEPT ![c] = "ctx"]
          /\ Goto(c, "set")
       \/ /\ \/ ~pushed \/ queue[c] = <<>>
             \/ \A d \in Cpus : ~(IsFirstIdle(d, c) /\ ~kicked[d])
          /\ Goto(c, "ctx")
          /\ UNCHANGED <<target, back>>
    /\ UNCHANGED <<lockVars, affinity, stack, wakeVars,
                   waiting, subject, holding>>

\* ctx_switch: the CPU leaves the old task's stack for the new one's
CtxSwitch(c) ==
    /\ pc[c] = "ctx"
    /\ stack' = [stack EXCEPT ![c] = current[c]]
    /\ Goto(c, "finish")
    /\ UNCHANGED <<lockVars, queueVars, taskVars, current, wakeVars, localVars>>

\* Mutant of FinishSwitch: rq->moving is forgotten
FinishForgetsMoving(c) ==
    /\ pc[c] = "finish"
    /\ rq_lock' = [rq_lock EXCEPT ![c] = FALSE]
    /\ sched_lock' = IF holding[c] THEN None ELSE sched_lock
    /\ holding' = [holding EXCEPT ![c] = FALSE]
    /\ hand' = [hand EXCEPT ![c] = None]
    /\ Goto(c, Resumed(current[c]))
    /\ UNCHANGED <<queueVars, taskVars, cpuVars, wakeVars,
                   waiting, target, subject, back>>

\* finish_switch: the incoming task releases what the outgoing one held, and
\* goes on to place the task that had to leave this CPU
FinishSwitch(c) ==
    /\ pc[c] = "finish"
    /\ rq_lock' = [rq_lock EXCEPT ![c] = FALSE]
    /\ sched_lock' = IF holding[c] THEN None ELSE sched_lock
    /\ holding' = [holding EXCEPT ![c] = FALSE]
    /\ IF hand[c] = None
       THEN /\ Goto(c, Resumed(current[c]))
            /\ UNCHANGED back
       ELSE /\ Goto(c, "choose")
            /\ back' = [back EXCEPT ![c] = Resumed(current[c])]
    /\ UNCHANGED <<queueVars, taskVars, cpuVars, wakeVars,
                   hand, waiting, target, subject>>

-----------------------------------------------------------------------------
(* place_task: choose a CPU, push, kick.                                   *)

\* choose_cpu, from loads read without locks
PlaceChoose(c) ==
    /\ pc[c] = "choose"
    /\ \E d \in Cpus : /\ Chosen(hand[c], d)
                       /\ target' = [target EXCEPT ![c] = d]
    /\ Goto(c, "push")
    /\ UNCHANGED <<lockVars, queueVars, taskVars, cpuVars, wakeVars,
                   hand, waiting, subject, holding, back>>

\* Under the chosen queue's lock: READY, and to the back of the queue
PlacePush(c) ==
    /\ pc[c] = "push" /\ ~rq_lock[target[c]]
    /\ state' = [state EXCEPT ![hand[c]] = "READY"]
    /\ queue' = [queue EXCEPT ![target[c]] = Append(queue[target[c]], hand[c])]
    /\ queued_on' = [queued_on EXCEPT ![hand[c]] = target[c]]
    /\ subject' = [subject EXCEPT ![c] = hand[c]]
    /\ hand' = [hand EXCEPT ![c] = None]
    /\ Goto(c, "kick")
    /\ UNCHANGED <<lockVars, affinity, last_cpu, cpuVars, wakeVars,
                   waiting, target, holding, back>>

\* Mutant of MustKick: an idle CPU is left to find the task by itself
MustKickOthers(c, movable, d) ==
    ~kicked[d] /\ current[target[c]] # Idle /\ movable /\ IsFirstIdle(d, c)

\* After the push, without the queue's lock: if the chosen CPU is idle it is
\* to be kicked; if not, and the task (read again through the pointer) may
\* move, the first idle CPU.  kick_cpu kicks neither this CPU nor one that
\* has been kicked already.
MustKick(c, movable, d) ==
    /\ ~kicked[d]
    /\ IF current[target[c]] = Idle THEN d = target[c] /\ d # c
       ELSE movable /\ IsFirstIdle(d, c)

\* What the pointer's affinity may read as: anything, once the task is freed
MovableNow(t) == IF state[t] = "FREE" THEN BOOLEAN ELSE {affinity[t] = AnyCpu}

PlaceKick(c) ==
    /\ pc[c] = "kick"
    /\ \E movable \in MovableNow(subject[c]) :
          \/ \E d \in Cpus :
                /\ MustKick(c, movable, d)
                /\ target' = [target EXCEPT ![c] = d]
                /\ Goto(c, "set")
                /\ UNCHANGED back
          \/ /\ \A d \in Cpus : ~MustKick(c, movable, d)
             /\ Return(c)
    /\ subject' = [subject EXCEPT ![c] = None]
    /\ UNCHANGED <<lockVars, queueVars, taskVars, cpuVars, wakeVars,
                   hand, waiting, holding>>

\* kick_cpu: the flag first, then the interrupt
KickSet(c) ==
    /\ pc[c] = "set"
    /\ kicked' = [kicked EXCEPT ![target[c]] = TRUE]
    /\ Goto(c, "send")
    /\ UNCHANGED <<lockVars, queueVars, taskVars, cpuVars, ipi, localVars>>

KickSend(c) ==
    /\ pc[c] = "send"
    /\ ipi' = [ipi EXCEPT ![target[c]] = TRUE]
    /\ Return(c)
    /\ UNCHANGED <<lockVars, queueVars, taskVars, cpuVars, kicked,
                   hand, waiting, subject, holding>>

-----------------------------------------------------------------------------
(* What is done under the scheduler lock.                                  *)

\* A task, or an interrupt handler on top of it, takes the lock
SchedLock(c) ==
    /\ pc[c] = "run" /\ sched_lock = None
    /\ sched_lock' = c
    /\ Goto(c, "crit")
    /\ UNCHANGED <<rq_lock, queueVars, taskVars, cpuVars, wakeVars, localVars>>

\* The current task of CPU c is to stay runnable: it may leave the section
StaysRunning(c) == current[c] # Idle => state[current[c]] = "RUNNING"

SchedUnlock(c) ==
    /\ pc[c] = "crit" /\ StaysRunning(c)
    /\ sched_lock' = None
    /\ Goto(c, "run")
    /\ UNCHANGED <<rq_lock, queueVars, taskVars, cpuVars, wakeVars, localVars>>

\* place_task is entered with t: it comes back to the critical section
Place(c, t) ==
    /\ hand' = [hand EXCEPT ![c] = t]
    /\ back' = [back EXCEPT ![c] = "crit"]
    /\ Goto(c, "choose")

\* Mutant of WakeTask: whatever is not runnable is woken, the dead too
WakeAnything(c, t) ==
    /\ pc[c] = "crit"
    /\ t # current[c] /\ state[t] \in Off
    /\ Place(c, t)
    /\ UNCHANGED <<lockVars, queueVars, taskVars, cpuVars, wakeVars,
                   waiting, target, subject, holding>>

\* wake_task, from wakeup_locked, a signal, a kill, a continue or the timer
WakeTask(c, t) ==
    /\ pc[c] = "crit"
    /\ t # current[c] /\ state[t] \in {"BLOCKED", "STOPPED"}
    /\ Place(c, t)
    /\ UNCHANGED <<lockVars, queueVars, taskVars, cpuVars, wakeVars,
                   waiting, target, subject, holding>>

\* task_alloc and sched_add (or sched_add_thread): a new task is READY
AddTask(c, t) ==
    /\ pc[c] = "crit" /\ StaysRunning(c)
    /\ state[t] = "FREE"
    /\ state' = [state EXCEPT ![t] = "READY"]
    /\ Place(c, t)
    /\ UNCHANGED <<lockVars, queueVars, affinity, last_cpu, cpuVars, wakeVars,
                   waiting, target, subject, holding>>

\* sched_reap or process_wait: a dead task is taken off the list, and freed
Reap(c, t) ==
    /\ pc[c] = "crit" /\ StaysRunning(c)
    /\ t # current[c] /\ state[t] = "ZOMBIE"
    /\ state' = [state EXCEPT ![t] = "FREE"]
    /\ affinity' = [affinity EXCEPT ![t] = AnyCpu]
    /\ last_cpu' = [last_cpu EXCEPT ![t] = None]
    /\ UNCHANGED <<lockVars, queueVars, cpuVars, wakeVars, pc, localVars>>

\* sleep_on: BLOCKED, then schedule with the scheduler lock held
Sleep(c) ==
    /\ pc[c] = "crit" /\ current[c] # Idle /\ StaysRunning(c)
    /\ state' = [state EXCEPT ![current[c]] = "BLOCKED"]
    /\ holding' = [holding EXCEPT ![c] = TRUE]
    /\ Goto(c, "lock")
    /\ UNCHANGED <<lockVars, queueVars, affinity, last_cpu, cpuVars, wakeVars,
                   hand, waiting, target, subject, back>>

\* stop_current and task_end set the state first, then wake whoever is
\* interested (WakeTask), then schedule with the lock held (LeaveForGood)
StopOrExit(c) ==
    /\ pc[c] = "crit" /\ current[c] # Idle /\ StaysRunning(c)
    /\ \E s \in IF current[c] = Boot THEN {"STOPPED"} ELSE {"STOPPED", "ZOMBIE"} :
          state' = [state EXCEPT ![current[c]] = s]
    /\ UNCHANGED <<lockVars, queueVars, affinity, last_cpu, cpuVars, wakeVars,
                   pc, localVars>>

LeaveForGood(c) ==
    /\ pc[c] = "crit" /\ ~StaysRunning(c)
    /\ holding' = [holding EXCEPT ![c] = TRUE]
    /\ Goto(c, "lock")
    /\ UNCHANGED <<lockVars, queueVars, taskVars, cpuVars, wakeVars,
                   hand, waiting, target, subject, back>>

\* task_set_affinity: the field first (a CPU that is not online means any) ...
SetAffinity(c, t, a) ==
    /\ pc[c] = "crit" /\ StaysRunning(c)
    /\ t # Boot /\ state[t] # "FREE"
    /\ affinity' = [affinity EXCEPT ![t] = IF a \in Online THEN a ELSE AnyCpu]
    /\ subject' = [subject EXCEPT ![c] = t]
    /\ Goto(c, "move")
    /\ UNCHANGED <<lockVars, queueVars, state, last_cpu, cpuVars, wakeVars,
                   hand, waiting, target, holding, back>>

\* ... then queued_on is read without the queue's lock ...
AffinityLook(c) ==
    LET t == subject[c] IN
    /\ pc[c] = "move"
    /\ IF queued_on[t] = None \/ affinity[t] \in {AnyCpu, queued_on[t]}
       THEN /\ Goto(c, "crit")
            /\ subject' = [subject EXCEPT ![c] = None]
            /\ UNCHANGED target
       ELSE /\ Goto(c, "unlink")
            /\ target' = [target EXCEPT ![c] = queued_on[t]]
            /\ UNCHANGED subject
    /\ UNCHANGED <<lockVars, queueVars, taskVars, cpuVars, wakeVars,
                   hand, waiting, holding, back>>

\* ... and, with the lock, again: still there, it is moved to its own CPU's
\* queue; gone meanwhile, it is looked for again
AffinityMove(c) ==
    LET t == subject[c]  on == target[c] IN
    /\ pc[c] = "unlink" /\ ~rq_lock[on]
    /\ \/ /\ queued_on[t] = on
          /\ \E i \in 1 .. Len(queue[on]) :
                /\ queue[on][i] = t
                /\ queue' = [queue EXCEPT ![on] = Unlink(queue[on], i)]
          /\ queued_on' = [queued_on EXCEPT ![t] = None]
          /\ Place(c, t)
          /\ subject' = [subject EXCEPT ![c] = None]
       \/ /\ queued_on[t] # on
          /\ Goto(c, "move")
          /\ UNCHANGED <<queueVars, hand, back, subject>>
    /\ target' = [target EXCEPT ![c] = c]
    /\ UNCHANGED <<lockVars, taskVars, cpuVars, wakeVars,
                   waiting, holding>>

-----------------------------------------------------------------------------
\* What a CPU does because its code says so, once it is in the kernel
Work(c) ==
    \/ HandOver(c)
    \/ ScheduleLock(c) \/ StealScan(c) \/ StealTake(c) \/ StealPass(c)
    \/ StealNothing(c) \/ CarryOn(c) \/ Switch(c) \/ CtxSwitch(c)
    \/ FinishSwitch(c)
    \/ PlaceChoose(c) \/ PlacePush(c) \/ PlaceKick(c) \/ KickSet(c)
    \/ KickSend(c)
    \/ SchedUnlock(c) \/ LeaveForGood(c) \/ AffinityLook(c) \/ AffinityMove(c)

\* What its tasks and its interrupts make it do
Demand(c) ==
    \/ Join(c) \/ TakeIpi(c) \/ OtherInterrupt(c) \/ Yield(c) \/ Tick(c)
    \/ SchedLock(c) \/ Sleep(c) \/ StopOrExit(c)
    \/ \E t \in Tasks : WakeTask(c, t) \/ AddTask(c, t) \/ Reap(c, t)
    \/ \E t \in Tasks, a \in Pins : SetAffinity(c, t, a)

Next == \E c \in Cpus : Work(c) \/ Demand(c)

Spec == Init /\ [][Next]_vars

-----------------------------------------------------------------------------
(* What makes the queues correct.                                          *)

\* No two CPUs execute on one task's kernel stack: the point of holding the
\* queue lock across ctx_switch
NoSharedStack ==
    \A c, d \in Cpus : c # d /\ stack[c] = stack[d] => stack[c] = Idle

\* "Whoever sees it BLOCKED, STOPPED or ZOMBIE under the scheduler lock sees a
\* task that has left its stack": a CPU still on such a task's stack is the
\* one that holds the lock
OffMeansLeftStack ==
    \A c \in Cpus : stack[c] \in Tasks /\ state[stack[c]] \in Off
                        => sched_lock = c

\* A task pushed to the back of a queue as it gives up the CPU cannot be taken
\* by another CPU before it has left its stack: until then it is in that CPU's
\* own queue, whose lock is held
QueuedMeansBehindLock ==
    \A c \in Cpus : stack[c] \in Tasks /\ queued_on[stack[c]] # None
                        => queued_on[stack[c]] = c /\ rq_lock[c]

\* The stack of a freed task (a zombie someone collected) is in use by no CPU
FreedStackUnused ==
    \A c \in Cpus : stack[c] \in Tasks => state[stack[c]] # "FREE"

\* A queue holds each task at most once, knows it as its own (queued_on), and
\* holds READY tasks only
QueuesSound ==
    \A c \in Cpus : \A i \in 1 .. Len(queue[c]) :
        /\ queued_on[queue[c][i]] = c
        /\ state[queue[c][i]] = "READY"
        /\ \A j \in 1 .. Len(queue[c]) : queue[c][i] = queue[c][j] => i = j

\* No task is lost or doubled on its way between CPUs: a READY task is in the
\* queue its queued_on names, or in the hands of exactly one CPU; a RUNNING one
\* is the current task of exactly one CPU
NoTaskLost ==
    \A t \in Tasks :
        /\ queued_on[t] # None =>
              /\ \E i \in 1 .. Len(queue[queued_on[t]]) : queue[queued_on[t]][i] = t
              /\ \A c \in Cpus : hand[c] # t
        /\ state[t] = "READY" /\ queued_on[t] = None => \E c \in Cpus : hand[c] = t
        /\ state[t] = "RUNNING" => \E c \in Cpus : current[c] = t
        /\ \A c, d \in Cpus : hand[c] = t /\ hand[d] = t => c = d
        /\ \A c, d \in Cpus : current[c] = t /\ current[d] = t => c = d

\* CPU d is about to send CPU c the wake-up interrupt, or to find out that it
\* has to
KickComing(c) ==
    \E d \in Cpus : pc[d] \in {"kick", "set", "send"} /\ target[d] = c

\* "A wakeup is never slept through": a CPU halts with a task in its queue only
\* if the interrupt that ends the halt is pending or on its way
WakeupNotSleptThrough ==
    \A c \in Cpus : pc[c] = "halt" /\ queue[c] # <<>> => ipi[c] \/ KickComing(c)

\* A task bound to a CPU only ever goes to that CPU's queue
BoundGoesHome ==
    [][\A t \in Tasks : queued_on'[t] # queued_on[t] /\ queued_on'[t] # None
          => affinity[t] \in {AnyCpu, queued_on'[t]}]_vars

\* A zombie may be freed by whoever sees it: no CPU still has a use for it
FreedIsForgotten ==
    \A c \in Cpus : pc[c] = "kick" /\ current[target[c]] # Idle
                        => state[subject[c]] # "FREE"

-----------------------------------------------------------------------------
(* Why it holds: an inductive invariant, in parts.                         *)

In(t, q) == \E i \in 1 .. Len(q) : q[i] = t
Distinct(q) == \A i, j \in 1 .. Len(q) : q[i] = q[j] => i = j

\* Between changing cpu->current and leaving the old stack
InWindow(c) == pc[c] = "ctx" \/ (pc[c] \in {"set", "send"} /\ back[c] = "ctx")

\* Where a CPU has its own queue's lock, and where the scheduler lock
HoldsQueue(c) == pc[c] \in InSchedule \/ InWindow(c)
HoldsSched(c) ==
    \/ holding[c]
    \/ pc[c] \in {"crit", "move", "unlink"}
    \/ pc[c] \in {"choose", "push", "kick", "set", "send"} /\ back[c] = "crit"

\* queued_on says which queue a task is in; a queued task is READY
QueueInv ==
    /\ \A c \in Cpus : Distinct(queue[c])
    /\ \A c \in Cpus, t \in Tasks : In(t, queue[c]) <=> queued_on[t] = c
    /\ \A t \in Tasks : queued_on[t] # None => state[t] = "READY"

\* The locks are held exactly where the code has them (the scheduler lock at
\* least there)
LockInv ==
    /\ \A c \in Cpus : rq_lock[c] <=> HoldsQueue(c)
    /\ \A c \in Cpus : HoldsSched(c) => sched_lock = c
    /\ \A c \in Cpus : holding[c] => pc[c] = "lock" \/ HoldsQueue(c)

\* What a CPU needs in its local variables where it is
LocalInv ==
    \A c \in Cpus :
        /\ pc[c] \in {"choose", "push"} => hand[c] # None
        /\ hand[c] # None => pc[c] \in {"switch", "finish", "choose", "push"}
                                \/ InWindow(c)
        /\ pc[c] \in {"kick", "move", "unlink"} => subject[c] # None
        /\ pc[c] = "handover" => target[c] # c /\ back[c] \in {"run", "lock"}
        /\ pc[c] \in {"choose", "push", "kick"} => back[c] \in {"run", "halt", "crit"}

\* A task in a CPU's hand is in no queue, in no other CPU's hand and current
\* nowhere: it is READY, or (until it is pushed) asleep and being woken
HandInv ==
    \A c \in Cpus : hand[c] # None =>
        /\ queued_on[hand[c]] = None
        /\ \/ state[hand[c]] = "READY"
           \/ /\ state[hand[c]] \in {"BLOCKED", "STOPPED"}
              /\ pc[c] \in {"choose", "push"} /\ back[c] = "crit"
        /\ \A d \in Cpus : hand[d] = hand[c] => d = c
        /\ hand[c] # current[c]

\* A current task last ran here, is in no queue, and is RUNNING unless it is
\* on its way out with the scheduler lock held
CurrentInv ==
    \A c \in Cpus : current[c] # Idle =>
        /\ last_cpu[current[c]] = c
        /\ queued_on[current[c]] = None
        /\ state[current[c]] # "RUNNING" =>
              /\ state[current[c]] \in Off
              /\ HoldsSched(c)
              /\ pc[c] \in {"crit", "choose", "push", "kick", "set", "send",
                            "lock", "scan", "steal", "switch"}
              /\ ~InWindow(c)

\* A CPU is on its current task's stack, except in the window, where nobody
\* else can get hold of the task whose stack it still is on
StackInv ==
    \A c \in Cpus :
        /\ stack[c] # Idle => last_cpu[stack[c]] = c
        /\ ~InWindow(c) => stack[c] = current[c]
        /\ InWindow(c) =>
              /\ stack[c] # current[c]
              /\ \/ stack[c] = Idle
                 \/ queued_on[stack[c]] = c
                 \/ hand[c] = stack[c]
                 \/ state[stack[c]] \in Off /\ holding[c]

\* Nothing runnable is nowhere
PlaceInv ==
    \A t \in Tasks :
        /\ state[t] = "READY" /\ queued_on[t] = None => \E c \in Cpus : hand[c] = t
        /\ state[t] = "RUNNING" => last_cpu[t] # None /\ current[last_cpu[t]] = t

IInv ==
    /\ TypeOK /\ QueueInv /\ LockInv /\ LocalInv /\ HandInv
    /\ CurrentInv /\ StackInv /\ PlaceInv

-----------------------------------------------------------------------------
(* The detailed scheduler implements the abstract one: a CPU runs the task  *)
(* whose stack it is on, and a task that is on no stack is what its state   *)
(* says (RUNNING before the switch to it is still only runnable).           *)

OnStack(t) == \E c \in Cpus : stack[c] = t

StatusOf(s) ==
    CASE s = "FREE" -> "free"
      [] s \in {"READY", "RUNNING"} -> "ready"
      [] s \in {"BLOCKED", "STOPPED"} -> "asleep"
      [] s = "ZOMBIE" -> "dead"

Abstract == INSTANCE AbstractSched WITH
    BootCpu <- 0,
    running <- stack,
    status  <- [t \in Tasks |-> IF OnStack(t) THEN "on" ELSE StatusOf(state[t])]

\* Locks, queues, steals and kicks only ever amount to abstract steps
ImplementsAbstract == Abstract!AbstractSpec

-----------------------------------------------------------------------------
\* Every CPU goes on with what it is doing, and a pending interrupt is taken
Fairness == \A c \in Cpus : WF_vars(Work(c)) /\ WF_vars(TakeIpi(c))

FairSpec == Spec /\ Fairness

\* A CPU with a task in its queue does not stay halted
HaltedWithWorkWakes ==
    \A c \in Cpus : pc[c] = "halt" /\ queue[c] # <<>> ~> pc[c] # "halt"

\* No task is bound to a CPU, the boot task to its own aside (sched_init)
OnlyBootIsBound == \A t \in Tasks : affinity[t] = AnyCpu \/ (t = Boot /\ affinity[t] = 0)

\* As long as no other task is bound to a CPU, no wakeup is slept through and
\* no CPU stays halted beside a task (idle_wait, sched_kick and the reschedule
\* IPI).  (A task bound while it moves may be queued by an idle CPU that then
\* halts.)
WakeupsArrive == []OnlyBootIsBound => []WakeupNotSleptThrough /\ HaltedWithWorkWakes

=============================================================================
