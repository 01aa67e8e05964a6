------------------------------- MODULE Timers -------------------------------
(***************************************************************************)
(* The one-shot timers of src/kernel/time/timer.c and the lists of timed   *)
(* sleepers of src/kernel/sched/sched.c: each CPU sets its local APIC      *)
(* timer for the earliest thing it must wake for by itself, and nothing    *)
(* else ever looks at a sleeper's deadline.                                *)
(*                                                                         *)
(* A step is code that runs with interrupts off.  Which ready task a CPU   *)
(* takes is left open (module RunQueue decides that).                      *)
(***************************************************************************)
EXTENDS Naturals, FiniteSets, FiniteSetsExt

CONSTANTS
    TmCpus, TmTasks,
    Slice,      \* NS_PER_TICK
    Longest,    \* how far the 32-bit counter reaches
    RefreshGap, \* REFRESH_NS
    MaxTime     \* bound: the clock, and the deadlines asked for

TimersAssumption ==
    /\ {Slice, Longest, RefreshGap, MaxTime} \subseteq Nat \ {0}
    /\ TmCpus \cap {"ready", "running", "waits"} = {} /\ "idle" \notin TmTasks

VARIABLES
    clock,      \* hrtimer_raw_ns
    timer,      \* timers[]: armed, wake, slice; and fires, when the hardware will interrupt
    runs,       \* the task each CPU runs, or "idle"
    halted,     \* whether an idle CPU is in its hlt
    asleepOn,   \* the CPU whose list holds a sleeping task; "ready", "running" or "waits"
    key,        \* sleep_key_ns
    dirty,      \* console_needs_refresh
    lastShown   \* last_refresh_ns

tmVars == <<clock, timer, runs, halted, asleepOn, key, dirty, lastShown>>

TmInit ==
    /\ clock = 1
    /\ timer = [c \in TmCpus |-> [armed |-> 0, fires |-> 0, wake |-> 0, slice |-> 0]]
    /\ runs = [c \in TmCpus |-> "idle"] /\ halted = [c \in TmCpus |-> FALSE]
    /\ asleepOn = [t \in TmTasks |-> "ready"] /\ key = [t \in TmTasks |-> 0]
    /\ dirty = FALSE /\ lastShown = 0

earlier(a, b) == IF a = 0 THEN b ELSE IF b = 0 THEN a ELSE IF a < b THEN a ELSE b

\* arm: a time too far off is approached in steps of the longest count.
arm(tm, when) ==
    [tm EXCEPT !.armed = when,
               !.fires = IF when <= clock THEN clock ELSE IF when - clock > Longest THEN clock + Longest ELSE when]

Off(tm) == [tm EXCEPT !.armed = 0, !.fires = 0]

List(c) == {t \in TmTasks : asleepOn[t] = c}
ReadyTasks == {t \in TmTasks : asleepOn[t] = "ready"}

-----------------------------------------------------------------------------
(* Going to sleep, and being woken                                         *)

timer_sleeper_deadline(tm, d) ==
    LET told == [tm EXCEPT !.wake = earlier(@, d)] IN
    IF d = 0 THEN tm ELSE IF tm.armed = 0 \/ d < tm.armed THEN arm(told, d) ELSE told

\* The CPU goes from task t (now in state s) to a ready task or to idle.
SwitchFrom(c, t, s, u) ==
    /\ u \in ReadyTasks \union {"idle"}
    /\ u = "idle" => ReadyTasks = {}
    /\ runs' = [runs EXCEPT ![c] = u]
    /\ asleepOn' = [x \in TmTasks |-> IF x = t THEN s ELSE IF x = u THEN "running" ELSE asleepOn[x]]

\* sleep_on with a deadline (past ones too), or (d = 0) without.
GoToSleep(c, d, u) ==
    LET t == runs[c] IN
    /\ t # "idle"
    /\ key' = [key EXCEPT ![t] = d]
    /\ timer' = [timer EXCEPT ![c] = timer_sleeper_deadline(@, d)]
    /\ SwitchFrom(c, t, IF d = 0 THEN "waits" ELSE c, u)
    /\ UNCHANGED <<clock, halted, dirty, lastShown>>

\* place_task tells an idle CPU, if there is one; its interrupt ends the hlt.
Kick ==
    \/ \E c \in TmCpus : runs[c] = "idle" /\ halted' = [halted EXCEPT ![c] = FALSE]
    \/ (\A c \in TmCpus : runs[c] # "idle") /\ UNCHANGED halted

\* Someone else's wake-up: the sleeper leaves its list; the timer stays set.
WakeUp(t) ==
    /\ asleepOn[t] \in TmCpus \union {"waits"}
    /\ asleepOn' = [asleepOn EXCEPT ![t] = "ready"]
    /\ key' = [key EXCEPT ![t] = 0]
    /\ Kick
    /\ UNCHANGED <<clock, timer, runs, dirty, lastShown>>

\* sched_yield by a running task
Yield(c, u) ==
    /\ runs[c] # "idle" /\ u # "idle"
    /\ SwitchFrom(c, runs[c], "ready", u)
    /\ UNCHANGED <<clock, timer, halted, key, dirty, lastShown>>

-----------------------------------------------------------------------------
(* The idle loop                                                           *)

timer_cpu_busy(tm) ==
    arm([tm EXCEPT !.slice = clock + Slice], earlier(clock + Slice, tm.wake))

\* timer_cpu_idle: the next thing to wake for, or off.
NextThing(tm) == IF dirty THEN earlier(tm.wake, lastShown + RefreshGap) ELSE tm.wake

timer_cpu_idle(tm) ==
    IF NextThing(tm) = 0 THEN Off(tm)
    ELSE IF tm.armed # NextThing(tm) THEN arm(tm, NextThing(tm)) ELSE tm

\* sched_yield finds a task ...
LeaveIdle(c, u) ==
    /\ runs[c] = "idle" /\ ~ halted[c] /\ u # "idle"
    /\ SwitchFrom(c, "idle", "none", u)
    /\ timer' = [timer EXCEPT ![c] = timer_cpu_busy(@)]
    /\ UNCHANGED <<clock, halted, key, dirty, lastShown>>

\* ... or the CPU sets its timer and halts.
Halt(c) ==
    /\ runs[c] = "idle" /\ ~ halted[c] /\ ReadyTasks = {}
    /\ timer' = [timer EXCEPT ![c] = timer_cpu_idle(@)]
    /\ halted' = [halted EXCEPT ![c] = TRUE]
    /\ UNCHANGED <<clock, runs, asleepOn, key, dirty, lastShown>>

-----------------------------------------------------------------------------
(* timer_interrupt                                                         *)

Due(c) == {t \in List(c) : key[t] <= clock}

\* sched_wake_sleepers: those due from the front of this CPU's list; the next.
wake_sleepers(tm, c) ==
    LET left == List(c) \ Due(c) IN
    [tm EXCEPT !.wake = IF left = {} THEN 0 ELSE Min({key[t] : t \in left})]

Looks(c) == timer[c].wake # 0 /\ clock >= timer[c].wake

\* Mutant of AfterInterrupt: a busy CPU's timer is set for its slice only.
AfterForSlice(c, over) ==
    LET fired == Off(timer[c])
        woken == IF Looks(c) THEN wake_sleepers(fired, c) ELSE fired
        sliced == IF over THEN [woken EXCEPT !.slice = clock + Slice] ELSE woken
    IN  IF runs[c] = "idle" THEN woken ELSE arm(sliced, sliced.slice)

\* Afterwards a busy CPU's timer is set again; an idle one's is not.
AfterInterrupt(c, over) ==
    LET fired == Off(timer[c])
        woken == IF Looks(c) THEN wake_sleepers(fired, c) ELSE fired
        sliced == IF over THEN [woken EXCEPT !.slice = clock + Slice] ELSE woken
    IN  IF runs[c] = "idle" THEN woken ELSE arm(sliced, earlier(sliced.slice, sliced.wake))

TimerInterrupt(c) ==
    LET over == runs[c] # "idle" /\ clock >= timer[c].slice
        awake == IF Looks(c) THEN Due(c) ELSE {}
        shows == dirty /\ clock >= lastShown + RefreshGap IN
    /\ timer[c].fires # 0 /\ clock >= timer[c].fires
    /\ timer' = [timer EXCEPT ![c] = AfterInterrupt(c, over)]
    /\ asleepOn' = [t \in TmTasks |-> IF t \in awake THEN "ready" ELSE asleepOn[t]]
    /\ halted' = IF awake = {} THEN [halted EXCEPT ![c] = FALSE]
                 ELSE [d \in TmCpus |-> IF d = c \/ runs[d] = "idle" THEN FALSE ELSE halted[d]]
    /\ key' = [t \in TmTasks |-> IF t \in awake THEN 0 ELSE key[t]]
    /\ dirty' = (dirty /\ ~ shows) /\ lastShown' = IF shows THEN clock ELSE lastShown
    /\ UNCHANGED <<clock, runs>>

\* A running task writes to the console.
WriteConsole(c) ==
    /\ runs[c] # "idle" /\ dirty' = TRUE
    /\ UNCHANGED <<clock, timer, runs, halted, asleepOn, key, lastShown>>

\* Time passes up to the next interrupt that is due.
Advance ==
    /\ clock < MaxTime
    /\ \A c \in TmCpus : timer[c].fires # 0 => clock < timer[c].fires
    /\ clock' = clock + 1
    /\ UNCHANGED <<timer, runs, halted, asleepOn, key, dirty, lastShown>>

TmNext ==
    \/ \E c \in TmCpus :
        \/ \E d \in 0 .. MaxTime, u \in TmTasks \union {"idle"} : GoToSleep(c, d, u)
        \/ \E u \in TmTasks : Yield(c, u) \/ LeaveIdle(c, u)
        \/ Halt(c) \/ TimerInterrupt(c) \/ WriteConsole(c)
    \/ \E t \in TmTasks : WakeUp(t)
    \/ Advance

TmSpec == TmInit /\ [][TmNext]_tmVars

-----------------------------------------------------------------------------
(* Properties                                                              *)

\* No sleep outlasts its deadline for want of an interrupt: whenever a CPU
\* halts or runs a task, its timer is set for no later than the earliest
\* deadline in its list, whatever slept, woke or was printed in between.
DeadlineHasATimer ==
    \A c \in TmCpus : (halted[c] \/ runs[c] # "idle") =>
        \A t \in List(c) : timer[c].fires # 0 /\ (timer[c].fires <= key[t] \/ timer[c].fires <= clock)
=============================================================================
