---------------------------- MODULE AbstractSched ----------------------------
(***************************************************************************)
(* What the scheduler promises, without queues or locks: every CPU runs    *)
(* one task at a time, or idles; a task is on at most one CPU; it goes     *)
(* from one to another only by way of being runnable and on none; only a   *)
(* task that is off every CPU is woken, and only a dead one is freed.      *)
(***************************************************************************)
CONSTANTS Cpus, Tasks, Boot, BootCpu, Idle

VARIABLES
    running,    \* running[c]: the task CPU c executes, or Idle
    status      \* status[t]: where task t is in its life

abstractVars == <<running, status>>

AbstractInit ==
    /\ running = [c \in Cpus |-> IF c = BootCpu THEN Boot ELSE Idle]
    /\ status = [t \in Tasks |-> IF t = Boot THEN "on" ELSE "free"]

\* A task is created, woken or freed: it is on no CPU
Start(t) ==
    /\ status[t] = "free"
    /\ status' = [status EXCEPT ![t] = "ready"]
    /\ UNCHANGED running

Wake(t) ==
    /\ status[t] = "asleep"
    /\ status' = [status EXCEPT ![t] = "ready"]
    /\ UNCHANGED running

Free(t) ==
    /\ status[t] = "dead"
    /\ status' = [status EXCEPT ![t] = "free"]
    /\ UNCHANGED running

\* CPU c changes from its task to a runnable one, or to none; the old task is
\* from that instant runnable, asleep or dead
Dispatch(c, next, left) ==
    /\ next # running[c]
    /\ next # Idle => status[next] = "ready"
    /\ running' = [running EXCEPT ![c] = next]
    /\ status' = [t \in Tasks |-> IF t = next THEN "on"
                                  ELSE IF t = running[c] THEN left
                                  ELSE status[t]]

AbstractNext ==
    \/ \E t \in Tasks : Start(t) \/ Wake(t) \/ Free(t)
    \/ \E c \in Cpus, next \in Tasks \cup {Idle},
          left \in {"ready", "asleep", "dead"} : Dispatch(c, next, left)

AbstractSpec == AbstractInit /\ [][AbstractNext]_abstractVars

==============================================================================
