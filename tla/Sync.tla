-------------------------------- MODULE Sync --------------------------------
(***************************************************************************)
(* What threads wait for each other with: the kernel's recursive mutex     *)
(* (src/kernel/sync/mutex.c), counting semaphore (sem.c), the futex calls  *)
(* (src/kernel/syscall/syscall.c, sched_futex_wake) and, on top of those,  *)
(* the threads' own mutex (user/lib/ulib.c).                               *)
(*                                                                         *)
(* One step is one hold of the object's spinlock: a sleep lets go of it in *)
(* the step that puts the task to sleep (module RunQueue shows that no     *)
(* wake-up falls in between).  Signals may interrupt a futex wait at any   *)
(* time, and a timeout may end it.                                         *)
(***************************************************************************)
EXTENDS Naturals, FiniteSets

CONSTANTS
    SyTasks,
    MaxDepth,   \* bound: how often one task takes the mutex at once
    MaxSem      \* bound: the semaphore's value

Nobody == "nobody"

SyncAssumption == {MaxDepth, MaxSem} \subseteq Nat /\ Nobody \notin SyTasks

VARIABLES
    pc,         \* what each task does; "run" outside all of this
    owner,      \* mutex->owner (Nobody: not taken)
    depth,      \* mutex->depth
    waking,     \* tasks between releasing the mutex and their sched_wakeup
    semValue,   \* sem->value
    word,       \* the user mutex's state: 0 free, 1 taken, 2 taken and maybe waited for
    inside,     \* ghost: who holds the user mutex
    marked,     \* the tasks whose futex_addr is set: waiting, not yet woken
    doomed      \* tasks with a kill pending

syVars == <<pc, owner, depth, waking, semValue, word, inside, marked, doomed>>
mutexVars == <<owner, depth, waking>>
futexVars == <<word, inside, marked>>

SyInit ==
    /\ pc = [t \in SyTasks |-> "run"]
    /\ owner = Nobody /\ depth = 0 /\ waking = {}
    /\ semValue = 0
    /\ word = 0 /\ inside = Nobody /\ marked = {} /\ doomed = {}

Goes(t, where) == pc' = [pc EXCEPT ![t] = where]

-----------------------------------------------------------------------------
(* The kernel's mutex                                                      *)

take_if_possible(t) == owner \in {Nobody, t}

\* mutex_lock, and again after a wake-up: taken, or asleep until the next.
MutexLock(t) ==
    /\ pc[t] \in {"run", "mutex_retry"} /\ t \notin waking
    /\ owner = t => depth < MaxDepth
    /\ IF take_if_possible(t)
       THEN Goes(t, "run") /\ owner' = t /\ depth' = depth + 1
       ELSE Goes(t, "mutex_sleep") /\ UNCHANGED <<owner, depth>>
    /\ UNCHANGED <<waking, semValue, futexVars, doomed>>

MutexTrylock(t) ==
    /\ pc[t] = "run" /\ t \notin waking /\ take_if_possible(t)
    /\ owner = t => depth < MaxDepth
    /\ owner' = t /\ depth' = depth + 1
    /\ UNCHANGED <<pc, waking, semValue, futexVars, doomed>>

\* mutex_unlock: the last release frees it, and lets go of the spinlock ...
MutexUnlock(t) ==
    /\ pc[t] = "run" /\ owner = t
    /\ depth' = depth - 1
    /\ owner' = IF depth = 1 THEN Nobody ELSE t
    /\ waking' = IF depth = 1 THEN waking \union {t} ELSE waking
    /\ UNCHANGED <<pc, semValue, futexVars, doomed>>

\* ... before it wakes whoever sleeps on it.
MutexWakeup(t) ==
    /\ t \in waking
    /\ waking' = waking \ {t}
    /\ pc' = [u \in SyTasks |-> IF pc[u] = "mutex_sleep" THEN "mutex_retry" ELSE pc[u]]
    /\ UNCHANGED <<owner, depth, semValue, futexVars, doomed>>

-----------------------------------------------------------------------------
(* The semaphore                                                           *)

\* Mutant of SemMayTake: one that was woken takes it without looking again.
SemTakeOnce(t) == semValue > 0 \/ pc[t] = "sem_retry"

SemMayTake(t) == semValue > 0

\* sem_wait: a sleep that ends, for whatever reason, is followed by another look.
SemWait(t) ==
    /\ pc[t] \in {"run", "sem_retry"} /\ t \notin waking /\ owner # t
    /\ IF SemMayTake(t) THEN Goes(t, "run") /\ semValue' = semValue - 1
       ELSE Goes(t, "sem_sleep") /\ UNCHANGED semValue
    /\ UNCHANGED <<mutexVars, futexVars, doomed>>

SemPost(t) ==
    /\ pc[t] = "run" /\ semValue < MaxSem
    /\ semValue' = semValue + 1
    /\ pc' = [u \in SyTasks |-> IF pc[u] = "sem_sleep" THEN "sem_retry" ELSE pc[u]]
    /\ UNCHANGED <<mutexVars, futexVars, doomed>>

-----------------------------------------------------------------------------
(* Futexes, as thread_mutex_lock and thread_mutex_unlock use them          *)

Free(t) == pc[t] = "run" /\ t \notin waking /\ owner # t /\ inside # t

\* thread_mutex_lock's first try: 0 becomes 1.
UserLock(t) ==
    /\ Free(t)
    /\ IF word = 0 THEN word' = 1 /\ inside' = t /\ UNCHANGED pc
       ELSE Goes(t, "user_swap") /\ UNCHANGED <<word, inside>>
    /\ UNCHANGED <<mutexVars, semValue, marked, doomed>>

\* Its loop: put 2 there; free before means taken.
UserSwap(t) ==
    /\ pc[t] = "user_swap"
    /\ word' = 2
    /\ IF word = 0 THEN inside' = t /\ Goes(t, "run") ELSE Goes(t, "futex_call") /\ UNCHANGED inside
    /\ UNCHANGED <<mutexVars, semValue, marked, doomed>>


\* sys_futex_wait under futex_lock: -EAGAIN, or marked and asleep.
Expected(t) == word = 2

FutexWait(t) ==
    /\ pc[t] = "futex_call"
    /\ IF Expected(t) THEN marked' = marked \union {t} /\ Goes(t, "futex_sleep")
       ELSE Goes(t, "user_swap") /\ UNCHANGED marked
    /\ UNCHANGED <<mutexVars, semValue, word, inside, doomed>>

\* A signal, the deadline or a kill ends the sleep.
FutexDisturbed(t) ==
    /\ pc[t] = "futex_sleep"
    /\ Goes(t, "futex_disturbed")
    /\ UNCHANGED <<mutexVars, semValue, futexVars, doomed>>

\* The loop's end: woken, whatever else happened, or -EINTR / -ETIMEDOUT.
\* Either way the lock's own loop starts again.
FutexReturn(t) ==
    /\ pc[t] \in {"futex_disturbed", "futex_woken"} /\ t \notin doomed
    /\ marked' = marked \ {t}
    /\ Goes(t, "user_swap")
    /\ UNCHANGED <<mutexVars, semValue, word, inside, doomed>>

\* A killed thread dies at its sleep or safe point instead.
FutexDies(t) ==
    /\ t \in doomed /\ pc[t] = "futex_disturbed"
    /\ Goes(t, "dead") /\ marked' = marked \ {t}
    /\ UNCHANGED <<mutexVars, semValue, word, inside, doomed>>


\* sched_futex_wake: the tasks that can use a wake-up, asleep or already disturbed.
Wakeable == marked \ doomed

\* thread_mutex_unlock: 0 goes in; a 2 that comes out means a wake-up.
UserUnlock(t) ==
    /\ inside = t /\ pc[t] = "run" /\ t \notin waking
    /\ word' = 0 /\ inside' = Nobody
    /\ Goes(t, IF word = 2 THEN "user_wake" ELSE "run")
    /\ UNCHANGED <<mutexVars, semValue, marked, doomed>>

UserWake(t) ==
    LET rest == [pc EXCEPT ![t] = "run"] IN
    /\ pc[t] = "user_wake"
    /\ \/ Wakeable = {} /\ pc' = rest /\ UNCHANGED marked
       \/ \E u \in Wakeable :
            /\ marked' = marked \ {u}
            /\ pc' = [rest EXCEPT ![u] = "futex_woken"]
    /\ UNCHANGED <<mutexVars, semValue, word, inside, doomed>>

\* A kill reaches a waiting thread (exec ending the others).  One that was
\* woken just before takes its wake-up with it: not modelled.
Kill(t) ==
    /\ t \notin doomed
    /\ pc[t] \in {"futex_sleep", "futex_disturbed"}
    /\ doomed' = doomed \union {t}
    /\ Goes(t, "futex_disturbed")
    /\ UNCHANGED <<mutexVars, semValue, futexVars>>

SyNext ==
    \E t \in SyTasks :
        \/ MutexLock(t) \/ MutexTrylock(t) \/ MutexUnlock(t) \/ MutexWakeup(t)
        \/ SemWait(t) \/ SemPost(t)
        \/ UserLock(t) \/ UserSwap(t) \/ FutexWait(t) \/ FutexDisturbed(t) \/ FutexReturn(t) \/ FutexDies(t)
        \/ UserUnlock(t) \/ UserWake(t) \/ Kill(t)

SySpec == SyInit /\ [][SyNext]_syVars

-----------------------------------------------------------------------------
(* Properties                                                              *)

\* Nobody sleeps on a free mutex unless the one who freed it is still on its
\* way to wake them, and nobody sleeps on a semaphore that can be taken.
KernelSleepersWait ==
    /\ (\E t \in SyTasks : pc[t] = "mutex_sleep") => owner # Nobody \/ waking # {}
    /\ (\E t \in SyTasks : pc[t] = "sem_sleep") => semValue <= 0
    /\ semValue >= 0 /\ (owner = Nobody) = (depth = 0)

\* The threads' mutex: its word is 0 exactly while nobody holds it, and a waiter
\* that sleeps in the kernel is never forgotten: the mutex is held and its word
\* says someone may wait, or a wake-up or another waiter that will take it is on
\* its way.
UserLockKept ==
    /\ inside = Nobody <=> word = 0
    /\ (\E t \in SyTasks \ doomed : pc[t] = "futex_sleep") =>
          \/ inside # Nobody /\ word = 2
          \/ \E t \in SyTasks \ doomed :
                pc[t] \in {"user_swap", "futex_call", "user_wake", "futex_woken"}
=============================================================================
