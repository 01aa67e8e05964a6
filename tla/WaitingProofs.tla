---------------------------- MODULE WaitingProofs ----------------------------
(***************************************************************************)
(* Proofs about what threads wait for (Sync), until when (Timers) and what *)
(* must not be slept through (Signals, Terminal), and about what is asked  *)
(* of the disk (Disk), for every set of threads and CPUs.                  *)
(***************************************************************************)
EXTENDS Sync, Timers, Signals, Terminal, Disk, TLAPS, NaturalsInduction, WellFoundedInduction, FiniteSetTheorems

-----------------------------------------------------------------------------
(* Mutexes, semaphores and futexes.                                        *)

SyLocations ==
    {"run", "mutex_sleep", "mutex_retry", "sem_sleep", "sem_retry", "user_swap", "futex_call",
     "futex_sleep", "futex_disturbed", "futex_woken", "user_wake", "dead"}

SyTypeOK ==
    /\ pc \in [SyTasks -> SyLocations]
    /\ owner \in SyTasks \cup {Nobody} /\ depth \in Nat /\ waking \subseteq SyTasks
    /\ semValue \in Nat /\ word \in {0, 1, 2} /\ inside \in SyTasks \cup {Nobody}
    /\ marked \subseteq SyTasks /\ doomed \subseteq SyTasks

\* futex_addr is set while a thread waits and nobody has woken it, and whoever
\* is to die of a kill is on its way out of the wait
FutexInv ==
    /\ \A t \in marked : pc[t] \in {"futex_sleep", "futex_disturbed"}
    /\ \A t \in SyTasks : pc[t] = "futex_sleep" => t \in marked
    /\ \A t \in doomed : pc[t] \in {"futex_disturbed", "dead"}

SyInv == SyTypeOK /\ KernelSleepersWait /\ UserLockKept /\ FutexInv

\* On its way to take the threads' mutex or to wake who will
OnItsWay(t) ==
    t \notin doomed /\ pc[t] \in {"user_swap", "futex_call", "user_wake", "futex_woken"}

\* A step of the kernel's mutex or semaphore, which leaves futexes alone
LEMMA KernelStep ==
    ASSUME SyncAssumption, SyInv, NEW t \in SyTasks,
           \/ MutexLock(t) \/ MutexTrylock(t) \/ MutexUnlock(t) \/ MutexWakeup(t)
           \/ SemWait(t) \/ SemPost(t)
    PROVE  SyInv'
<1> USE DEF SyncAssumption, futexVars, mutexVars, Goes, take_if_possible, SemMayTake
<1>1. /\ UNCHANGED <<futexVars, doomed>>
      /\ pc' \in [SyTasks -> SyLocations]
    BY DEF SyInv, SyTypeOK, SyLocations, MutexLock, MutexTrylock, MutexUnlock, MutexWakeup, SemWait,
           SemPost
<1>2. /\ owner' \in SyTasks \cup {Nobody} /\ depth' \in Nat /\ waking' \subseteq SyTasks
      /\ semValue' \in Nat
      /\ owner' = Nobody <=> depth' = 0
    BY DEF SyInv, SyTypeOK, KernelSleepersWait, MutexLock, MutexTrylock, MutexUnlock, MutexWakeup,
           SemWait, SemPost
<1>3. ASSUME NEW u \in SyTasks
      PROVE  \/ pc'[u] = pc[u]
             \/ /\ {pc[u], pc'[u]} \subseteq
                     {"run", "mutex_sleep", "mutex_retry", "sem_sleep", "sem_retry"}
                /\ pc'[u] = "mutex_sleep" => owner' # Nobody
                /\ pc'[u] = "sem_sleep" => semValue' = 0
    BY DEF SyInv, SyTypeOK, MutexLock, MutexTrylock, MutexUnlock, MutexWakeup, SemWait, SemPost
<1>4. ASSUME NEW u \in SyTasks, pc'[u] = "mutex_sleep" PROVE owner' # Nobody \/ waking' # {}
    BY <1>4
    DEF SyInv, SyTypeOK, KernelSleepersWait, MutexLock, MutexTrylock, MutexUnlock, MutexWakeup,
        SemWait, SemPost
<1>5. ASSUME NEW u \in SyTasks, pc'[u] = "sem_sleep" PROVE semValue' <= 0
    BY <1>5
    DEF SyInv, SyTypeOK, KernelSleepersWait, MutexLock, MutexTrylock, MutexUnlock, MutexWakeup,
        SemWait, SemPost
<1>6. SyTypeOK' /\ KernelSleepersWait'
    BY <1>1, <1>2, <1>4, <1>5 DEF SyInv, SyTypeOK, KernelSleepersWait
<1>7. FutexInv' /\ UserLockKept'
    BY <1>1, <1>3 DEF SyInv, SyTypeOK, FutexInv, UserLockKept
<1> QED BY <1>6, <1>7 DEF SyInv

\* A step of the threads' mutex, which leaves the kernel's alone: nobody is
\* forgotten if whoever was on its way still is, or the mutex is taken and
\* says that someone waits, or nobody sleeps
LEMMA UserStep ==
    ASSUME SyncAssumption, SyInv, UNCHANGED <<mutexVars, semValue>>, SyTypeOK', FutexInv',
           inside' = Nobody <=> word' = 0,
           \A u \in SyTasks : pc'[u] \in {"mutex_sleep", "sem_sleep"} => pc'[u] = pc[u],
           \/ inside' # Nobody /\ word' = 2
           \/ \E u \in SyTasks : OnItsWay(u)'
           \/ \A u \in SyTasks \ doomed' : pc'[u] # "futex_sleep"
    PROVE  SyInv'
<1>1. KernelSleepersWait'
    BY DEF SyInv, KernelSleepersWait, mutexVars
<1>2. UserLockKept'
    BY DEF UserLockKept, OnItsWay
<1> QED BY <1>1, <1>2 DEF SyInv

LEMMA FutexStep ==
    ASSUME SyncAssumption, SyInv, NEW t \in SyTasks,
           \/ UserLock(t) \/ UserSwap(t) \/ FutexWait(t) \/ FutexDisturbed(t) \/ FutexReturn(t)
           \/ FutexDies(t) \/ UserUnlock(t) \/ UserWake(t) \/ Kill(t)
    PROVE  SyInv'
<1> USE DEF SyncAssumption, futexVars, Goes
<1>1. UNCHANGED <<mutexVars, semValue>>
    BY DEF UserLock, UserSwap, FutexWait, FutexDisturbed, FutexReturn, FutexDies, UserUnlock,
           UserWake, Kill
<1>2. SyTypeOK /\ KernelSleepersWait /\ UserLockKept /\ FutexInv
    BY DEF SyInv
<1>3. SyTypeOK'
    <2>1. /\ owner' \in SyTasks \cup {Nobody} /\ depth' \in Nat /\ waking' \subseteq SyTasks
          /\ semValue' \in Nat
        BY <1>1, <1>2 DEF SyTypeOK, mutexVars
    <2>2. pc' \in [SyTasks -> SyLocations]
        BY <1>2 DEF SyTypeOK, SyLocations, UserLock, UserSwap, FutexWait, FutexDisturbed, FutexReturn,
           FutexDies, UserUnlock, UserWake, Kill
    <2>3. /\ word' \in {0, 1, 2} /\ inside' \in SyTasks \cup {Nobody}
          /\ marked' \subseteq SyTasks /\ doomed' \subseteq SyTasks
        BY <1>2 DEF SyTypeOK, UserLock, UserSwap, FutexWait, FutexDisturbed, FutexReturn, FutexDies,
           UserUnlock, UserWake, Kill
    <2> QED BY <2>1, <2>2, <2>3 DEF SyTypeOK
<1>4. inside' = Nobody <=> word' = 0
    BY <1>2 DEF SyTypeOK, UserLockKept, UserLock, UserSwap, FutexWait, FutexDisturbed, FutexReturn,
           FutexDies, UserUnlock, UserWake, Kill
<1>5. \A u \in SyTasks : pc'[u] \in {"mutex_sleep", "sem_sleep"} => pc'[u] = pc[u]
    BY <1>2 DEF SyTypeOK, UserLock, UserSwap, FutexWait, FutexDisturbed, FutexReturn,
           FutexDies, UserUnlock, UserWake, Kill
<1>6. FutexInv'
    BY <1>2 DEF SyTypeOK, FutexInv, UserLock, UserSwap, FutexWait, FutexDisturbed, FutexReturn,
           FutexDies, Free, UserUnlock, UserWake, Wakeable, Kill
<1>7. \/ inside' # Nobody /\ word' = 2
      \/ \E u \in SyTasks : OnItsWay(u)'
      \/ \A u \in SyTasks \ doomed' : pc'[u] # "futex_sleep"
    <2>1. CASE UserLock(t)
        BY <2>1, <1>2 DEF SyTypeOK, UserLockKept, FutexInv, UserLock, Free, OnItsWay
    <2>2. CASE UserSwap(t)
        BY <2>2, <1>2 DEF SyTypeOK, UserLockKept, FutexInv, UserSwap, OnItsWay
    <2>3. CASE FutexWait(t)
        BY <2>3, <1>2 DEF SyTypeOK, UserLockKept, FutexInv, FutexWait, Expected, OnItsWay
    <2>4. CASE FutexDisturbed(t)
        BY <2>4, <1>2 DEF SyTypeOK, UserLockKept, FutexDisturbed, OnItsWay
    <2>5. CASE FutexReturn(t)
        BY <2>5, <1>2 DEF SyTypeOK, UserLockKept, FutexReturn, OnItsWay
    <2>6. CASE FutexDies(t)
        BY <2>6, <1>2 DEF SyTypeOK, UserLockKept, FutexDies, OnItsWay
    <2>7. CASE UserUnlock(t)
        BY <2>7, <1>2 DEF SyTypeOK, UserLockKept, FutexInv, UserUnlock, OnItsWay
    <2>8. CASE UserWake(t)
        BY <2>8, <1>2 DEF SyTypeOK, UserLockKept, FutexInv, UserWake, Wakeable, OnItsWay
    <2>9. CASE Kill(t)
        BY <2>9, <1>2 DEF SyTypeOK, UserLockKept, Kill, OnItsWay
    <2> QED BY <2>1, <2>2, <2>3, <2>4, <2>5, <2>6, <2>7, <2>8, <2>9
<1> QED BY <1>1, <1>3, <1>4, <1>5, <1>6, <1>7, UserStep

\* What holds of mutexes, semaphores and futexes in every state
LEMMA SyInvariance ==
    ASSUME SyncAssumption PROVE SySpec => []SyInv
<1>1. SyInit => SyInv
    BY DEF SyncAssumption, SyInit, SyInv, SyTypeOK, SyLocations, KernelSleepersWait, UserLockKept,
           FutexInv
<1>2. SyInv /\ [SyNext]_syVars => SyInv'
    <2> SUFFICES ASSUME SyInv, [SyNext]_syVars PROVE SyInv'
        OBVIOUS
    <2>1. CASE UNCHANGED syVars
        BY <2>1 DEF syVars, SyInv, SyTypeOK, KernelSleepersWait, UserLockKept, FutexInv
    <2>2. CASE SyNext
        BY <2>2, KernelStep, FutexStep DEF SyNext
    <2> QED BY <2>1, <2>2
<1> QED BY <1>1, <1>2, PTL DEF SySpec

\* Nobody sleeps on a kernel mutex or semaphore that is free, and the threads'
\* mutex forgets no waiter, whatever signals, timeouts and kills end the waits
\* (mutex.c, sem.c, sys_futex_wait, sched_futex_wake, thread_mutex_lock)
THEOREM SleepersHaveAReason ==
    ASSUME SyncAssumption
    PROVE  SySpec => [](KernelSleepersWait /\ UserLockKept)
<1>1. SyInv => KernelSleepersWait /\ UserLockKept
    BY DEF SyInv
<1> QED BY <1>1, SyInvariance, PTL

\* Both mutexes change hands only by way of nobody: one holder at a time
THEOREM OneHolder ==
    ASSUME SyncAssumption
    PROVE  SySpec => [][/\ inside' # inside => Nobody \in {inside, inside'}
                        /\ owner' # owner => Nobody \in {owner, owner'}]_syVars
<1>1. SyInv /\ [SyNext]_syVars
        => [/\ inside' # inside => Nobody \in {inside, inside'}
            /\ owner' # owner => Nobody \in {owner, owner'}]_syVars
    BY DEF SyInv, UserLockKept, SyNext, syVars, mutexVars, futexVars, take_if_possible,
           MutexLock, MutexTrylock, MutexUnlock, MutexWakeup, SemWait, SemPost, UserLock, UserSwap,
           FutexWait, FutexDisturbed, FutexReturn, FutexDies, UserUnlock, UserWake, Kill
<1> QED BY <1>1, SyInvariance, PTL DEF SySpec

-----------------------------------------------------------------------------
(* The one-shot timers.  The time a CPU wakes its sleepers at (wake) is no *)
(* later than any deadline in its list; a CPU that runs or halts is armed  *)
(* for no later than that; and an armed timer fires no later than it is    *)
(* armed for, in steps if that is far off.                                 *)

Timer == [armed : Nat, fires : Nat, wake : Nat, slice : Nat]

TmTypeOK ==
    /\ clock \in Nat \ {0}
    /\ timer \in [TmCpus -> Timer]
    /\ runs \in [TmCpus -> TmTasks \cup {"idle"}]
    /\ halted \in [TmCpus -> BOOLEAN]
    /\ asleepOn \in [TmTasks -> TmCpus \cup {"ready", "running", "waits"}]
    /\ key \in [TmTasks -> Nat]
    /\ dirty \in BOOLEAN /\ lastShown \in Nat

\* The timer tm goes off by the time it is armed for
Fires(tm, now) == tm.armed # 0 => tm.fires # 0 /\ (tm.fires <= tm.armed \/ tm.fires <= now)

\* It is armed for when its CPU's sleepers are to be woken
Armed(tm) == tm.wake # 0 => tm.armed # 0 /\ tm.armed <= tm.wake

\* ... which is no later than the deadline d
Covers(tm, d) == d # 0 /\ tm.wake # 0 /\ tm.wake <= d

TmInv ==
    /\ TmTypeOK
    /\ \A c \in TmCpus :
          /\ Fires(timer[c], clock)
          /\ halted[c] \/ runs[c] # "idle" => Armed(timer[c])
          /\ \A t \in List(c) : Covers(timer[c], key[t])

\* arm keeps the wake time and makes the timer fire
LEMMA ArmFacts ==
    ASSUME NEW tm \in Timer, NEW when \in Nat, clock \in Nat \ {0}, Longest \in Nat \ {0}
    PROVE  /\ arm(tm, when) \in Timer
           /\ arm(tm, when).armed = when /\ arm(tm, when).wake = tm.wake
           /\ Fires(arm(tm, when), clock)
<1> DEFINE f == IF when <= clock THEN clock
                ELSE IF when - clock > Longest THEN clock + Longest ELSE when
           a == [tm EXCEPT !.armed = when, !.fires = f]
<1>1. f \in Nat /\ (when # 0 => f # 0 /\ (f <= when \/ f <= clock))
    OBVIOUS
<1> HIDE DEF f
<1>2. /\ a \in Timer /\ a.armed = when /\ a.fires = f /\ a.wake = tm.wake
    BY <1>1 DEF Timer
<1>3. arm(tm, when) = a
    BY DEF arm, f
<1> QED BY <1>1, <1>2, <1>3 DEF Fires

LEMMA EarlierFacts ==
    ASSUME NEW a \in Nat, NEW b \in Nat
    PROVE  /\ earlier(a, b) \in {a, b}
           /\ b # 0 => earlier(a, b) # 0 /\ earlier(a, b) <= b
           /\ a # 0 => earlier(a, b) # 0 /\ earlier(a, b) <= a
BY DEF earlier

\* A non-empty set of numbers has a least one, which is what Min gives
LEMMA MinFacts ==
    ASSUME NEW S \in SUBSET Nat, S # {}
    PROVE  Min(S) \in S /\ \A x \in S : Min(S) <= x
<1> DEFINE R == {ss \in Nat \X Nat : ss[1] < ss[2]}
<1>1. IsWellFoundedOn(R, Nat)
    BY NatLessThanWellFounded, Zenon DEF OpToRel
<1>2. PICK m \in S : \A y \in S : ~ (<<y, m>> \in R)
    <2> HIDE DEF R
    <2> QED BY <1>1, WFMin
<1>3. ASSUME NEW y \in S PROVE m <= y
    <2>1. y \in Nat /\ m \in Nat /\ (y < m => <<y, m>> \in R)
        OBVIOUS
    <2> QED BY <1>2, <2>1
<1> QED BY <1>3 DEF Min

\* timer_sleeper_deadline on a CPU that runs: armed for the new deadline too
LEMMA SleeperFacts ==
    ASSUME NEW tm \in Timer, NEW d \in Nat, clock \in Nat \ {0}, Longest \in Nat \ {0},
           Fires(tm, clock), Armed(tm)
    PROVE  LET n == timer_sleeper_deadline(tm, d) IN
           /\ n \in Timer /\ Fires(n, clock) /\ Armed(n)
           /\ d # 0 => Covers(n, d)
           /\ \A k \in Nat : Covers(tm, k) => Covers(n, k)
<1> DEFINE told == [tm EXCEPT !.wake = earlier(@, d)]
<1>1. CASE d = 0
    BY <1>1 DEF timer_sleeper_deadline
<1>2. CASE d # 0
    <2>1. /\ told \in Timer /\ told.armed = tm.armed /\ told.fires = tm.fires
          /\ told.wake = earlier(tm.wake, d) /\ tm.wake \in Nat
          /\ Fires(told, clock)
        BY EarlierFacts DEF Timer, Fires
    <2>2. told.wake \in Nat \ {0} /\ told.wake <= d /\ (tm.wake # 0 => told.wake <= tm.wake)
        BY <1>2, <2>1, EarlierFacts
    <2>3. CASE tm.armed = 0 \/ d < tm.armed
        <3>1. tm.wake = 0 \/ d <= tm.wake
            BY <2>3 DEF Armed, Timer
        <3>2. told.wake = d
            BY <3>1, <1>2, <2>1 DEF earlier
        <3> HIDE DEF told
        <3>3. timer_sleeper_deadline(tm, d) = arm(told, d)
            BY <1>2, <2>3 DEF timer_sleeper_deadline, told
        <3>4. /\ arm(told, d) \in Timer /\ Fires(arm(told, d), clock)
              /\ arm(told, d).armed = d /\ arm(told, d).wake = d
            BY <2>1, <3>2, ArmFacts
        <3> QED BY <1>2, <2>1, <2>2, <3>1, <3>2, <3>3, <3>4 DEF Covers, Armed
    <2>4. CASE ~(tm.armed = 0 \/ d < tm.armed)
        <3>1. timer_sleeper_deadline(tm, d) = told
            BY <1>2, <2>4 DEF timer_sleeper_deadline
        <3>2. tm.armed # 0 /\ tm.armed <= told.wake
            BY <2>4, <2>1, <1>2, EarlierFacts DEF Armed, Timer
        <3> HIDE DEF told
        <3> QED BY <1>2, <2>1, <2>2, <3>1, <3>2 DEF Covers, Armed
    <2> QED BY <2>3, <2>4
<1> QED BY <1>1, <1>2

\* Off keeps the wake time
LEMMA OffFacts ==
    ASSUME NEW tm \in Timer
    PROVE  /\ Off(tm) \in Timer /\ Off(tm).wake = tm.wake /\ Off(tm).slice = tm.slice
           /\ Off(tm).armed = 0
<1> DEFINE o == [tm EXCEPT !.armed = 0, !.fires = 0]
<1>1. o \in Timer /\ o.wake = tm.wake /\ o.slice = tm.slice /\ o.armed = 0
    BY DEF Timer
<1>2. Off(tm) = o
    BY DEF Off
<1> QED BY <1>1, <1>2

\* timer_cpu_busy: the slice, or a sleeper that is due before
LEMMA BusyFacts ==
    ASSUME NEW tm \in Timer, clock \in Nat \ {0}, {Longest, Slice} \subseteq Nat \ {0}
    PROVE  LET n == timer_cpu_busy(tm) IN
           n \in Timer /\ n.wake = tm.wake /\ Fires(n, clock) /\ Armed(n)
<1> DEFINE s == [tm EXCEPT !.slice = clock + Slice]
           when == earlier(clock + Slice, tm.wake)
<1>1. s \in Timer /\ s.wake = tm.wake /\ tm.wake \in Nat
    BY DEF Timer
<1>2. when \in Nat /\ (tm.wake # 0 => when # 0 /\ when <= tm.wake)
    BY <1>1, EarlierFacts
<1>3. timer_cpu_busy(tm) = arm(s, when)
    BY DEF timer_cpu_busy
<1> HIDE DEF s, when
<1>4. /\ arm(s, when) \in Timer /\ arm(s, when).armed = when
      /\ arm(s, when).wake = s.wake /\ Fires(arm(s, when), clock)
    BY <1>1, <1>2, ArmFacts
<1> QED BY <1>1, <1>2, <1>3, <1>4 DEF Armed

\* timer_cpu_idle: the next sleeper, the console before it, or off
LEMMA IdleFacts ==
    ASSUME NEW tm \in Timer, clock \in Nat \ {0}, {Longest, RefreshGap} \subseteq Nat \ {0},
           lastShown \in Nat, dirty \in BOOLEAN, Fires(tm, clock)
    PROVE  LET n == timer_cpu_idle(tm) IN
           n \in Timer /\ n.wake = tm.wake /\ Fires(n, clock) /\ Armed(n)
<1> DEFINE next == NextThing(tm)
<1>1. tm.wake \in Nat /\ tm.armed \in Nat
    BY DEF Timer
<1>2. next \in Nat /\ (tm.wake # 0 => next # 0 /\ next <= tm.wake)
    BY <1>1, EarlierFacts DEF NextThing
<1> HIDE DEF next
<1>3. CASE next = 0
    <2>1. timer_cpu_idle(tm) = Off(tm)
        BY <1>3 DEF timer_cpu_idle, next
    <2> QED BY <2>1, <1>2, <1>3, OffFacts DEF Armed, Fires
<1>4. CASE next # 0 /\ tm.armed # next
    <2>1. timer_cpu_idle(tm) = arm(tm, next)
        BY <1>4 DEF timer_cpu_idle, next
    <2>2. /\ arm(tm, next) \in Timer /\ arm(tm, next).armed = next
          /\ arm(tm, next).wake = tm.wake /\ Fires(arm(tm, next), clock)
        BY <1>2, ArmFacts
    <2> QED BY <2>1, <2>2, <1>2 DEF Armed
<1>5. CASE next # 0 /\ tm.armed = next
    <2>1. timer_cpu_idle(tm) = tm
        BY <1>5 DEF timer_cpu_idle, next
    <2> QED BY <2>1, <1>2, <1>5 DEF Armed
<1> QED BY <1>3, <1>4, <1>5

\* sched_wake_sleepers: the next time is that of the first left in the list
LEMMA WakeFacts ==
    ASSUME TmInv, NEW c \in TmCpus, NEW tm \in Timer
    PROVE  LET n == wake_sleepers(tm, c) IN
           /\ n \in Timer /\ n.armed = tm.armed /\ n.slice = tm.slice
           /\ \A t \in List(c) \ Due(c) : Covers(n, key[t])
<1> DEFINE left == List(c) \ Due(c)
           keys == {key[t] : t \in left}
           first == IF left = {} THEN 0 ELSE Min(keys)
           n == [tm EXCEPT !.wake = first]
<1>1. \A t \in left : key[t] \in Nat \ {0}
    BY DEF TmInv, TmTypeOK, List, Covers
<1>2. first \in Nat /\ \A t \in left : first # 0 /\ first <= key[t]
    <2>1. CASE left = {}
        BY <2>1
    <2>2. CASE left # {}
        <3>1. keys \in SUBSET Nat /\ keys # {} /\ 0 \notin keys
            BY <1>1, <2>2
        <3>2. \A t \in left : key[t] \in keys
            OBVIOUS
        <3> HIDE DEF keys
        <3>3. Min(keys) \in keys /\ \A x \in keys : Min(keys) <= x
            BY <3>1, MinFacts
        <3> QED BY <2>2, <3>1, <3>2, <3>3
    <2> QED BY <2>1, <2>2
<1>3. wake_sleepers(tm, c) = n
    BY DEF wake_sleepers
<1> HIDE DEF first
<1>4. n \in Timer /\ n.armed = tm.armed /\ n.slice = tm.slice /\ n.wake = first
    BY <1>2 DEF Timer
<1> HIDE DEF n
<1> QED BY <1>1, <1>2, <1>3, <1>4 DEF Covers

\* timer_interrupt: whoever was due is out of the list, the others are covered,
\* and a CPU that runs is armed again
LEMMA InterruptFacts ==
    ASSUME TimersAssumption, TmInv, NEW c \in TmCpus, NEW over \in BOOLEAN
    PROVE  LET n == AfterInterrupt(c, over)
               awake == IF Looks(c) THEN Due(c) ELSE {} IN
           /\ n \in Timer /\ Fires(n, clock)
           /\ runs[c] # "idle" => Armed(n)
           /\ \A t \in List(c) \ awake : Covers(n, key[t])
<1> DEFINE fired == Off(timer[c])
           awake == IF Looks(c) THEN Due(c) ELSE {}
           woken == IF Looks(c) THEN wake_sleepers(fired, c) ELSE fired
           sliced == IF over THEN [woken EXCEPT !.slice = clock + Slice] ELSE woken
           when == earlier(sliced.slice, sliced.wake)
<1>1. timer[c] \in Timer /\ clock \in Nat \ {0} /\ {Slice, Longest} \subseteq Nat \ {0}
    BY DEF TmInv, TmTypeOK, TimersAssumption
<1>2. fired \in Timer /\ fired.wake = timer[c].wake /\ fired.armed = 0
    BY <1>1, OffFacts
<1>3. AfterInterrupt(c, over) = IF runs[c] = "idle" THEN woken ELSE arm(sliced, when)
    BY DEF AfterInterrupt
<1> HIDE DEF fired
<1>4. /\ woken \in Timer /\ woken.armed = 0
      /\ \A t \in List(c) \ awake : Covers(woken, key[t])
    <2>1. CASE Looks(c)
        <3>1. LET n == wake_sleepers(fired, c) IN
              /\ n \in Timer /\ n.armed = fired.armed
              /\ \A t \in List(c) \ Due(c) : Covers(n, key[t])
            BY <1>2, WakeFacts
        <3> QED BY <2>1, <3>1, <1>2
    <2>2. CASE ~Looks(c)
        BY <2>2, <1>2 DEF TmInv, Covers
    <2> QED BY <2>1, <2>2
<1> HIDE DEF woken, awake
<1>5. sliced \in Timer /\ sliced.wake = woken.wake
    BY <1>1, <1>4 DEF Timer
<1>6. when \in Nat /\ (sliced.wake # 0 => when # 0 /\ when <= sliced.wake)
    BY <1>5, EarlierFacts DEF Timer
<1> HIDE DEF sliced, when
<1>7. CASE runs[c] = "idle"
    BY <1>7, <1>3, <1>4 DEF Fires, awake
<1>8. CASE runs[c] # "idle"
    <2>1. /\ arm(sliced, when) \in Timer /\ arm(sliced, when).armed = when
          /\ arm(sliced, when).wake = sliced.wake /\ Fires(arm(sliced, when), clock)
        BY <1>1, <1>5, <1>6, ArmFacts
    <2> QED BY <1>8, <2>1, <1>3, <1>4, <1>5, <1>6 DEF Armed, Covers, awake
<1> QED BY <1>7, <1>8

\* A task goes to sleep, with or without a deadline
LEMMA GoToSleepStep ==
    ASSUME TimersAssumption, TmInv, NEW c \in TmCpus, NEW d \in Nat,
           NEW u \in TmTasks \cup {"idle"}, GoToSleep(c, d, u)
    PROVE  TmInv'
<1> DEFINE t == runs[c]
           n == timer_sleeper_deadline(timer[c], d)
<1>1. t \in TmTasks /\ t # "idle" /\ timer[c] \in Timer /\ clock \in Nat \ {0}
    BY DEF TmInv, TmTypeOK, GoToSleep
<1>2. /\ n \in Timer /\ Fires(n, clock) /\ Armed(n) /\ (d # 0 => Covers(n, d))
      /\ \A k \in Nat : Covers(timer[c], k) => Covers(n, k)
    BY <1>1, SleeperFacts DEF TmInv, TimersAssumption
<1>3. /\ timer' = [timer EXCEPT ![c] = n] /\ key' = [key EXCEPT ![t] = d]
      /\ runs' = [runs EXCEPT ![c] = u]
      /\ asleepOn' = [x \in TmTasks |->
            IF x = t THEN (IF d = 0 THEN "waits" ELSE c)
            ELSE IF x = u THEN "running" ELSE asleepOn[x]]
      /\ UNCHANGED <<clock, halted, dirty, lastShown>>
    BY DEF GoToSleep, SwitchFrom
<1> HIDE DEF n
<1>4. TmTypeOK'
    BY <1>1, <1>2, <1>3 DEF TmInv, TmTypeOK
<1>5. ASSUME NEW e \in TmCpus
      PROVE  /\ Fires(timer'[e], clock)
             /\ halted'[e] \/ runs'[e] # "idle" => Armed(timer'[e])
    BY <1>2, <1>3 DEF TmInv, TmTypeOK
<1>6. ASSUME NEW e \in TmCpus, NEW x \in TmTasks, asleepOn'[x] = e
      PROVE  Covers(timer'[e], key'[x])
    <2>1. CASE x = t
        BY <2>1, <1>2, <1>3, <1>6 DEF TmInv, TmTypeOK, TimersAssumption
    <2>2. CASE x # t
        <3>1. asleepOn[x] = e /\ key'[x] = key[x]
            BY <2>2, <1>3, <1>6 DEF TmInv, TmTypeOK, TimersAssumption
        <3>2. Covers(timer[e], key[x]) /\ key[x] \in Nat
            BY <3>1 DEF TmInv, TmTypeOK, List
        <3> QED BY <3>1, <3>2, <1>2, <1>3 DEF TmInv, TmTypeOK
    <2> QED BY <2>1, <2>2
<1> QED BY <1>3, <1>4, <1>5, <1>6 DEF TmInv, List

\* The idle loop: a task is found, or the CPU sets its timer and halts
LEMMA IdleStep ==
    ASSUME TimersAssumption, TmInv, NEW c \in TmCpus,
           (\E u \in TmTasks : LeaveIdle(c, u)) \/ Halt(c)
    PROVE  TmInv'
<1>1. timer[c] \in Timer /\ clock \in Nat \ {0} /\ Fires(timer[c], clock)
      /\ lastShown \in Nat /\ dirty \in BOOLEAN
    BY DEF TmInv, TmTypeOK
<1>2. PICK n \in Timer : /\ timer' = [timer EXCEPT ![c] = n] /\ n.wake = timer[c].wake
                         /\ Fires(n, clock) /\ Armed(n)
    <2>1. CASE Halt(c)
        BY <2>1, <1>1, IdleFacts DEF Halt, TimersAssumption
    <2>2. CASE \E u \in TmTasks : LeaveIdle(c, u)
        BY <2>2, <1>1, BusyFacts DEF LeaveIdle, TimersAssumption
    <2> QED BY <2>1, <2>2
<1>3. /\ runs' \in [TmCpus -> TmTasks \cup {"idle"}] /\ halted' \in [TmCpus -> BOOLEAN]
      /\ asleepOn' \in [TmTasks -> TmCpus \cup {"ready", "running", "waits"}]
      /\ UNCHANGED <<clock, key, dirty, lastShown>>
    <2>1. CASE Halt(c)
        BY <2>1 DEF TmInv, TmTypeOK, Halt
    <2>2. ASSUME NEW u \in TmTasks, LeaveIdle(c, u) 
          PROVE  /\ runs' \in [TmCpus -> TmTasks \cup {"idle"}]
                 /\ halted' \in [TmCpus -> BOOLEAN]
                 /\ asleepOn' \in [TmTasks -> TmCpus \cup {"ready", "running", "waits"}]
                 /\ UNCHANGED <<clock, key, dirty, lastShown>>
        <3>1. asleepOn' = [x \in TmTasks |-> IF x = u THEN "running" ELSE asleepOn[x]]
            BY <2>2 DEF TimersAssumption, LeaveIdle, SwitchFrom
        <3>2. runs' = [runs EXCEPT ![c] = u] /\ UNCHANGED <<clock, halted, key, dirty, lastShown>>
            BY <2>2 DEF LeaveIdle, SwitchFrom
        <3> QED BY <3>1, <3>2 DEF TmInv, TmTypeOK
    <2> QED BY <2>1, <2>2
<1>4. \A e \in TmCpus \ {c} : runs'[e] = runs[e] /\ halted'[e] = halted[e]
    BY DEF TmInv, TmTypeOK, LeaveIdle, Halt, SwitchFrom
<1>5. \A x \in TmTasks : asleepOn'[x] \in TmCpus => asleepOn'[x] = asleepOn[x]
    BY DEF TmInv, TmTypeOK, TimersAssumption, LeaveIdle, Halt, SwitchFrom
<1>6. TmTypeOK'
    BY <1>2, <1>3 DEF TmInv, TmTypeOK
<1>7. ASSUME NEW e \in TmCpus
      PROVE  /\ Fires(timer'[e], clock)
             /\ halted'[e] \/ runs'[e] # "idle" => Armed(timer'[e])
    BY <1>2, <1>3, <1>4 DEF TmInv, TmTypeOK
<1>8. ASSUME NEW e \in TmCpus, NEW x \in TmTasks, asleepOn'[x] = e
      PROVE  Covers(timer'[e], key'[x])
    <2>1. Covers(timer[e], key[x])
        BY <1>5, <1>8 DEF TmInv, List
    <2> QED BY <2>1, <1>2, <1>3 DEF TmInv, TmTypeOK, Covers
<1> QED BY <1>3, <1>6, <1>7, <1>8 DEF TmInv, List

\* The timer's interrupt
LEMMA InterruptStep ==
    ASSUME TimersAssumption, TmInv, NEW c \in TmCpus, TimerInterrupt(c)
    PROVE  TmInv'
<1> DEFINE over == runs[c] # "idle" /\ clock >= timer[c].slice
           awake == IF Looks(c) THEN Due(c) ELSE {}
           n == AfterInterrupt(c, over)
<1>1. over \in BOOLEAN
    OBVIOUS
<1>2. /\ timer' = [timer EXCEPT ![c] = n]
      /\ asleepOn' = [t \in TmTasks |-> IF t \in awake THEN "ready" ELSE asleepOn[t]]
      /\ key' = [t \in TmTasks |-> IF t \in awake THEN 0 ELSE key[t]]
      /\ UNCHANGED <<clock, runs>>
    BY DEF TimerInterrupt
<1>3. /\ halted' \in [TmCpus -> BOOLEAN] /\ ~halted'[c]
      /\ \A e \in TmCpus : halted'[e] => halted[e]
    BY DEF TimerInterrupt, TmInv, TmTypeOK
<1>4. dirty' \in BOOLEAN /\ lastShown' \in Nat
    BY DEF TimerInterrupt, TmInv, TmTypeOK
<1> HIDE DEF over
<1>5. /\ n \in Timer /\ Fires(n, clock)
      /\ runs[c] # "idle" => Armed(n)
      /\ \A t \in List(c) \ awake : Covers(n, key[t])
    BY <1>1, InterruptFacts
<1>6. awake \subseteq List(c)
    BY DEF Due
<1> HIDE DEF n, awake
<1>7. TmTypeOK'
    BY <1>2, <1>3, <1>4, <1>5 DEF TmInv, TmTypeOK
<1>8. ASSUME NEW e \in TmCpus
      PROVE  /\ Fires(timer'[e], clock)
             /\ halted'[e] \/ runs'[e] # "idle" => Armed(timer'[e])
    BY <1>2, <1>3, <1>5 DEF TmInv, TmTypeOK
<1>9. ASSUME NEW e \in TmCpus, NEW x \in TmTasks, asleepOn'[x] = e
      PROVE  Covers(timer'[e], key'[x])
    <2>1. x \notin awake /\ asleepOn[x] = e /\ key'[x] = key[x]
        BY <1>2, <1>9 DEF TimersAssumption
    <2>2. Covers(timer[e], key[x])
        BY <2>1 DEF TmInv, List
    <2> QED BY <2>1, <2>2, <1>2, <1>5 DEF TmInv, TmTypeOK, List
<1> QED BY <1>2, <1>7, <1>8, <1>9 DEF TmInv, List

\* Wake-ups by others, yields, output and time leave every timer as it is
LEMMA OtherTimerStep ==
    ASSUME TimersAssumption, TmInv,
           \/ \E t \in TmTasks : WakeUp(t)
           \/ \E c \in TmCpus, u \in TmTasks : Yield(c, u)
           \/ \E c \in TmCpus : WriteConsole(c)
           \/ Advance
    PROVE  TmInv'
<1>1. timer' = timer /\ clock' \in Nat \ {0} /\ clock' >= clock
    BY DEF TmInv, TmTypeOK, WakeUp, Yield, WriteConsole, Advance
<1>2. /\ runs' \in [TmCpus -> TmTasks \cup {"idle"}] /\ halted' \in [TmCpus -> BOOLEAN]
      /\ \A e \in TmCpus : /\ halted'[e] => halted[e]
                           /\ runs'[e] # "idle" => runs[e] # "idle"
    BY DEF TmInv, TmTypeOK, WakeUp, Kick, Yield, SwitchFrom, WriteConsole, Advance
<1>3. /\ asleepOn' \in [TmTasks -> TmCpus \cup {"ready", "running", "waits"}]
      /\ key' \in [TmTasks -> Nat] /\ dirty' \in BOOLEAN /\ lastShown' \in Nat
    <2>1. asleepOn' \in [TmTasks -> TmCpus \cup {"ready", "running", "waits"}]
        BY DEF TmInv, TmTypeOK, WakeUp, Yield, SwitchFrom, WriteConsole, Advance
    <2>2. key' \in [TmTasks -> Nat]
        BY DEF TmInv, TmTypeOK, WakeUp, Yield, SwitchFrom, WriteConsole, Advance
    <2>3. dirty' \in BOOLEAN /\ lastShown' \in Nat
        BY DEF TmInv, TmTypeOK, WakeUp, Yield, SwitchFrom, WriteConsole, Advance
    <2> QED BY <2>1, <2>2, <2>3
<1>4. ASSUME NEW x \in TmTasks, asleepOn'[x] \in TmCpus
      PROVE  asleepOn'[x] = asleepOn[x] /\ key'[x] = key[x]
    BY <1>4 DEF TmInv, TmTypeOK, TimersAssumption, WakeUp, Yield, SwitchFrom, WriteConsole, Advance
<1>5. TmTypeOK'
    BY <1>1, <1>2, <1>3 DEF TmInv, TmTypeOK
<1>6. \A e \in TmCpus : Fires(timer'[e], clock')
    BY <1>1 DEF TmInv, TmTypeOK, Timer, Fires
<1> QED BY <1>1, <1>2, <1>4, <1>5, <1>6 DEF TmInv, List

\* No sleep outlasts its deadline for want of an interrupt: a CPU that runs or
\* halts has its timer set for no later than the earliest deadline in its list,
\* for any number of CPUs and sleepers (timer.c, sched_wake_sleepers)
THEOREM DeadlinesHaveTimers ==
    ASSUME TimersAssumption
    PROVE  TmSpec => []DeadlineHasATimer
<1>1. TmInit => TmInv
    <2> SUFFICES ASSUME TmInit PROVE TmInv
        OBVIOUS
    <2>1. TmTypeOK
        <3>1. timer \in [TmCpus -> Timer]
            BY DEF TmInit, Timer
        <3>2. runs \in [TmCpus -> TmTasks \cup {"idle"}] /\ halted \in [TmCpus -> BOOLEAN]
            BY DEF TmInit
        <3>3. /\ asleepOn \in [TmTasks -> TmCpus \cup {"ready", "running", "waits"}]
              /\ key \in [TmTasks -> Nat]
            BY DEF TmInit
        <3>4. dirty \in BOOLEAN
            BY Zenon DEF TmInit
        <3>5. clock \in Nat \ {0} /\ lastShown \in Nat
            BY DEF TmInit
        <3> QED BY <3>1, <3>2, <3>3, <3>4, <3>5 DEF TmTypeOK
    <2>2. ASSUME NEW c \in TmCpus
          PROVE  timer[c].armed = 0 /\ timer[c].wake = 0 /\ List(c) = {}
        BY DEF TimersAssumption, TmInit, List
    <2> QED BY <2>1, <2>2 DEF TmInv, Fires, Armed
<1>2. TmInv /\ [TmNext]_tmVars => TmInv'
    <2> SUFFICES ASSUME TmInv, [TmNext]_tmVars PROVE TmInv'
        OBVIOUS
    <2>1. CASE UNCHANGED tmVars
        BY <2>1 DEF tmVars, TmInv, TmTypeOK, List
    <2>2. CASE TmNext
        <3>1. 0 .. MaxTime \subseteq Nat
            BY DEF TimersAssumption
        <3> QED BY <2>2, <3>1, GoToSleepStep, IdleStep, InterruptStep, OtherTimerStep DEF TmNext
    <2> QED BY <2>1, <2>2
<1>3. TmInv => DeadlineHasATimer
    <2> SUFFICES ASSUME TmInv, NEW c \in TmCpus, halted[c] \/ runs[c] # "idle", NEW t \in List(c)
                 PROVE  timer[c].fires # 0 /\ (timer[c].fires <= key[t] \/ timer[c].fires <= clock)
        BY DEF DeadlineHasATimer
    <2>1. Fires(timer[c], clock) /\ Armed(timer[c]) /\ Covers(timer[c], key[t])
        BY DEF TmInv
    <2>2. timer[c] \in Timer /\ key[t] \in Nat /\ clock \in Nat
        BY DEF TmInv, TmTypeOK, List
    <2> QED BY <2>1, <2>2 DEF Fires, Armed, Covers, Timer
<1> QED BY <1>1, <1>2, <1>3, PTL DEF TmSpec

-----------------------------------------------------------------------------
(* Signals.  What a signal does to the threads of a process, as a function *)
(* of the record that Task makes of their state.                           *)

\* ("none": where a thread would go on that was never stopped)
Places == {"user", "asleep", "awake", "exit", "stopped", "dead", "none"}
Signals == SUBSET (Catchable \cup HandlerMask)

Threads ==
    [at : [SigThreads -> Places], pend : [SigThreads -> SUBSET Catchable],
     kill : [SigThreads -> BOOLEAN], stop : [SigThreads -> BOOLEAN]]

FrameType == [sig : Catchable, blocked : Signals, again : BOOLEAN]

SigTypeOK ==
    /\ Task \in Threads
    /\ blockedSet \in [SigThreads -> Signals]
    /\ stopFrom \in [SigThreads -> {"none", "awake", "exit"}]
    /\ result \in [SigThreads -> {"ok", "EINTR", "none"}]
    /\ sigFrames \in [SigThreads -> Seq(FrameType)]
    /\ action \in [Catchable -> {"DFL", "IGN", "fn", "fnr"}]
    /\ asked \in [SigThreads -> Signals]

\* Thread u does not sleep through anything but the signals of S
SleepsSoundly(w, u, blk, S) ==
    w.at[u] = "asleep" => ~w.kill[u] /\ ~w.stop[u] /\ w.pend[u] \ blk[u] \subseteq S

\* A stopped thread goes on in its call or at the way out of it
GoesOn == stopFrom \in [SigThreads -> {"none", "awake", "exit"}]

\* One thread's place, or what is pending for it, changed
LEMMA PlaceFacts ==
    ASSUME NEW w \in Threads, NEW t \in SigThreads, NEW l \in Places
    PROVE  LET v == [w EXCEPT !.at[t] = l] IN
           /\ v \in Threads /\ v.pend = w.pend /\ v.kill = w.kill /\ v.stop = w.stop
           /\ \A u \in SigThreads : v.at[u] = IF u = t THEN l ELSE w.at[u]
<1> DEFINE a == [w.at EXCEPT ![t] = l]
           v == [w EXCEPT !.at = a]
<1>1. a \in [SigThreads -> Places] /\ \A u \in SigThreads : a[u] = IF u = t THEN l ELSE w.at[u]
    BY DEF Threads
<1>2. [w EXCEPT !.at[t] = l] = v
    OBVIOUS
<1> HIDE DEF a
<1>3. v \in Threads /\ v.at = a /\ v.pend = w.pend /\ v.kill = w.kill /\ v.stop = w.stop
    BY <1>1 DEF Threads
<1> HIDE DEF v
<1> QED BY <1>1, <1>2, <1>3

LEMMA PendFacts ==
    ASSUME NEW w \in Threads, NEW t \in SigThreads, NEW S \in SUBSET Catchable
    PROVE  LET v == [w EXCEPT !.pend[t] = S] IN
           /\ v \in Threads /\ v.at = w.at /\ v.kill = w.kill /\ v.stop = w.stop
           /\ \A u \in SigThreads : v.pend[u] = IF u = t THEN S ELSE w.pend[u]
<1> DEFINE p == [w.pend EXCEPT ![t] = S]
           v == [w EXCEPT !.pend = p]
<1>1. /\ p \in [SigThreads -> SUBSET Catchable]
      /\ \A u \in SigThreads : p[u] = IF u = t THEN S ELSE w.pend[u]
    BY DEF Threads
<1>2. [w EXCEPT !.pend[t] = S] = v
    OBVIOUS
<1> HIDE DEF p
<1>3. v \in Threads /\ v.at = w.at /\ v.pend = p /\ v.kill = w.kill /\ v.stop = w.stop
    BY <1>1 DEF Threads
<1> HIDE DEF v
<1> QED BY <1>1, <1>2, <1>3

LEMMA KillFacts ==
    ASSUME GoesOn, NEW w \in Threads
    PROVE  LET v == request_kill(w) IN
           /\ v \in Threads /\ v.pend = w.pend
           /\ \A u \in SigThreads :
                 /\ v.kill[u] = (w.kill[u] \/ w.at[u] # "dead")
                 /\ v.stop[u] => w.stop[u]
                 /\ v.at[u] = IF w.kill[u] THEN w.at[u] ELSE Woken(w, u)
<1> DEFINE k == [t \in SigThreads |-> w.kill[t] \/ Alive(w, t)]
           s == [t \in SigThreads |-> w.stop[t] /\ (w.kill[t] \/ ~ Alive(w, t))]
           a == [t \in SigThreads |-> IF w.kill[t] THEN w.at[t] ELSE Woken(w, t)]
           v == [w EXCEPT !.kill = k, !.stop = s, !.at = a]
<1>1. w.at \in [SigThreads -> Places]
    BY DEF Threads
<1>2. a \in [SigThreads -> Places]
    BY <1>1 DEF Woken, Places, GoesOn
<1>3. k \in [SigThreads -> BOOLEAN] /\ s \in [SigThreads -> BOOLEAN]
    OBVIOUS
<1>4. request_kill(w) = v
    BY DEF request_kill
<1> HIDE DEF k, s, a
<1>5. v \in Threads /\ v.at = a /\ v.pend = w.pend /\ v.kill = k /\ v.stop = s
    BY <1>2, <1>3 DEF Threads
<1> HIDE DEF v
<1> QED BY <1>4, <1>5 DEF k, s, a, Alive

LEMMA StopFacts ==
    ASSUME GoesOn, NEW w \in Threads
    PROVE  LET v == request_stop(w) IN
           /\ v \in Threads /\ v.pend = w.pend /\ v.kill = w.kill
           /\ \A u \in SigThreads :
                 v.at[u] = IF w.at[u] \notin {"dead", "stopped"} /\ ~ w.kill[u]
                           THEN Woken(w, u) ELSE w.at[u]
<1> DEFINE Told(t) == w.at[t] \notin {"dead", "stopped"} /\ ~ w.kill[t]
           s == [t \in SigThreads |-> w.stop[t] \/ Told(t)]
           a == [t \in SigThreads |-> IF Told(t) THEN Woken(w, t) ELSE w.at[t]]
           v == [w EXCEPT !.stop = s, !.at = a]
<1>1. w.at \in [SigThreads -> Places]
    BY DEF Threads
<1>2. a \in [SigThreads -> Places]
    BY <1>1 DEF Woken, Places, GoesOn
<1>3. s \in [SigThreads -> BOOLEAN]
    OBVIOUS
<1>4. request_stop(w) = v
    BY DEF request_stop
<1> HIDE DEF s, a
<1>5. v \in Threads /\ v.at = a /\ v.pend = w.pend /\ v.kill = w.kill /\ v.stop = s
    BY <1>2, <1>3 DEF Threads
<1> HIDE DEF v
<1> QED BY <1>4, <1>5 DEF a

LEMMA ContinueFacts ==
    ASSUME GoesOn, NEW w \in Threads
    PROVE  LET v == continue_threads(w) IN
           /\ v \in Threads /\ v.pend = w.pend /\ v.kill = w.kill
           /\ \A u \in SigThreads :
                 /\ ~v.stop[u]
                 /\ v.at[u] = IF w.at[u] = "stopped" THEN stopFrom[u] ELSE w.at[u]
<1> DEFINE s == [t \in SigThreads |-> FALSE]
           a == [t \in SigThreads |-> IF w.at[t] = "stopped" THEN Woken(w, t) ELSE w.at[t]]
           v == [w EXCEPT !.stop = s, !.at = a]
<1>1. w.at \in [SigThreads -> Places]
    BY DEF Threads
<1>2. a \in [SigThreads -> Places]
    BY <1>1 DEF Woken, Places, GoesOn
<1>3. s \in [SigThreads -> BOOLEAN]
    OBVIOUS
<1>4. continue_threads(w) = v
    BY DEF continue_threads
<1> HIDE DEF s, a
<1>5. v \in Threads /\ v.at = a /\ v.pend = w.pend /\ v.kill = w.kill /\ v.stop = s
    BY <1>2, <1>3 DEF Threads
<1> HIDE DEF v
<1> QED BY <1>4, <1>5 DEF a, s, Woken

LEMMA DropFacts ==
    ASSUME NEW w \in Threads, NEW S
    PROVE  LET v == drop_pending(w, S) IN
           /\ v \in Threads /\ v.at = w.at /\ v.kill = w.kill /\ v.stop = w.stop
           /\ \A u \in SigThreads : v.pend[u] = w.pend[u] \ S
<1> DEFINE p == [t \in SigThreads |-> w.pend[t] \ S]
           v == [w EXCEPT !.pend = p]
<1>1. p \in [SigThreads -> SUBSET Catchable]
    BY DEF Threads
<1>2. drop_pending(w, S) = v
    BY DEF drop_pending
<1> HIDE DEF p
<1>3. v \in Threads /\ v.at = w.at /\ v.pend = p /\ v.kill = w.kill /\ v.stop = w.stop
    BY <1>1 DEF Threads
<1> HIDE DEF v
<1> QED BY <1>2, <1>3 DEF p

\* Nobody but thread t sleeps through anything, and t through nothing outside S
Soundly(w, t, blk, S) ==
    \A u \in SigThreads : SleepsSoundly(w, u, blk, IF u = t THEN S ELSE {})

\* w came from v without a stop
NoStop(w, v) ==
    \A u \in SigThreads : (w.stop[u] => v.stop[u]) /\ (w.at[u] = "stopped" => v.at[u] = "stopped")

NothingMore(w, v) == \A u \in SigThreads : w.pend[u] \subseteq v.pend[u]

\* A kill leaves nobody asleep
LEMMA KillSound ==
    ASSUME GoesOn, NEW w \in Threads, NEW t \in SigThreads, NEW blk, NEW S, NEW R,
           Soundly(w, t, blk, S)
    PROVE  LET v == request_kill(w) IN
           v \in Threads /\ Soundly(v, t, blk, R) /\ NoStop(v, w) /\ v.pend = w.pend
<1> DEFINE v == request_kill(w)
<1>1. /\ v \in Threads /\ v.pend = w.pend
      /\ \A u \in SigThreads : /\ v.stop[u] => w.stop[u]
                               /\ v.at[u] = IF w.kill[u] THEN w.at[u] ELSE Woken(w, u)
    BY KillFacts
<1> HIDE DEF v
<1>2. ASSUME NEW u \in SigThreads PROVE v.at[u] # "asleep" /\ (v.at[u] = "stopped" => w.at[u] = "stopped")
    BY <1>1 DEF Soundly, SleepsSoundly, Woken, GoesOn
<1> QED BY <1>1, <1>2 DEF Soundly, SleepsSoundly, NoStop, v

\* ... and so does a stop
LEMMA StopSound ==
    ASSUME GoesOn, NEW w \in Threads, NEW t \in SigThreads, NEW blk, NEW S, NEW R,
           Soundly(w, t, blk, S)
    PROVE  LET v == request_stop(w) IN
           v \in Threads /\ Soundly(v, t, blk, R) /\ v.pend = w.pend
<1> DEFINE v == request_stop(w)
<1>1. /\ v \in Threads /\ v.pend = w.pend
      /\ \A u \in SigThreads :
            v.at[u] = IF w.at[u] \notin {"dead", "stopped"} /\ ~ w.kill[u]
                      THEN Woken(w, u) ELSE w.at[u]
    BY StopFacts
<1> HIDE DEF v
<1>2. ASSUME NEW u \in SigThreads PROVE v.at[u] # "asleep"
    BY <1>1 DEF Soundly, SleepsSoundly, Woken, GoesOn
<1> QED BY <1>1, <1>2 DEF Soundly, SleepsSoundly, v

\* One signal is acted on: thread t does not sleep through it any more
LEMMA ActOnSound ==
    ASSUME GoesOn, NEW w \in Threads, NEW t \in SigThreads, NEW blk, NEW S, NEW a,
           NEW s \in Catchable, Soundly(w, t, blk, S)
    PROVE  LET v == act_on(w, t, s, a) IN
           /\ v \in Threads /\ Soundly(v, t, blk, S \ {s}) /\ NothingMore(v, w)
           /\ s # TSTP => NoStop(v, w)
<1> DEFINE taken == [w EXCEPT !.pend[t] = w.pend[t] \ {s}]
<1>1. w.pend[t] \ {s} \in SUBSET Catchable
    BY DEF Threads
<1>2. /\ taken \in Threads /\ taken.at = w.at /\ taken.kill = w.kill /\ taken.stop = w.stop
      /\ \A u \in SigThreads : taken.pend[u] = IF u = t THEN w.pend[t] \ {s} ELSE w.pend[u]
    BY <1>1, PendFacts
<1>3. act_on(w, t, s, a) =
          IF IsHandler(a) THEN interrupt_sleep(w, t)
          ELSE IF Ignored(s, a) THEN taken
          ELSE IF s \in StopSignals THEN request_stop(taken)
          ELSE request_kill(taken)
    BY DEF act_on
<1> HIDE DEF taken
<1>4. Soundly(taken, t, blk, S \ {s}) /\ NothingMore(taken, w) /\ NoStop(taken, w)
    BY <1>2 DEF Soundly, SleepsSoundly, NothingMore, NoStop
<1>5. CASE IsHandler(a)
    <2> DEFINE l == IF w.at[t] = "asleep" THEN "awake" ELSE w.at[t]
               v == [w EXCEPT !.at[t] = l]
    <2>1. l \in Places /\ l # "asleep"
        BY DEF Threads, Places
    <2>2. interrupt_sleep(w, t) = v
        BY DEF interrupt_sleep
    <2>3. /\ v \in Threads /\ v.pend = w.pend /\ v.kill = w.kill /\ v.stop = w.stop
          /\ \A u \in SigThreads : v.at[u] = IF u = t THEN l ELSE w.at[u]
        <3> HIDE DEF l
        <3> QED BY <2>1, PlaceFacts
    <2>4. l = "stopped" => w.at[t] = "stopped"
        OBVIOUS
    <2> HIDE DEF v, l
    <2>5. Soundly(v, t, blk, S \ {s}) /\ NothingMore(v, w) /\ NoStop(v, w)
        BY <2>1, <2>3, <2>4 DEF Soundly, SleepsSoundly, NothingMore, NoStop
    <2> QED BY <1>3, <1>5, <2>2, <2>3, <2>5
<1>6. CASE ~IsHandler(a) /\ Ignored(s, a)
    BY <1>2, <1>3, <1>4, <1>6
<1>7. CASE ~IsHandler(a) /\ ~Ignored(s, a) /\ s \in StopSignals
    <2>1. s = TSTP
        BY <1>7 DEF StopSignals, Catchable, STOP, TSTP, CONT, TERM
    <2>2. LET v == request_stop(taken) IN
          v \in Threads /\ Soundly(v, t, blk, S \ {s}) /\ v.pend = taken.pend
        BY <1>2, <1>4, StopSound
    <2> QED BY <2>1, <2>2, <1>3, <1>4, <1>7 DEF NothingMore
<1>8. CASE ~IsHandler(a) /\ ~Ignored(s, a) /\ s \notin StopSignals
    <2>1. LET v == request_kill(taken) IN
          v \in Threads /\ Soundly(v, t, blk, S \ {s}) /\ NoStop(v, taken) /\ v.pend = taken.pend
        BY <1>2, <1>4, KillSound
    <2> QED BY <2>1, <1>3, <1>4, <1>8 DEF NothingMore, NoStop
<1> QED BY <1>5, <1>6, <1>7, <1>8

\* Nothing is left of the signal that cancels the last of STOP and CONT
Cancelled(w, job) ==
    \A u \in SigThreads :
        /\ job = CONT => w.at[u] # "stopped" /\ ~w.stop[u] /\ TSTP \notin w.pend[u]
        /\ job = STOP => CONT \notin w.pend[u]

\* All that is ready for thread t is acted on: nobody sleeps through anything
LEMMA ActOnPendingSound ==
    ASSUME GoesOn, NEW w \in Threads, NEW t \in SigThreads, NEW blk, NEW acts,
           Soundly(w, t, blk, Catchable)
    PROVE  LET v == act_on_pending(w, t, blk, acts) IN
           /\ v \in Threads /\ Soundly(v, t, blk, {}) /\ NothingMore(v, w)
           /\ TSTP \notin w.pend[t] => NoStop(v, w)
<1> DEFINE ready == w.pend[t] \ blk[t]
           One(v, s) == IF s \in ready THEN act_on(v, t, s, acts[s]) ELSE v
           Good(v, S) == /\ v \in Threads /\ Soundly(v, t, blk, S) /\ NothingMore(v, w)
                         /\ TSTP \notin w.pend[t] => NoStop(v, w)
<1>1. ASSUME NEW v, NEW S, NEW s \in Catchable, Good(v, S)
      PROVE  Good(One(v, s), S \ {s})
    <2>1. CASE s \in ready
        <3> DEFINE x == act_on(v, t, s, acts[s])
        <3>1. /\ x \in Threads /\ Soundly(x, t, blk, S \ {s}) /\ NothingMore(x, v)
              /\ s # TSTP => NoStop(x, v)
            BY <1>1, ActOnSound
        <3>2. One(v, s) = x
            BY <2>1
        <3> HIDE DEF x, One
        <3>3. NothingMore(x, w)
            BY <1>1, <3>1 DEF NothingMore
        <3>4. TSTP \notin w.pend[t] => NoStop(x, w)
            BY <1>1, <2>1, <3>1 DEF NoStop
        <3> QED BY <3>1, <3>2, <3>3, <3>4
    <2>2. CASE s \notin ready
        <3>1. s \notin v.pend[t] \ blk[t]
            BY <1>1, <2>2 DEF NothingMore
        <3>2. Soundly(v, t, blk, S \ {s})
            BY <1>1, <3>1 DEF Soundly, SleepsSoundly
        <3>3. One(v, s) = v
            BY <2>2
        <3> HIDE DEF One
        <3> QED BY <1>1, <3>2, <3>3
    <2> QED BY <2>1, <2>2
<1>2. Good(w, Catchable)
    BY DEF NothingMore, NoStop
<1>3. act_on_pending(w, t, blk, acts) = One(One(One(w, TERM), CONT), TSTP)
    BY DEF act_on_pending
<1>4. TERM \in Catchable /\ CONT \in Catchable /\ TSTP \in Catchable
    BY DEF Catchable
<1>5. ((Catchable \ {TERM}) \ {CONT}) \ {TSTP} = {}
    BY DEF Catchable
<1> HIDE DEF Good, One
<1>6. Good(One(One(One(w, TERM), CONT), TSTP), {})
    <2>1. Good(One(w, TERM), Catchable \ {TERM})
        BY <1>1, <1>2, <1>4
    <2>2. Good(One(One(w, TERM), CONT), (Catchable \ {TERM}) \ {CONT})
        BY <1>1, <2>1, <1>4
    <2>3. Good(One(One(One(w, TERM), CONT), TSTP), ((Catchable \ {TERM}) \ {CONT}) \ {TSTP})
        BY <1>1, <2>2, <1>4
    <2> QED BY <2>3, <1>5
<1> QED BY <1>3, <1>6 DEF Good

\* If there is a thread to receive a signal, it is one of the process
LEMMA ReceiverFacts ==
    ASSUME SignalsAssumption, NEW w, NEW s
    PROVE  receiver(w, s) \in SigThreads \cup {0}
<1> DEFINE live == {t \in SigThreads : Alive(w, t)}
           open == {t \in live : s \notin blockedSet[t]}
           first(S) == CHOOSE t \in S : \A u \in S : t <= u
<1>1. ASSUME NEW S \in SUBSET SigThreads, S # {} PROVE first(S) \in SigThreads
    <2>1. S \subseteq Nat
        BY DEF SignalsAssumption
    <2>2. \E t \in S : \A u \in S : t <= u
        BY <1>1, <2>1, MinFacts
    <2> QED BY <2>2
<1>2. live \in SUBSET SigThreads /\ open \in SUBSET SigThreads
    OBVIOUS
<1>3. receiver(w, s) = IF open # {} THEN first(open) ELSE IF live # {} THEN first(live) ELSE 0
    BY DEF receiver
<1> HIDE DEF live, open, first
<1> QED BY <1>1, <1>2, <1>3

Sound(w) == \A u \in SigThreads : SleepsSoundly(w, u, blockedSet, {})

\* What does not stop anybody or make anything pending cancels nothing back
LEMMA StaysCancelled ==
    ASSUME NEW w, NEW v, NEW job, Cancelled(w, job), NothingMore(v, w), job = CONT => NoStop(v, w)
    PROVE  Cancelled(v, job)
BY DEF Cancelled, NothingMore, NoStop

LEMMA CancelledByName ==
    CONT # STOP /\ CONT # TSTP /\ CONT # KILL /\ CONT # TERM /\ STOP # TSTP /\ STOP # KILL
    /\ STOP # TERM /\ TSTP # TERM /\ TSTP # KILL /\ TERM # KILL
    /\ "none" # CONT /\ "none" # STOP /\ StopSignals = {STOP, TSTP} /\ Catchable = {CONT, TSTP, TERM}
BY DEF CONT, STOP, TSTP, KILL, TERM, StopSignals, Catchable

JobAfter(s, job) == IF s \in {STOP, CONT} THEN s ELSE IF s \in StopSignals THEN "none" ELSE job

\* A signal is given to a thread that is there
LEMMA GiveSound ==
    ASSUME GoesOn, NEW w \in Threads, NEW t \in SigThreads, NEW s \in Catchable, NEW job,
           Sound(w), Cancelled(w, job), job = CONT => s # TSTP, job = STOP => s # CONT
    PROVE  LET v == Give(w, s, t) IN v \in Threads /\ Sound(v) /\ Cancelled(v, job)
<1> DEFINE k == [w EXCEPT !.pend[t] = w.pend[t] \cup {s}]
           v == act_on_pending(k, t, blockedSet, action)
<1>1. w.pend[t] \cup {s} \in SUBSET Catchable
    BY DEF Threads
<1>2. /\ k \in Threads /\ k.at = w.at /\ k.kill = w.kill /\ k.stop = w.stop
      /\ \A u \in SigThreads : k.pend[u] = IF u = t THEN w.pend[t] \cup {s} ELSE w.pend[u]
    BY <1>1, PendFacts
<1>3. Give(w, s, t) = v
    BY DEF Give
<1> HIDE DEF k
<1>4. Soundly(k, t, blockedSet, Catchable)
    BY <1>1, <1>2 DEF Sound, Soundly, SleepsSoundly
<1>5. Cancelled(k, job)
    BY <1>2, CancelledByName DEF Cancelled
<1>6. /\ v \in Threads /\ Soundly(v, t, blockedSet, {}) /\ NothingMore(v, k)
      /\ TSTP \notin k.pend[t] => NoStop(v, k)
    BY <1>2, <1>4, ActOnPendingSound
<1> HIDE DEF v
<1>7. job = CONT => NoStop(v, k)
    BY <1>5, <1>6 DEF Cancelled
<1>8. Cancelled(v, job)
    BY <1>5, <1>6, <1>7, StaysCancelled
<1> QED BY <1>3, <1>6, <1>8 DEF Sound, Soundly

\* signal_send_locked: whatever is sent, nobody sleeps through it, and what it
\* cancels is gone from every thread
LEMMA SendSound ==
    ASSUME SignalsAssumption, GoesOn, NEW w \in Threads, NEW t \in SigThreads,
           NEW s \in Catchable \cup {KILL, STOP}, NEW job, Sound(w), Cancelled(w, job)
    PROVE  LET v == signal_send(w, s) IN
           v \in Threads /\ Sound(v) /\ Cancelled(v, JobAfter(s, job))
<1> DEFINE j == IF s = CONT THEN continue_threads(drop_pending(w, StopSignals))
                ELSE IF s \in StopSignals THEN drop_pending(w, {CONT}) ELSE w
           v == signal_send(w, s)
<1>1. v = IF s = KILL THEN request_kill(w)
          ELSE IF s = STOP THEN request_stop(j)
          ELSE IF Ignored(s, action[s]) \/ receiver(j, s) = 0 THEN j
          ELSE Give(j, s, receiver(j, s))
    BY DEF signal_send
<1>2. s # KILL => j \in Threads /\ Sound(j) /\ Cancelled(j, JobAfter(s, job))
    <2>1. CASE s = CONT
        <3> DEFINE d == drop_pending(w, StopSignals)
                   c == continue_threads(d)
        <3>1. /\ d \in Threads /\ d.at = w.at /\ d.kill = w.kill /\ d.stop = w.stop
              /\ \A u \in SigThreads : d.pend[u] = w.pend[u] \ StopSignals
            BY DropFacts
        <3> HIDE DEF d
        <3>2. /\ c \in Threads /\ c.pend = d.pend /\ c.kill = d.kill
              /\ \A u \in SigThreads :
                    /\ ~c.stop[u]
                    /\ c.at[u] = IF d.at[u] = "stopped" THEN stopFrom[u] ELSE d.at[u]
            BY <3>1, ContinueFacts
        <3> HIDE DEF c
        <3>3. ASSUME NEW u \in SigThreads
              PROVE  /\ c.at[u] # "stopped" /\ (c.at[u] = "asleep" => w.at[u] = "asleep")
                     /\ TSTP \notin c.pend[u] /\ c.pend[u] \subseteq w.pend[u]
            BY <3>1, <3>2, CancelledByName DEF GoesOn
        <3>4. Sound(c)
            BY <3>1, <3>2, <3>3 DEF Sound, SleepsSoundly
        <3>5. Cancelled(c, CONT)
            BY <3>2, <3>3, CancelledByName DEF Cancelled
        <3>6. j = c /\ JobAfter(s, job) = CONT
            BY <2>1 DEF c, d, JobAfter
        <3> HIDE DEF j
        <3> QED BY <3>2, <3>4, <3>5, <3>6
    <2>2. CASE s \in StopSignals
        <3> DEFINE d == drop_pending(w, {CONT})
        <3>1. /\ d \in Threads /\ d.at = w.at /\ d.kill = w.kill /\ d.stop = w.stop
              /\ \A u \in SigThreads : d.pend[u] = w.pend[u] \ {CONT}
            BY DropFacts
        <3>2. j = d /\ JobAfter(s, job) \in {STOP, "none"}
            BY <2>2, CancelledByName DEF JobAfter
        <3> HIDE DEF d, j
        <3>3. Sound(d) /\ Cancelled(d, STOP) /\ Cancelled(d, "none")
            BY <3>1, CancelledByName DEF Sound, SleepsSoundly, Cancelled
        <3> QED BY <3>1, <3>2, <3>3
    <2>3. CASE s # CONT /\ s \notin StopSignals
        BY <2>3, CancelledByName DEF JobAfter
    <2> QED BY <2>1, <2>2, <2>3
<1> HIDE DEF j
<1>3. CASE s = KILL
    <2>1. Soundly(w, t, blockedSet, {})
        BY DEF Sound, Soundly
    <2> DEFINE k == request_kill(w)
    <2>2. k \in Threads /\ Soundly(k, t, blockedSet, {}) /\ NoStop(k, w) /\ k.pend = w.pend
        BY <2>1, KillSound
    <2>3. v = k /\ JobAfter(s, job) = job
        BY <1>1, <1>3, CancelledByName DEF JobAfter
    <2> HIDE DEF k, v
    <2>4. NothingMore(k, w)
        BY <2>2 DEF NothingMore
    <2>5. Cancelled(k, job)
        BY <2>2, <2>4, StaysCancelled
    <2>6. Sound(k)
        BY <2>2 DEF Sound, Soundly
    <2> QED BY <2>2, <2>3, <2>5, <2>6 DEF v
<1>4. CASE s = STOP
    <2> DEFINE k == request_stop(j)
    <2>1. j \in Threads /\ Sound(j) /\ Cancelled(j, STOP) /\ JobAfter(s, job) = STOP
        BY <1>2, <1>4, CancelledByName DEF JobAfter
    <2>2. Soundly(j, t, blockedSet, {})
        BY <2>1 DEF Sound, Soundly
    <2>3. k \in Threads /\ Soundly(k, t, blockedSet, {}) /\ k.pend = j.pend
        BY <2>1, <2>2, StopSound
    <2>4. v = k
        BY <1>1, <1>4, CancelledByName
    <2> HIDE DEF k, v
    <2>5. Cancelled(k, STOP)
        BY <2>1, <2>3, CancelledByName DEF Cancelled
    <2>6. Sound(k)
        BY <2>3 DEF Sound, Soundly
    <2> QED BY <2>1, <2>3, <2>4, <2>5, <2>6 DEF v
<1>5. CASE s # KILL /\ s # STOP
    <2> DEFINE r == receiver(j, s)
    <2>1. s \in Catchable
        BY <1>5
    <2>2. CASE Ignored(s, action[s]) \/ r = 0
        BY <1>1, <1>2, <1>5, <2>2
    <2>3. CASE ~(Ignored(s, action[s]) \/ r = 0)
        <3>1. r \in SigThreads
            BY <2>3, ReceiverFacts
        <3>2. v = Give(j, s, r)
            BY <1>1, <1>5, <2>3
        <3>3. (JobAfter(s, job) = CONT => s # TSTP) /\ (JobAfter(s, job) = STOP => s # CONT)
            BY CancelledByName DEF JobAfter
        <3> DEFINE g == Give(j, s, r)
        <3> HIDE DEF v, r
        <3>4. g \in Threads /\ Sound(g) /\ Cancelled(g, JobAfter(s, job))
            BY <1>2, <1>5, <2>1, <3>1, <3>3, GiveSound
        <3> QED BY <3>2, <3>4 DEF v
    <2> QED BY <2>2, <2>3
<1> QED BY <1>3, <1>4, <1>5


\* What the signal code keeps of the types of its state, the threads' apart
RestOK ==
    /\ blockedSet \in [SigThreads -> Signals]
    /\ stopFrom \in [SigThreads -> {"none", "awake", "exit"}]
    /\ result \in [SigThreads -> {"ok", "EINTR", "none"}]
    /\ sigFrames \in [SigThreads -> Seq(FrameType)]
    /\ action \in [Catchable -> {"DFL", "IGN", "fn", "fnr"}]
    /\ asked \in [SigThreads -> Signals]

\* The inductive invariant of the two properties about sending
SigInv == SigTypeOK /\ Sound(Task) /\ Cancelled(Task, lastJob)

LEMMA TaskFacts ==
    ASSUME SigInv
    PROVE  /\ Task \in Threads /\ Task.at = at /\ Task.pend = pendingSet /\ Task.kill = killP
           /\ Task.stop = stopP /\ GoesOn /\ RestOK
           /\ at \in [SigThreads -> Places] /\ pendingSet \in [SigThreads -> SUBSET Catchable]
           /\ killP \in [SigThreads -> BOOLEAN] /\ stopP \in [SigThreads -> BOOLEAN]
BY DEF SigInv, SigTypeOK, Task, Threads, GoesOn, RestOK

\* The invariant holds of a state whose threads are as w says
LEMMA Onward ==
    ASSUME NEW w \in Threads, Becomes(w), RestOK', Cancelled(w, lastJob'),
           \A u \in SigThreads : SleepsSoundly(w, u, blockedSet', {})
    PROVE  SigInv'
<1>1. /\ w.at \in [SigThreads -> Places] /\ w.pend \in [SigThreads -> SUBSET Catchable]
      /\ w.kill \in [SigThreads -> BOOLEAN] /\ w.stop \in [SigThreads -> BOOLEAN]
    BY DEF Threads
<1>2. /\ Task' = [at |-> w.at, pend |-> w.pend, kill |-> w.kill, stop |-> w.stop]
    BY DEF Becomes, Task
<1>3. (Task \in Threads)'
    BY <1>1, <1>2 DEF Threads
<1>4. Sound(Task)' /\ Cancelled(Task, lastJob)'
    BY <1>2 DEF Sound, SleepsSoundly, Cancelled
<1> QED BY <1>3, <1>4 DEF SigInv, SigTypeOK, RestOK

LEMMA SendStep ==
    ASSUME SignalsAssumption, SigInv, NEW s \in Catchable \cup {KILL, STOP}, Send(s)
    PROVE  SigInv'
<1> DEFINE w == signal_send(Task, s)
<1>1. PICK t \in SigThreads : at[t] # "dead"
    BY DEF Send
<1>2. Task \in Threads /\ Sound(Task) /\ Cancelled(Task, lastJob) /\ GoesOn /\ RestOK
    BY TaskFacts DEF SigInv
<1>3. w \in Threads /\ Sound(w) /\ Cancelled(w, JobAfter(s, lastJob))
    BY <1>1, <1>2, SendSound
<1>4. Becomes(w) /\ lastJob' = JobAfter(s, lastJob)
    BY DEF Send, JobAfter
<1>5. UNCHANGED <<blockedSet, stopFrom, result, sigFrames, action, asked>>
    BY DEF Send
<1> HIDE DEF w
<1>6. RestOK'
    BY <1>2, <1>5 DEF RestOK
<1>7. \A u \in SigThreads : SleepsSoundly(w, u, blockedSet', {})
    BY <1>3, <1>5 DEF Sound
<1> QED BY <1>3, <1>4, <1>6, <1>7, Onward

\* One thread goes to a place that is neither asleep nor stopped
LEMMA GoesTo ==
    ASSUME NEW w \in Threads, NEW t \in SigThreads, NEW l \in Places \ {"asleep", "stopped"},
           NEW blk, NEW job, Cancelled(w, job),
           \A u \in SigThreads \ {t} : SleepsSoundly(w, u, blk, {})
    PROVE  LET v == [w EXCEPT !.at[t] = l] IN
           v \in Threads /\ Cancelled(v, job) /\ \A u \in SigThreads : SleepsSoundly(v, u, blk, {})
<1> DEFINE v == [w EXCEPT !.at[t] = l]
<1>1. /\ v \in Threads /\ v.pend = w.pend /\ v.kill = w.kill /\ v.stop = w.stop
      /\ \A u \in SigThreads : v.at[u] = IF u = t THEN l ELSE w.at[u]
    BY PlaceFacts
<1> HIDE DEF v
<1>2. Cancelled(v, job)
    BY <1>1 DEF Cancelled
<1>3. \A u \in SigThreads : SleepsSoundly(v, u, blk, {})
    BY <1>1 DEF SleepsSoundly
<1> QED BY <1>1, <1>2, <1>3 DEF v

\* A thread in user code changes its mask, or what its signals do, and acts on
\* what is due then
LEMMA MaskSound ==
    ASSUME SigInv, NEW t \in SigThreads, at[t] = "user", NEW blk, NEW acts, NEW l \in {"exit", "awake"},
           \A u \in SigThreads \ {t} : blk[u] = blockedSet[u]
    PROVE  LET v == [act_on_pending(Task, t, blk, acts) EXCEPT !.at[t] = l] IN
           /\ v \in Threads /\ Cancelled(v, lastJob)
           /\ \A u \in SigThreads : SleepsSoundly(v, u, blk, {})
<1> DEFINE v == act_on_pending(Task, t, blk, acts)
<1>1. /\ Task \in Threads /\ Sound(Task) /\ Cancelled(Task, lastJob) /\ GoesOn
      /\ Task.at = at /\ Task.pend = pendingSet
    BY TaskFacts DEF SigInv
<1>2. Soundly(Task, t, blk, Catchable)
    BY <1>1 DEF Sound, Soundly, SleepsSoundly
<1>3. /\ v \in Threads /\ Soundly(v, t, blk, {}) /\ NothingMore(v, Task)
      /\ TSTP \notin Task.pend[t] => NoStop(v, Task)
    BY <1>1, <1>2, ActOnPendingSound
<1> HIDE DEF v
<1>4. Cancelled(v, lastJob)
    <2>1. lastJob = CONT => TSTP \notin Task.pend[t]
        BY <1>1 DEF Cancelled
    <2> QED BY <1>1, <1>3, <2>1, StaysCancelled
<1>5. \A u \in SigThreads \ {t} : SleepsSoundly(v, u, blk, {})
    BY <1>3 DEF Soundly
<1>6. l \in Places \ {"asleep", "stopped"}
    BY DEF Places
<1>7. LET x == [v EXCEPT !.at[t] = l] IN
      x \in Threads /\ Cancelled(x, lastJob) /\ \A u \in SigThreads : SleepsSoundly(x, u, blk, {})
    BY <1>3, <1>4, <1>5, <1>6, GoesTo
<1> QED BY <1>7 DEF v

\* A thread ends its process and itself
LEMMA DeathSound ==
    ASSUME GoesOn, NEW w \in Threads, NEW t \in SigThreads, NEW job, Sound(w), Cancelled(w, job)
    PROVE  LET v == [request_kill(w) EXCEPT !.at[t] = "dead", !.pend[t] = {}] IN
           v \in Threads /\ Cancelled(v, job) /\ Sound(v)
<1> DEFINE k == request_kill(w)
           x == [k EXCEPT !.at[t] = "dead"]
           v == [x EXCEPT !.pend[t] = {}]
<1>1. Soundly(w, t, blockedSet, {})
    BY DEF Sound, Soundly
<1>2. k \in Threads /\ Soundly(k, t, blockedSet, {}) /\ NoStop(k, w) /\ k.pend = w.pend
    BY <1>1, KillSound
<1>3. Cancelled(k, job)
    BY <1>2, StaysCancelled DEF NothingMore
<1>4. [request_kill(w) EXCEPT !.at[t] = "dead", !.pend[t] = {}] = v
    OBVIOUS
<1> HIDE DEF k
<1>5. "dead" \in Places \ {"asleep", "stopped"} /\ {} \in SUBSET Catchable
    BY DEF Places
<1>6. \A u \in SigThreads \ {t} : SleepsSoundly(k, u, blockedSet, {})
    BY <1>2 DEF Soundly
<1>7. x \in Threads /\ Cancelled(x, job) /\ \A u \in SigThreads : SleepsSoundly(x, u, blockedSet, {})
    BY <1>2, <1>3, <1>5, <1>6, GoesTo
<1> HIDE DEF x
<1>8. /\ v \in Threads /\ v.at = x.at /\ v.kill = x.kill /\ v.stop = x.stop
      /\ \A u \in SigThreads : v.pend[u] = IF u = t THEN {} ELSE x.pend[u]
    BY <1>5, <1>7, PendFacts
<1> HIDE DEF v
<1>9. Sound(v) /\ Cancelled(v, job)
    BY <1>7, <1>8 DEF Sound, SleepsSoundly, Cancelled
<1> QED BY <1>4, <1>8, <1>9


LEMMA DieStep ==
    ASSUME SigInv, NEW t \in SigThreads, Die(t)
    PROVE  SigInv'
<1> DEFINE v == [request_kill(Task) EXCEPT !.at[t] = "dead", !.pend[t] = {}]
<1>1. Task \in Threads /\ Sound(Task) /\ Cancelled(Task, lastJob) /\ GoesOn /\ RestOK
    BY TaskFacts DEF SigInv
<1>2. v \in Threads /\ Cancelled(v, lastJob) /\ Sound(v)
    BY <1>1, DeathSound
<1>3. Becomes(v) /\ UNCHANGED <<blockedSet, stopFrom, result, sigFrames, action, asked, lastJob>>
    BY DEF Die
<1> HIDE DEF v
<1>4. RestOK'
    BY <1>1, <1>3 DEF RestOK
<1>5. \A u \in SigThreads : SleepsSoundly(v, u, blockedSet', {})
    BY <1>2, <1>3 DEF Sound
<1> QED BY <1>2, <1>3, <1>4, <1>5, Onward

\* One thread moves, nothing else of it changes but a stop that is now done
LEMMA MoveStep ==
    ASSUME SigInv, NEW t \in SigThreads, NEW l \in Places, at' = [at EXCEPT ![t] = l], RestOK',
           UNCHANGED <<blockedSet, pendingSet, killP, lastJob>>,
           stopP' \in {stopP, [stopP EXCEPT ![t] = FALSE]},
           l = "stopped" => stopP[t],
           l = "asleep" => ~killP[t] /\ ~stopP[t] /\ pendingSet[t] \ blockedSet[t] = {}
    PROVE  SigInv'
<1>1. /\ at \in [SigThreads -> Places] /\ pendingSet \in [SigThreads -> SUBSET Catchable]
      /\ killP \in [SigThreads -> BOOLEAN] /\ stopP \in [SigThreads -> BOOLEAN]
      /\ Task.at = at /\ Task.pend = pendingSet /\ Task.kill = killP /\ Task.stop = stopP
    BY TaskFacts
<1>2. at' \in [SigThreads -> Places] /\ stopP' \in [SigThreads -> BOOLEAN]
    BY <1>1
<1>3. /\ Task'.at = at' /\ Task'.pend = pendingSet /\ Task'.kill = killP /\ Task'.stop = stopP'
      /\ Task' \in Threads
    BY <1>1, <1>2 DEF Task, Threads
<1>4. ASSUME NEW u \in SigThreads
      PROVE  (stopP'[u] => stopP[u]) /\ at'[u] = IF u = t THEN l ELSE at[u]
    BY <1>1
<1>5. Sound(Task)'
    BY <1>1, <1>3, <1>4 DEF SigInv, Sound, SleepsSoundly
<1>6. Cancelled(Task, lastJob)'
    BY <1>1, <1>3, <1>4 DEF SigInv, Cancelled
<1> QED BY <1>3, <1>5, <1>6 DEF SigInv, SigTypeOK, RestOK

LEMMA StopHereStep ==
    ASSUME SigInv, NEW t \in SigThreads, NEW from \in {"awake", "exit"}, stopP[t], StopHere(t, from)
    PROVE  SigInv'
<1>1. RestOK
    BY TaskFacts
<1>2. RestOK'
    BY <1>1 DEF RestOK, StopHere
<1> QED BY <1>2, MoveStep DEF StopHere, Places

LEMMA LeaveStep ==
    ASSUME SigInv, NEW t \in SigThreads, NEW r \in {"ok", "EINTR", "none"}, Leave(t, r)
    PROVE  SigInv'
<1>1. RestOK
    BY TaskFacts
<1>2. RestOK'
    BY <1>1 DEF RestOK, Leave
<1> QED BY <1>2, MoveStep DEF Leave, Places

\* A call, its wait loop, and what ends a sleep
LEMMA CallStep ==
    ASSUME SigInv, NEW t \in SigThreads,
           Call(t) \/ Ready(t) \/ Interrupted(t) \/ Sleep(t) \/ Wake(t) \/ Interrupt(t)
    PROVE  SigInv'
<1>1. RestOK
    BY TaskFacts
<1>2. CASE Call(t)
    <2>1. RestOK'
        BY <1>1, <1>2 DEF RestOK, Call
    <2> QED BY <2>1, <1>2, MoveStep DEF Call, Places
<1>3. CASE Ready(t) \/ Interrupted(t) \/ Interrupt(t)
    BY <1>3, LeaveStep DEF Ready, Interrupted, Interrupt
<1>4. CASE Wake(t)
    <2>1. RestOK'
        BY <1>1, <1>4 DEF RestOK, Wake
    <2> QED BY <2>1, <1>4, MoveStep DEF Wake, Places
<1>5. CASE Sleep(t)
    <2>1. CASE MaySleep(t) /\ at' = [at EXCEPT ![t] = "asleep"]
               /\ UNCHANGED <<blockedSet, pendingSet, killP, stopP, stopFrom, result, sigFrames, action, asked, lastJob, sigCount>>
        <3>1. RestOK'
            BY <1>1, <2>1 DEF RestOK
        <3> QED BY <3>1, <2>1, MoveStep DEF MaySleep, Deliverable, Places
    <2> QED BY <1>5, <2>1, DieStep, StopHereStep DEF Sleep
<1> QED BY <1>2, <1>3, <1>4, <1>5, (Call(t) \/ Ready(t) \/ Interrupted(t) \/ Sleep(t) \/ Wake(t) \/ Interrupt(t))

LEMMA SetActionStep ==
    ASSUME SigInv, NEW t \in SigThreads, NEW s \in Catchable, NEW a \in {"DFL", "IGN", "fn", "fnr"},
           SetAction(t, s, a)
    PROVE  SigInv'
<1> DEFINE w == IF Ignored(s, a) THEN drop_pending(Task, {s}) ELSE Task
           v == [w EXCEPT !.at[t] = "exit"]
<1>1. Task \in Threads /\ Sound(Task) /\ Cancelled(Task, lastJob) /\ RestOK
    BY TaskFacts DEF SigInv
<1>2. w \in Threads /\ Sound(w) /\ Cancelled(w, lastJob)
    <2>1. LET d == drop_pending(Task, {s}) IN
          /\ d \in Threads /\ d.at = Task.at /\ d.kill = Task.kill /\ d.stop = Task.stop
          /\ \A u \in SigThreads : d.pend[u] = Task.pend[u] \ {s}
        BY <1>1, DropFacts
    <2>2. LET d == drop_pending(Task, {s}) IN Sound(d) /\ Cancelled(d, lastJob)
        BY <1>1, <2>1 DEF Sound, SleepsSoundly, Cancelled
    <2> QED BY <1>1, <2>1, <2>2
<1>3. /\ Becomes(v) /\ UNCHANGED <<blockedSet, stopFrom, sigFrames, asked, lastJob>>
      /\ action' = [action EXCEPT ![s] = a] /\ result' = [result EXCEPT ![t] = "ok"]
    BY DEF SetAction
<1>4. RestOK'
    BY <1>1, <1>3 DEF RestOK
<1> HIDE DEF w
<1>5. "exit" \in Places \ {"asleep", "stopped"} /\ \A u \in SigThreads \ {t} : SleepsSoundly(w, u, blockedSet, {})
    BY <1>2 DEF Places, Sound
<1>6. v \in Threads /\ Cancelled(v, lastJob) /\ \A u \in SigThreads : SleepsSoundly(v, u, blockedSet, {})
    BY <1>2, <1>5, GoesTo
<1> HIDE DEF v
<1> QED BY <1>3, <1>4, <1>6, Onward

LEMMA ChangeMaskStep ==
    ASSUME SigInv, NEW t \in SigThreads, NEW set \in SUBSET Catchable, ChangeMask(t, set)
    PROVE  SigInv'
<1> DEFINE blk == [blockedSet EXCEPT ![t] = set]
           v == [act_on_pending(Task, t, blk, action) EXCEPT !.at[t] = "exit"]
<1>1. RestOK
    BY TaskFacts
<1>2. /\ Becomes(v) /\ blockedSet' = blk /\ asked' = [asked EXCEPT ![t] = set] /\ at[t] = "user"
      /\ result' = [result EXCEPT ![t] = "ok"] /\ UNCHANGED <<stopFrom, sigFrames, action, lastJob>>
    BY DEF ChangeMask, Mask, InUser
<1>3. RestOK'
    BY <1>1, <1>2 DEF RestOK, Signals
<1>4. \A u \in SigThreads \ {t} : blk[u] = blockedSet[u]
    BY <1>1 DEF RestOK
<1> HIDE DEF blk
<1>5. v \in Threads /\ Cancelled(v, lastJob) /\ \A u \in SigThreads : SleepsSoundly(v, u, blk, {})
    BY <1>2, <1>4, MaskSound
<1> HIDE DEF v
<1> QED BY <1>2, <1>3, <1>5, Onward

LEMMA ExecStep ==
    ASSUME SigInv, NEW t \in SigThreads, Exec(t)
    PROVE  SigInv'
<1> DEFINE acts == [s \in Catchable |-> IF action[s] = "IGN" THEN "IGN" ELSE "DFL"]
           v == [act_on_pending(Task, t, blockedSet, acts) EXCEPT !.at[t] = "exit"]
<1>1. RestOK
    BY TaskFacts
<1>2. /\ Becomes(v) /\ at[t] = "user" /\ sigFrames' = [sigFrames EXCEPT ![t] = <<>>]
      /\ asked' = [asked EXCEPT ![t] = blockedSet[t]] /\ action' = acts
      /\ UNCHANGED <<blockedSet, stopFrom, result, lastJob>>
    BY DEF Exec, InUser
<1>3. RestOK'
    BY <1>1, <1>2 DEF RestOK
<1> HIDE DEF acts
<1>4. v \in Threads /\ Cancelled(v, lastJob) /\ \A u \in SigThreads : SleepsSoundly(v, u, blockedSet, {})
    BY <1>2, MaskSound
<1> HIDE DEF v
<1> QED BY <1>2, <1>3, <1>4, Onward

LEMMA SigReturnStep ==
    ASSUME SigInv, NEW t \in SigThreads, SigReturn(t)
    PROVE  SigInv'
<1> DEFINE f == Head(sigFrames[t])
           l == IF f.again THEN "awake" ELSE "exit"
           blk == [blockedSet EXCEPT ![t] = f.blocked]
           v == [act_on_pending(Task, t, blk, action) EXCEPT !.at[t] = l]
<1>1. RestOK
    BY TaskFacts
<1>2. /\ Becomes(v) /\ at[t] = "user" /\ sigFrames[t] # <<>>
      /\ sigFrames' = [sigFrames EXCEPT ![t] = Tail(sigFrames[t])] /\ blockedSet' = blk
      /\ UNCHANGED <<stopFrom, result, action, asked, lastJob>>
    BY DEF SigReturn, InUser, Mask
<1>3. f \in FrameType /\ Tail(sigFrames[t]) \in Seq(FrameType)
    BY <1>1, <1>2 DEF RestOK
<1>4. f.blocked \in Signals
    BY <1>3 DEF FrameType
<1>5. RestOK'
    <2> HIDE DEF f
    <2>1. blockedSet' \in [SigThreads -> Signals]
        BY <1>1, <1>2, <1>4 DEF RestOK
    <2>2. sigFrames' \in [SigThreads -> Seq(FrameType)]
        BY <1>1, <1>2, <1>3 DEF RestOK
    <2> QED BY <1>1, <1>2, <2>1, <2>2 DEF RestOK
<1>6. \A u \in SigThreads \ {t} : blk[u] = blockedSet[u]
    BY <1>1 DEF RestOK
<1>7. l \in {"exit", "awake"}
    OBVIOUS
<1> HIDE DEF blk, l, f
<1>8. v \in Threads /\ Cancelled(v, lastJob) /\ \A u \in SigThreads : SleepsSoundly(v, u, blk, {})
    BY <1>2, <1>6, <1>7, MaskSound
<1> HIDE DEF v
<1> QED BY <1>2, <1>5, <1>8, Onward

LEMMA ThreadExitStep ==
    ASSUME SigInv, NEW t \in SigThreads, ThreadExit(t)
    PROVE  SigInv'
<1> DEFINE v == [Task EXCEPT !.at[t] = "dead", !.pend[t] = {}, !.stop[t] = FALSE]
<1>1. /\ Task \in Threads /\ Sound(Task) /\ Cancelled(Task, lastJob) /\ RestOK
      /\ Task.at = at /\ Task.pend = pendingSet /\ Task.kill = killP /\ Task.stop = stopP
      /\ at \in [SigThreads -> Places] /\ pendingSet \in [SigThreads -> SUBSET Catchable]
      /\ killP \in [SigThreads -> BOOLEAN] /\ stopP \in [SigThreads -> BOOLEAN]
    BY TaskFacts DEF SigInv
<1>2. Becomes(v) /\ UNCHANGED <<blockedSet, stopFrom, result, sigFrames, action, asked, lastJob>>
    BY DEF ThreadExit
<1> DEFINE a == [at EXCEPT ![t] = "dead"]
           p == [pendingSet EXCEPT ![t] = {}]
           s == [stopP EXCEPT ![t] = FALSE]
           x == [Task EXCEPT !.at = a, !.pend = p, !.stop = s]
<1>3. v = x
    BY <1>1
<1>5. a \in [SigThreads -> Places] /\ p \in [SigThreads -> SUBSET Catchable] /\ s \in [SigThreads -> BOOLEAN]
    BY <1>1 DEF Places
<1> HIDE DEF a, p, s
<1>6. x \in Threads /\ x.at = a /\ x.pend = p /\ x.stop = s /\ x.kill = killP
    BY <1>1, <1>5 DEF Threads
<1> HIDE DEF v, x
<1>7. RestOK'
    BY <1>1, <1>2 DEF RestOK
<1>8. Cancelled(v, lastJob)
    BY <1>1, <1>3, <1>6 DEF Cancelled, a, p, s
<1>9. \A u \in SigThreads : SleepsSoundly(v, u, blockedSet, {})
    <2> SUFFICES ASSUME NEW u \in SigThreads, v.at[u] = "asleep"
                 PROVE  ~v.kill[u] /\ ~v.stop[u] /\ v.pend[u] \ blockedSet[u] \subseteq {}
        BY DEF SleepsSoundly
    <2>1. u # t /\ at[u] = "asleep" /\ v.pend[u] = pendingSet[u] /\ v.stop[u] = stopP[u]
        BY <1>1, <1>3, <1>6 DEF a, p, s
    <2> QED BY <1>1, <1>3, <1>6, <2>1 DEF Sound, SleepsSoundly
<1> QED BY <1>2, <1>3, <1>6, <1>7, <1>8, <1>9, Onward


\* The signal delivered first is one of those that are ready
LEMMA LowestFacts ==
    ASSUME NEW S \in SUBSET Catchable, S # {}
    PROVE  Lowest(S) \in S
<1> DEFINE P(s) == \A u \in S : \E i, j \in 1 .. Len(SigOrder) :
                       SigOrder[i] = s /\ SigOrder[j] = u /\ i <= j
<1>1. /\ Len(SigOrder) = 3 /\ SigOrder[1] = TERM /\ SigOrder[2] = CONT /\ SigOrder[3] = TSTP
      /\ 1 .. 3 = {1, 2, 3}
    BY DEF SigOrder
<1>2. ASSUME NEW u \in S PROVE u = TERM \/ u = CONT \/ u = TSTP
    BY DEF Catchable
<1>3. CASE TERM \in S
    <2>1. P(TERM)
        BY <1>1, <1>2
    <2> QED BY <1>3, <2>1 DEF Lowest
<1>4. CASE TERM \notin S /\ CONT \in S
    <2>1. P(CONT)
        BY <1>1, <1>2, <1>4
    <2> QED BY <1>4, <2>1 DEF Lowest
<1>5. CASE TERM \notin S /\ CONT \notin S
    <2>1. TSTP \in S
        BY <1>2, <1>5
    <2>2. P(TSTP)
        BY <1>1, <1>2, <1>5
    <2> QED BY <2>1, <2>2 DEF Lowest
<1> QED BY <1>3, <1>4, <1>5

\* The way out to user code: die, stop, or have a signal delivered
LEMMA SafePointStep ==
    ASSUME SigInv, NEW t \in SigThreads, SafePoint(t)
    PROVE  SigInv'
<1>1. CASE killP[t] /\ Die(t)
    BY <1>1, DieStep
<1>2. CASE ~killP[t] /\ stopP[t] /\ StopHere(t, "exit")
    BY <1>2, StopHereStep
<1>3. CASE /\ ~killP[t] /\ ~stopP[t] /\ signal_deliver(t)
           /\ result' = [result EXCEPT ![t] = "none"]
           /\ UNCHANGED <<stopFrom, action, asked, lastJob, sigCount>>
    <2> DEFINE ready == pendingSet[t] \ blockedSet[t]
               s == Lowest(ready)
               taken == [Task EXCEPT !.pend[t] = pendingSet[t] \ {s}]
    <2>1. /\ Task \in Threads /\ Sound(Task) /\ Cancelled(Task, lastJob) /\ RestOK /\ GoesOn
          /\ Task.at = at /\ Task.pend = pendingSet /\ Task.kill = killP /\ Task.stop = stopP
          /\ at \in [SigThreads -> Places] /\ pendingSet \in [SigThreads -> SUBSET Catchable]
          /\ killP \in [SigThreads -> BOOLEAN] /\ stopP \in [SigThreads -> BOOLEAN]
        BY TaskFacts DEF SigInv
    <2>2. ready \in SUBSET Catchable /\ pendingSet[t] \ {s} \in SUBSET Catchable
        BY <2>1
    <2>3. /\ taken \in Threads /\ taken.at = at /\ taken.kill = killP /\ taken.stop = stopP
          /\ \A u \in SigThreads : taken.pend[u] = IF u = t THEN pendingSet[t] \ {s} ELSE pendingSet[u]
        <3> DEFINE q == pendingSet[t] \ {s}
        <3>1. q \in SUBSET Catchable
            BY <2>2
        <3> HIDE DEF q
        <3> DEFINE v == [Task EXCEPT !.pend[t] = q]
        <3>2. Task \in Threads
            BY <2>1
        <3>3. /\ v \in Threads /\ v.at = Task.at /\ v.kill = Task.kill /\ v.stop = Task.stop
              /\ \A u \in SigThreads : v.pend[u] = IF u = t THEN q ELSE Task.pend[u]
            BY <3>1, <3>2, PendFacts
        <3>4. taken = v
            BY DEF q
        <3> HIDE DEF v, taken
        <3> QED BY <2>1, <3>3, <3>4 DEF q
    <2>4. "user" \in Places \ {"asleep", "stopped"}
        BY DEF Places
    <2>5. CASE ready = {}
        <3>1. /\ at' = [at EXCEPT ![t] = "user"] /\ UNCHANGED <<blockedSet, pendingSet, killP, stopP, sigFrames>>
            BY <1>3, <2>5 DEF signal_deliver
        <3>2. RestOK'
            BY <1>3, <2>1, <3>1 DEF RestOK
        <3> QED BY <1>3, <2>4, <3>1, <3>2, MoveStep
    <2>6. CASE ready # {} /\ IsHandler(action[s])
        <3> DEFINE fr == Frame(t, s)
        <3>1. /\ at' = [at EXCEPT ![t] = "user"] /\ pendingSet' = [pendingSet EXCEPT ![t] = pendingSet[t] \ {s}]
              /\ sigFrames' = [sigFrames EXCEPT ![t] = <<fr>> \o sigFrames[t]]
              /\ blockedSet' = [blockedSet EXCEPT ![t] = HandlerBlocks(blockedSet[t], s)]
              /\ UNCHANGED <<killP, stopP>>
            BY <1>3, <2>6 DEF signal_deliver
        <3>2. s \in Catchable
            <4> HIDE DEF ready
            <4> QED BY <2>2, <2>6, LowestFacts
        <3> HIDE DEF s
        <3>3. fr \in FrameType
            BY <2>1, <3>2 DEF RestOK, Frame, FrameType
        <3>4. HandlerBlocks(blockedSet[t], s) \in Signals
            BY <2>1, <3>2 DEF RestOK, Signals, HandlerBlocks
        <3> HIDE DEF fr
        <3>5. RestOK'
            <4>1. sigFrames' \in [SigThreads -> Seq(FrameType)]
                <5>1. <<fr>> \o sigFrames[t] \in Seq(FrameType)
                    BY <2>1, <3>3 DEF RestOK
                <5> QED BY <2>1, <3>1, <5>1 DEF RestOK
            <4>2. blockedSet' \in [SigThreads -> Signals]
                BY <2>1, <3>1, <3>4 DEF RestOK
            <4> QED BY <1>3, <2>1, <4>1, <4>2 DEF RestOK
        <3> DEFINE v == [taken EXCEPT !.at[t] = "user"]
        <3>6. Cancelled(taken, lastJob) /\ \A u \in SigThreads \ {t} : SleepsSoundly(taken, u, blockedSet', {})
            BY <2>1, <2>3, <3>1 DEF Cancelled, Sound, SleepsSoundly, RestOK
        <3> HIDE DEF taken
        <3>7. v \in Threads /\ Cancelled(v, lastJob) /\ \A u \in SigThreads : SleepsSoundly(v, u, blockedSet', {})
            BY <2>3, <2>4, <3>6, GoesTo
        <3>8. v.at = at' /\ v.pend = pendingSet' /\ v.kill = killP' /\ v.stop = stopP'
            BY <3>1 DEF taken, Task
        <3> HIDE DEF v
        <3>9. Becomes(v)
            BY <3>8 DEF Becomes
        <3> QED BY <1>3, <3>5, <3>7, <3>9, Onward
    <2>7. CASE ready # {} /\ ~IsHandler(action[s])
        <3> DEFINE lives == [taken EXCEPT !.at[t] = "user"]
                   dies == [request_kill(taken) EXCEPT !.at[t] = "dead", !.pend[t] = {}]
                   v == IF Ignored(s, action[s]) \/ s \in StopSignals THEN lives ELSE dies
        <3>1. taken = [Task EXCEPT !.pend[t] = @ \ {s}]
            BY <2>1
        <3>2. Becomes(v) /\ UNCHANGED <<blockedSet, sigFrames>>
            BY <1>3, <2>7, <3>1 DEF signal_deliver
        <3>3. RestOK'
            BY <1>3, <2>1, <3>2 DEF RestOK
        <3> HIDE DEF taken, s
        <3>4. Cancelled(taken, lastJob) /\ Sound(taken)
            BY <2>1, <2>3 DEF Cancelled, Sound, SleepsSoundly
        <3>5. lives \in Threads /\ Cancelled(lives, lastJob) /\ Sound(lives)
            BY <2>3, <2>4, <3>4, GoesTo DEF Sound
        <3>6. dies \in Threads /\ Cancelled(dies, lastJob) /\ Sound(dies)
            BY <2>1, <2>3, <3>4, DeathSound
        <3> HIDE DEF lives, dies
        <3>7. v \in Threads /\ Cancelled(v, lastJob) /\ \A u \in SigThreads : SleepsSoundly(v, u, blockedSet', {})
            BY <3>2, <3>5, <3>6 DEF Sound
        <3> HIDE DEF v
        <3> QED BY <1>3, <3>2, <3>3, <3>7, Onward
    <2> QED BY <2>5, <2>6, <2>7
<1> QED BY <1>1, <1>2, <1>3 DEF SafePoint

LEMMA SigInvariance ==
    ASSUME SignalsAssumption
    PROVE  SigSpec => []SigInv
<1>1. SigInit => SigInv
    <2> SUFFICES ASSUME SigInit PROVE SigInv
        OBVIOUS
    <2>1. Task \in Threads
        BY DEF SigInit, Task, Threads, Places
    <2>2. RestOK
        BY DEF SigInit, RestOK, Signals
    <2>3. Sound(Task) /\ Cancelled(Task, lastJob)
        BY CancelledByName DEF SigInit, Task, Sound, SleepsSoundly, Cancelled
    <2> QED BY <2>1, <2>2, <2>3 DEF SigInv, SigTypeOK, RestOK
<1>2. SigInv /\ [SigNext]_sigVars => SigInv'
    <2> SUFFICES ASSUME SigInv, [SigNext]_sigVars PROVE SigInv'
        OBVIOUS
    <2>1. CASE UNCHANGED sigVars
        BY <2>1 DEF sigVars, SigInv, SigTypeOK, Task, Sound, SleepsSoundly, Cancelled
    <2>2. CASE SigNext
        <3>1. {} \in SUBSET Catchable /\ {TERM} \in SUBSET Catchable /\ {TSTP} \in SUBSET Catchable
            BY DEF Catchable
        <3>2. CASE \E s \in Catchable \cup {KILL, STOP} : Send(s)
            BY <3>2, SendStep
        <3>3. ASSUME NEW t \in SigThreads, NEW set \in {{}, {TERM}, {TSTP}}, ChangeMask(t, set) PROVE SigInv'
            BY <3>1, <3>3, ChangeMaskStep
        <3>4. ASSUME NEW t \in SigThreads, NEW s \in Catchable, NEW a \in {"DFL", "IGN", "fn", "fnr"},
                     SetAction(t, s, a)
              PROVE  SigInv'
            BY <3>4, SetActionStep
        <3> QED BY <2>2, <3>2, <3>3, <3>4, CallStep, SafePointStep, SigReturnStep, ThreadExitStep, ExecStep
                DEF SigNext
    <2> QED BY <2>1, <2>2
<1> QED BY <1>1, <1>2, PTL DEF SigSpec

\* No thread sleeps through a signal that is to be acted on, and SIGSTOP and
\* SIGCONT cancel each other in every thread, for any number of threads, any
\* mask of the handlers and any number of calls (signal.c, sched.c sleep_on)
THEOREM SignalsAreSound ==
    ASSUME SignalsAssumption
    PROVE  SigSpec => [](SignalNotSleptThrough /\ StopAndContinueCancel)
<1>1. SigInv => SignalNotSleptThrough /\ StopAndContinueCancel
    <2> SUFFICES ASSUME SigInv PROVE SignalNotSleptThrough /\ StopAndContinueCancel
        OBVIOUS
    <2>1. Task.at = at /\ Task.pend = pendingSet /\ Task.kill = killP /\ Task.stop = stopP
        BY TaskFacts
    <2>2. SignalNotSleptThrough
        BY <2>1 DEF SigInv, Sound, SleepsSoundly, SignalNotSleptThrough, Deliverable
    <2>3. StopAndContinueCancel
        BY <2>1 DEF SigInv, Cancelled, StopAndContinueCancel
    <2> QED BY <2>2, <2>3
<1> QED BY <1>1, SigInvariance, PTL


\* The mask that handler i of the stack fs runs with; below them all, a
MaskOf(fs, a, i) == IF i > Len(fs) THEN a ELSE HandlerBlocks(fs[i].blocked, fs[i].sig)

\* The stack of handlers fs under the mask b: each has the mask it interrupted,
\* in which its own signal was not blocked and those of all below it are
Nested(fs, b, a) ==
    /\ b = MaskOf(fs, a, 1)
    /\ \A i \in 1 .. Len(fs) : fs[i].blocked = MaskOf(fs, a, i + 1) /\ fs[i].sig \notin fs[i].blocked
    /\ \A i \in 1 .. Len(fs) : fs[i].sig \in b
    /\ \A i, j \in 1 .. Len(fs) : i < j => fs[j].sig \in fs[i].blocked

NestInv == \A t \in SigThreads : Nested(sigFrames[t], blockedSet[t], asked[t])

\* A handler starts
LEMMA PushNests ==
    ASSUME NEW fs \in Seq(FrameType), NEW b, NEW a, NEW f \in FrameType,
           Nested(fs, b, a), f.blocked = b, f.sig \notin b
    PROVE  Nested(<<f>> \o fs, HandlerBlocks(b, f.sig), a)
<1> DEFINE gs == <<f>> \o fs
<1>1. /\ gs \in Seq(FrameType) /\ Len(gs) = Len(fs) + 1 /\ Len(fs) \in Nat /\ gs[1] = f
      /\ \A i \in 2 .. Len(fs) + 1 : gs[i] = fs[i - 1]
    OBVIOUS
<1> HIDE DEF gs
<1>2. ASSUME NEW i \in 1 .. Len(fs) + 1 PROVE MaskOf(gs, a, i + 1) = MaskOf(fs, a, i)
    <2>1. i > Len(fs) <=> i + 1 > Len(gs)
        BY <1>1
    <2>2. i <= Len(fs) => gs[i + 1] = fs[i]
        <3> SUFFICES ASSUME i <= Len(fs) PROVE gs[i + 1] = fs[i]
            OBVIOUS
        <3>1. i + 1 \in 2 .. Len(fs) + 1 /\ (i + 1) - 1 = i
            BY <1>1
        <3>2. gs[i + 1] = fs[(i + 1) - 1]
            BY <1>1, <3>1
        <3> QED BY <3>1, <3>2
    <2>3. i \in Nat /\ (i > Len(fs) \/ i <= Len(fs))
        BY <1>1
    <2> QED BY <2>1, <2>2, <2>3 DEF MaskOf
<1>3. MaskOf(gs, a, 1) = HandlerBlocks(b, f.sig)
    BY <1>1 DEF MaskOf
<1>4. ASSUME NEW i \in 1 .. Len(gs)
      PROVE  gs[i].blocked = MaskOf(gs, a, i + 1) /\ gs[i].sig \notin gs[i].blocked
    <2>1. CASE i = 1
        BY <1>1, <1>2, <2>1 DEF Nested
    <2>2. CASE i # 1
        <3>1. i - 1 \in 1 .. Len(fs) /\ gs[i] = fs[i - 1] /\ (i - 1) + 1 = i
            BY <1>1, <2>2
        <3>2. fs[i - 1].blocked = MaskOf(fs, a, i) /\ fs[i - 1].sig \notin fs[i - 1].blocked
            BY <3>1 DEF Nested
        <3>3. MaskOf(gs, a, i + 1) = MaskOf(fs, a, i)
            BY <1>1, <1>2
        <3> QED BY <3>1, <3>2, <3>3
    <2> QED BY <2>1, <2>2
<1>5. ASSUME NEW i \in 1 .. Len(gs) PROVE gs[i].sig \in HandlerBlocks(b, f.sig)
    <2>1. CASE i = 1
        BY <1>1, <2>1 DEF HandlerBlocks
    <2>2. CASE i # 1
        <3>1. i - 1 \in 1 .. Len(fs) /\ gs[i] = fs[i - 1]
            BY <1>1, <2>2
        <3> QED BY <3>1 DEF Nested, HandlerBlocks
    <2> QED BY <2>1, <2>2
<1>6. ASSUME NEW i \in 1 .. Len(gs), NEW j \in 1 .. Len(gs), i < j PROVE gs[j].sig \in gs[i].blocked
    <2>1. j - 1 \in 1 .. Len(fs) /\ gs[j] = fs[j - 1]
        BY <1>1, <1>6
    <2>2. CASE i = 1
        BY <1>1, <2>1, <2>2 DEF Nested
    <2>3. CASE i # 1
        <3>1. i - 1 \in 1 .. Len(fs) /\ gs[i] = fs[i - 1] /\ i - 1 < j - 1
            BY <1>1, <1>6, <2>3
        <3> QED BY <2>1, <3>1 DEF Nested
    <2> QED BY <2>2, <2>3
<1> QED BY <1>3, <1>4, <1>5, <1>6 DEF Nested, gs

\* A handler returns
LEMMA PopNests ==
    ASSUME NEW fs \in Seq(FrameType), fs # <<>>, NEW b, NEW a, Nested(fs, b, a)
    PROVE  Nested(Tail(fs), Head(fs).blocked, a)
<1> DEFINE gs == Tail(fs)
<1>1. /\ gs \in Seq(FrameType) /\ Len(gs) = Len(fs) - 1 /\ Len(fs) \in Nat \ {0} /\ Head(fs) = fs[1]
      /\ \A i \in 1 .. Len(fs) - 1 : gs[i] = fs[i + 1]
    <2>1. Len(fs) \in Nat \ {0} /\ Head(fs) = fs[1]
        OBVIOUS
    <2>2. gs \in Seq(FrameType) /\ Len(gs) = Len(fs) - 1
        OBVIOUS
    <2>3. ASSUME NEW i \in 1 .. Len(fs) - 1 PROVE gs[i] = fs[i + 1]
        BY <2>1
    <2> QED BY <2>1, <2>2, <2>3
<1> HIDE DEF gs
<1>2. \A i \in 1 .. Len(fs) : MaskOf(gs, a, i) = MaskOf(fs, a, i + 1)
    BY <1>1 DEF MaskOf
<1>3. fs[1].blocked = MaskOf(gs, a, 1)
    BY <1>1, <1>2 DEF Nested
<1>4. ASSUME NEW i \in 1 .. Len(gs)
      PROVE  gs[i].blocked = MaskOf(gs, a, i + 1) /\ gs[i].sig \notin gs[i].blocked
    <2>1. i + 1 \in 1 .. Len(fs) /\ gs[i] = fs[i + 1]
        BY <1>1
    <2>2. MaskOf(gs, a, i + 1) = MaskOf(fs, a, (i + 1) + 1)
        BY <1>2, <2>1
    <2> QED BY <2>1, <2>2 DEF Nested
<1>5. ASSUME NEW i \in 1 .. Len(gs) PROVE gs[i].sig \in fs[1].blocked
    <2>1. i + 1 \in 1 .. Len(fs) /\ gs[i] = fs[i + 1] /\ 1 \in 1 .. Len(fs) /\ 1 < i + 1
        BY <1>1
    <2> QED BY <2>1 DEF Nested
<1>6. ASSUME NEW i \in 1 .. Len(gs), NEW j \in 1 .. Len(gs), i < j PROVE gs[j].sig \in gs[i].blocked
    <2>1. i + 1 \in 1 .. Len(fs) /\ gs[i] = fs[i + 1] /\ j + 1 \in 1 .. Len(fs) /\ gs[j] = fs[j + 1] /\ i + 1 < j + 1
        BY <1>1, <1>6
    <2> QED BY <2>1 DEF Nested
<1> QED BY <1>1, <1>3, <1>4, <1>5, <1>6 DEF Nested, gs

LEMMA NestStep ==
    ASSUME SigInv, NestInv, SigNext
    PROVE  NestInv'
<1>1. RestOK /\ pendingSet \in [SigThreads -> SUBSET Catchable]
    BY TaskFacts
<1>2. ASSUME UNCHANGED <<blockedSet, sigFrames, asked>> PROVE NestInv'
    BY <1>2 DEF NestInv
<1>3. ASSUME NEW t \in SigThreads, NEW fs, NEW b, NEW a, Nested(fs, b, a),
             sigFrames' = [sigFrames EXCEPT ![t] = fs], blockedSet' = [blockedSet EXCEPT ![t] = b],
             asked' = [asked EXCEPT ![t] = a]
      PROVE  NestInv'
    <2> SUFFICES ASSUME NEW u \in SigThreads PROVE Nested(sigFrames'[u], blockedSet'[u], asked'[u])
        BY DEF NestInv
    <2>1. CASE u = t
        <3>1. sigFrames'[u] = fs /\ blockedSet'[u] = b /\ asked'[u] = a
            BY <1>1, <1>3, <2>1 DEF RestOK
        <3> QED BY <1>3, <3>1
    <2>2. CASE u # t
        <3>1. sigFrames'[u] = sigFrames[u] /\ blockedSet'[u] = blockedSet[u] /\ asked'[u] = asked[u]
            BY <1>1, <1>3, <2>2 DEF RestOK
        <3> QED BY <3>1 DEF NestInv
    <2> QED BY <2>1, <2>2
<1>4. ASSUME NEW b PROVE Nested(<<>>, b, b)
    BY DEF Nested, MaskOf
<1>5. ASSUME NEW s \in Catchable \cup {KILL, STOP}, Send(s) PROVE NestInv'
    BY <1>2, <1>5 DEF Send
<1>6. ASSUME NEW t \in SigThreads, NEW s \in Catchable, NEW a, SetAction(t, s, a) PROVE NestInv'
    BY <1>2, <1>6 DEF SetAction
<1>7. ASSUME NEW t \in SigThreads, NEW set, ChangeMask(t, set) PROVE NestInv'
    <2>1. sigFrames' = [sigFrames EXCEPT ![t] = <<>>]
        BY <1>1, <1>7 DEF ChangeMask, RestOK
    <2> QED BY <1>3, <1>4, <1>7, <2>1 DEF ChangeMask
<1>8. ASSUME NEW t \in SigThreads,
             Call(t) \/ Ready(t) \/ Interrupted(t) \/ Sleep(t) \/ Wake(t) \/ Interrupt(t) \/ ThreadExit(t)
      PROVE  NestInv'
    BY <1>2, <1>8 DEF Call, Ready, Interrupted, Sleep, Wake, Interrupt, ThreadExit, Leave, Die, StopHere
<1>9. ASSUME NEW t \in SigThreads, SafePoint(t) PROVE NestInv'
    <2>1. CASE Die(t) \/ StopHere(t, "exit")
        BY <1>2, <2>1 DEF Die, StopHere
    <2>2. CASE signal_deliver(t) /\ UNCHANGED asked
        <3> DEFINE ready == pendingSet[t] \ blockedSet[t]
                   s == Lowest(ready)
                   f == Frame(t, s)
        <3>1. CASE ready = {} \/ ~IsHandler(action[s])
            <4>1. UNCHANGED <<blockedSet, sigFrames>>
                BY <2>2, <3>1 DEF signal_deliver
            <4> QED BY <1>2, <2>2, <4>1
        <3>2. CASE ready # {} /\ IsHandler(action[s])
            <4>1. /\ sigFrames' = [sigFrames EXCEPT ![t] = <<f>> \o sigFrames[t]]
                  /\ blockedSet' = [blockedSet EXCEPT ![t] = HandlerBlocks(blockedSet[t], s)]
                BY <2>2, <3>2 DEF signal_deliver
            <4>2. ready \in SUBSET Catchable
                BY <1>1
            <4>3. s \in ready
                <5> HIDE DEF ready
                <5> QED BY <3>2, <4>2, LowestFacts
            <4>4. s \in Catchable /\ s \notin blockedSet[t]
                BY <4>2, <4>3
            <4> HIDE DEF s
            <4>5. f \in FrameType /\ f.sig = s /\ f.blocked = blockedSet[t]
                BY <1>1, <4>4 DEF RestOK, Frame, FrameType
            <4> HIDE DEF f
            <4>6. sigFrames[t] \in Seq(FrameType) /\ Nested(sigFrames[t], blockedSet[t], asked[t])
                BY <1>1 DEF RestOK, NestInv
            <4>7. Nested(<<f>> \o sigFrames[t], HandlerBlocks(blockedSet[t], s), asked[t])
                BY <4>4, <4>5, <4>6, PushNests
            <4>8. asked' = [asked EXCEPT ![t] = asked[t]]
                BY <1>1, <2>2 DEF RestOK
            <4> QED BY <1>3, <4>1, <4>7, <4>8
        <3> QED BY <3>1, <3>2
    <2> QED BY <1>9, <2>1, <2>2 DEF SafePoint
<1>10. ASSUME NEW t \in SigThreads, SigReturn(t) PROVE NestInv'
    <2>1. /\ sigFrames[t] # <<>> /\ sigFrames' = [sigFrames EXCEPT ![t] = Tail(sigFrames[t])]
          /\ blockedSet' = [blockedSet EXCEPT ![t] = Head(sigFrames[t]).blocked] /\ UNCHANGED asked
        BY <1>10 DEF SigReturn
    <2>2. sigFrames[t] \in Seq(FrameType) /\ Nested(sigFrames[t], blockedSet[t], asked[t])
        BY <1>1 DEF RestOK, NestInv
    <2>3. Nested(Tail(sigFrames[t]), Head(sigFrames[t]).blocked, asked[t])
        BY <2>1, <2>2, PopNests
    <2>4. asked' = [asked EXCEPT ![t] = asked[t]]
        BY <1>1, <2>1 DEF RestOK
    <2> QED BY <1>3, <2>1, <2>3, <2>4
<1>11. ASSUME NEW t \in SigThreads, Exec(t) PROVE NestInv'
    <2>1. blockedSet' = [blockedSet EXCEPT ![t] = blockedSet[t]]
        BY <1>1, <1>11 DEF RestOK, Exec
    <2>2. sigFrames' = [sigFrames EXCEPT ![t] = <<>>] /\ asked' = [asked EXCEPT ![t] = blockedSet[t]]
        BY <1>11 DEF Exec
    <2> QED BY <1>3, <1>4, <2>1, <2>2
<1> QED BY SigNext, <1>5, <1>6, <1>7, <1>8, <1>9, <1>10, <1>11 DEF SigNext

\* Handlers nest cleanly whatever interrupts them: below every unfinished
\* handler lies the mask it interrupted, and none interrupts a handler of the
\* same signal (signal_deliver and signal_return of signal.c)
THEOREM HandlersAlwaysNest ==
    ASSUME SignalsAssumption
    PROVE  SigSpec => []HandlersNest
<1>1. SigInit => NestInv
    BY DEF SigInit, NestInv, Nested, MaskOf
<1>2. SigInv /\ NestInv /\ [SigNext]_sigVars => NestInv'
    <2>1. NestInv /\ UNCHANGED sigVars => NestInv'
        BY DEF sigVars, NestInv
    <2> QED BY <2>1, NestStep
<1>3. SigInv /\ NestInv => HandlersNest
    <2> SUFFICES ASSUME SigInv, NestInv, NEW t \in SigThreads
                 PROVE  LET fs == sigFrames[t]
                            mask(i) == IF i > Len(fs) THEN asked[t] ELSE HandlerBlocks(fs[i].blocked, fs[i].sig) IN
                        /\ blockedSet[t] = mask(1)
                        /\ \A i \in 1 .. Len(fs) : fs[i].blocked = mask(i + 1)
                        /\ \A i, j \in 1 .. Len(fs) : fs[i].sig = fs[j].sig => i = j
        BY DEF HandlersNest
    <2> DEFINE fs == sigFrames[t]
    <2>1. fs \in Seq(FrameType) /\ Nested(fs, blockedSet[t], asked[t])
        BY TaskFacts DEF RestOK, NestInv
    <2>2. blockedSet[t] = MaskOf(fs, asked[t], 1) /\ \A i \in 1 .. Len(fs) : fs[i].blocked = MaskOf(fs, asked[t], i + 1)
        BY <2>1 DEF Nested
    <2>3. ASSUME NEW i \in 1 .. Len(fs), NEW j \in 1 .. Len(fs), fs[i].sig = fs[j].sig PROVE i = j
        <3>1. ~(i < j) /\ ~(j < i)
            BY <2>1, <2>3 DEF Nested
        <3> QED BY <3>1
    <2> QED BY <2>2, <2>3 DEF MaskOf
<1> QED BY <1>1, <1>2, <1>3, SigInvariance, PTL DEF SigSpec

-----------------------------------------------------------------------------
(* Who reads the terminal.                                                 *)

TyLocations ==
    {"out", "look", "getchar", "getchar_serial", "getchar_sleep", "sleeping", "asleep", "take_serial",
     "have", "try_kbd", "try_serial", "raw_more", "raw_serial"}
TyKey == Sources \X (TyKeys \cup {NoKey})
TyReader == [at : TyLocations, key : TyKey, count : Nat, n : Nat, poll : BOOLEAN]

TyTypeOK ==
    /\ device \in [Sources -> [key : TyKeys \cup {NoKey}, irq : BOOLEAN]]
    /\ ring \in [Sources -> Seq(TyKey)]
    /\ handler \in [Sources -> {"idle", "announce"}]
    /\ reader \in [TyThreads -> TyReader]

\* An interrupt is raised for every key a device holds, also when a reader
\* that polls the port is faster
KeysInterrupt == \A s \in Sources : device[s].key # NoKey => device[s].irq

\* Somebody will still announce a key
Coming == \E r \in Sources : handler[r] = "announce" \/ device[r].irq

\* From the look at the keyboard's ring to the sleep the lock is held, so what
\* arrives meanwhile is announced after it
HoldsLock == {"getchar_serial", "getchar_sleep", "sleeping"}
SleepsRightly(t) ==
    /\ reader[t].at \in HoldsLock => inputLock = {t}
    /\ reader[t].at \in HoldsLock \cup {"asleep"} /\ ring["kbd"] # <<>> => Coming
    /\ reader[t].at \in {"getchar_sleep", "sleeping", "asleep"} /\ ring["serial"] # <<>> => Coming
    /\ reader[t].at = "asleep" => t \notin interrupted

TyInv == TyTypeOK /\ KeysInterrupt /\ \A t \in TyThreads : SleepsRightly(t)

\* What polling a port leaves: a ring longer by at most the key that was there
LEMMA RingFacts ==
    ASSUME TyTypeOK, NEW s \in Sources
    PROVE  /\ RingAfter(s) \in Seq(TyKey)
           /\ RingAfter(s) # <<>> => ring[s] # <<>> \/ device[s].key # NoKey
<1>1. <<s, device[s].key>> \in TyKey /\ ring[s] \in Seq(TyKey)
    BY DEF TyTypeOK, TyKey
<1> QED BY <1>1 DEF RingAfter, Kept

\* and, if it was Ctrl-C, nobody asleep
LEMMA WokenFacts ==
    ASSUME TyTypeOK, NEW s \in Sources
    PROVE  /\ WokenBySignal(s) \in [TyThreads -> TyReader]
           /\ \A u \in TyThreads :
                 \/ WokenBySignal(s)[u] = reader[u]
                 \/ reader[u].at = "asleep" /\ WokenBySignal(s)[u].at = "getchar"
           /\ \A u \in TyThreads :
                 u \in InterruptedAfter(s) /\ WokenBySignal(s)[u].at = "asleep" => u \in interrupted
<1>1. ASSUME NEW u \in TyThreads
      PROVE  [reader[u] EXCEPT !.at = "getchar"] \in TyReader
    BY DEF TyTypeOK, TyReader, TyLocations
<1>2. CASE device[s].key = "int"
    <2>1. \A u \in TyThreads : WokenBySignal(s)[u] =
             IF reader[u].at = "asleep" THEN [reader[u] EXCEPT !.at = "getchar"] ELSE reader[u]
        BY <1>2 DEF WokenBySignal
    <2>2. \A u \in TyThreads : [reader[u] EXCEPT !.at = "getchar"].at = "getchar"
        BY DEF TyTypeOK, TyReader
    <2>3. WokenBySignal(s) \in [TyThreads -> TyReader]
        BY <1>1, <1>2 DEF WokenBySignal, TyTypeOK
    <2> QED BY <2>1, <2>2, <2>3
<1>3. CASE device[s].key # "int"
    BY <1>3 DEF WokenBySignal, InterruptedAfter, TyTypeOK
<1> QED BY <1>2, <1>3

\* A thread polls port s, goes on as `new' and leaves `r' in the ring
LEMMA PortStep ==
    ASSUME TyInv, NEW t \in TyThreads, NEW s \in Sources, NEW new \in TyReader, NEW r \in Seq(TyKey),
           reader[t].at # "asleep", new.at # "asleep",
           r # <<>> => RingAfter(s) # <<>>,
           HandlePort(s), interrupted' = InterruptedAfter(s), handler' = handler,
           ring' = [ring EXCEPT ![s] = r],
           reader' = [WokenBySignal(s) EXCEPT ![t] = new],
           \A u \in TyThreads \ {t} : reader[u].at \in HoldsLock => inputLock' = {u}
    PROVE  /\ TyTypeOK' /\ KeysInterrupt' /\ reader'[t] = new
           /\ Coming' <=> Coming
           /\ \A q \in Sources : ring'[q] # <<>> => ring[q] # <<>> \/ Coming
           /\ \A u \in TyThreads \ {t} : SleepsRightly(u)'
<1>1. /\ device' \in [Sources -> [key : TyKeys \cup {NoKey}, irq : BOOLEAN]]
      /\ \A q \in Sources : device'[q].irq = device[q].irq
      /\ \A q \in Sources : device'[q].key # NoKey => device[q].key # NoKey
    BY DEF HandlePort, TyInv, TyTypeOK
<1>2. /\ reader' \in [TyThreads -> TyReader] /\ reader'[t] = new
      /\ \A u \in TyThreads \ {t} : reader'[u] = WokenBySignal(s)[u]
    BY WokenFacts DEF TyInv
<1>3. TyTypeOK'
    BY <1>1, <1>2 DEF TyInv, TyTypeOK
<1>4. KeysInterrupt'
    BY <1>1 DEF TyInv, KeysInterrupt
<1>5. Coming' <=> Coming
    BY <1>1 DEF Coming
<1>6. ASSUME NEW q \in Sources, ring'[q] # <<>> PROVE ring[q] # <<>> \/ Coming
    <2>1. CASE q # s
        BY <1>6, <2>1 DEF TyInv, TyTypeOK
    <2>2. CASE q = s
        <3>1. ring[s] # <<>> \/ device[s].key # NoKey
            BY <1>6, <2>2, RingFacts DEF TyInv, TyTypeOK
        <3> QED BY <2>2, <3>1 DEF TyInv, KeysInterrupt, Coming
    <2> QED BY <2>1, <2>2
<1>7. ASSUME NEW u \in TyThreads, u # t PROVE SleepsRightly(u)'
    <2>1. \/ reader'[u] = reader[u]
          \/ reader'[u].at = "getchar"
        BY <1>2, <1>7, WokenFacts DEF TyInv
    <2>2. CASE reader'[u].at = "getchar"
        BY <2>2 DEF SleepsRightly, HoldsLock
    <2>3. CASE reader'[u] = reader[u]
        <3>1. SleepsRightly(u) /\ "kbd" \in Sources /\ "serial" \in Sources
            BY DEF TyInv, Sources
        <3>2. reader'[u].at \in HoldsLock => inputLock' = {u}
            BY <1>7, <2>3
        <3>3. /\ reader'[u].at \in HoldsLock \cup {"asleep"} /\ ring'["kbd"] # <<>> => Coming'
              /\ reader'[u].at \in {"getchar_sleep", "sleeping", "asleep"} /\ ring'["serial"] # <<>> => Coming'
            BY <1>5, <1>6, <2>3, <3>1 DEF SleepsRightly
        <3>4. reader'[u].at = "asleep" => u \notin interrupted'
            BY <1>2, <1>7, <2>3, <3>1, WokenFacts DEF TyInv, SleepsRightly
        <3> QED BY <3>2, <3>3, <3>4 DEF SleepsRightly
    <2> QED BY <2>1, <2>2, <2>3
<1> QED BY <1>2, <1>3, <1>4, <1>5, <1>6, <1>7

\* The keyboard's ring is popped: the thread goes on at `found' with a key and
\* at `empty' when there was none
LEMMA PopStep ==
    ASSUME TyInv, NEW t \in TyThreads, NEW found \in TyLocations, NEW empty \in TyLocations,
           reader[t].at # "asleep", found # "asleep", empty # "asleep",
           kbd_buffer_pop(t, found, empty), handler' = handler,
           \A u \in TyThreads \ {t} : reader[u].at \in HoldsLock => inputLock' = {u}
    PROVE  /\ TyTypeOK' /\ KeysInterrupt' /\ \A u \in TyThreads \ {t} : SleepsRightly(u)'
           /\ \/ reader'[t].at = found
              \/ reader'[t].at = empty /\ ring'["kbd"] = <<>>
<1> DEFINE keys == RingAfter("kbd")
           has == keys # <<>>
           left == IF has THEN Tail(keys) ELSE keys
           new == [reader[t] EXCEPT !.at = IF has THEN found ELSE empty,
                                    !.key = IF has THEN Head(keys) ELSE reader[t].key]
<1>1. "kbd" \in Sources /\ keys \in Seq(TyKey) /\ reader[t] \in TyReader /\ reader[t].key \in TyKey
    BY RingFacts DEF TyInv, TyTypeOK, Sources, TyReader
<1>2. left \in Seq(TyKey) /\ (left # <<>> => keys # <<>>) /\ (has => Head(keys) \in TyKey)
    <2> HIDE DEF keys
    <2> QED BY <1>1
<1>3. new \in TyReader /\ new.at = IF has THEN found ELSE empty
    <2> HIDE DEF keys
    <2>1. CASE has
        BY <1>1, <1>2, <2>1 DEF TyReader
    <2>2. CASE ~has
        BY <1>1, <2>2 DEF TyReader
    <2> QED BY <2>1, <2>2
<1>4. /\ HandlePort("kbd") /\ interrupted' = InterruptedAfter("kbd")
      /\ ring' = [ring EXCEPT !["kbd"] = left]
      /\ reader' = [WokenBySignal("kbd") EXCEPT ![t] = new]
    BY DEF kbd_buffer_pop
<1>5. ring'["kbd"] = left
    BY <1>1, <1>4 DEF TyInv, TyTypeOK
<1>6. ~has => left = <<>>
    OBVIOUS
<1> HIDE DEF keys, left, new, has
<1>7. new.at # "asleep"
    BY <1>3
<1>8. left # <<>> => RingAfter("kbd") # <<>>
    BY <1>2 DEF keys
<1>9. /\ TyTypeOK' /\ KeysInterrupt' /\ reader'[t] = new
      /\ \A u \in TyThreads \ {t} : SleepsRightly(u)'
    BY <1>1, <1>2, <1>3, <1>4, <1>7, <1>8, PortStep
<1> QED BY <1>3, <1>5, <1>6, <1>9

\* A port is drained into its ring, and the thread goes on by what is there
LEMMA DrainStep ==
    ASSUME TyInv, NEW t \in TyThreads, NEW s \in Sources, NEW found \in TyLocations, NEW empty \in TyLocations,
           reader[t].at # "asleep", found # "asleep", empty # "asleep",
           HandlePort(s), interrupted' = InterruptedAfter(s), handler' = handler,
           ring' = [ring EXCEPT ![s] = RingAfter(s)],
           reader' = [WokenBySignal(s) EXCEPT ![t] =
                        [reader[t] EXCEPT !.at = IF RingAfter(s) # <<>> THEN found ELSE empty]],
           \A u \in TyThreads \ {t} : reader[u].at \in HoldsLock => inputLock' = {u}
    PROVE  /\ TyTypeOK' /\ KeysInterrupt' /\ \A u \in TyThreads \ {t} : SleepsRightly(u)'
           /\ \/ reader'[t].at = found
              \/ reader'[t].at = empty /\ ring'[s] = <<>>
           /\ Coming' <=> Coming
           /\ \A q \in Sources : ring'[q] # <<>> => ring[q] # <<>> \/ Coming
<1> DEFINE new == [reader[t] EXCEPT !.at = IF RingAfter(s) # <<>> THEN found ELSE empty]
<1>1. RingAfter(s) \in Seq(TyKey) /\ reader[t] \in TyReader /\ reader[t].key \in TyKey
    BY RingFacts DEF TyInv, TyTypeOK, TyReader
<1>2. new \in TyReader /\ new.at = IF RingAfter(s) # <<>> THEN found ELSE empty
    BY <1>1 DEF TyReader
<1>3. ring'[s] = RingAfter(s)
    BY DEF TyInv, TyTypeOK
<1> HIDE DEF new
<1>4. new.at # "asleep" /\ reader' = [WokenBySignal(s) EXCEPT ![t] = new]
    BY <1>2 DEF new
<1>5. /\ TyTypeOK' /\ KeysInterrupt' /\ reader'[t] = new
      /\ Coming' <=> Coming
      /\ \A q \in Sources : ring'[q] # <<>> => ring[q] # <<>> \/ Coming
      /\ \A u \in TyThreads \ {t} : SleepsRightly(u)'
    BY <1>1, <1>2, <1>4, PortStep
<1> QED BY <1>2, <1>3, <1>5

\* The steps that look at a port
LEMMA TyPortStep ==
    ASSUME TyInv, NEW t \in TyThreads,
           \/ getchar_kbd(t) \/ getchar_serial(t) \/ serial_getchar(t) \/ try_kbd(t) \/ try_serial(t)
           \/ raw_more(t) \/ raw_serial(t)
    PROVE  TyInv'
<1> USE DEF Sources
<1>1. \A u \in TyThreads : SleepsRightly(u)
    BY DEF TyInv
<1>2. ASSUME TyTypeOK', KeysInterrupt', \A u \in TyThreads \ {t} : SleepsRightly(u)', SleepsRightly(t)'
      PROVE  TyInv'
    BY <1>2 DEF TyInv
<1>3. CASE getchar_kbd(t)
    <2>1. /\ reader[t].at = "getchar" /\ inputLock = {} /\ kbd_buffer_pop(t, "have", "getchar_serial")
          /\ handler' = handler /\ inputLock' = IF reader'[t].at = "have" THEN {} ELSE {t}
        BY <1>3 DEF getchar_kbd
    <2>2. \A u \in TyThreads : reader[u].at \notin HoldsLock
        BY <1>1, <2>1 DEF SleepsRightly
    <2>3. /\ TyTypeOK' /\ KeysInterrupt' /\ \A u \in TyThreads \ {t} : SleepsRightly(u)'
          /\ \/ reader'[t].at = "have"
             \/ reader'[t].at = "getchar_serial" /\ ring'["kbd"] = <<>>
        BY <2>1, <2>2, PopStep DEF TyLocations
    <2>4. SleepsRightly(t)'
        BY <2>1, <2>3 DEF SleepsRightly, HoldsLock
    <2> QED BY <1>2, <2>3, <2>4
<1>4. CASE getchar_serial(t)
    <2>1. /\ reader[t].at = "getchar_serial" /\ serial_has_char(t, "take_serial", "getchar_sleep")
          /\ handler' = handler /\ inputLock' = inputLock
        BY <1>4 DEF getchar_serial
    <2>2. \A u \in TyThreads : reader[u].at \in HoldsLock => inputLock' = {u}
        BY <1>1, <2>1 DEF SleepsRightly
    <2>3. /\ TyTypeOK' /\ KeysInterrupt' /\ \A u \in TyThreads \ {t} : SleepsRightly(u)'
          /\ \/ reader'[t].at = "take_serial"
             \/ reader'[t].at = "getchar_sleep" /\ ring'["serial"] = <<>>
          /\ Coming' <=> Coming
          /\ ring'["kbd"] # <<>> => ring["kbd"] # <<>> \/ Coming
        <3>1. "serial" \in Sources /\ "kbd" \in Sources
            OBVIOUS
        <3> HIDE DEF Sources
        <3> QED BY <2>1, <2>2, <3>1, DrainStep DEF TyLocations, serial_has_char
    <2>4. SleepsRightly(t)'
        BY <1>1, <2>1, <2>2, <2>3 DEF SleepsRightly, HoldsLock
    <2> QED BY <1>2, <2>3, <2>4
<1>5. CASE serial_getchar(t)
    <2> DEFINE keys == RingAfter("serial")
               new == [reader[t] EXCEPT !.at = "have", !.key = Head(keys)]
    <2>1. /\ reader[t].at = "take_serial" /\ keys # <<>> /\ HandlePort("serial")
          /\ interrupted' = InterruptedAfter("serial") /\ ring' = [ring EXCEPT !["serial"] = Tail(keys)]
          /\ reader' = [WokenBySignal("serial") EXCEPT ![t] = new]
          /\ inputLock' = inputLock \ {t} /\ handler' = handler
        BY <1>5 DEF serial_getchar
    <2>2. keys \in Seq(TyKey) /\ reader[t] \in TyReader
        BY RingFacts DEF TyInv, TyTypeOK
    <2>3. Head(keys) \in TyKey /\ Tail(keys) \in Seq(TyKey)
        <3> HIDE DEF keys
        <3> QED BY <2>1, <2>2
    <2>4. new \in TyReader /\ new.at = "have"
        <3> HIDE DEF keys
        <3> QED BY <2>2, <2>3 DEF TyReader, TyLocations
    <2>5. \A u \in TyThreads \ {t} : reader[u].at \in HoldsLock => inputLock' = {u}
        BY <1>1, <2>1 DEF SleepsRightly
    <2> HIDE DEF new
    <2>6. /\ TyTypeOK' /\ KeysInterrupt' /\ reader'[t] = new
          /\ \A u \in TyThreads \ {t} : SleepsRightly(u)'
        <3>1. "serial" \in Sources
            OBVIOUS
        <3> HIDE DEF Sources
        <3> QED BY <2>1, <2>3, <2>4, <2>5, <3>1, PortStep
    <2>7. SleepsRightly(t)'
        BY <2>4, <2>6 DEF SleepsRightly, HoldsLock
    <2> QED BY <1>2, <2>6, <2>7
<1>6. CASE try_kbd(t)
    <2>1. /\ reader[t].at = "try_kbd" /\ kbd_buffer_pop(t, "have", "try_serial")
          /\ handler' = handler /\ inputLock' = inputLock
        BY <1>6 DEF try_kbd
    <2>2. \A u \in TyThreads : reader[u].at \in HoldsLock => inputLock' = {u}
        BY <1>1, <2>1 DEF SleepsRightly
    <2>3. /\ TyTypeOK' /\ KeysInterrupt' /\ \A u \in TyThreads \ {t} : SleepsRightly(u)'
          /\ reader'[t].at \in {"have", "try_serial"}
        BY <2>1, <2>2, PopStep DEF TyLocations
    <2>4. SleepsRightly(t)'
        BY <2>3 DEF SleepsRightly, HoldsLock
    <2> QED BY <1>2, <2>3, <2>4
<1>7. CASE try_serial(t) \/ raw_serial(t) \/ raw_more(t)
    <2>1. /\ reader[t].at \in {"try_serial", "raw_serial", "raw_more"}
          /\ handler' = handler /\ inputLock' = inputLock
        BY <1>7 DEF try_serial, raw_serial, raw_more
    <2>2. \A u \in TyThreads : reader[u].at \in HoldsLock => inputLock' = {u}
        BY <1>1, <2>1 DEF SleepsRightly
    <2>3. "serial" \in Sources /\ "kbd" \in Sources
        OBVIOUS
    <2> HIDE DEF Sources
    <2>4. /\ TyTypeOK' /\ KeysInterrupt' /\ \A u \in TyThreads \ {t} : SleepsRightly(u)'
          /\ reader'[t].at \in {"take_serial", "out", "getchar", "raw_serial"}
        <3>1. CASE try_serial(t)
            BY <2>1, <2>2, <2>3, <3>1, DrainStep DEF TyLocations, try_serial, serial_has_char
        <3>2. CASE raw_serial(t)
            BY <2>1, <2>2, <2>3, <3>2, DrainStep DEF TyLocations, raw_serial, serial_has_char
        <3>3. CASE raw_more(t)
            BY <2>1, <2>2, <2>3, <3>3, DrainStep DEF TyLocations, raw_more
        <3> QED BY <1>7, <3>1, <3>2, <3>3
    <2>5. SleepsRightly(t)'
        BY <2>4 DEF SleepsRightly, HoldsLock
    <2> QED BY <1>2, <2>4, <2>5
<1> QED BY <1>3, <1>4, <1>5, <1>6, <1>7

\* The steps of a reader alone
LEMMA TyReaderStep ==
    ASSUME TyAssumption, TyInv, NEW t \in TyThreads, NEW count \in {1, 3},
           \/ tty_read(t, count) \/ tty_poll(t) \/ look_for_line(t) \/ tty_input(t) \/ raw_key(t)
           \/ check_interrupted(t) \/ sched_sleep(t)
    PROVE  TyInv'
<1>1. reader[t] \in TyReader /\ \A u \in TyThreads : SleepsRightly(u)
    BY DEF TyInv, TyTypeOK
<1>2. Nothing \in TyReader /\ Nothing.at = "out" /\ <<"kbd", NoKey>> \in TyKey
    BY DEF Nothing, TyReader, TyLocations, TyKey, Sources
<1>3. CASE tty_read(t, count) \/ tty_poll(t) \/ look_for_line(t) \/ tty_input(t) \/ raw_key(t)
    <2>1. UNCHANGED <<device, ring, handler, inputLock, interrupted>>
        BY <1>3 DEF tty_read, tty_poll, look_for_line, tty_input, raw_key
    <2>2. PICK new : /\ reader' = [reader EXCEPT ![t] = new] /\ new \in TyReader
                     /\ new.at \notin HoldsLock \cup {"asleep"}
        <3>1. CASE tty_read(t, count)
            <4>1. TyLine \in Nat /\ count \in Nat
                BY DEF TyAssumption
            <4>2. [Nothing EXCEPT !.at = IF rawMode THEN "getchar" ELSE "look",
                                  !.count = count, !.n = IF rawMode THEN 0 ELSE TyLine] \in TyReader
                BY <1>2, <4>1 DEF TyReader, TyLocations
            <4>3. [Nothing EXCEPT !.at = IF rawMode THEN "getchar" ELSE "look",
                                  !.count = count, !.n = IF rawMode THEN 0 ELSE TyLine].at
                    \in {"getchar", "look"}
                BY <1>2 DEF TyReader
            <4> QED BY <3>1, <4>2, <4>3 DEF tty_read, HoldsLock
        <3>2. CASE tty_poll(t)
            <4>1. [Nothing EXCEPT !.at = "look", !.poll = TRUE, !.n = TyLine] \in TyReader
                BY <1>2 DEF TyReader, TyLocations, TyAssumption
            <4>2. [Nothing EXCEPT !.at = "look", !.poll = TRUE, !.n = TyLine].at = "look"
                BY <1>2 DEF TyReader
            <4> QED BY <3>2, <4>1, <4>2 DEF tty_poll, HoldsLock
        <3>3. CASE look_for_line(t) /\ ~tline.ready
            <4>1. ASSUME NEW a \in {"try_kbd", "getchar"}
                  PROVE  /\ [reader[t] EXCEPT !.at = a] \in TyReader
                         /\ [reader[t] EXCEPT !.at = a].at = a
                BY <1>1, <1>2 DEF TyReader, TyLocations
            <4>2. PICK a \in {"try_kbd", "getchar"} : reader' = [reader EXCEPT ![t].at = a]
                BY <3>3 DEF look_for_line, ReaderGoes
            <4>3. reader' = [reader EXCEPT ![t] = [reader[t] EXCEPT !.at = a]]
                BY <4>2
            <4> QED BY <4>1, <4>3 DEF HoldsLock
        <3>4. CASE look_for_line(t) /\ tline.ready
            BY <1>2, <3>4 DEF look_for_line, HoldsLock
        <3>5. CASE tty_input(t)
            <4>1. reader' = [reader EXCEPT ![t] = [reader[t] EXCEPT !.at = "look", !.key = <<"kbd", NoKey>>]]
                BY <3>5 DEF tty_input, AfterInput
            <4>2. /\ [reader[t] EXCEPT !.at = "look", !.key = <<"kbd", NoKey>>] \in TyReader
                  /\ [reader[t] EXCEPT !.at = "look", !.key = <<"kbd", NoKey>>].at = "look"
                BY <1>1, <1>2 DEF TyReader, TyLocations
            <4> QED BY <4>1, <4>2 DEF HoldsLock
        <3>6. CASE raw_key(t)
            <4> DEFINE a == IF reader[t].n + 1 < reader[t].count THEN "raw_more" ELSE "out"
                       new == [reader[t] EXCEPT !.n = reader[t].n + 1, !.key = <<"kbd", NoKey>>, !.at = a]
            <4>1. a \in {"raw_more", "out"} /\ reader[t].n + 1 \in Nat
                BY <1>1 DEF TyReader
            <4>2. reader' = [reader EXCEPT ![t] = new]
                BY <3>6 DEF raw_key
            <4> HIDE DEF a
            <4>3. new \in TyReader /\ new.at = a
                BY <1>1, <1>2, <4>1 DEF TyReader, TyLocations
            <4> QED BY <4>1, <4>2, <4>3 DEF HoldsLock
        <3> QED BY <1>3, <3>1, <3>2, <3>3, <3>4, <3>5, <3>6
    <2>3. /\ reader' \in [TyThreads -> TyReader] /\ reader'[t] = new
          /\ \A u \in TyThreads \ {t} : reader'[u] = reader[u]
        BY <2>2 DEF TyInv, TyTypeOK
    <2>4. TyTypeOK' /\ KeysInterrupt' /\ (Coming' <=> Coming)
        BY <2>1, <2>3 DEF TyInv, TyTypeOK, KeysInterrupt, Coming
    <2>5. ASSUME NEW u \in TyThreads PROVE SleepsRightly(u)'
        <3>1. CASE u = t
            BY <2>2, <2>3, <3>1 DEF SleepsRightly, HoldsLock
        <3>2. CASE u # t
            BY <1>1, <2>1, <2>3, <2>4, <3>2 DEF SleepsRightly
        <3> QED BY <3>1, <3>2
    <2> QED BY <2>4, <2>5 DEF TyInv
<1>4. CASE check_interrupted(t) \/ sched_sleep(t)
    <2>1. PICK new : /\ reader' = [reader EXCEPT ![t] = new] /\ new \in TyReader
                     /\ \/ new.at = "sleeping" /\ reader[t].at = "getchar_sleep" /\ inputLock' = inputLock
                        \/ new.at \in {"out", "getchar"} /\ inputLock' \in {{}, inputLock \ {t}}
                        \/ new.at = "asleep" /\ reader[t].at = "sleeping" /\ t \notin interrupted
                           /\ inputLock' = inputLock \ {t}
        <3>1. ASSUME NEW a \in {"sleeping", "getchar", "asleep"}, reader' = [reader EXCEPT ![t].at = a]
              PROVE  /\ reader' = [reader EXCEPT ![t] = [reader[t] EXCEPT !.at = a]]
                     /\ [reader[t] EXCEPT !.at = a] \in TyReader /\ [reader[t] EXCEPT !.at = a].at = a
            BY <1>1, <1>2, <3>1 DEF TyReader, TyLocations
        <3>2. CASE check_interrupted(t) /\ t \in interrupted
            BY <1>2, <3>2 DEF check_interrupted
        <3>3. CASE check_interrupted(t) /\ t \notin interrupted
            BY <3>1, <3>3 DEF check_interrupted, ReaderGoes, SleepLock
        <3>4. CASE sched_sleep(t) /\ t \in interrupted
            BY <3>1, <3>4 DEF sched_sleep, ReaderGoes
        <3>5. CASE sched_sleep(t) /\ t \notin interrupted
            BY <3>1, <3>5 DEF sched_sleep, ReaderGoes
        <3> QED BY <1>4, <3>2, <3>3, <3>4, <3>5
    <2>2. /\ reader[t].at \in HoldsLock /\ inputLock = {t}
          /\ UNCHANGED <<device, ring, handler>> /\ interrupted' \subseteq interrupted
        BY <1>1, <1>4 DEF check_interrupted, sched_sleep, HoldsLock, SleepsRightly
    <2>3. /\ reader' \in [TyThreads -> TyReader] /\ reader'[t] = new
          /\ \A u \in TyThreads \ {t} : reader'[u] = reader[u]
        BY <2>1 DEF TyInv, TyTypeOK
    <2>4. TyTypeOK' /\ KeysInterrupt' /\ (Coming' <=> Coming)
        BY <2>2, <2>3 DEF TyInv, TyTypeOK, KeysInterrupt, Coming
    <2>5. ASSUME NEW u \in TyThreads PROVE SleepsRightly(u)'
        <3>1. CASE u = t
            BY <1>1, <2>1, <2>2, <2>3, <2>4, <3>1 DEF SleepsRightly, HoldsLock
        <3>2. CASE u # t
            <4>1. reader[u].at \notin HoldsLock
                BY <1>1, <2>2, <3>2 DEF SleepsRightly
            <4> QED BY <1>1, <2>2, <2>3, <2>4, <3>2, <4>1 DEF SleepsRightly
        <3> QED BY <3>1, <3>2
    <2> QED BY <2>4, <2>5 DEF TyInv
<1> QED BY <1>3, <1>4

\* The steps of the devices and their handlers
LEMMA TyDeviceStep ==
    ASSUME TyInv, NEW s \in Sources,
           (\E k \in TyKeys : press(s, k)) \/ irq_handler(s) \/ keyboard_input_arrived(s)
    PROVE  TyInv'
<1>1. \A u \in TyThreads : SleepsRightly(u)
    BY DEF TyInv
<1>2. CASE \E k \in TyKeys : press(s, k)
    <2>1. PICK k \in TyKeys : press(s, k)
        BY <1>2
    <2>2. /\ device' \in [Sources -> [key : TyKeys \cup {NoKey}, irq : BOOLEAN]]
          /\ device'[s].irq /\ \A q \in Sources \ {s} : device'[q] = device[q]
          /\ UNCHANGED <<ring, handler, inputLock, reader, interrupted>>
        BY <2>1 DEF press, TyInv, TyTypeOK
    <2>3. TyTypeOK' /\ KeysInterrupt' /\ Coming'
        BY <2>2 DEF TyInv, TyTypeOK, KeysInterrupt, Coming
    <2>4. ASSUME NEW u \in TyThreads PROVE SleepsRightly(u)'
        BY <1>1, <2>2, <2>3 DEF SleepsRightly
    <2> QED BY <2>3, <2>4 DEF TyInv
<1>3. CASE irq_handler(s)
    <2>1. /\ ring' = [ring EXCEPT ![s] = RingAfter(s)] /\ interrupted' = InterruptedAfter(s)
          /\ reader' = WokenBySignal(s)
          /\ device' = [device EXCEPT ![s] = [key |-> NoKey, irq |-> FALSE]]
          /\ handler' = [handler EXCEPT ![s] = "announce"] /\ inputLock' = inputLock
        BY <1>3 DEF irq_handler
    <2>2. TyTypeOK'
        BY <2>1, RingFacts, WokenFacts DEF TyInv, TyTypeOK
    <2>3. KeysInterrupt'
        BY <2>1 DEF TyInv, TyTypeOK, KeysInterrupt
    <2>4. Coming'
        BY <2>1 DEF TyInv, TyTypeOK, Coming
    <2>5. ASSUME NEW u \in TyThreads PROVE SleepsRightly(u)'
        <3>1. /\ reader'[u] = reader[u] \/ reader'[u].at = "getchar"
              /\ u \in interrupted' /\ reader'[u].at = "asleep" => u \in interrupted
            BY <2>1, WokenFacts DEF TyInv
        <3>2. CASE reader'[u].at = "getchar"
            BY <3>2 DEF SleepsRightly, HoldsLock
        <3>3. CASE reader'[u] = reader[u]
            BY <1>1, <2>1, <2>4, <3>1, <3>3 DEF SleepsRightly
        <3> QED BY <3>1, <3>2, <3>3
    <2> QED BY <2>2, <2>3, <2>5 DEF TyInv
<1>4. CASE keyboard_input_arrived(s)
    <2>1. /\ inputLock = {} /\ handler' = [handler EXCEPT ![s] = "idle"]
          /\ reader' = [u \in TyThreads |-> IF reader[u].at = "asleep" THEN [reader[u] EXCEPT !.at = "getchar"]
                                            ELSE reader[u]]
          /\ UNCHANGED <<device, ring, inputLock, interrupted>>
        BY <1>4 DEF keyboard_input_arrived
    <2>2. ASSUME NEW u \in TyThreads
          PROVE  [reader[u] EXCEPT !.at = "getchar"] \in TyReader /\ [reader[u] EXCEPT !.at = "getchar"].at = "getchar"
        BY DEF TyInv, TyTypeOK, TyReader, TyLocations
    <2>3. TyTypeOK' /\ KeysInterrupt'
        BY <2>1, <2>2 DEF TyInv, TyTypeOK, KeysInterrupt
    <2>4. ASSUME NEW u \in TyThreads PROVE SleepsRightly(u)'
        <3>1. reader[u].at \notin HoldsLock
            BY <1>1, <2>1 DEF SleepsRightly
        <3>2. reader'[u].at \notin HoldsLock \cup {"asleep"}
            BY <2>1, <2>2, <3>1 DEF HoldsLock
        <3> QED BY <3>2 DEF SleepsRightly, HoldsLock
    <2> QED BY <2>3, <2>4 DEF TyInv
<1> QED BY <1>2, <1>3, <1>4

\* Whatever keys, signals and other readers come: nobody sleeps in
\* keyboard_getchar beside a key that nobody is about to announce, or through
\* a signal (keyboard_getchar's lock, keyboard_input_arrived)
THEOREM ReadersAreWoken ==
    ASSUME TyAssumption
    PROVE  TySpec => []TermSleepersWait
<1>1. TyInit => TyInv
    <2> SUFFICES ASSUME TyInit PROVE TyInv
        OBVIOUS
    <2>1. Nothing \in TyReader /\ Nothing.at = "out"
        BY DEF Nothing, TyReader, TyLocations, TyKey, Sources
    <2>2. TyTypeOK /\ KeysInterrupt
        BY <2>1 DEF TyInit, TyTypeOK, KeysInterrupt
    <2>3. ASSUME NEW t \in TyThreads PROVE SleepsRightly(t)
        BY <2>1 DEF TyInit, SleepsRightly, HoldsLock
    <2> QED BY <2>2, <2>3 DEF TyInv
<1>2. TyInv /\ [TyNext]_tyVars => TyInv'
    <2> SUFFICES ASSUME TyInv, [TyNext]_tyVars PROVE TyInv'
        OBVIOUS
    <2>1. CASE UNCHANGED <<device, ring, handler, inputLock, reader, interrupted>>
        BY <2>1 DEF TyInv, TyTypeOK, KeysInterrupt, SleepsRightly, Coming
    <2>2. CASE UNCHANGED tyVars \/ \E on \in BOOLEAN : tty_set_raw(on)
        BY <2>1, <2>2 DEF tyVars, tty_set_raw
    <2>3. CASE \E s \in Sources, k \in TyKeys : press(s, k)
        BY <2>3, TyDeviceStep
    <2>4. CASE \E s \in Sources : irq_handler(s) \/ keyboard_input_arrived(s)
        BY <2>4, TyDeviceStep
    <2>5. CASE \E t \in TyThreads, count \in {1, 3} : tty_read(t, count)
        BY <2>5, TyReaderStep
    <2>6. ASSUME NEW t \in TyThreads,
                 \/ tty_poll(t) \/ look_for_line(t) \/ getchar_kbd(t) \/ getchar_serial(t)
                 \/ check_interrupted(t) \/ sched_sleep(t) \/ serial_getchar(t)
                 \/ try_kbd(t) \/ try_serial(t) \/ tty_input(t) \/ raw_key(t) \/ raw_more(t) \/ raw_serial(t)
          PROVE  TyInv'
        BY <2>6, TyReaderStep, TyPortStep
    <2> QED BY <2>2, <2>3, <2>4, <2>5, <2>6 DEF TyNext
<1>3. TyInv => TermSleepersWait
    <2> SUFFICES ASSUME TyInv, NEW t \in TyThreads, reader[t].at = "asleep"
                 PROVE  t \notin interrupted /\ \A s \in Sources : ring[s] # <<>> => Coming
        BY DEF TermSleepersWait, Coming
    <2>1. SleepsRightly(t) /\ Sources = {"kbd", "serial"}
        BY DEF TyInv, Sources
    <2> QED BY <2>1 DEF SleepsRightly
<1> QED BY <1>1, <1>2, <1>3, PTL DEF TySpec

-----------------------------------------------------------------------------
(* Disk requests.  DiskBooks: every descriptor is free or in one chain, a  *)
(* slot the device may write into is in use, and has one requester or was  *)
(* given up.  DiskReads: what a slot holds once it is answered was on the  *)
(* disk.  DiskCalm, while nothing was given up: what is cached, or may yet *)
(* be, is on the disk or was before the write that is now going on.        *)

\* What the variables of module Disk hold
DkValues == Values \cup {0}
Queue(n) == [size : {n}, next : [0 .. n - 1 -> 0 .. n], more : [0 .. n - 1 -> BOOLEAN],
             addr : [0 .. n - 1 -> Nat], head : 0 .. n, count : 0 .. n]
BlkSlot == [in_use : BOOLEAN, done : BOOLEAN, op : {"read", "write"}, lba : Nat, data : DkValues,
            status : Nat]
Request == [pc : {"idle", "claim", "sleep", "submit", "wait", "release", "update", "store", "read", "failed"},
            op : {"read", "write"}, lba : Nat, value : DkValues, slot : Nat, id : Int, writes : Nat,
            ok : BOOLEAN, answered : BOOLEAN, direct : BOOLEAN, seen : SUBSET DkValues]
Cached == [valid : BOOLEAN, lba : Nat, data : DkValues]
SectorCache == [entries : [0 .. CacheSize - 1 -> Cached], writes : Nat, ready : BOOLEAN]
Bounds == [reads : Int, writes : Int, timeouts : Int, most : Int]
DiskTypeOK ==
    /\ vq.size \in Nat /\ vq \in Queue(vq.size)
    /\ avail \subseteq Descs /\ used \in Seq(Descs)
    /\ Slots \subseteq Nat /\ slots \in [Slots -> BlkSlot]
    /\ slot_of \in [Descs -> Nat]
    /\ cache \in SectorCache
    /\ disk \in [Sectors -> DkValues]
    /\ req \in [Requesters -> Request]
    /\ diskLeft \in Bounds

\* The free list of a queue, in order
IsFree(q, L) ==
    /\ L \in [1 .. q.count -> 0 .. q.size - 1]
    /\ \A i, j \in 1 .. q.count : L[i] = L[j] => i = j
    /\ q.count > 0 => L[1] = q.head
    /\ \A i \in 1 .. q.count - 1 : q.next[L[i]] = L[i + 1]
Links(q, id) == {id, q.next[id], q.next[q.next[id]]}
ChainOK(q, id) ==
    LET b == q.next[id]
        c == q.next[b]
    IN  /\ b \in 0 .. q.size - 1 /\ c \in 0 .. q.size - 1
        /\ id # b /\ b # c /\ id # c
        /\ q.more[id] /\ q.more[b] /\ ~q.more[c]
Lists(q, ids) ==
    \E L \in [1 .. q.count -> 0 .. q.size - 1] :
        IsFree(q, L) /\ \A id \in ids, i \in 1 .. q.count : L[i] \notin Links(q, id)
QueueOK(q, ids) ==
    /\ \A id \in ids : ChainOK(q, id)
    /\ \A a, b \in ids : a # b => Links(q, a) \cap Links(q, b) = {}
    /\ q.count + 3 * Cardinality(ids) = q.size
    /\ Lists(q, ids)
UsedOnce ==
    /\ \A i, j \in DOMAIN used : used[i] = used[j] => i = j
    /\ \A i \in DOMAIN used : used[i] \notin avail

WithSlot == {"submit", "wait", "release"}
Early == {"claim", "sleep", "submit", "wait"}
HoldersOK ==
    /\ \A t \in Requesters : req[t].pc \in WithSlot =>
          /\ req[t].slot \in Slots /\ slots[req[t].slot].in_use
          /\ req[t].pc = "submit" => ~slots[req[t].slot].done
          /\ req[t].pc = "wait" => req[t].id >= 0
    /\ \A t, u \in Requesters :
          req[t].pc \in WithSlot /\ req[u].pc \in WithSlot /\ req[t].slot = req[u].slot => t = u
    /\ \A t \in Requesters : req[t].pc \in Early => ~req[t].answered
    /\ \A t \in Requesters : req[t].pc # "idle" => req[t].lba \in Sectors
    /\ \A t \in Requesters : req[t].pc = "sleep" => \A s \in Slots : slots[s].in_use
QueuedOK ==
    /\ \A id \in InQueue :
          LET s == vq.addr[id] IN
          s \in Slots /\ slots[s].in_use /\ ~slots[s].done /\ slot_of[id] = s /\ slots[s].lba \in Sectors
    /\ \A a, b \in InQueue : vq.addr[a] = vq.addr[b] => a = b
    /\ \A t \in Requesters, id \in InQueue :
          req[t].pc = "submit" \/ (req[t].pc = "release" /\ GivenBack(t)) => vq.addr[id] # req[t].slot

Fetching(t) == req[t].pc \in {"wait", "release"}
Fetched(t) == req[t].op = "read" /\ Fetching(t) /\ slots[req[t].slot].status = 0
\* A request's slot is about it, and a read's answer is what the disk held
ReqOK(t) ==
    /\ Fetching(t) => /\ slots[req[t].slot].op = req[t].op /\ slots[req[t].slot].lba = req[t].lba
                      /\ req[t].op = "write" => slots[req[t].slot].data = req[t].value
    /\ req[t].pc = "release" /\ req[t].ok => req[t].answered /\ slots[req[t].slot].status = 0
    /\ req[t].pc \in Early => ~req[t].ok
    /\ req[t].pc = "update" => req[t].op = "write"
    /\ req[t].pc \in {"store", "read", "failed", "idle"} => req[t].op = "read"
    /\ req[t].pc # "idle" => disk[req[t].lba] \in req[t].seen
    /\ Fetched(t) => slots[req[t].slot].data \in req[t].seen
    /\ req[t].pc = "store" => req[t].value \in req[t].seen
    /\ req[t].op = "read" /\ req[t].pc \notin {"idle", "read", "failed"} =>
          req[t].writes <= cache.writes /\ (~req[t].direct => cache.ready)
OneWriter == \A t, u \in Requesters : req[t].op = "write" /\ req[u].op = "write" => t = u
DiskReads == (\A t \in Requesters : ReqOK(t)) /\ OneWriter /\ diskLeft.timeouts <= diskLeft.most

\* As long as no request has been given up: who asked for what is in the queue
\* waits for it, what is written is on the disk, and what is cached is on it too
\* or is being written over
Known(lba, v) == v = disk[lba] \/ \E u \in Writing(lba) : v \in req[u].seen
Young(t) == ~req[t].direct /\ req[t].writes = cache.writes
Awaited == \A id \in InQueue : \E t \in Requesters : req[t].pc = "wait" /\ req[t].slot = vq.addr[id]
CalmOK(t) ==
    /\ req[t].op = "write" /\ Fetching(t) /\ slots[req[t].slot].status = 0 => disk[req[t].lba] = req[t].value
    /\ req[t].pc = "update" /\ req[t].ok => disk[req[t].lba] = req[t].value
    /\ Fetched(t) /\ Young(t) => Known(req[t].lba, slots[req[t].slot].data)
    /\ req[t].pc = "store" /\ Young(t) => Known(req[t].lba, req[t].value)
    /\ req[t].pc = "read" => req[t].value \in req[t].seen
EntriesKnown == \A p \in 0 .. CacheSize - 1 : cache.entries[p].valid =>
    /\ cache.entries[p].lba \in Sectors /\ Place(cache.entries[p].lba) = p /\ cache.ready
    /\ Known(cache.entries[p].lba, cache.entries[p].data)
DiskCalm == ~MayLandLate => Awaited /\ (\A t \in Requesters : CalmOK(t)) /\ EntriesKnown
DiskBooks == DiskTypeOK /\ QueueOK(vq, InQueue) /\ UsedOnce /\ HoldersOK /\ QueuedOK

\* A set of numbers that is not empty has a least
LEMMA LeastNumber ==
    ASSUME NEW S \in SUBSET Nat, S # {}
    PROVE  \E n \in S : \A m \in S : n <= m
<1> DEFINE R == {ss \in Nat \X Nat : ss[1] < ss[2]}
<1>1. IsWellFoundedOn(R, Nat)
    BY NatLessThanWellFounded, Zenon DEF OpToRel
<1>2. PICK s \in S : \A o \in S : ~ (<<o, s>> \in R)
    <2> HIDE DEF R
    <2> QED BY <1>1, WFMin
<1>3. ASSUME NEW o \in S PROVE s <= o
    <2>1. o \in Nat /\ s \in Nat /\ (o < s => <<o, s>> \in R)
        OBVIOUS
    <2> QED BY <1>2, <2>1
<1> QED BY <1>3

\* A chain that is whole is its three links, and its last is found
LEMMA WholeChain ==
    ASSUME vq.size \in Nat, NEW q \in Queue(vq.size), NEW id \in Descs, ChainOK(q, id)
    PROVE  /\ q.next[id] \in Descs /\ q.next[q.next[id]] \in Descs
           /\ Chain(q, id) = <<id, q.next[id], q.next[q.next[id]]>>
           /\ ChainEnd(q, id) = [last |-> q.next[q.next[id]], freed |-> 3]
<1> DEFINE b == q.next[id]
           c == q.next[b]
<1>1. b \in Descs /\ c \in Descs /\ q.more[id] /\ q.more[b] /\ ~q.more[c]
    BY DEF ChainOK, Queue, Descs
<1> HIDE DEF c
<1>2. Chain(q, id) = <<id, b, c>>
    BY <1>1 DEF Chain, After, c
<1> HIDE DEF b
<1> DEFINE ch == <<id, b, c>>
           n == CHOOSE i \in 1 .. CHAIN : ~q.more[ch[i]] /\ \A j \in 1 .. i - 1 : q.more[ch[j]]
<1>3. ch[1] = id /\ ch[2] = b /\ ch[3] = c
    OBVIOUS
<1> HIDE DEF ch
<1>4. \E i \in 1 .. CHAIN : ~q.more[ch[i]] /\ \A j \in 1 .. i - 1 : q.more[ch[j]]
    <2>1. 3 \in 1 .. CHAIN /\ \A j \in 1 .. 3 - 1 : j = 1 \/ j = 2
        BY DEF CHAIN
    <2> QED BY <1>1, <1>3, <2>1
<1>5. n \in 1 .. CHAIN /\ ~q.more[ch[n]]
    BY <1>4
<1> HIDE DEF n
<1>6. n = 3
    <2>1. n = 1 \/ n = 2 \/ n = 3
        BY <1>5 DEF CHAIN
    <2> QED BY <1>1, <1>3, <1>5, <2>1
<1>7. ChainEnd(q, id) = [last |-> ch[n], freed |-> n]
    BY <1>2 DEF ChainEnd, n, ch
<1> QED BY <1>1, <1>2, <1>3, <1>6, <1>7 DEF b, c, ch

\* ... so that virtqueue_collect puts all three at the head of the free list
LEMMA CollectIs ==
    ASSUME vq.size \in Nat, NEW q \in Queue(vq.size), NEW id \in Descs, ChainOK(q, id), NEW r,
           r = virtqueue_collect(q, id), q.count + 3 <= vq.size
    PROVE  /\ r \in Queue(vq.size)
           /\ r.size = q.size /\ r.more = q.more /\ r.addr = q.addr
           /\ r.head = id /\ r.count = q.count + 3
           /\ r.next = [q.next EXCEPT ![q.next[q.next[id]]] = q.head]
<1> DEFINE c == q.next[q.next[id]]
<1>1. c \in Descs /\ ChainEnd(q, id) = [last |-> c, freed |-> 3]
    BY WholeChain
<1> HIDE DEF c
<1>2. r = [q EXCEPT !.next[c] = q.head, !.head = id, !.count = q.count + 3]
    BY <1>1 DEF virtqueue_collect
<1>3. /\ r.size = q.size /\ r.more = q.more /\ r.addr = q.addr
      /\ r.head = id /\ r.count = q.count + 3
      /\ r.next = [q.next EXCEPT ![c] = q.head]
    BY <1>2 DEF Queue
<1>4. r.next \in [0 .. vq.size - 1 -> 0 .. vq.size]
    BY <1>1, <1>3 DEF Queue, Descs
<1>5. r.count \in 0 .. vq.size /\ r.head \in 0 .. vq.size
    BY <1>3 DEF Queue, Descs
<1>6. r = [size |-> r.size, next |-> r.next, more |-> r.more, addr |-> r.addr, head |-> r.head, count |-> r.count]
    BY <1>2 DEF Queue
<1>7. r \in Queue(vq.size)
    BY <1>3, <1>4, <1>5, <1>6 DEF Queue
<1> QED BY <1>3, <1>7 DEF c

\* Collecting a chain keeps the queue's lists apart
LEMMA CollectKeeps ==
    ASSUME vq.size \in Nat, NEW q \in Queue(vq.size), NEW ids \in SUBSET Descs, QueueOK(q, ids),
           NEW id \in ids, NEW r, r = virtqueue_collect(q, id)
    PROVE  r \in Queue(vq.size) /\ QueueOK(r, ids \ {id}) /\ r.addr = q.addr
<1> DEFINE b == q.next[id]
           c == q.next[b]
<1>0. q.size = vq.size /\ q.count \in Nat /\ q.next \in [Descs -> 0 .. vq.size] /\ id \in Descs
    BY DEF Queue, Descs
<1>1. IsFiniteSet(ids) /\ Cardinality(ids) \in Nat /\ Cardinality(ids \ {id}) = Cardinality(ids) - 1
    <2>1. IsFiniteSet(Descs)
        BY <1>0, FS_Interval DEF Descs
    <2> QED BY <2>1, FS_Subset, FS_RemoveElement, FS_CardinalityType
<1>2. Cardinality(ids) >= 1
    BY <1>1, FS_RemoveElement, FS_CardinalityType, FS_Subset
<1>3. q.count + 3 * Cardinality(ids) = q.size
    BY DEF QueueOK
<1>4. q.count + 3 <= vq.size
    BY <1>0, <1>1, <1>2, <1>3
<1>5. \A a \in ids : ChainOK(q, a)
    BY DEF QueueOK
<1>6. /\ r \in Queue(vq.size)
      /\ r.size = q.size /\ r.more = q.more /\ r.addr = q.addr
      /\ r.head = id /\ r.count = q.count + 3
      /\ r.next = [q.next EXCEPT ![c] = q.head]
    BY <1>0, <1>4, <1>5, CollectIs
<1>7. /\ b \in Descs /\ c \in Descs /\ id # b /\ b # c /\ id # c
    BY <1>0, <1>5, WholeChain DEF ChainOK
<1>8. \A a, z \in ids : a # z => Links(q, a) \cap Links(q, z) = {}
    BY DEF QueueOK
<1>9. PICK L \in [1 .. q.count -> 0 .. q.size - 1] :
         IsFree(q, L) /\ \A a \in ids, i \in 1 .. q.count : L[i] \notin Links(q, a)
    BY DEF QueueOK, Lists
<1>10. id \in Links(q, id) /\ b \in Links(q, id) /\ c \in Links(q, id)
    BY DEF Links
<1> HIDE DEF c, b
<1>11. \A d \in Descs : r.next[d] = IF d = c THEN q.head ELSE q.next[d]
    BY <1>0, <1>6
\* the other chains stay as they are
<1>12. ASSUME NEW a \in ids \ {id}
       PROVE  Links(r, a) = Links(q, a) /\ ChainOK(r, a)
    <2>1. c \notin Links(q, a)
        BY <1>8, <1>10
    <2>2. a \in Descs /\ q.next[a] \in Descs /\ a # c /\ q.next[a] # c
        BY <1>0, <1>5, <2>1, WholeChain DEF Links
    <2>3. r.next[a] = q.next[a] /\ r.next[q.next[a]] = q.next[q.next[a]]
        BY <1>11, <2>2
    <2> QED BY <1>5, <1>6, <2>3 DEF Links, ChainOK
\* the collected chain is put before the free list
<1> DEFINE M == [i \in 1 .. r.count |-> IF i = 1 THEN id ELSE IF i = 2 THEN b ELSE IF i = 3 THEN c ELSE L[i - 3]]
<1>13. /\ M[1] = id /\ M[2] = b /\ M[3] = c
       /\ \A i \in 4 .. r.count : i - 3 \in 1 .. q.count /\ M[i] = L[i - 3]
       /\ \A i \in 1 .. r.count : i = 1 \/ i = 2 \/ i = 3 \/ i \in 4 .. r.count
       /\ DOMAIN M = 1 .. r.count
    BY <1>0, <1>6
<1>15. \A i \in 1 .. q.count : L[i] # id /\ L[i] # b /\ L[i] # c /\ L[i] \in Descs
    BY <1>0, <1>9, <1>10 DEF Descs
<1>14. M \in [1 .. r.count -> 0 .. r.size - 1]
    <2>1. M = [i \in 1 .. r.count |-> M[i]]
        OBVIOUS
    <2> HIDE DEF M
    <2>2. \A i \in 1 .. r.count : M[i] \in Descs
        BY <1>0, <1>7, <1>13, <1>15
    <2> QED BY <1>0, <1>6, <2>1, <2>2 DEF Descs
<1> HIDE DEF M
<1>16. ASSUME NEW i \in 1 .. r.count, NEW j \in 1 .. r.count, M[i] = M[j] PROVE i = j
    <2>1. CASE i \in 4 .. r.count /\ j \in 4 .. r.count
        <3>1. L[i - 3] = L[j - 3] /\ i - 3 \in 1 .. q.count /\ j - 3 \in 1 .. q.count
            BY <1>13, <1>16, <2>1
        <3>2. i - 3 = j - 3
            BY <1>9, <3>1 DEF IsFree
        <3> QED BY <2>1, <3>2
    <2>2. CASE i \in 4 .. r.count /\ j \notin 4 .. r.count
        BY <1>7, <1>13, <1>15, <1>16, <2>2
    <2>3. CASE i \notin 4 .. r.count /\ j \in 4 .. r.count
        BY <1>7, <1>13, <1>15, <1>16, <2>3
    <2>4. CASE i \notin 4 .. r.count /\ j \notin 4 .. r.count
        BY <1>7, <1>13, <1>16, <2>4
    <2> QED BY <2>1, <2>2, <2>3, <2>4
<1>17. ASSUME NEW i \in 1 .. r.count - 1 PROVE r.next[M[i]] = M[i + 1]
    <2>1. CASE i = 1
        BY <1>0, <1>7, <1>11, <1>13, <2>1 DEF b
    <2>2. CASE i = 2
        BY <1>7, <1>11, <1>13, <2>2 DEF c
    <2>3. CASE i = 3
        <3>1. r.next[c] = q.head
            BY <1>7, <1>11
        <3>2. 4 \in 4 .. r.count /\ q.count > 0
            BY <1>0, <1>6, <2>3
        <3>3. M[4] = L[1] /\ L[1] = q.head
            BY <1>9, <1>13, <3>2 DEF IsFree
        <3> QED BY <1>13, <2>3, <3>1, <3>3
    <2>4. CASE i > 3
        <3>1. i \in 4 .. r.count /\ i + 1 \in 4 .. r.count /\ i - 3 \in 1 .. q.count - 1
            BY <1>0, <1>6, <2>4
        <3>2. M[i] = L[i - 3] /\ M[i + 1] = L[(i + 1) - 3] /\ (i + 1) - 3 = (i - 3) + 1
            BY <1>13, <3>1
        <3>3. q.next[L[i - 3]] = L[(i - 3) + 1]
            BY <1>9, <3>1 DEF IsFree
        <3>4. L[i - 3] \in Descs /\ L[i - 3] # c
            BY <1>13, <1>15, <3>1
        <3> QED BY <1>11, <3>2, <3>3, <3>4
    <2> QED BY <2>1, <2>2, <2>3, <2>4
<1>18. IsFree(r, M)
    BY <1>6, <1>13, <1>14, <1>16, <1>17 DEF IsFree
<1>19. ASSUME NEW a \in ids \ {id}, NEW i \in 1 .. r.count PROVE M[i] \notin Links(r, a)
    <2>1. Links(q, id) \cap Links(q, a) = {} /\ Links(r, a) = Links(q, a)
        BY <1>8, <1>12
    <2>2. CASE i \in 4 .. r.count
        BY <1>9, <1>13, <2>1, <2>2
    <2>3. CASE i \notin 4 .. r.count
        BY <1>10, <1>13, <2>1, <2>3
    <2> QED BY <2>2, <2>3
<1>20. Lists(r, ids \ {id})
    BY <1>14, <1>18, <1>19 DEF Lists
<1>21. r.count + 3 * Cardinality(ids \ {id}) = r.size
    BY <1>0, <1>1, <1>3, <1>6
<1> QED BY <1>6, <1>8, <1>12, <1>20, <1>21 DEF QueueOK

\* What virtqueue_add takes off the free list is a chain, and the rest is the list
LEMMA AddKeeps ==
    ASSUME vq.size \in Nat, NEW q \in Queue(vq.size), NEW ids \in SUBSET Descs, QueueOK(q, ids),
           q.count >= 3, NEW s \in Nat, NEW r, r = virtqueue_add(q, s)
    PROVE  /\ q.head \in Descs /\ q.head \notin ids
           /\ r \in Queue(vq.size) /\ QueueOK(r, ids \cup {q.head})
           /\ r.addr[q.head] = s /\ \A id \in ids : r.addr[id] = q.addr[id]
<1>0. q.size = vq.size /\ q.count \in Nat /\ q.next \in [Descs -> 0 .. vq.size] /\ q.count <= vq.size
    BY DEF Queue, Descs
<1>1. PICK L \in [1 .. q.count -> 0 .. q.size - 1] :
         IsFree(q, L) /\ \A a \in ids, i \in 1 .. q.count : L[i] \notin Links(q, a)
    BY DEF QueueOK, Lists
<1> DEFINE a0 == L[1]
           b0 == L[2]
           c0 == L[3]
<1>2. 1 \in 1 .. q.count /\ 2 \in 1 .. q.count /\ 3 \in 1 .. q.count
    BY <1>0
<1>3. a0 = q.head /\ a0 \in Descs /\ b0 \in Descs /\ c0 \in Descs
    BY <1>0, <1>1, <1>2 DEF IsFree, Descs
<1>4. a0 # b0 /\ b0 # c0 /\ a0 # c0
    <2>1. \A i, j \in 1 .. q.count : L[i] = L[j] => i = j
        BY <1>1 DEF IsFree
    <2> QED BY <1>2, <2>1
<1>5. q.next[a0] = b0 /\ q.next[b0] = c0
    <2>1. 1 \in 1 .. q.count - 1 /\ 2 \in 1 .. q.count - 1
        BY <1>0
    <2>2. q.next[L[1]] = L[1 + 1] /\ q.next[L[2]] = L[2 + 1]
        BY <1>1, <2>1 DEF IsFree
    <2> QED BY <2>2
<1>6. \A a \in ids : a0 \notin Links(q, a) /\ b0 \notin Links(q, a) /\ c0 \notin Links(q, a)
    BY <1>1, <1>2
<1>7. \A i \in 4 .. q.count : i \in 1 .. q.count /\ L[i] # a0 /\ L[i] # b0 /\ L[i] # c0 /\ L[i] \in Descs
    <2>1. \A i, j \in 1 .. q.count : L[i] = L[j] => i = j
        BY <1>1 DEF IsFree
    <2>2. \A i \in 4 .. q.count : i \in 1 .. q.count /\ i # 1 /\ i # 2 /\ i # 3
        BY <1>0
    <2> QED BY <1>0, <1>1, <1>2, <2>1, <2>2 DEF Descs
<1>8. q.count > 3 => q.next[c0] = L[4]
    <2>1. q.count > 3 => 3 \in 1 .. q.count - 1
        BY <1>0
    <2>2. q.count > 3 => q.next[L[3]] = L[3 + 1]
        BY <1>1, <2>1 DEF IsFree
    <2> QED BY <2>2
<1> HIDE DEF a0, b0, c0
<1>9. Chain(q, q.head) = <<a0, b0, c0>> /\ After(q, c0) = q.next[c0]
    BY <1>3, <1>5 DEF Chain, After
<1>10. r = [q EXCEPT !.more = [d \in Descs |-> IF d \in {a0, b0, c0} THEN d # c0 ELSE q.more[d]],
                     !.addr = [d \in Descs |-> IF d \in {a0, b0, c0} THEN s ELSE q.addr[d]],
                     !.head = q.next[c0], !.count = q.count - 3]
    <2> DEFINE ch == <<a0, b0, c0>>
    <2>1. ch[1] = a0 /\ ch[2] = b0 /\ ch[3] = c0
        OBVIOUS
    <2>2. Chain(q, q.head) = ch
        BY <1>9
    <2> HIDE DEF ch
    <2>3. r = [q EXCEPT !.more = [d \in Descs |-> IF d \in {ch[1], ch[2], ch[3]} THEN d # ch[3] ELSE q.more[d]],
                        !.addr = [d \in Descs |-> IF d \in {ch[1], ch[2], ch[3]} THEN s ELSE q.addr[d]],
                        !.head = After(q, ch[3]), !.count = q.count - 3]
        BY <2>2, Zenon DEF virtqueue_add, CHAIN
    <2>4. After(q, ch[3]) = q.next[c0]
        BY <1>9, <2>1
    <2> QED BY <2>1, <2>3, <2>4, Zenon
<1>11. /\ r.size = q.size /\ r.next = q.next /\ r.head = q.next[c0] /\ r.count = q.count - 3
       /\ r.more = [d \in Descs |-> IF d \in {a0, b0, c0} THEN d # c0 ELSE q.more[d]]
       /\ r.addr = [d \in Descs |-> IF d \in {a0, b0, c0} THEN s ELSE q.addr[d]]
    BY <1>10 DEF Queue
<1>12. r \in Queue(vq.size)
    <2>1. r.more \in [0 .. vq.size - 1 -> BOOLEAN] /\ r.addr \in [0 .. vq.size - 1 -> Nat]
        <3>1. q.more \in [Descs -> BOOLEAN] /\ q.addr \in [Descs -> Nat]
            BY DEF Queue, Descs
        <3>2. \A d \in Descs : r.more[d] \in BOOLEAN
            BY <1>11, <3>1, Zenon
        <3>3. \A d \in Descs : r.addr[d] \in Nat
            BY <1>11, <3>1
        <3>4. r.more = [d \in Descs |-> r.more[d]] /\ r.addr = [d \in Descs |-> r.addr[d]]
            BY <1>11
        <3> QED BY <3>2, <3>3, <3>4, Zenon DEF Descs
    <2>2. r.head \in 0 .. vq.size /\ r.count \in 0 .. vq.size
        BY <1>0, <1>3, <1>11
    <2>3. r = [size |-> r.size, next |-> r.next, more |-> r.more, addr |-> r.addr, head |-> r.head, count |-> r.count]
        BY <1>10 DEF Queue
    <2> QED BY <1>0, <1>11, <2>1, <2>2, <2>3 DEF Queue, Descs
<1>13. q.head \notin ids
    BY <1>3, <1>6 DEF Links
<1>14. ASSUME NEW a \in ids
       PROVE  Links(r, a) = Links(q, a) /\ ChainOK(r, a) /\ r.addr[a] = q.addr[a]
    <2>1. ChainOK(q, a) /\ a \in Descs
        BY DEF QueueOK
    <2>2. /\ a \in Descs /\ q.next[a] \in Descs /\ q.next[q.next[a]] \in Descs
          /\ Links(q, a) = {a, q.next[a], q.next[q.next[a]]}
        BY <1>0, <2>1, WholeChain DEF Links
    <2>3. r.more[a] = q.more[a] /\ r.more[q.next[a]] = q.more[q.next[a]]
          /\ r.more[q.next[q.next[a]]] = q.more[q.next[q.next[a]]] /\ r.addr[a] = q.addr[a]
        BY <1>6, <1>11, <2>2
    <2> QED BY <1>11, <2>1, <2>3 DEF Links, ChainOK
<1>15. /\ Links(r, q.head) = {a0, b0, c0} /\ ChainOK(r, q.head) /\ r.addr[q.head] = s
    <2>1. r.next[a0] = b0 /\ r.next[b0] = c0
        BY <1>5, <1>11
    <2>2. r.more[a0] /\ r.more[b0] /\ ~r.more[c0] /\ r.addr[a0] = s
        BY <1>3, <1>4, <1>11
    <2>3. b0 \in 0 .. r.size - 1 /\ c0 \in 0 .. r.size - 1
        BY <1>0, <1>3, <1>11 DEF Descs
    <2> QED BY <1>3, <1>4, <2>1, <2>2, <2>3 DEF Links, ChainOK
<1>16. \A a, z \in ids : a # z => Links(q, a) \cap Links(q, z) = {}
    BY DEF QueueOK
<1>17. \A a, z \in ids \cup {q.head} : a # z => Links(r, a) \cap Links(r, z) = {}
    BY <1>6, <1>14, <1>15, <1>16
<1> DEFINE M == [i \in 1 .. r.count |-> L[i + 3]]
<1>18. /\ DOMAIN M = 1 .. r.count
       /\ \A i \in 1 .. r.count : i + 3 \in 4 .. q.count /\ M[i] = L[i + 3]
    BY <1>0, <1>11
<1>19. M \in [1 .. r.count -> 0 .. r.size - 1]
    <2>1. M = [i \in 1 .. r.count |-> M[i]]
        OBVIOUS
    <2> HIDE DEF M
    <2>2. \A i \in 1 .. r.count : M[i] \in Descs
        BY <1>7, <1>18
    <2> QED BY <1>0, <1>11, <2>1, <2>2 DEF Descs
<1> HIDE DEF M
<1>20. ASSUME NEW i \in 1 .. r.count, NEW j \in 1 .. r.count, M[i] = M[j] PROVE i = j
    <2>1. i + 3 \in 1 .. q.count /\ j + 3 \in 1 .. q.count /\ L[i + 3] = L[j + 3]
        BY <1>7, <1>18, <1>20
    <2>2. i + 3 = j + 3
        BY <1>1, <2>1 DEF IsFree
    <2> QED BY <2>2
<1>21. ASSUME NEW i \in 1 .. r.count - 1 PROVE r.next[M[i]] = M[i + 1]
    <2>1. i \in 1 .. r.count /\ i + 1 \in 1 .. r.count /\ i + 3 \in 1 .. q.count - 1 /\ (i + 1) + 3 = (i + 3) + 1
        BY <1>0, <1>11
    <2>2. q.next[L[i + 3]] = L[(i + 3) + 1]
        BY <1>1, <2>1 DEF IsFree
    <2> QED BY <1>11, <1>18, <2>1, <2>2
<1>22. r.count > 0 => M[1] = r.head
    <2>1. r.count > 0 => 1 \in 1 .. r.count /\ 1 + 3 = 4 /\ q.count > 3
        BY <1>0, <1>11
    <2> QED BY <1>8, <1>11, <1>18, <2>1
<1>23. IsFree(r, M)
    BY <1>19, <1>20, <1>21, <1>22 DEF IsFree
<1>24. ASSUME NEW a \in ids \cup {q.head}, NEW i \in 1 .. r.count PROVE M[i] \notin Links(r, a)
    <2>1. CASE a \in ids
        BY <1>1, <1>7, <1>14, <1>18, <2>1
    <2>2. CASE a = q.head
        BY <1>7, <1>15, <1>18, <2>2
    <2> QED BY <2>1, <2>2
<1>25. Lists(r, ids \cup {q.head})
    BY <1>19, <1>23, <1>24 DEF Lists
<1>26. r.count + 3 * Cardinality(ids \cup {q.head}) = r.size
    <2>1. IsFiniteSet(ids)
        <3>1. IsFiniteSet(Descs)
            BY <1>0, FS_Interval DEF Descs
        <3> QED BY <3>1, FS_Subset
    <2>2. Cardinality(ids \cup {q.head}) = Cardinality(ids) + 1 /\ Cardinality(ids) \in Nat
        BY <1>13, <2>1, FS_AddElement, FS_CardinalityType
    <2>3. q.count + 3 * Cardinality(ids) = q.size
        BY DEF QueueOK
    <2> QED BY <1>0, <1>11, <2>2, <2>3
<1>27. QueueOK(r, ids \cup {q.head})
    BY <1>14, <1>15, <1>17, <1>25, <1>26 DEF QueueOK
<1> QED BY <1>3, <1>12, <1>13, <1>14, <1>15, <1>27

\* The recursion over the used ring is well defined
LEMMA CollectedIs ==
    ASSUME Len(used) \in Nat
    PROVE  Collected = [i \in 0 .. Len(used) |-> IF i = 0 THEN vq ELSE virtqueue_collect(Collected[i - 1], used[i])]
<1> DEFINE Ok(n) == \E f : f = [i \in 0 .. n |-> IF i = 0 THEN vq ELSE virtqueue_collect(f[i - 1], used[i])]
           Bad == {n \in Nat : ~Ok(n)}
<1>1. ASSUME Bad # {} PROVE FALSE
    <2>1. PICK n \in Bad : \A m \in Bad : n <= m
        <3> HIDE DEF Bad
        <3>1. Bad \in SUBSET Nat
            BY DEF Bad
        <3> QED BY <1>1, <3>1, LeastNumber
    <2>2. n \in Nat /\ ~Ok(n)
        BY <2>1
    <2>3. n # 0
        <3> DEFINE g == [i \in 0 .. 0 |-> vq]
        <3>1. g = [i \in 0 .. 0 |-> IF i = 0 THEN vq ELSE virtqueue_collect(g[i - 1], used[i])]
            OBVIOUS
        <3>2. Ok(0)
            BY <3>1
        <3> QED BY <2>2, <3>2
    <2>4. Ok(n - 1)
        <3>1. n - 1 \in Nat /\ ~(n <= n - 1)
            BY <2>2, <2>3
        <3> HIDE DEF Ok
        <3> QED BY <2>1, <3>1
    <2>5. PICK g : g = [i \in 0 .. n - 1 |-> IF i = 0 THEN vq ELSE virtqueue_collect(g[i - 1], used[i])]
        BY <2>4
    <2> DEFINE f == [i \in 0 .. n |-> IF i < n THEN g[i] ELSE virtqueue_collect(g[n - 1], used[n])]
    <2>6. \A i \in 0 .. n : i # 0 => i - 1 \in 0 .. n - 1 /\ f[i - 1] = g[i - 1]
        BY <2>2, <2>3
    <2>7. \A i \in 0 .. n - 1 : f[i] = g[i]
        BY <2>2
    <2>8. f[n] = virtqueue_collect(g[n - 1], used[n]) /\ f = [i \in 0 .. n |-> f[i]]
        BY <2>2
    <2> HIDE DEF f
    <2>9. ASSUME NEW i \in 0 .. n
          PROVE  f[i] = IF i = 0 THEN vq ELSE virtqueue_collect(f[i - 1], used[i])
        <3>1. CASE i = n
            BY <2>2, <2>3, <2>6, <2>8, <3>1
        <3>2. CASE i # n
            <4>1. i \in 0 .. n - 1
                BY <2>2, <3>2
            <4>2. g[i] = IF i = 0 THEN vq ELSE virtqueue_collect(g[i - 1], used[i])
                BY <2>5, <4>1
            <4> QED BY <2>6, <2>7, <4>1, <4>2
        <3> QED BY <3>1, <3>2
    <2>10. f = [i \in 0 .. n |-> IF i = 0 THEN vq ELSE virtqueue_collect(f[i - 1], used[i])]
        BY <2>8, <2>9
    <2>11. Ok(n)
        BY <2>10
    <2> QED BY <2>2, <2>11
<1>2. Ok(Len(used))
    BY <1>1
<1>3. PICK f : f = [i \in 0 .. Len(used) |-> IF i = 0 THEN vq ELSE virtqueue_collect(f[i - 1], used[i])]
    BY <1>2
<1> QED BY <1>3 DEF Collected

\* Collecting every answer leaves the device's requests, and nothing else, in the queue
LEMMA AllCollected ==
    ASSUME DiskTypeOK, QueueOK(vq, InQueue), UsedOnce
    PROVE  LET r == Collected[Len(used)]
           IN  r \in Queue(vq.size) /\ QueueOK(r, avail) /\ r.addr = vq.addr
<1> DEFINE n == Len(used)
           still(i) == InQueue \ {used[j] : j \in 1 .. i}
           Ok(i) == Collected[i] \in Queue(vq.size) /\ QueueOK(Collected[i], still(i)) /\ Collected[i].addr = vq.addr
           Bad == {i \in 0 .. n : ~Ok(i)}
<1>0. /\ vq.size \in Nat /\ vq \in Queue(vq.size) /\ avail \subseteq Descs /\ used \in Seq(Descs)
      /\ n \in Nat /\ DOMAIN used = 1 .. n
    BY DEF DiskTypeOK
<1>1. InQueue \subseteq Descs
    BY <1>0 DEF InQueue
<1>2. \A i \in 0 .. n : Collected[i] = IF i = 0 THEN vq ELSE virtqueue_collect(Collected[i - 1], used[i])
    BY <1>0, CollectedIs
<1>3. Ok(0)
    <2>1. Collected[0] = vq
        BY <1>0, <1>2
    <2>2. still(0) = InQueue
        OBVIOUS
    <2> QED BY <1>0, <2>1, <2>2
<1>4. ASSUME Bad # {} PROVE FALSE
    <2>1. PICK k \in Bad : \A m \in Bad : k <= m
        <3> HIDE DEF Bad
        <3>1. Bad \in SUBSET Nat
            BY <1>0 DEF Bad
        <3> QED BY <1>4, <3>1, LeastNumber
    <2>2. k \in 0 .. n /\ ~Ok(k) /\ k # 0
        BY <1>3, <2>1
    <2>3. k - 1 \in 0 .. n /\ ~(k <= k - 1) /\ k \in 1 .. n
        BY <1>0, <2>2
    <2>4. Ok(k - 1)
        <3> HIDE DEF Ok
        <3> QED BY <2>1, <2>3
    <2> DEFINE q == Collected[k - 1]
    <2>5. Collected[k] = virtqueue_collect(q, used[k])
        BY <1>2, <2>2
    <2>6. used[k] \in still(k - 1)
        <3>1. used[k] \in InQueue
            BY <1>0, <2>3 DEF InQueue
        <3>2. \A j \in 1 .. k - 1 : j \in 1 .. n /\ j # k
            BY <1>0, <2>3
        <3>3. \A j \in 1 .. k - 1 : used[j] # used[k]
            BY <1>0, <2>3, <3>2 DEF UsedOnce
        <3> QED BY <3>1, <3>3
    <2>7. still(k) = still(k - 1) \ {used[k]}
        <3>1. 1 .. k = (1 .. k - 1) \cup {k}
            BY <1>0, <2>3
        <3> QED BY <3>1
    <2>8. still(k - 1) \in SUBSET Descs
        BY <1>1
    <2> HIDE DEF still
    <2>9. Ok(k)
        <3>1. q \in Queue(vq.size) /\ QueueOK(q, still(k - 1)) /\ q.addr = vq.addr
            BY <2>4
        <3> HIDE DEF q
        <3>2. Collected[k] \in Queue(vq.size) /\ QueueOK(Collected[k], still(k - 1) \ {used[k]}) /\ Collected[k].addr = q.addr
            <4>1. PICK p, r, x, ids : p = q /\ r = Collected[k] /\ x = used[k] /\ ids = still(k - 1)
                OBVIOUS
            <4>2. p \in Queue(vq.size) /\ QueueOK(p, ids) /\ x \in ids /\ ids \in SUBSET Descs /\ r = virtqueue_collect(p, x)
                BY <2>5, <2>6, <2>8, <3>1, <4>1
            <4>3. r \in Queue(vq.size) /\ QueueOK(r, ids \ {x}) /\ r.addr = p.addr
                BY <1>0, <4>2, CollectKeeps
            <4> QED BY <4>1, <4>3
        <3> QED BY <2>7, <3>1, <3>2
    <2> QED BY <2>2, <2>9
<1>5. Ok(n)
    <2>1. n \in 0 .. n
        BY <1>0
    <2> HIDE DEF Ok, n
    <2> QED BY <1>4, <2>1
<1>6. still(n) = avail
    <2>1. {used[j] : j \in 1 .. n} = {used[j] : j \in DOMAIN used}
        BY <1>0
    <2> QED BY <1>0, <2>1 DEF InQueue, UsedOnce
<1> QED BY <1>5, <1>6

\* The recursion along the free list is well defined
LEMMA FreeAtIs ==
    ASSUME vq.size \in Nat
    PROVE  FreeAt = [i \in 1 .. vq.size |-> IF i = 1 THEN vq.head ELSE After(vq, FreeAt[i - 1])]
<1> DEFINE Ok(n) == \E f : f = [i \in 1 .. n |-> IF i = 1 THEN vq.head ELSE After(vq, f[i - 1])]
           Bad == {n \in Nat : ~Ok(n)}
<1>1. ASSUME Bad # {} PROVE FALSE
    <2>1. PICK n \in Bad : \A m \in Bad : n <= m
        <3> HIDE DEF Bad
        <3>1. Bad \in SUBSET Nat
            BY DEF Bad
        <3> QED BY <1>1, <3>1, LeastNumber
    <2>2. n \in Nat /\ ~Ok(n)
        BY <2>1
    <2>3. n # 0
        <3> DEFINE g == [i \in 1 .. 0 |-> vq.head]
        <3>1. g = [i \in 1 .. 0 |-> IF i = 1 THEN vq.head ELSE After(vq, g[i - 1])]
            OBVIOUS
        <3>2. Ok(0)
            BY <3>1
        <3> QED BY <2>2, <3>2
    <2>4. Ok(n - 1)
        <3>1. n - 1 \in Nat /\ ~(n <= n - 1)
            BY <2>2, <2>3
        <3> HIDE DEF Ok
        <3> QED BY <2>1, <3>1
    <2>5. PICK g : g = [i \in 1 .. n - 1 |-> IF i = 1 THEN vq.head ELSE After(vq, g[i - 1])]
        BY <2>4
    <2> DEFINE f == [i \in 1 .. n |-> IF i < n THEN g[i] ELSE IF n = 1 THEN vq.head ELSE After(vq, g[n - 1])]
    <2>6. \A i \in 1 .. n : i # 1 => f[i - 1] = g[i - 1]
        BY <2>2, <2>3
    <2>7. \A i \in 1 .. n - 1 : f[i] = g[i]
        BY <2>2
    <2>8. /\ f[n] = IF n = 1 THEN vq.head ELSE After(vq, g[n - 1])
          /\ f = [i \in 1 .. n |-> f[i]]
        BY <2>2, <2>3
    <2> HIDE DEF f
    <2>9. ASSUME NEW i \in 1 .. n
          PROVE  f[i] = IF i = 1 THEN vq.head ELSE After(vq, f[i - 1])
        <3>1. CASE i = n
            BY <2>2, <2>3, <2>6, <2>8, <3>1
        <3>2. CASE i # n
            <4>1. i \in 1 .. n - 1
                BY <2>2, <3>2
            <4>2. g[i] = IF i = 1 THEN vq.head ELSE After(vq, g[i - 1])
                BY <2>5, <4>1
            <4> QED BY <2>6, <2>7, <4>1, <4>2
        <3> QED BY <3>1, <3>2
    <2>10. f = [i \in 1 .. n |-> IF i = 1 THEN vq.head ELSE After(vq, f[i - 1])]
        BY <2>8, <2>9
    <2>11. Ok(n)
        BY <2>10
    <2> QED BY <2>2, <2>11
<1>2. PICK f : f = [i \in 1 .. vq.size |-> IF i = 1 THEN vq.head ELSE After(vq, f[i - 1])]
    BY <1>1
<1> QED BY <1>2 DEF FreeAt

\* FreeList is the list the invariant speaks of
LEMMA FreeListIs ==
    ASSUME vq.size \in Nat, vq \in Queue(vq.size), NEW L, IsFree(vq, L)
    PROVE  \A i \in 1 .. vq.count : FreeAt[i] = L[i]
<1> DEFINE Bad == {i \in 1 .. vq.count : FreeAt[i] # L[i]}
<1>0. vq.count \in 0 .. vq.size
    BY DEF Queue
<1>1. \A i \in 1 .. vq.count : FreeAt[i] = IF i = 1 THEN vq.head ELSE After(vq, FreeAt[i - 1])
    BY <1>0, FreeAtIs
<1>2. SUFFICES ASSUME Bad # {} PROVE FALSE
    OBVIOUS
<1>3. PICK k \in Bad : \A m \in Bad : k <= m
    <2> HIDE DEF Bad
    <2>1. Bad \in SUBSET Nat
        BY <1>0 DEF Bad
    <2> QED BY <1>2, <2>1, LeastNumber
<1>4. k \in 1 .. vq.count /\ FreeAt[k] # L[k]
    BY <1>3
<1>5. k # 1
    BY <1>0, <1>1, <1>4 DEF IsFree
<1>6. k - 1 \in 1 .. vq.count - 1 /\ k - 1 \in 1 .. vq.count /\ (k - 1) + 1 = k /\ ~(k <= k - 1)
    BY <1>0, <1>4, <1>5
<1>7. FreeAt[k - 1] = L[k - 1]
    BY <1>3, <1>6
<1>8. L[k - 1] \in Descs
    BY <1>6 DEF IsFree, Descs
<1>9. vq.next[L[k - 1]] = L[k]
    BY <1>6 DEF IsFree
<1> QED BY <1>1, <1>4, <1>5, <1>7, <1>8, <1>9 DEF After

LEMMA ThreeOf ==
    ASSUME NEW a, NEW b, NEW c, a # b, b # c, a # c
    PROVE  Cardinality({a, b, c}) = 3
<1>1. IsFiniteSet({a}) /\ Cardinality({a}) = 1
    BY FS_Singleton
<1>2. b \notin {a} /\ {a, b} = {a} \cup {b}
    OBVIOUS
<1>3. IsFiniteSet({a, b}) /\ Cardinality({a, b}) = 1 + 1
    BY <1>1, <1>2, FS_AddElement
<1>4. c \notin {a, b} /\ {a, b, c} = {a, b} \cup {c}
    OBVIOUS
<1>5. Cardinality({a, b, c}) = (1 + 1) + 1
    BY <1>3, <1>4, FS_AddElement
<1> QED BY <1>5

\* The free list and the chains tile the descriptors
LEMMA DescriptorsTile ==
    ASSUME DiskTypeOK, QueueOK(vq, InQueue)
    PROVE  DescriptorsSound
<1>0. vq.size \in Nat /\ vq \in Queue(vq.size) /\ InQueue \subseteq Descs /\ vq.count \in 0 .. vq.size
    BY DEF DiskTypeOK, InQueue, Queue
<1>1. PICK L \in [1 .. vq.count -> 0 .. vq.size - 1] :
         IsFree(vq, L) /\ \A a \in InQueue, i \in 1 .. vq.count : L[i] \notin Links(vq, a)
    BY DEF QueueOK, Lists
<1>2. FreeList = {L[i] : i \in 1 .. vq.count}
    BY <1>0, <1>1, FreeListIs DEF FreeList
<1>3. FreeList \subseteq Descs
    BY <1>1, <1>2 DEF Descs
<1>4. Cardinality(FreeList) = vq.count
    <2> DEFINE S == 1 .. vq.count
    <2>1. L \in Bijection(S, FreeList)
        <3>1. L \in [S -> FreeList]
            BY <1>1, <1>2
        <3>2. \A i, j \in S : L[i] = L[j] => i = j
            BY <1>1 DEF IsFree
        <3>3. \A x \in FreeList : \E i \in S : L[i] = x
            BY <1>2
        <3> QED BY <3>1, <3>2, <3>3 DEF Bijection, Injection, Surjection, IsInjective
    <2>2. IsFiniteSet(S) /\ Cardinality(S) = vq.count
        BY <1>0, FS_Interval
    <2> HIDE DEF S
    <2> QED BY <2>1, <2>2, FS_Bijection DEF ExistsBijection
<1>5. ASSUME NEW id \in InQueue
      PROVE  HeldBy(id) = Links(vq, id) /\ Cardinality(HeldBy(id)) = CHAIN
    <2> DEFINE b == vq.next[id]
               c == vq.next[b]
    <2>1. ChainOK(vq, id) /\ id \in Descs
        BY <1>0 DEF QueueOK
    <2>2. Chain(vq, id) = <<id, b, c>> /\ id # b /\ b # c /\ id # c
        BY <1>0, <2>1, WholeChain DEF ChainOK
    <2>3. HeldBy(id) = {id, b, c} /\ Links(vq, id) = {id, b, c}
        <3> DEFINE ch == <<id, b, c>>
        <3>1. ch[1] = id /\ ch[2] = b /\ ch[3] = c
            OBVIOUS
        <3>2. Chain(vq, id) = ch
            BY <2>2
        <3> HIDE DEF ch
        <3> QED BY <3>1, <3>2 DEF HeldBy, Links
    <2> HIDE DEF c, b
    <2>6. Cardinality({id, b, c}) = 3
        BY <2>2, ThreeOf
    <2> QED BY <2>3, <2>6 DEF CHAIN
<1>6. \A id \in InQueue : HeldBy(id) \cap FreeList = {}
    BY <1>1, <1>2, <1>5
<1>7. \A a, b \in InQueue : a # b => HeldBy(a) \cap HeldBy(b) = {}
    BY <1>5 DEF QueueOK
<1>8. vq.count + CHAIN * Cardinality(InQueue) = vq.size
    BY DEF QueueOK, CHAIN
<1> QED BY <1>0, <1>3, <1>4, <1>5, <1>6, <1>7, <1>8 DEF DescriptorsSound

\* What a step of one requester leaves to prove when the queue is left alone:
\* it may take a slot nobody has, or leave one no request in the queue names
LEMMA BooksFrame ==
    ASSUME DiskAssumption, DiskBooks, NEW t \in Requesters,
           UNCHANGED <<vq, avail, used, slot_of>>,
           DiskTypeOK',
           DOMAIN slots' = DOMAIN slots,
           \A id \in InQueue : slots'[vq.addr[id]] = slots[vq.addr[id]],
           HoldersOK',
           \A u \in Requesters \ {t} :
              (req'[u].pc = "submit" \/ (req'[u].pc = "release" /\ GivenBack(u)')) =>
                  req'[u].slot = req[u].slot /\ (req[u].pc = "submit" \/ (req[u].pc = "release" /\ GivenBack(u))),
           (req'[t].pc = "submit" \/ (req'[t].pc = "release" /\ GivenBack(t)')) =>
              \A id \in InQueue : vq.addr[id] # req'[t].slot
    PROVE  DiskBooks'
<1>1. InQueue' = InQueue
    BY DEF InQueue
<1>2. QueueOK(vq, InQueue)'
    BY <1>1 DEF DiskBooks
<1>3. UsedOnce'
    BY DEF DiskBooks, UsedOnce
<1>4. QueuedOK'
    <2>1. QueuedOK
        BY DEF DiskBooks
    <2>2. \A id \in InQueue' :
             LET s == vq'.addr[id] IN
             s \in Slots' /\ slots'[s].in_use /\ ~slots'[s].done /\ slot_of'[id] = s /\ slots'[s].lba \in Sectors
        BY <1>1, <2>1 DEF QueuedOK, Slots
    <2>3. \A a, b \in InQueue' : vq'.addr[a] = vq'.addr[b] => a = b
        BY <1>1, <2>1 DEF QueuedOK
    <2>4. ASSUME NEW u \in Requesters, NEW id \in InQueue',
                 req'[u].pc = "submit" \/ (req'[u].pc = "release" /\ GivenBack(u)')
          PROVE  vq'.addr[id] # req'[u].slot
        BY <1>1, <2>1, <2>4 DEF QueuedOK
    <2> QED BY <2>2, <2>3, <2>4 DEF QueuedOK
<1> QED BY <1>2, <1>3, <1>4 DEF DiskBooks

\* ... and when the slots are left alone too
LEMMA BooksCalm ==
    ASSUME DiskAssumption, DiskBooks, NEW t \in Requesters, NEW r \in Request,
           UNCHANGED <<vq, avail, used, slots, slot_of>>,
           req' = [req EXCEPT ![t] = r],
           DiskTypeOK',
           r.pc \in {"submit", "wait"} => FALSE,
           r.pc \in Early => ~r.answered,
           r.pc # "idle" => r.lba \in Sectors,
           r.pc = "sleep" => \A s \in Slots : slots[s].in_use,
           r.pc = "release" => req[t].pc \in WithSlot /\ r.slot = req[t].slot
                               /\ (r.answered \/ r.id < 0 => \A id \in InQueue : vq.addr[id] # r.slot)
    PROVE  DiskBooks'
<1>1. /\ req'[t] = r /\ \A u \in Requesters \ {t} : req'[u] = req[u]
    BY DEF DiskBooks, DiskTypeOK
<1>2. HoldersOK
    BY DEF DiskBooks
<1>3. HoldersOK'
    <2>1. ASSUME NEW u \in Requesters, req'[u].pc \in WithSlot
          PROVE  req[u].pc \in WithSlot /\ req'[u].slot = req[u].slot /\ (u = t => req'[u].pc = "release")
        BY <1>1, <2>1 DEF WithSlot
    <2>2. ASSUME NEW u \in Requesters, req'[u].pc \in WithSlot
          PROVE  /\ req'[u].slot \in Slots' /\ slots'[req'[u].slot].in_use
                 /\ req'[u].pc = "submit" => ~slots'[req'[u].slot].done
                 /\ req'[u].pc = "wait" => req'[u].id >= 0
        BY <1>1, <1>2, <2>1, <2>2 DEF HoldersOK, Slots
    <2>3. \A u, z \in Requesters :
             req'[u].pc \in WithSlot /\ req'[z].pc \in WithSlot /\ req'[u].slot = req'[z].slot => u = z
        BY <1>2, <2>1 DEF HoldersOK
    <2>4. \A u \in Requesters : req'[u].pc = "sleep" => \A s \in Slots' : slots'[s].in_use
        BY <1>1, <1>2 DEF HoldersOK, Slots
    <2>5. \A u \in Requesters : req'[u].pc \in Early => ~req'[u].answered
        BY <1>1, <1>2 DEF HoldersOK
    <2>6. \A u \in Requesters : req'[u].pc # "idle" => req'[u].lba \in Sectors
        BY <1>1, <1>2 DEF HoldersOK
    <2> QED BY <2>2, <2>3, <2>4, <2>5, <2>6 DEF HoldersOK
<1>4. \A u \in Requesters \ {t} : GivenBack(u)' = GivenBack(u)
    BY <1>1 DEF GivenBack
<1>5. (req'[t].pc = "submit" \/ (req'[t].pc = "release" /\ GivenBack(t)')) =>
              \A id \in InQueue : vq.addr[id] # req'[t].slot
    BY <1>1 DEF GivenBack
<1> QED BY <1>1, <1>3, <1>4, <1>5, BooksFrame

LEMMA ClaimBooks ==
    ASSUME DiskAssumption, DiskBooks, NEW t \in Requesters, claim(t)
    PROVE  DiskBooks'
<1>0. DiskTypeOK /\ HoldersOK /\ QueuedOK
    BY DEF DiskBooks
<1>1. req \in [Requesters -> Request] /\ req[t] \in Request /\ req[t].pc = "claim"
    BY <1>0 DEF DiskTypeOK, claim
<1>2. UNCHANGED <<vq, avail, used, slot_of, cache, disk, diskLeft>>
    BY DEF claim
<1>3. CASE \A s \in Slots : slots[s].in_use
    <2> DEFINE r == [req[t] EXCEPT !.pc = "sleep"]
    <2>1. req' = [req EXCEPT ![t] = r] /\ UNCHANGED slots
        BY <1>3 DEF claim, Go
    <2>2. r \in Request /\ r.pc = "sleep" /\ r.answered = req[t].answered /\ r.lba = req[t].lba
        BY <1>1 DEF Request
    <2> HIDE DEF r
    <2>3. DiskTypeOK'
        BY <1>0, <1>2, <2>1, <2>2 DEF DiskTypeOK, Descs, Slots
    <2>4. ~r.answered /\ r.lba \in Sectors
        BY <1>0, <1>1, <2>2 DEF HoldersOK, Early
    <2> QED BY <1>2, <1>3, <2>1, <2>2, <2>3, <2>4, BooksCalm
<1>4. CASE ~ \A s \in Slots : slots[s].in_use
    <2> DEFINE P(s) == ~slots[s].in_use /\ \A z \in Slots : z < s => slots[z].in_use
               s0 == CHOOSE s \in Slots : P(s)
               r == [req[t] EXCEPT !.pc = "submit", !.slot = s0]
               sl == [slots[s0] EXCEPT !.in_use = TRUE, !.done = FALSE]
    <2>1. \E s \in Slots : P(s)
        <3> DEFINE S == {s \in Slots : ~slots[s].in_use}
        <3>1. S \in SUBSET Nat /\ S # {} /\ Slots \subseteq Nat
            BY <1>0, <1>4 DEF DiskTypeOK
        <3>2. PICK s \in S : \A m \in S : s <= m
            <4> HIDE DEF S
            <4> QED BY <3>1, LeastNumber
        <3>3. \A z \in Slots : z < s => slots[z].in_use
            BY <3>1, <3>2
        <3> QED BY <3>2, <3>3
    <2>2. s0 \in Slots /\ ~slots[s0].in_use
        BY <2>1
    <2>3. slots' = [slots EXCEPT ![s0].in_use = TRUE, ![s0].done = FALSE] /\ req' = [req EXCEPT ![t].pc = "submit", ![t].slot = s0]
        BY <1>4 DEF claim
    <2> HIDE DEF s0
    <2>4. slots \in [Slots -> BlkSlot] /\ slots[s0] \in BlkSlot /\ Slots \subseteq Nat
        BY <1>0, <2>2 DEF DiskTypeOK
    <2>5. slots' = [slots EXCEPT ![s0] = sl] /\ req' = [req EXCEPT ![t] = r]
        BY <1>1, <2>2, <2>3, <2>4
    <2>6. r \in Request /\ r.pc = "submit" /\ r.slot = s0 /\ r.answered = req[t].answered /\ r.lba = req[t].lba
        BY <1>1, <2>2, <2>4 DEF Request
    <2>7. sl \in BlkSlot /\ sl.in_use /\ ~sl.done
        BY <2>4 DEF BlkSlot
    <2> HIDE DEF r, sl
    <2>8. /\ req'[t] = r /\ \A u \in Requesters \ {t} : req'[u] = req[u]
          /\ slots'[s0] = sl /\ \A s \in Slots \ {s0} : slots'[s] = slots[s]
          /\ DOMAIN slots' = DOMAIN slots
        BY <1>1, <2>2, <2>4, <2>5
    <2>9. DiskTypeOK'
        <3>1. slots' \in [Slots' -> BlkSlot] /\ Slots' \subseteq Nat
            BY <2>2, <2>4, <2>5, <2>7 DEF Slots
        <3>2. req' \in [Requesters -> Request]
            BY <1>1, <2>5, <2>6
        <3> QED BY <1>0, <1>2, <3>1, <3>2 DEF DiskTypeOK, Descs
    <2>10. ASSUME NEW u \in Requesters, req[u].pc \in WithSlot PROVE req[u].slot # s0
        BY <1>0, <2>2, <2>10 DEF HoldersOK
    <2>11. \A id \in InQueue : vq.addr[id] \in Slots /\ vq.addr[id] # s0
        BY <1>0, <2>2 DEF QueuedOK
    <2>12. HoldersOK'
        <3>1. ~req[t].answered
            BY <1>0, <1>1 DEF HoldersOK, Early
        <3>2. ASSUME NEW u \in Requesters, req'[u].pc \in WithSlot
              PROVE  /\ req'[u].slot \in Slots' /\ slots'[req'[u].slot].in_use
                     /\ req'[u].pc = "submit" => ~slots'[req'[u].slot].done
                     /\ req'[u].pc = "wait" => req'[u].id >= 0
            BY <1>0, <2>2, <2>6, <2>7, <2>8, <2>10, <3>2 DEF HoldersOK, Slots
        <3>3. \A u, z \in Requesters :
                 req'[u].pc \in WithSlot /\ req'[z].pc \in WithSlot /\ req'[u].slot = req'[z].slot => u = z
            BY <1>0, <2>6, <2>8, <2>10 DEF HoldersOK
        <3>4. \A u \in Requesters : req'[u].pc = "sleep" => \A s \in Slots' : slots'[s].in_use
            BY <1>0, <1>4, <2>6, <2>8 DEF HoldersOK
        <3>5. \A u \in Requesters : req'[u].pc \in Early => ~req'[u].answered
            BY <1>0, <2>6, <2>8, <3>1 DEF HoldersOK
        <3>6. \A u \in Requesters : req'[u].pc # "idle" => req'[u].lba \in Sectors
            BY <1>0, <1>1, <2>6, <2>8 DEF HoldersOK
        <3> QED BY <3>2, <3>3, <3>4, <3>5, <3>6 DEF HoldersOK
    <2>13. \A u \in Requesters \ {t} : GivenBack(u)' = GivenBack(u)
        BY <2>8 DEF GivenBack
    <2>14. /\ \A id \in InQueue : slots'[vq.addr[id]] = slots[vq.addr[id]]
           /\ \A id \in InQueue : vq.addr[id] # req'[t].slot
           /\ DOMAIN slots' = DOMAIN slots
        BY <2>6, <2>8, <2>11
    <2> QED BY <1>2, <2>8, <2>9, <2>12, <2>13, <2>14, BooksFrame
<1> QED BY <1>3, <1>4

\* A request handed over is a new one, and the others stay where they are
LEMMA AddIs ==
    ASSUME DiskBooks, NEW s0 \in Slots, vq.count >= 3, vq' = virtqueue_add(vq, s0)
    PROVE  /\ vq.head \in Descs /\ vq.head \notin InQueue
           /\ vq' \in Queue(vq.size) /\ QueueOK(vq', InQueue \cup {vq.head})
           /\ vq'.addr[vq.head] = s0 /\ \A id \in InQueue : vq'.addr[id] = vq.addr[id]
<1>0. DiskTypeOK /\ QueueOK(vq, InQueue)
    BY DEF DiskBooks
<1>1. vq.size \in Nat /\ vq \in Queue(vq.size) /\ InQueue \in SUBSET Descs /\ s0 \in Nat
    <2>1. InQueue \in SUBSET Descs
        BY <1>0 DEF DiskTypeOK, InQueue
    <2> QED BY <1>0, <2>1 DEF DiskTypeOK
<1>2. PICK q, w : q = vq /\ w = vq'
    OBVIOUS
<1>3. PICK ids : ids = InQueue
    OBVIOUS
<1>4. ids \in SUBSET Descs /\ QueueOK(q, ids) /\ w = virtqueue_add(q, s0) /\ q \in Queue(vq.size) /\ q.count >= 3
    BY <1>0, <1>1, <1>2, <1>3
<1>5. /\ q.head \in Descs /\ q.head \notin ids
      /\ w \in Queue(vq.size) /\ QueueOK(w, ids \cup {q.head})
      /\ w.addr[q.head] = s0 /\ \A id \in ids : w.addr[id] = q.addr[id]
    BY <1>1, <1>4, AddKeeps
<1> QED BY <1>2, <1>3, <1>5

LEMMA SubmitBooks ==
    ASSUME DiskAssumption, DiskBooks, NEW t \in Requesters, submit(t)
    PROVE  DiskBooks'
<1> DEFINE s0 == req[t].slot
           data0 == IF req[t].op = "write" THEN req[t].value ELSE slots[s0].data
           sl == [slots[s0] EXCEPT !.op = req[t].op, !.lba = req[t].lba, !.status = 1, !.data = data0]
<1>0. DiskTypeOK /\ HoldersOK /\ QueuedOK /\ QueueOK(vq, InQueue) /\ UsedOnce
    BY DEF DiskBooks
<1>1. /\ req \in [Requesters -> Request] /\ req[t] \in Request /\ req[t].pc = "submit"
      /\ slots \in [Slots -> BlkSlot] /\ Slots \subseteq Nat /\ Sectors \subseteq Nat
    BY <1>0 DEF DiskTypeOK, submit, DiskAssumption
<1>2. s0 \in Slots /\ slots[s0].in_use /\ ~slots[s0].done /\ ~req[t].answered /\ req[t].lba \in Sectors
    BY <1>0, <1>1 DEF HoldersOK, WithSlot, Early
<1>3. slots' = [slots EXCEPT ![s0] = sl]
    <2>1. slots' = [slots EXCEPT ![s0].op = req[t].op, ![s0].lba = req[t].lba, ![s0].status = 1,
                                 ![s0].data = data0]
        BY DEF submit
    <2> HIDE DEF s0, data0
    <2> QED BY <1>1, <1>2, <2>1
<1>4. sl \in BlkSlot /\ sl.in_use /\ ~sl.done /\ sl.lba \in Sectors
    <2>1. slots[s0] \in BlkSlot /\ data0 \in DkValues /\ req[t].lba \in Nat /\ req[t].op \in {"read", "write"}
        BY <1>1, <1>2 DEF BlkSlot, Request
    <2>2. PICK x, d, b, o : x = slots[s0] /\ d = data0 /\ b = req[t].lba /\ o = req[t].op
        OBVIOUS
    <2> DEFINE y == [x EXCEPT !.op = o, !.lba = b, !.status = 1, !.data = d]
    <2>3. sl = y
        BY <2>2
    <2>4. x \in BlkSlot /\ d \in DkValues /\ b \in Nat /\ o \in {"read", "write"} /\ x.in_use /\ ~x.done /\ b \in Sectors
        BY <1>2, <2>1, <2>2
    <2>5. y \in BlkSlot
        BY <2>4 DEF BlkSlot
    <2>6. y.in_use = x.in_use /\ y.done = x.done /\ y.lba = b
        BY <2>4 DEF BlkSlot
    <2> HIDE DEF y, sl
    <2> QED BY <2>3, <2>4, <2>5, <2>6
<1> HIDE DEF sl
<1>5. /\ DOMAIN slots' = DOMAIN slots /\ slots' \in [Slots -> BlkSlot]
      /\ slots'[s0] = sl /\ \A s \in Slots \ {s0} : slots'[s] = slots[s]
    BY <1>1, <1>2, <1>3, <1>4
<1>6. UNCHANGED <<used, cache, disk, diskLeft>> /\ Slots' = Slots
    BY <1>5 DEF submit, Slots
<1>7. \A id \in InQueue : vq.addr[id] \in Slots /\ vq.addr[id] # s0
    BY <1>0, <1>1 DEF QueuedOK
<1>8. ASSUME NEW r \in Request, req' = [req EXCEPT ![t] = r], r.slot = s0, ~r.answered, r.lba = req[t].lba,
             r.pc = "release" \/ (r.pc = "wait" /\ r.id >= 0)
      PROVE  /\ req' \in [Requesters -> Request] /\ HoldersOK'
             /\ req'[t] = r /\ \A u \in Requesters \ {t} : req'[u] = req[u]
    <2>1. /\ req' \in [Requesters -> Request]
          /\ req'[t] = r /\ \A u \in Requesters \ {t} : req'[u] = req[u]
        BY <1>1, <1>8
    <2>2. \A u \in Requesters : req'[u].pc \in WithSlot => req[u].pc \in WithSlot /\ req'[u].slot = req[u].slot
        BY <1>1, <1>8, <2>1 DEF WithSlot
    <2>3. ASSUME NEW u \in Requesters, req'[u].pc \in WithSlot
          PROVE  /\ req'[u].slot \in Slots' /\ slots'[req'[u].slot].in_use
                 /\ req'[u].pc = "submit" => ~slots'[req'[u].slot].done
                 /\ req'[u].pc = "wait" => req'[u].id >= 0
        <3>1. CASE u = t
            BY <1>2, <1>4, <1>5, <1>6, <1>8, <2>1, <3>1
        <3>2. CASE u # t
            <4>1. req[u].slot # s0
                BY <1>0, <1>1, <2>2, <2>3, <3>2 DEF HoldersOK, WithSlot
            <4> QED BY <1>0, <1>5, <1>6, <2>1, <2>3, <3>2, <4>1 DEF HoldersOK
        <3> QED BY <3>1, <3>2
    <2>4. \A u, z \in Requesters :
             req'[u].pc \in WithSlot /\ req'[z].pc \in WithSlot /\ req'[u].slot = req'[z].slot => u = z
        BY <1>0, <2>2 DEF HoldersOK
    <2>5. \A u \in Requesters : req'[u].pc = "sleep" => \A s \in Slots' : slots'[s].in_use
        BY <1>0, <1>4, <1>5, <1>6, <1>8, <2>1 DEF HoldersOK
    <2>6. \A u \in Requesters : req'[u].pc \in Early => ~req'[u].answered
        BY <1>0, <1>8, <2>1 DEF HoldersOK
    <2>7. \A u \in Requesters : req'[u].pc # "idle" => req'[u].lba \in Sectors
        BY <1>0, <1>2, <1>8, <2>1 DEF HoldersOK
    <2> QED BY <2>1, <2>3, <2>4, <2>5, <2>6, <2>7 DEF HoldersOK
\* the queue is full: no request is made
<1>9. CASE ~(vq.count >= CHAIN)
    <2> DEFINE r == [req[t] EXCEPT !.pc = "release", !.id = -1]
    <2>1. req' = [req EXCEPT ![t] = r] /\ UNCHANGED <<vq, slot_of, avail>>
        BY <1>1, <1>9 DEF submit
    <2>2. r \in Request /\ r.pc = "release" /\ r.slot = s0 /\ ~r.answered /\ r.lba = req[t].lba
        <3>1. PICK m, x : m = -1 /\ m \in Int /\ x = req[t]
            OBVIOUS
        <3>2. r = [x EXCEPT !.pc = "release", !.id = m] /\ x \in Request /\ ~x.answered
            BY <1>1, <1>2, <3>1
        <3> HIDE DEF r
        <3>3. r \in Request
            BY <3>1, <3>2 DEF Request
        <3>4. r.pc = "release" /\ r.slot = x.slot /\ r.answered = x.answered /\ r.lba = x.lba
            BY <3>2 DEF Request
        <3> QED BY <3>1, <3>2, <3>3, <3>4
    <2> HIDE DEF r
    <2>3. /\ req' \in [Requesters -> Request] /\ HoldersOK'
          /\ req'[t] = r /\ \A u \in Requesters \ {t} : req'[u] = req[u]
        BY <1>8, <2>1, <2>2
    <2>4. DiskTypeOK'
        BY <1>0, <1>5, <1>6, <2>1, <2>3 DEF DiskTypeOK, Descs
    <2>5. \A u \in Requesters \ {t} : GivenBack(u)' = GivenBack(u)
        BY <2>3 DEF GivenBack
    <2>6. /\ \A id \in InQueue : slots'[vq.addr[id]] = slots[vq.addr[id]]
          /\ \A id \in InQueue : vq.addr[id] # req'[t].slot
        BY <1>5, <1>7, <2>2, <2>3
    <2> QED BY <1>5, <1>6, <2>1, <2>3, <2>4, <2>5, <2>6, BooksFrame
\* else it is handed over
<1>10. CASE vq.count >= CHAIN
    <2> DEFINE h == vq.head
               r == [req[t] EXCEPT !.pc = "wait", !.id = h]
    <2>1. /\ vq' = virtqueue_add(vq, s0) /\ slot_of' = [slot_of EXCEPT ![h] = s0]
          /\ avail' = avail \cup {h} /\ req' = [req EXCEPT ![t] = r]
        BY <1>1, <1>10 DEF submit
    <2>2. vq.size \in Nat /\ vq \in Queue(vq.size) /\ InQueue \in SUBSET Descs /\ vq.count >= 3 /\ s0 \in Nat
        <3>1. InQueue \in SUBSET Descs
            BY <1>0 DEF DiskTypeOK, InQueue
        <3>2. s0 \in Nat /\ vq.count >= 3
            BY <1>1, <1>2, <1>10 DEF CHAIN
        <3> QED BY <1>0, <3>1, <3>2 DEF DiskTypeOK
    <2>3. /\ h \in Descs /\ h \notin InQueue
          /\ vq' \in Queue(vq.size) /\ QueueOK(vq', InQueue \cup {h})
          /\ vq'.addr[h] = s0 /\ \A id \in InQueue : vq'.addr[id] = vq.addr[id]
        BY <1>2, <2>1, <2>2, AddIs
    <2>4. vq'.size = vq.size /\ Descs' = Descs
        BY <2>2, <2>3 DEF Queue, Descs
    <2>5. r \in Request /\ r.pc = "wait" /\ r.slot = s0 /\ ~r.answered /\ r.lba = req[t].lba /\ r.id >= 0
        <3>1. h \in Int /\ h >= 0
            BY <2>2, <2>3 DEF Descs
        <3> HIDE DEF h
        <3> QED BY <1>1, <1>2, <3>1 DEF Request
    <2> HIDE DEF r, h
    <2>6. /\ req' \in [Requesters -> Request] /\ HoldersOK'
          /\ req'[t] = r /\ \A u \in Requesters \ {t} : req'[u] = req[u]
        BY <1>8, <2>1, <2>5
    <2>7. DiskTypeOK'
        <3>1. slot_of' \in [Descs -> Nat] /\ avail' \subseteq Descs
            BY <1>0, <2>1, <2>2, <2>3 DEF DiskTypeOK
        <3>2. used' \in Seq(Descs') /\ slots' \in [Slots' -> BlkSlot] /\ vq'.size \in Nat /\ vq' \in Queue(vq'.size)
            BY <1>0, <1>5, <1>6, <2>2, <2>3, <2>4 DEF DiskTypeOK
        <3> QED BY <1>0, <1>1, <1>6, <2>4, <2>6, <3>1, <3>2 DEF DiskTypeOK
    <2>8. InQueue' = InQueue \cup {h}
        BY <1>6, <2>1 DEF InQueue
    <2>9. UsedOnce'
        <3>1. \A i \in DOMAIN used : used[i] # h
            BY <2>3 DEF InQueue
        <3> QED BY <1>0, <1>6, <2>1, <3>1 DEF UsedOnce
    <2>10. slot_of'[h] = s0 /\ \A id \in InQueue : slot_of'[id] = slot_of[id]
        BY <1>0, <2>1, <2>2, <2>3 DEF DiskTypeOK
    <2>11. QueuedOK'
        <3>1. ASSUME NEW id \in InQueue'
              PROVE  LET s == vq'.addr[id] IN
                     s \in Slots' /\ slots'[s].in_use /\ ~slots'[s].done /\ slot_of'[id] = s /\ slots'[s].lba \in Sectors
            <4>1. CASE id = h
                BY <1>2, <1>4, <1>5, <1>6, <2>3, <2>10, <4>1
            <4>2. CASE id \in InQueue
                BY <1>0, <1>5, <1>6, <1>7, <2>3, <2>10, <4>2 DEF QueuedOK
            <4> QED BY <2>8, <4>1, <4>2
        <3>2. \A a, b \in InQueue' : vq'.addr[a] = vq'.addr[b] => a = b
            BY <1>0, <1>7, <2>3, <2>8 DEF QueuedOK
        <3>3. ASSUME NEW u \in Requesters, NEW id \in InQueue',
                     req'[u].pc = "submit" \/ (req'[u].pc = "release" /\ GivenBack(u)')
              PROVE  vq'.addr[id] # req'[u].slot
            <4>1. u # t
                BY <2>5, <2>6, <3>3
            <4>2. req'[u] = req[u] /\ (GivenBack(u)' = GivenBack(u)) /\ req[u].pc \in WithSlot
                BY <2>6, <3>3, <4>1 DEF GivenBack, WithSlot
            <4>3. req[u].slot # s0
                BY <1>0, <1>1, <4>1, <4>2 DEF HoldersOK, WithSlot
            <4> QED BY <1>0, <2>3, <2>8, <3>3, <4>2, <4>3 DEF QueuedOK
        <3> QED BY <3>1, <3>2, <3>3 DEF QueuedOK
    <2>12. QueueOK(vq, InQueue)'
        BY <2>3, <2>8
    <2> QED BY <2>6, <2>7, <2>9, <2>11, <2>12 DEF DiskBooks
<1> QED BY <1>9, <1>10

\* What a collection does to the slots: those of the answers it takes are done
LEMMA CollectSlots ==
    ASSUME DiskBooks, collect_finished
    PROVE  /\ vq' \in Queue(vq.size) /\ QueueOK(vq', avail) /\ vq'.addr = vq.addr /\ used' = <<>>
           /\ vq'.size = vq.size
           /\ DOMAIN slots' = DOMAIN slots /\ slots' \in [Slots -> BlkSlot]
           /\ \A s \in Slots : \/ slots'[s] = slots[s]
                               \/ /\ slots'[s] = [slots[s] EXCEPT !.done = TRUE] /\ slots[s].in_use
                                  /\ \E i \in DOMAIN used : s = vq.addr[used[i]]
<1>0. DiskTypeOK /\ QueueOK(vq, InQueue) /\ UsedOnce /\ QueuedOK
    BY DEF DiskBooks
<1>1. /\ vq' \in Queue(vq.size) /\ QueueOK(vq', avail) /\ vq'.addr = vq.addr /\ used' = <<>>
    BY <1>0, AllCollected DEF collect_finished
<1>2. vq'.size = vq.size
    BY <1>1 DEF Queue
<1>3. \A i \in DOMAIN used : used[i] \in InQueue
    BY DEF InQueue
<1> DEFINE answered == {slot_of[used[i]] : i \in DOMAIN used}
<1>4. \A s \in answered : \E i \in DOMAIN used : s = vq.addr[used[i]]
    BY <1>0, <1>3 DEF QueuedOK
<1>5. slots' = [s \in Slots |-> IF s \in answered /\ slots[s].in_use
                                   THEN [slots[s] EXCEPT !.done = TRUE] ELSE slots[s]]
    BY DEF collect_finished
<1> HIDE DEF answered
<1>6. slots \in [Slots -> BlkSlot]
    BY <1>0 DEF DiskTypeOK
<1>7. ASSUME NEW s \in Slots PROVE [slots[s] EXCEPT !.done = TRUE] \in BlkSlot
    <2>1. slots[s] \in BlkSlot
        BY <1>6
    <2> QED BY <2>1 DEF BlkSlot
<1>8. slots' \in [Slots -> BlkSlot]
    BY <1>5, <1>6, <1>7
<1>9. DOMAIN slots' = DOMAIN slots
    BY <1>5 DEF Slots
<1>10. ASSUME NEW s \in Slots
       PROVE  \/ slots'[s] = slots[s]
              \/ /\ slots'[s] = [slots[s] EXCEPT !.done = TRUE] /\ slots[s].in_use
                 /\ \E i \in DOMAIN used : s = vq.addr[used[i]]
    <2>1. CASE s \in answered /\ slots[s].in_use
        BY <1>4, <1>5, <2>1
    <2>2. CASE ~(s \in answered /\ slots[s].in_use)
        BY <1>5, <2>2
    <2> QED BY <2>1, <2>2
<1> QED BY <1>1, <1>2, <1>8, <1>9, <1>10

LEMMA CollectingBooks ==
    ASSUME DiskAssumption, DiskBooks, collect_finished, UNCHANGED <<avail, slot_of, cache, disk, req, diskLeft>>
    PROVE  DiskBooks'
<1>0. DiskTypeOK /\ QueueOK(vq, InQueue) /\ UsedOnce /\ HoldersOK /\ QueuedOK
    BY DEF DiskBooks
<1>1. /\ vq' \in Queue(vq.size) /\ QueueOK(vq', avail) /\ vq'.addr = vq.addr /\ used' = <<>>
      /\ vq'.size = vq.size
      /\ DOMAIN slots' = DOMAIN slots /\ slots' \in [Slots -> BlkSlot]
    BY CollectSlots
<1>2. \A s \in Slots : \/ slots'[s] = slots[s]
                       \/ /\ slots'[s] = [slots[s] EXCEPT !.done = TRUE] /\ slots[s].in_use
                          /\ \E i \in DOMAIN used : s = vq.addr[used[i]]
    BY CollectSlots
<1>3. Slots' = Slots /\ Descs' = Descs
    BY <1>1 DEF Slots, Descs
<1>4. InQueue' = avail /\ avail \subseteq InQueue /\ \A i \in DOMAIN used : used[i] \in InQueue /\ used[i] \notin avail
    <2>1. DOMAIN used' = {}
        BY <1>1
    <2> QED BY <1>0, <1>1, <2>1 DEF InQueue, UsedOnce
<1>5. \A s \in Slots : slots'[s].in_use = slots[s].in_use /\ slots'[s].lba = slots[s].lba
    <2>1. ASSUME NEW s \in Slots PROVE slots'[s].in_use = slots[s].in_use /\ slots'[s].lba = slots[s].lba
        <3>1. slots[s] \in BlkSlot
            BY <1>0 DEF DiskTypeOK
        <3> QED BY <1>2, <3>1 DEF BlkSlot
    <2> QED BY <2>1
<1>6. DiskTypeOK'
    <2>1. vq'.size \in Nat /\ vq' \in Queue(vq'.size)
        BY <1>0, <1>1 DEF DiskTypeOK
    <2>2. used' \in Seq(Descs')
        BY <1>1
    <2> QED BY <1>0, <1>1, <1>3, <2>1, <2>2 DEF DiskTypeOK
<1>7. UsedOnce'
    BY <1>1 DEF UsedOnce
<1>8. HoldersOK'
    <2>1. \A u \in Requesters : req[u].pc = "submit" => slots'[req[u].slot] = slots[req[u].slot]
        BY <1>0, <1>2, <1>4 DEF HoldersOK, QueuedOK, WithSlot
    <2> QED BY <1>0, <1>3, <1>5, <2>1 DEF HoldersOK
<1>9. QueuedOK'
    <2>1. ASSUME NEW id \in avail
          PROVE  LET s == vq.addr[id] IN s \in Slots /\ slots'[s] = slots[s]
        <3>1. vq.addr[id] \in Slots /\ \A i \in DOMAIN used : vq.addr[id] # vq.addr[used[i]]
            BY <1>0, <1>4 DEF QueuedOK
        <3> QED BY <1>2, <3>1
    <2>2. \A id \in InQueue' :
             LET s == vq'.addr[id] IN
             s \in Slots' /\ slots'[s].in_use /\ ~slots'[s].done /\ slot_of'[id] = s /\ slots'[s].lba \in Sectors
        BY <1>0, <1>1, <1>3, <1>4, <2>1 DEF QueuedOK
    <2>3. \A a, b \in InQueue' : vq'.addr[a] = vq'.addr[b] => a = b
        BY <1>0, <1>1, <1>4 DEF QueuedOK
    <2>4. ASSUME NEW u \in Requesters, NEW id \in InQueue',
                 req'[u].pc = "submit" \/ (req'[u].pc = "release" /\ GivenBack(u)')
          PROVE  vq'.addr[id] # req'[u].slot
        <3>1. GivenBack(u)' = GivenBack(u)
            BY DEF GivenBack
        <3> QED BY <1>0, <1>1, <1>4, <2>4, <3>1 DEF QueuedOK
    <2> QED BY <2>2, <2>3, <2>4 DEF QueuedOK
<1>10. QueueOK(vq, InQueue)'
    BY <1>1, <1>4
<1> QED BY <1>6, <1>7, <1>8, <1>9, <1>10 DEF DiskBooks

LEMMA AwaitBooks ==
    ASSUME DiskAssumption, DiskBooks, NEW t \in Requesters, await(t)
    PROVE  DiskBooks'
<1>0. DiskTypeOK /\ HoldersOK /\ QueuedOK
    BY DEF DiskBooks
<1>1. CASE ~slots[req[t].slot].done
    BY <1>1, CollectingBooks DEF await
<1>2. CASE slots[req[t].slot].done
    <2> DEFINE r == [req[t] EXCEPT !.pc = "release", !.answered = TRUE, !.ok = slots[req[t].slot].status = 0]
    <2>1. req' = [req EXCEPT ![t].pc = "release", ![t].answered = TRUE, ![t].ok = slots[req[t].slot].status = 0]
          /\ UNCHANGED <<vq, used, slots, avail, slot_of, cache, disk, diskLeft>> /\ req[t].pc = "wait"
        BY <1>2 DEF await
    <2>2. req \in [Requesters -> Request] /\ req[t] \in Request
        BY <1>0 DEF DiskTypeOK
    <2>3. PICK o : o = (slots[req[t].slot].status = 0)
        OBVIOUS
    <2>4. o \in BOOLEAN
        BY <2>3
    <2>5. req' = [req EXCEPT ![t] = r] /\ r = [req[t] EXCEPT !.pc = "release", !.answered = TRUE, !.ok = o]
        BY <2>1, <2>2, <2>3
    <2>6. r \in Request /\ r.pc = "release" /\ r.slot = req[t].slot /\ r.lba = req[t].lba
        <3> HIDE DEF r
        <3> QED BY <2>2, <2>4, <2>5 DEF Request
    <2> HIDE DEF r
    <2>7. DiskTypeOK'
        <3>1. req' \in [Requesters -> Request]
            BY <2>2, <2>5, <2>6
        <3> QED BY <1>0, <2>1, <3>1 DEF DiskTypeOK, Descs, Slots
    <2>8. \A id \in InQueue : vq.addr[id] # r.slot
        BY <1>0, <1>2, <2>6 DEF QueuedOK
    <2>9. req[t].pc \in WithSlot /\ r.lba \in Sectors
        BY <1>0, <2>1, <2>6 DEF WithSlot, HoldersOK
    <2> QED BY <2>1, <2>5, <2>6, <2>7, <2>8, <2>9, BooksCalm DEF Early
<1> QED BY <1>1, <1>2

LEMMA TimeOutBooks ==
    ASSUME DiskAssumption, DiskBooks, NEW t \in Requesters, time_out(t)
    PROVE  DiskBooks'
<1>0. DiskTypeOK /\ HoldersOK /\ QueuedOK
    BY DEF DiskBooks
<1> DEFINE r == [req[t] EXCEPT !.pc = "release"]
<1>1. req' = [req EXCEPT ![t] = r] /\ UNCHANGED <<vq, avail, used, slots, slot_of, cache, disk>> /\ req[t].pc = "wait"
    BY DEF time_out, Go
<1>2. req \in [Requesters -> Request] /\ req[t] \in Request
    BY <1>0 DEF DiskTypeOK
<1>3. r \in Request /\ r.pc = "release" /\ r.slot = req[t].slot /\ r.lba = req[t].lba /\ r.id = req[t].id /\ r.answered = req[t].answered
    BY <1>2 DEF Request
<1> HIDE DEF r
<1>4. diskLeft' \in Bounds
    <2>1. diskLeft \in Bounds
        BY <1>0 DEF DiskTypeOK
    <2>2. diskLeft' = [diskLeft EXCEPT !.timeouts = diskLeft.timeouts - 1]
        BY DEF time_out
    <2> QED BY <2>1, <2>2 DEF Bounds
<1>5. DiskTypeOK'
    BY <1>0, <1>1, <1>2, <1>3, <1>4 DEF DiskTypeOK, Descs, Slots
<1>6. req[t].pc \in WithSlot /\ r.lba \in Sectors /\ ~r.answered /\ ~(r.id < 0)
    <2>1. req[t].id \in Int /\ req[t].id >= 0
        BY <1>0, <1>1, <1>2 DEF WithSlot, HoldersOK, Request
    <2> QED BY <1>0, <1>1, <1>3, <2>1 DEF WithSlot, HoldersOK, Early
<1> QED BY <1>1, <1>3, <1>5, <1>6, BooksCalm DEF Early

LEMMA CacheBooks ==
    ASSUME DiskAssumption, DiskBooks, NEW t \in Requesters, NEW r \in Request,
           UNCHANGED <<vq, avail, used, slots, slot_of, disk>>, req' = [req EXCEPT ![t] = r],
           cache' \in SectorCache, diskLeft' \in Bounds,
           r.pc \in {"idle", "read"} \/ (r.pc = "claim" /\ ~r.answered),
           r.pc # "idle" => r.lba \in Sectors
    PROVE  DiskBooks'
<1>0. DiskTypeOK
    BY DEF DiskBooks
<1>1. DiskTypeOK'
    BY <1>0 DEF DiskTypeOK, Descs, Slots
<1> QED BY <1>1, BooksCalm DEF Early

LEMMA ReleaseBooks ==
    ASSUME DiskAssumption, DiskBooks, NEW t \in Requesters, release_slot(t)
    PROVE  DiskBooks'
<1> DEFINE s0 == req[t].slot
           g == GivenBack(t)
<1>0. DiskTypeOK /\ HoldersOK /\ QueuedOK
    BY DEF DiskBooks
<1>1. req \in [Requesters -> Request] /\ slots \in [Slots -> BlkSlot] /\ Slots \subseteq Nat
    BY <1>0 DEF DiskTypeOK
<1>2. /\ req[t].pc = "release" /\ UNCHANGED <<vq, avail, used, slot_of, cache, disk, diskLeft>>
      /\ slots' = IF g THEN [slots EXCEPT ![s0].in_use = FALSE] ELSE slots
    BY DEF release_slot
<1>3. s0 \in Slots /\ slots[s0] \in BlkSlot
    BY <1>0, <1>1, <1>2 DEF HoldersOK, WithSlot
<1>4. PICK p \in {"update", "store", "failed"}, v \in DkValues : req'[t] = [req[t] EXCEPT !.pc = p, !.value = v]
    <2>1. slots[s0].data \in DkValues /\ req[t].value \in DkValues
        BY <1>1, <1>3 DEF BlkSlot, Request
    <2>2. req'[t] = [req[t] EXCEPT
                   !.pc = IF req[t].op = "write" THEN "update" ELSE IF req[t].ok THEN "store" ELSE "failed",
                   !.value = IF req[t].op = "read" /\ req[t].ok THEN slots[req[t].slot].data ELSE req[t].value]
        BY DEF release_slot
    <2> QED BY <2>1, <2>2
<1>5. \A u \in Requesters \ {t} : req'[u] = IF g /\ req[u].pc = "sleep" THEN [req[u] EXCEPT !.pc = "claim"] ELSE req[u]
    BY DEF release_slot
<1>6. req'[t] \in Request /\ req'[t].pc = p /\ req'[t].lba = req[t].lba
    <2>1. req[t] \in Request
        BY <1>1
    <2> QED BY <1>4, <2>1 DEF Request
<1>7. ASSUME NEW u \in Requesters \ {t}
      PROVE  /\ req'[u] \in Request /\ req'[u].lba = req[u].lba /\ req'[u].answered = req[u].answered
             /\ req'[u] = req[u] \/ (g /\ req[u].pc = "sleep" /\ req'[u].pc = "claim")
             /\ g => req'[u].pc # "sleep"
    <2>1. req[u] \in Request
        BY <1>1
    <2> QED BY <1>5, <2>1 DEF Request
<1>8. req' \in [Requesters -> Request]
    <2>1. \A u \in Requesters : req'[u] \in Request
        BY <1>6, <1>7
    <2>2. req' = [u \in Requesters |-> req'[u]]
        BY DEF release_slot
    <2> QED BY <2>1, <2>2
<1> HIDE DEF g
<1>9. /\ DOMAIN slots' = DOMAIN slots /\ slots' \in [Slots -> BlkSlot]
      /\ \A s \in Slots \ {s0} : slots'[s] = slots[s]
      /\ ~g => slots' = slots
    <2>1. [slots[s0] EXCEPT !.in_use = FALSE] \in BlkSlot
        BY <1>3 DEF BlkSlot
    <2> HIDE DEF s0
    <2> QED BY <1>1, <1>2, <1>3, <2>1
<1>10. DiskTypeOK'
    BY <1>0, <1>2, <1>8, <1>9 DEF DiskTypeOK, Descs, Slots
<1>11. \A u \in Requesters : req'[u].pc \in WithSlot => u # t /\ req'[u] = req[u] /\ req[u].slot # s0
    <2>1. ASSUME NEW u \in Requesters, req'[u].pc \in WithSlot PROVE u # t /\ req'[u] = req[u]
        BY <1>6, <1>7, <2>1 DEF WithSlot
    <2> QED BY <1>0, <1>2, <2>1 DEF HoldersOK, WithSlot
<1>12. HoldersOK'
    <2>1. Slots' = Slots
        BY <1>9 DEF Slots
    <2>2. ASSUME NEW u \in Requesters, req'[u].pc \in WithSlot
          PROVE  /\ req'[u].slot \in Slots' /\ slots'[req'[u].slot].in_use
                 /\ req'[u].pc = "submit" => ~slots'[req'[u].slot].done
                 /\ req'[u].pc = "wait" => req'[u].id >= 0
        BY <1>0, <1>9, <1>11, <2>1, <2>2 DEF HoldersOK
    <2>3. \A u, z \in Requesters :
             req'[u].pc \in WithSlot /\ req'[z].pc \in WithSlot /\ req'[u].slot = req'[z].slot => u = z
        BY <1>0, <1>11 DEF HoldersOK
    <2>4. ASSUME NEW u \in Requesters, req'[u].pc = "sleep" PROVE \A s \in Slots' : slots'[s].in_use
        <3>1. u # t
            BY <1>6, <2>4
        <3>2. ~g /\ req[u].pc = "sleep"
            BY <1>7, <2>4, <3>1
        <3> QED BY <1>0, <1>9, <2>1, <3>2 DEF HoldersOK
    <2>5. \A u \in Requesters : req'[u].pc \in Early => ~req'[u].answered
        BY <1>0, <1>6, <1>7 DEF HoldersOK, Early
    <2>6. \A u \in Requesters : req'[u].pc # "idle" => req'[u].lba \in Sectors
        BY <1>0, <1>2, <1>6, <1>7 DEF HoldersOK
    <2> QED BY <2>2, <2>3, <2>4, <2>5, <2>6 DEF HoldersOK
<1>13. \A id \in InQueue : slots'[vq.addr[id]] = slots[vq.addr[id]]
    <2>1. g => \A id \in InQueue : vq.addr[id] # s0
        BY <1>0, <1>2 DEF QueuedOK, g
    <2>2. \A id \in InQueue : vq.addr[id] \in Slots
        BY <1>0 DEF QueuedOK
    <2> QED BY <1>9, <2>1, <2>2
<1>14. \A u \in Requesters :
          (req'[u].pc = "submit" \/ (req'[u].pc = "release" /\ GivenBack(u)')) =>
             u # t /\ req'[u].slot = req[u].slot /\ (req[u].pc = "submit" \/ (req[u].pc = "release" /\ GivenBack(u)))
    BY <1>11 DEF WithSlot, GivenBack
<1> QED BY <1>2, <1>9, <1>10, <1>12, <1>13, <1>14, BooksFrame

\* An answer changes a slot's contents, and moves the request to the used ring
LEMMA DeviceIs ==
    ASSUME DiskAssumption, DiskBooks, NEW id \in Descs, device_answers(id), NEW s0, s0 = vq.addr[id]
    PROVE  /\ id \in InQueue /\ s0 \in Slots /\ slots[s0].lba \in Sectors /\ slots[s0] \in BlkSlot
           /\ DOMAIN slots' = DOMAIN slots /\ slots' \in [Slots -> BlkSlot] /\ Slots' = Slots
           /\ \A s \in Slots \ {s0} : slots'[s] = slots[s]
           /\ \A s \in Slots : slots'[s].in_use = slots[s].in_use /\ slots'[s].done = slots[s].done
                               /\ slots'[s].lba = slots[s].lba /\ slots'[s].op = slots[s].op
           /\ disk' \in [Sectors -> DkValues]
           /\ \/ slots'[s0].status = 2 /\ slots'[s0].data = slots[s0].data /\ disk' = disk
              \/ /\ slots'[s0].status = 0 /\ slots[s0].op = "read" /\ slots'[s0].data = disk[slots[s0].lba] /\ disk' = disk
              \/ /\ slots'[s0].status = 0 /\ slots[s0].op = "write" /\ slots'[s0].data = slots[s0].data
                 /\ disk' = [disk EXCEPT ![slots[s0].lba] = slots[s0].data]
<1>0. DiskTypeOK /\ QueuedOK
    BY DEF DiskBooks
<1>1. id \in InQueue /\ s0 \in Slots /\ slots[s0].lba \in Sectors
    BY <1>0 DEF device_answers, InQueue, QueuedOK
<1>2. slots \in [Slots -> BlkSlot] /\ slots[s0] \in BlkSlot /\ disk \in [Sectors -> DkValues]
    BY <1>0, <1>1 DEF DiskTypeOK
<1> DEFINE r == slots[s0]
<1>3. PICK ok \in BOOLEAN :
        /\ slots' = [slots EXCEPT ![s0].status = IF ok THEN 0 ELSE 2,
                                  ![s0].data = IF ok /\ r.op = "read" THEN disk[r.lba] ELSE r.data]
        /\ disk' = IF ok /\ r.op = "write" THEN [disk EXCEPT ![r.lba] = r.data] ELSE disk
    BY DEF device_answers
<1>4. PICK st, d : st = (IF ok THEN 0 ELSE 2) /\ d = IF ok /\ r.op = "read" THEN disk[r.lba] ELSE r.data
    OBVIOUS
<1>5. st \in Nat /\ d \in DkValues /\ r.data \in DkValues /\ r.op \in {"read", "write"}
    BY <1>1, <1>2, <1>4 DEF BlkSlot
<1>6. PICK y : y = [r EXCEPT !.status = st, !.data = d]
    OBVIOUS
<1>7. slots' = [slots EXCEPT ![s0] = y]
    <2>1. slots' = [slots EXCEPT ![s0].status = st, ![s0].data = d]
        BY <1>3, <1>4
    <2> QED BY <1>1, <1>2, <1>6, <2>1
<1>8. PICK x : x = slots[s0]
    OBVIOUS
<1>9. y \in BlkSlot /\ y.status = st /\ y.data = d /\ y.in_use = x.in_use /\ y.done = x.done /\ y.lba = x.lba /\ y.op = x.op
    BY <1>2, <1>5, <1>6, <1>8 DEF BlkSlot
<1>10. /\ DOMAIN slots' = DOMAIN slots /\ slots' \in [Slots -> BlkSlot] /\ slots'[s0] = y
       /\ \A s \in Slots \ {s0} : slots'[s] = slots[s]
    BY <1>1, <1>2, <1>7, <1>9
<1>11. \A s \in Slots : slots'[s].in_use = slots[s].in_use /\ slots'[s].done = slots[s].done
                        /\ slots'[s].lba = slots[s].lba /\ slots'[s].op = slots[s].op
    BY <1>8, <1>9, <1>10
<1>12. disk' \in [Sectors -> DkValues]
    BY <1>1, <1>2, <1>3, <1>5
<1>13. \/ slots'[s0].status = 2 /\ slots'[s0].data = slots[s0].data /\ disk' = disk
       \/ /\ slots'[s0].status = 0 /\ slots[s0].op = "read" /\ slots'[s0].data = disk[slots[s0].lba] /\ disk' = disk
       \/ /\ slots'[s0].status = 0 /\ slots[s0].op = "write" /\ slots'[s0].data = slots[s0].data
          /\ disk' = [disk EXCEPT ![slots[s0].lba] = slots[s0].data]
    <2>1. CASE ok
        BY <1>3, <1>4, <1>5, <1>9, <1>10, <2>1
    <2>2. CASE ~ok
        BY <1>3, <1>4, <1>9, <1>10, <2>2
    <2> QED BY <2>1, <2>2
<1> QED BY <1>1, <1>2, <1>10, <1>11, <1>12, <1>13 DEF Slots

\* ... and those who wait may now have seen the sector's new contents
LEMMA DeviceSeen ==
    ASSUME DiskAssumption, DiskBooks, NEW id \in Descs, device_answers(id), disk' \in [Sectors -> DkValues]
    PROVE  /\ req' \in [Requesters -> Request]
           /\ \A u \in Requesters : req[u].pc = "idle" => req'[u] = req[u]
           /\ \A u \in Requesters :
                 /\ req'[u].pc = req[u].pc /\ req'[u].op = req[u].op /\ req'[u].lba = req[u].lba
                 /\ req'[u].value = req[u].value /\ req'[u].slot = req[u].slot /\ req'[u].id = req[u].id
                 /\ req'[u].writes = req[u].writes /\ req'[u].ok = req[u].ok
                 /\ req'[u].answered = req[u].answered /\ req'[u].direct = req[u].direct
                 /\ req[u].seen \subseteq req'[u].seen
                 /\ req[u].pc # "idle" => disk'[req[u].lba] \in req'[u].seen
<1>1. DiskTypeOK /\ HoldersOK
    BY DEF DiskBooks
<1>2. req' = [t \in Requesters |-> IF req[t].pc = "idle" THEN req[t]
                                  ELSE [req[t] EXCEPT !.seen = @ \cup {disk'[req[t].lba]}]]
    BY DEF device_answers
<1>3. ASSUME NEW u \in Requesters
      PROVE  /\ req'[u] \in Request /\ (req[u].pc = "idle" => req'[u] = req[u])
             /\ req'[u].pc = req[u].pc /\ req'[u].op = req[u].op /\ req'[u].lba = req[u].lba
             /\ req'[u].value = req[u].value /\ req'[u].slot = req[u].slot /\ req'[u].id = req[u].id
             /\ req'[u].writes = req[u].writes /\ req'[u].ok = req[u].ok
             /\ req'[u].answered = req[u].answered /\ req'[u].direct = req[u].direct
             /\ req[u].seen \subseteq req'[u].seen
             /\ req[u].pc # "idle" => disk'[req[u].lba] \in req'[u].seen
    <2>1. req[u] \in Request
        BY <1>1 DEF DiskTypeOK
    <2>2. CASE req[u].pc = "idle"
        BY <1>2, <2>1, <2>2
    <2>3. CASE req[u].pc # "idle"
        <3>1. PICK x, d : x = req[u] /\ d = disk'[req[u].lba]
            OBVIOUS
        <3>2. d \in DkValues
            BY <1>1, <2>3, <3>1 DEF HoldersOK
        <3>3. req'[u] = [x EXCEPT !.seen = x.seen \cup {d}]
            BY <1>2, <2>3, <3>1
        <3>4. x \in Request /\ x.seen \cup {d} \in SUBSET DkValues
            BY <2>1, <3>1, <3>2 DEF Request
        <3>5. req'[u] \in Request /\ req'[u].seen = x.seen \cup {d}
            BY <3>3, <3>4 DEF Request
        <3>6. /\ req'[u].pc = x.pc /\ req'[u].op = x.op /\ req'[u].lba = x.lba
              /\ req'[u].value = x.value /\ req'[u].slot = x.slot /\ req'[u].id = x.id
              /\ req'[u].writes = x.writes /\ req'[u].ok = x.ok
              /\ req'[u].answered = x.answered /\ req'[u].direct = x.direct
            BY <3>3, <3>4 DEF Request
        <3> QED BY <2>3, <3>1, <3>5, <3>6
    <2> QED BY <2>2, <2>3
<1>4. req' \in [Requesters -> Request]
    BY <1>2, <1>3
<1> QED BY <1>3, <1>4

LEMMA DeviceBooks ==
    ASSUME DiskAssumption, DiskBooks, NEW id \in Descs, device_answers(id)
    PROVE  DiskBooks'
<1>0. DiskTypeOK /\ QueueOK(vq, InQueue) /\ UsedOnce /\ HoldersOK /\ QueuedOK
    BY DEF DiskBooks
<1>1. PICK s0 : s0 = vq.addr[id]
    OBVIOUS
<1>2. /\ id \in InQueue /\ s0 \in Slots
      /\ DOMAIN slots' = DOMAIN slots /\ slots' \in [Slots -> BlkSlot] /\ Slots' = Slots
      /\ \A s \in Slots : slots'[s].in_use = slots[s].in_use /\ slots'[s].done = slots[s].done
                          /\ slots'[s].lba = slots[s].lba
      /\ disk' \in [Sectors -> DkValues]
    BY <1>1, DeviceIs
<1>3. /\ req' \in [Requesters -> Request]
      /\ \A u \in Requesters :
            /\ req'[u].pc = req[u].pc /\ req'[u].lba = req[u].lba /\ req'[u].slot = req[u].slot
            /\ req'[u].id = req[u].id /\ req'[u].answered = req[u].answered
    BY <1>2, DeviceSeen
<1>4. id \in avail /\ avail' = avail \ {id} /\ used' = Append(used, id) /\ UNCHANGED <<vq, slot_of, cache, diskLeft>>
    BY DEF device_answers
<1>5. /\ used \in Seq(Descs) /\ Len(used) \in Nat /\ DOMAIN used = 1 .. Len(used)
      /\ DOMAIN used' = 1 .. Len(used) + 1 /\ used'[Len(used) + 1] = id
      /\ \A i \in DOMAIN used : used'[i] = used[i]
      /\ used' \in Seq(Descs)
    BY <1>0, <1>4 DEF DiskTypeOK
<1>6. InQueue' = InQueue
    <2>1. {used'[i] : i \in DOMAIN used'} = {used[i] : i \in DOMAIN used} \cup {id}
        <3>1. DOMAIN used' = DOMAIN used \cup {Len(used) + 1}
            BY <1>5
        <3> QED BY <1>5, <3>1
    <2> QED BY <1>4, <2>1 DEF InQueue
<1>7. UsedOnce'
    <2>1. \A i \in DOMAIN used : used[i] # id /\ used[i] \notin avail
        BY <1>0, <1>4 DEF UsedOnce
    <2>2. \A i \in DOMAIN used' : i \in DOMAIN used \/ i = Len(used) + 1
        BY <1>5
    <2>3. \A i, j \in DOMAIN used' : used'[i] = used'[j] => i = j
        BY <1>0, <1>5, <2>1, <2>2 DEF UsedOnce
    <2>4. \A i \in DOMAIN used' : used'[i] \notin avail'
        BY <1>4, <1>5, <2>1, <2>2
    <2> QED BY <2>3, <2>4 DEF UsedOnce
<1>8. DiskTypeOK'
    <2>1. avail' \subseteq Descs /\ Descs' = Descs
        BY <1>0, <1>4 DEF DiskTypeOK, Descs
    <2> QED BY <1>0, <1>2, <1>3, <1>4, <1>5, <2>1 DEF DiskTypeOK
<1>9. HoldersOK'
    BY <1>0, <1>2, <1>3 DEF HoldersOK
<1>10. QueuedOK'
    <2>1. \A u \in Requesters : GivenBack(u)' = GivenBack(u)
        BY <1>3 DEF GivenBack
    <2>2. \A x \in InQueue' :
             LET s == vq'.addr[x] IN
             s \in Slots' /\ slots'[s].in_use /\ ~slots'[s].done /\ slot_of'[x] = s /\ slots'[s].lba \in Sectors
        BY <1>0, <1>2, <1>4, <1>6 DEF QueuedOK
    <2>3. \A a, b \in InQueue' : vq'.addr[a] = vq'.addr[b] => a = b
        BY <1>0, <1>4, <1>6 DEF QueuedOK
    <2>4. \A u \in Requesters, x \in InQueue' :
             req'[u].pc = "submit" \/ (req'[u].pc = "release" /\ GivenBack(u)') => vq'.addr[x] # req'[u].slot
        BY <1>0, <1>3, <1>4, <1>6, <2>1 DEF QueuedOK
    <2> QED BY <2>2, <2>3, <2>4 DEF QueuedOK
<1>11. QueueOK(vq, InQueue)'
    BY <1>0, <1>4, <1>6
<1> QED BY <1>7, <1>8, <1>9, <1>10, <1>11 DEF DiskBooks

\* A new request and the one that is over
LEMMA NewRequestIs ==
    ASSUME DiskAssumption, DiskTypeOK, NEW op \in {"read", "write"}, NEW lba \in Sectors, NEW v \in DkValues, NEW r,
           r = NewRequest(op, lba, v)
    PROVE  /\ r \in Request /\ r.pc = "claim" /\ r.op = op /\ r.lba = lba /\ r.value = v /\ ~r.answered /\ ~r.ok
           /\ r.seen = {disk[lba]} \cup UNION {req[u].seen : u \in Writing(lba)}
           /\ r.writes = 0 /\ ~r.direct /\ r.id = -1
<1>1. PICK se : se = {disk[lba]} \cup UNION {req[u].seen : u \in Writing(lba)}
    OBVIOUS
<1>2. se \in SUBSET DkValues
    <2>1. \A u \in Writing(lba) : req[u].seen \in SUBSET DkValues
        BY DEF DiskTypeOK, Request, Writing
    <2>2. disk[lba] \in DkValues
        BY DEF DiskTypeOK
    <2> QED BY <1>1, <2>1, <2>2
<1>3. lba \in Nat /\ 0 \in DkValues
    BY DEF DiskAssumption, DkValues
<1>4. r = [pc |-> "claim", op |-> op, lba |-> lba, value |-> v, slot |-> 0, id |-> -1,
           writes |-> 0, ok |-> FALSE, answered |-> FALSE, direct |-> FALSE, seen |-> se]
    BY <1>1 DEF NewRequest, NoTask
<1>5. r \in Request
    BY <1>2, <1>3, <1>4 DEF Request
<1> QED BY <1>1, <1>4, <1>5

LEMMA NoTaskIs ==
    NoTask \in Request /\ NoTask.pc = "idle" /\ NoTask.op = "read" /\ NoTask.seen = {}
<1>1. 0 \in DkValues /\ {} \in SUBSET DkValues
    BY DEF DkValues
<1> QED BY <1>1 DEF NoTask, Request

LEMMA PlaceIn ==
    ASSUME DiskAssumption, NEW lba \in Sectors
    PROVE  Place(lba) \in 0 .. CacheSize - 1
BY DEF Place, DiskAssumption

\* What a read finds: the sector in the cache, or a request of the driver
LEMMA ReadIs ==
    ASSUME DiskAssumption, DiskTypeOK, NEW t \in Requesters, NEW lba \in Sectors, bcache_read(t, lba)
    PROVE  /\ req[t].pc = "idle" /\ UNCHANGED <<vq, avail, used, slots, slot_of, disk>>
           /\ diskLeft' \in Bounds /\ diskLeft'.timeouts = diskLeft.timeouts /\ diskLeft'.most = diskLeft.most
           /\ cache' \in SectorCache /\ cache'.entries = cache.entries /\ cache'.writes = cache.writes
           /\ cache.ready => cache'.ready
           /\ \E r \in Request :
                /\ req' = [req EXCEPT ![t] = r]
                /\ r.op = "read" /\ r.lba = lba /\ ~r.answered /\ ~r.ok
                /\ r.seen = {disk[lba]} \cup UNION {req[u].seen : u \in Writing(lba)}
                /\ \/ r.pc = "read" /\ Holds(lba) /\ r.value = cache.entries[Place(lba)].data
                   \/ r.pc = "claim" /\ r.writes = cache.writes /\ (~r.direct => cache'.ready)
<1>1. PICK memory \in {cache.ready, TRUE} :
       /\ cache' = [cache EXCEPT !.ready = memory]
       /\ req' = [req EXCEPT ![t] =
            IF memory /\ Holds(lba)
            THEN [NewRequest("read", lba, cache.entries[Place(lba)].data) EXCEPT !.pc = "read"]
            ELSE [NewRequest("read", lba, 0) EXCEPT !.writes = cache.writes, !.direct = ~memory]]
    BY DEF bcache_read
<1>2. cache \in SectorCache /\ diskLeft \in Bounds
    BY DEF DiskTypeOK
<1>3. memory \in BOOLEAN
    BY <1>1, <1>2 DEF SectorCache
<1>4. /\ cache' \in SectorCache /\ cache'.entries = cache.entries /\ cache'.writes = cache.writes
      /\ cache'.ready = memory
    BY <1>1, <1>2, <1>3 DEF SectorCache
<1>5. diskLeft' \in Bounds /\ diskLeft'.timeouts = diskLeft.timeouts /\ diskLeft'.most = diskLeft.most
    <2>1. diskLeft' = [diskLeft EXCEPT !.reads = diskLeft.reads - 1]
        BY DEF bcache_read
    <2> QED BY <1>2, <2>1 DEF Bounds
<1>6. req[t].pc = "idle" /\ UNCHANGED <<vq, avail, used, slots, slot_of, disk>>
    BY DEF bcache_read
<1> DEFINE Rest(r) ==
                /\ r \in Request /\ req' = [req EXCEPT ![t] = r]
                /\ r.op = "read" /\ r.lba = lba /\ ~r.answered /\ ~r.ok
                /\ r.seen = {disk[lba]} \cup UNION {req[u].seen : u \in Writing(lba)}
<1>7. CASE memory /\ Holds(lba)
    <2>1. PICK v : v = cache.entries[Place(lba)].data
        OBVIOUS
    <2>2. v \in DkValues
        <3>1. Place(lba) \in 0 .. CacheSize - 1
            BY PlaceIn
        <3> QED BY <1>2, <2>1, <3>1 DEF SectorCache, Cached
    <2>3. PICK n : n = NewRequest("read", lba, v)
        OBVIOUS
    <2>4. /\ n \in Request /\ n.op = "read" /\ n.lba = lba /\ n.value = v /\ ~n.answered /\ ~n.ok
          /\ n.seen = {disk[lba]} \cup UNION {req[u].seen : u \in Writing(lba)}
        BY <2>2, <2>3, NewRequestIs
    <2>5. PICK r : r = [n EXCEPT !.pc = "read"]
        OBVIOUS
    <2>6. /\ r \in Request /\ r.pc = "read" /\ r.op = n.op /\ r.lba = n.lba /\ r.value = n.value
          /\ r.answered = n.answered /\ r.ok = n.ok /\ r.seen = n.seen
        BY <2>4, <2>5 DEF Request
    <2>7. req' = [req EXCEPT ![t] = r]
        BY <1>1, <1>7, <2>1, <2>3, <2>5
    <2>8. Rest(r) /\ r.pc = "read" /\ Holds(lba) /\ r.value = cache.entries[Place(lba)].data
        BY <1>7, <2>1, <2>4, <2>6, <2>7
    <2> QED BY <1>1, <1>4, <1>5, <1>6, <1>7, <2>8
<1>8. CASE ~(memory /\ Holds(lba))
    <2>1. PICK n : n = NewRequest("read", lba, 0)
        OBVIOUS
    <2>2. /\ n \in Request /\ n.pc = "claim" /\ n.op = "read" /\ n.lba = lba /\ ~n.answered /\ ~n.ok
          /\ n.seen = {disk[lba]} \cup UNION {req[u].seen : u \in Writing(lba)}
        <3>1. 0 \in DkValues
            BY DEF DkValues
        <3> QED BY <2>1, <3>1, NewRequestIs
    <2>3. PICK w, d : w = cache.writes /\ d = ~memory
        OBVIOUS
    <2>4. w \in Nat /\ d \in BOOLEAN
        BY <1>2, <2>3 DEF SectorCache
    <2>5. PICK r : r = [n EXCEPT !.writes = w, !.direct = d]
        OBVIOUS
    <2>6. /\ r \in Request /\ r.pc = n.pc /\ r.op = n.op /\ r.lba = n.lba /\ r.writes = w /\ r.direct = d
          /\ r.answered = n.answered /\ r.ok = n.ok /\ r.seen = n.seen
        BY <2>2, <2>4, <2>5 DEF Request
    <2>7. req' = [req EXCEPT ![t] = r]
        BY <1>1, <1>8, <2>1, <2>3, <2>5
    <2>8. Rest(r) /\ r.pc = "claim" /\ r.writes = cache.writes /\ (~r.direct => cache'.ready)
        BY <1>4, <2>2, <2>3, <2>6, <2>7
    <2> QED BY <1>1, <1>3, <1>4, <1>5, <1>6, <2>8
<1> QED BY <1>7, <1>8

LEMMA ReadBooks ==
    ASSUME DiskAssumption, DiskBooks, NEW t \in Requesters, NEW lba \in Sectors, bcache_read(t, lba)
    PROVE  DiskBooks'
<1>0. DiskTypeOK
    BY DEF DiskBooks
<1>1. /\ UNCHANGED <<vq, avail, used, slots, slot_of, disk>> /\ diskLeft' \in Bounds /\ cache' \in SectorCache
    BY <1>0, ReadIs
<1>2. PICK r \in Request :
        req' = [req EXCEPT ![t] = r] /\ r.lba = lba /\ ~r.answered /\ r.pc \in {"read", "claim"}
    BY <1>0, ReadIs
<1> QED BY <1>1, <1>2, CacheBooks

\* What is stored of a read, and what a write leaves in the cache
LEMMA StoreIs ==
    ASSUME DiskAssumption, NEW C \in SectorCache, NEW lba \in Sectors, NEW v \in DkValues, NEW D, D = store(C, lba, v)
    PROVE  /\ D \in SectorCache /\ D.writes = C.writes /\ D.ready = C.ready
           /\ \A p \in 0 .. CacheSize - 1 :
                 \/ D.entries[p] = C.entries[p] /\ p # Place(lba)
                 \/ p = Place(lba) /\ D.entries[p] = [valid |-> TRUE, lba |-> lba, data |-> v]
<1>1. PICK p, e : p = Place(lba) /\ e = [valid |-> TRUE, lba |-> lba, data |-> v]
    OBVIOUS
<1>2. p \in 0 .. CacheSize - 1 /\ e \in Cached
    BY <1>1 DEF Place, DiskAssumption, Cached
<1>3. C.entries \in [0 .. CacheSize - 1 -> Cached]
    BY DEF SectorCache
<1>4. D = [C EXCEPT !.entries[p] = e]
    BY <1>1 DEF store
<1>5. D.entries = [C.entries EXCEPT ![p] = e] /\ D.writes = C.writes /\ D.ready = C.ready
    BY <1>4 DEF SectorCache
<1>6. D.entries \in [0 .. CacheSize - 1 -> Cached]
    BY <1>2, <1>3, <1>5
<1>7. D \in SectorCache
    <2>1. D = [C EXCEPT !.entries = D.entries]
        BY <1>4, <1>5 DEF SectorCache
    <2> QED BY <1>6, <2>1 DEF SectorCache
<1> QED BY <1>1, <1>2, <1>3, <1>5, <1>7

LEMMA StoreReadIs ==
    ASSUME DiskAssumption, DiskTypeOK, NEW t \in Requesters, store_read(t)
    PROVE  /\ req[t].pc = "store" /\ UNCHANGED <<vq, avail, used, slots, slot_of, disk, diskLeft>>
           /\ cache' = IF KeepRead(t) THEN store(cache, req[t].lba, req[t].value) ELSE cache
           /\ \E r \in Request : req' = [req EXCEPT ![t] = r] /\ r = [req[t] EXCEPT !.pc = "read"] /\ r.pc = "read"
                 /\ r.op = req[t].op /\ r.lba = req[t].lba /\ r.value = req[t].value /\ r.seen = req[t].seen
<1>1. PICK x : x = req[t]
    OBVIOUS
<1>2. x \in Request
    BY <1>1 DEF DiskTypeOK
<1>3. PICK r : r = [x EXCEPT !.pc = "read"]
    OBVIOUS
<1>4. r \in Request /\ r.pc = "read" /\ r.op = x.op /\ r.lba = x.lba /\ r.value = x.value /\ r.seen = x.seen
    BY <1>2, <1>3 DEF Request
<1>5. req' = [req EXCEPT ![t] = r]
    BY <1>1, <1>3 DEF store_read, Go
<1> QED BY <1>1, <1>3, <1>4, <1>5 DEF store_read

LEMMA StoreReadBooks ==
    ASSUME DiskAssumption, DiskBooks, NEW t \in Requesters, store_read(t)
    PROVE  DiskBooks'
<1>0. DiskTypeOK /\ HoldersOK
    BY DEF DiskBooks
<1>1. PICK r \in Request : req' = [req EXCEPT ![t] = r] /\ r.pc = "read" /\ r.lba = req[t].lba
    BY <1>0, StoreReadIs
<1>2. /\ req[t].pc = "store" /\ UNCHANGED <<vq, avail, used, slots, slot_of, disk, diskLeft>>
      /\ cache' = IF KeepRead(t) THEN store(cache, req[t].lba, req[t].value) ELSE cache
    BY <1>0, StoreReadIs
<1>3. cache \in SectorCache /\ req[t].lba \in Sectors /\ req[t].value \in DkValues /\ diskLeft \in Bounds
    BY <1>0, <1>2 DEF DiskTypeOK, HoldersOK, Request
<1>4. cache' \in SectorCache
    <2>1. store(cache, req[t].lba, req[t].value) \in SectorCache
        BY <1>3, StoreIs
    <2> QED BY <1>2, <1>3, <2>1
<1> QED BY <1>1, <1>2, <1>3, <1>4, CacheBooks

LEMMA ReturnBooks ==
    ASSUME DiskAssumption, DiskBooks, NEW t \in Requesters, return_read(t)
    PROVE  DiskBooks'
<1>0. DiskTypeOK
    BY DEF DiskBooks
<1>1. /\ req' = [req EXCEPT ![t] = NoTask] /\ UNCHANGED <<vq, avail, used, slots, slot_of, disk>>
      /\ cache' \in SectorCache /\ diskLeft' \in Bounds
    BY <1>0 DEF return_read, DiskTypeOK
<1> QED BY <1>1, NoTaskIs, CacheBooks

LEMMA NewWriteBooks ==
    ASSUME DiskAssumption, DiskBooks, NEW t \in Requesters, NEW lba \in Sectors, NEW v \in Values, bcache_write(t, lba, v)
    PROVE  DiskBooks'
<1>0. DiskTypeOK
    BY DEF DiskBooks
<1>1. /\ req' = [req EXCEPT ![t] = NewRequest("write", lba, v)] /\ UNCHANGED <<vq, avail, used, slots, slot_of, disk>>
      /\ cache' \in SectorCache
    BY <1>0 DEF bcache_write, DiskTypeOK
<1>2. diskLeft' \in Bounds
    <2>1. diskLeft' = [diskLeft EXCEPT !.writes = diskLeft.writes - 1]
        BY DEF bcache_write
    <2>2. diskLeft \in Bounds
        BY <1>0 DEF DiskTypeOK
    <2> QED BY <2>1, <2>2 DEF Bounds
<1>3. PICK r : r = NewRequest("write", lba, v)
    OBVIOUS
<1>4. r \in Request /\ r.pc = "claim" /\ r.lba = lba /\ ~r.answered
    <2>1. v \in DkValues
        BY DEF DkValues
    <2> QED BY <1>0, <1>3, <2>1, NewRequestIs
<1> QED BY <1>1, <1>2, <1>3, <1>4, CacheBooks

\* What a write leaves in the cache: its sector, if the disk took it, or nothing of it
LEMMA UpdateIs ==
    ASSUME DiskAssumption, DiskBooks, NEW t \in Requesters, update_cache(t)
    PROVE  /\ req[t].pc = "update" /\ req' = [req EXCEPT ![t] = NoTask]
           /\ UNCHANGED <<vq, avail, used, slots, slot_of, disk, diskLeft>>
           /\ cache' \in SectorCache /\ cache'.ready = cache.ready
           /\ ~cache.ready => cache' = cache
           /\ cache.ready =>
                /\ cache'.writes = cache.writes + 1
                /\ \A p \in 0 .. CacheSize - 1 :
                     \/ cache'.entries[p] = cache.entries[p] /\ (cache.entries[p].valid /\ p = Place(req[t].lba) => cache.entries[p].lba # req[t].lba)
                     \/ ~cache'.entries[p].valid
                     \/ req[t].ok /\ p = Place(req[t].lba) /\ cache'.entries[p] = [valid |-> TRUE, lba |-> req[t].lba, data |-> req[t].value]
<1>0. DiskTypeOK /\ HoldersOK
    BY DEF DiskBooks
<1>1. /\ req[t].pc = "update" /\ req' = [req EXCEPT ![t] = NoTask]
      /\ UNCHANGED <<vq, avail, used, slots, slot_of, disk, diskLeft>>
    BY DEF update_cache
<1>2. cache \in SectorCache /\ req[t].lba \in Sectors /\ req[t].value \in DkValues
    BY <1>0, <1>1 DEF DiskTypeOK, HoldersOK, Request
<1>3. PICK C : C = [cache EXCEPT !.writes = cache.writes + 1]
    OBVIOUS
<1>4. C \in SectorCache /\ C.writes = cache.writes + 1 /\ C.entries = cache.entries /\ C.ready = cache.ready
    BY <1>2, <1>3 DEF SectorCache
<1>5. PICK lba : lba = req[t].lba
    OBVIOUS
<1>6. cache' = IF ~cache.ready THEN cache
               ELSE IF req[t].ok THEN store(C, lba, req[t].value)
               ELSE IF Holds(lba) THEN [C EXCEPT !.entries[Place(lba)].valid = FALSE]
               ELSE C
    BY <1>3, <1>5 DEF update_cache
<1>7. CASE ~cache.ready
    BY <1>1, <1>2, <1>6, <1>7
<1>8. CASE cache.ready /\ req[t].ok
    <2>1. cache' = store(C, lba, req[t].value)
        BY <1>6, <1>8
    <2>2. PICK D : D = cache'
        OBVIOUS
    <2>3. /\ D \in SectorCache /\ D.writes = C.writes /\ D.ready = C.ready
          /\ \A p \in 0 .. CacheSize - 1 :
                 \/ D.entries[p] = C.entries[p] /\ p # Place(lba)
                 \/ p = Place(lba) /\ D.entries[p] = [valid |-> TRUE, lba |-> lba, data |-> req[t].value]
        BY <1>2, <1>4, <1>5, <2>1, <2>2, StoreIs
    <2> QED BY <1>1, <1>4, <1>5, <1>8, <2>2, <2>3
<1>9. CASE cache.ready /\ ~req[t].ok /\ Holds(lba)
    <2>1. PICK p0 : p0 = Place(lba)
        OBVIOUS
    <2>2. p0 \in 0 .. CacheSize - 1 /\ C.entries \in [0 .. CacheSize - 1 -> Cached]
        <3>1. p0 \in 0 .. CacheSize - 1
            BY <1>2, <1>5, <2>1, PlaceIn
        <3>2. C.entries \in [0 .. CacheSize - 1 -> Cached]
            BY <1>4 DEF SectorCache
        <3> QED BY <3>1, <3>2
    <2>3. PICK e : e = [C.entries[p0] EXCEPT !.valid = FALSE]
        OBVIOUS
    <2>4. e \in Cached /\ ~e.valid
        BY <2>2, <2>3 DEF Cached
    <2>5. PICK D : D = cache'
        OBVIOUS
    <2>6. D = [C EXCEPT !.entries[p0].valid = FALSE]
        BY <1>6, <1>9, <2>1, <2>5
    <2>7. D.entries = [C.entries EXCEPT ![p0] = e] /\ D.writes = C.writes /\ D.ready = C.ready
          /\ D = [C EXCEPT !.entries = D.entries]
        BY <1>4, <2>2, <2>3, <2>6 DEF SectorCache
    <2>8. D.entries \in [0 .. CacheSize - 1 -> Cached]
        BY <2>2, <2>4, <2>7
    <2>9. D \in SectorCache
        BY <1>4, <2>7, <2>8 DEF SectorCache
    <2>10. \A p \in 0 .. CacheSize - 1 : (p # p0 /\ D.entries[p] = C.entries[p]) \/ ~D.entries[p].valid
        BY <2>2, <2>4, <2>7
    <2> QED BY <1>1, <1>4, <1>5, <1>9, <2>1, <2>5, <2>7, <2>9, <2>10
<1>10. CASE cache.ready /\ ~req[t].ok /\ ~Holds(lba)
    BY <1>1, <1>4, <1>5, <1>6, <1>10 DEF Holds
<1> QED BY <1>7, <1>8, <1>9, <1>10

LEMMA UpdateBooks ==
    ASSUME DiskAssumption, DiskBooks, NEW t \in Requesters, update_cache(t)
    PROVE  DiskBooks'
<1>0. DiskTypeOK
    BY DEF DiskBooks
<1>1. /\ req' = [req EXCEPT ![t] = NoTask] /\ UNCHANGED <<vq, avail, used, slots, slot_of, disk>>
      /\ cache' \in SectorCache /\ diskLeft' \in Bounds
    BY <1>0, UpdateIs DEF DiskTypeOK
<1> QED BY <1>1, NoTaskIs, CacheBooks

\* Before the first request
LEMMA BooksAtStart ==
    ASSUME DiskAssumption, DiskInit
    PROVE  DiskBooks
<1>1. PICK sz \in DiskSizes : /\ vq = virtqueue_setup(sz.queue)
                              /\ slots = [s \in 1 .. sz.slots |-> FreeRequest]
                              /\ slot_of = [d \in 0 .. sz.queue - 1 |-> 0]
    BY DEF DiskInit
<1>2. PICK n, k : n = sz.queue /\ k = sz.slots
    OBVIOUS
<1>3. n \in Nat \ {0} /\ k \in Nat \ {0}
    BY <1>2 DEF DiskAssumption
<1>4. /\ vq.size = n /\ vq.next = [d \in 0 .. n - 1 |-> d + 1] /\ vq.more = [d \in 0 .. n - 1 |-> FALSE]
      /\ vq.addr = [d \in 0 .. n - 1 |-> 0] /\ vq.head = 0 /\ vq.count = n
      /\ vq = [size |-> n, next |-> [d \in 0 .. n - 1 |-> d + 1], more |-> [d \in 0 .. n - 1 |-> FALSE],
               addr |-> [d \in 0 .. n - 1 |-> 0], head |-> 0, count |-> n]
    BY <1>1, <1>2 DEF virtqueue_setup
<1>5. avail = {} /\ used = <<>> /\ req = [t \in Requesters |-> NoTask] /\ InQueue = {} /\ DOMAIN used = {}
    BY DEF DiskInit, InQueue
<1>6. DiskTypeOK
    <2>1. vq \in Queue(vq.size)
        BY <1>3, <1>4 DEF Queue
    <2>2. FreeRequest \in BlkSlot
        BY DEF FreeRequest, BlkSlot, DkValues
    <2>3. Slots \subseteq Nat /\ slots \in [Slots -> BlkSlot]
        BY <1>1, <1>2, <1>3, <2>2 DEF Slots
    <2>4. cache \in SectorCache
        <3>1. [valid |-> FALSE, lba |-> 0, data |-> 0] \in Cached
            BY DEF Cached, DkValues
        <3> QED BY <3>1 DEF DiskInit, SectorCache
    <2>5. disk \in [Sectors -> DkValues]
        BY DEF DiskInit, DkValues
    <2>6. diskLeft \in Bounds
        <3>1. PICK m \in 0 .. MaxTimeouts : diskLeft = [reads |-> MaxReads - m, writes |-> MaxWrites, timeouts |-> m, most |-> m]
            BY DEF DiskInit
        <3>2. m \in Int /\ MaxReads - m \in Int /\ MaxWrites \in Int
            BY DEF DiskAssumption
        <3> QED BY <3>1, <3>2 DEF Bounds
    <2>7. slot_of \in [Descs -> Nat]
        BY <1>1, <1>2, <1>4 DEF Descs
    <2>8. req \in [Requesters -> Request]
        BY <1>5, NoTaskIs
    <2>9. avail \subseteq Descs /\ used \in Seq(Descs) /\ vq.size \in Nat
        BY <1>3, <1>4, <1>5
    <2> QED BY <2>1, <2>3, <2>4, <2>5, <2>6, <2>7, <2>8, <2>9 DEF DiskTypeOK
<1>7. QueueOK(vq, InQueue)
    <2> DEFINE L == [i \in 1 .. n |-> i - 1]
    <2>1. L \in [1 .. vq.count -> 0 .. vq.size - 1]
        BY <1>3, <1>4
    <2>2. IsFree(vq, L)
        <3>1. \A i, j \in 1 .. vq.count : L[i] = L[j] => i = j
            BY <1>3, <1>4
        <3>2. vq.count > 0 => L[1] = vq.head
            BY <1>3, <1>4
        <3>3. \A i \in 1 .. vq.count - 1 : vq.next[L[i]] = L[i + 1]
            <4>1. ASSUME NEW i \in 1 .. n - 1 PROVE vq.next[L[i]] = L[i + 1]
                <5>1. L[i] = i - 1 /\ L[i + 1] = i /\ i - 1 \in 0 .. n - 1 /\ (i - 1) + 1 = i
                    BY <1>3
                <5> QED BY <1>4, <5>1
            <4> QED BY <1>4, <4>1
        <3> HIDE DEF L
        <3> QED BY <2>1, <3>1, <3>2, <3>3 DEF IsFree
    <2> HIDE DEF L
    <2>3. Lists(vq, InQueue)
        BY <1>5, <2>1, <2>2 DEF Lists
    <2>4. vq.count + 3 * Cardinality(InQueue) = vq.size
        BY <1>3, <1>4, <1>5, FS_EmptySet
    <2> QED BY <1>5, <2>3, <2>4 DEF QueueOK
<1>8. UsedOnce
    BY <1>5 DEF UsedOnce
<1>9. HoldersOK
    BY <1>5, NoTaskIs DEF HoldersOK, WithSlot, Early
<1>10. QueuedOK
    BY <1>5 DEF QueuedOK
<1> QED BY <1>6, <1>7, <1>8, <1>9, <1>10 DEF DiskBooks

LEMMA BooksKept ==
    ASSUME DiskAssumption, DiskBooks, [DiskNext]_diskVars
    PROVE  DiskBooks'
<1>1. CASE UNCHANGED diskVars
    <2>1. DiskTypeOK'
        BY <1>1 DEF DiskBooks, DiskTypeOK, diskVars, Descs, Slots
    <2>2. InQueue' = InQueue
        BY <1>1 DEF InQueue, diskVars
    <2>3. QueueOK(vq, InQueue)'
        BY <1>1, <2>2 DEF DiskBooks, diskVars
    <2>4. UsedOnce' /\ HoldersOK'
        BY <1>1 DEF DiskBooks, UsedOnce, HoldersOK, diskVars, Slots
    <2>5. QueuedOK'
        BY <1>1, <2>2 DEF DiskBooks, QueuedOK, diskVars, Slots, GivenBack
    <2> QED BY <2>1, <2>3, <2>4, <2>5 DEF DiskBooks
<1>2. ASSUME NEW t \in Requesters,
             \/ claim(t) \/ submit(t) \/ await(t) \/ time_out(t) \/ release_slot(t)
             \/ store_read(t) \/ return_read(t) \/ update_cache(t)
      PROVE  DiskBooks'
    BY <1>2, ClaimBooks, SubmitBooks, AwaitBooks, TimeOutBooks, ReleaseBooks, StoreReadBooks, ReturnBooks, UpdateBooks
<1>3. ASSUME NEW t \in Requesters, NEW lba \in Sectors, bcache_read(t, lba) PROVE DiskBooks'
    BY <1>3, ReadBooks
<1>4. ASSUME NEW t \in Requesters, NEW lba \in Sectors, NEW v \in Values, bcache_write(t, lba, v) PROVE DiskBooks'
    BY <1>4, NewWriteBooks
<1>5. ASSUME NEW id \in Descs, device_answers(id) PROVE DiskBooks'
    BY <1>5, DeviceBooks
<1>6. CASE blk_interrupt
    BY <1>6, CollectingBooks DEF blk_interrupt
<1> QED BY <1>1, <1>2, <1>3, <1>4, <1>5, <1>6 DEF DiskNext

LEMMA SlotsStayApart ==
    ASSUME DiskBooks
    PROVE  SlotsApart
BY DEF DiskBooks, HoldersOK, QueuedOK, SlotsApart, WithSlot

\* For every queue of descriptors, number of slots and of tasks: a descriptor is
\* on the free list or in one request's chain, and a slot the device may still
\* write into is nobody else's (virtqueue.c, do_request).
THEOREM RequestsStayApart ==
    ASSUME DiskAssumption
    PROVE  DiskSpec => [](DescriptorsSound /\ SlotsApart)
<1>1. DiskInit => DiskBooks
    BY BooksAtStart
<1>2. DiskBooks /\ [DiskNext]_diskVars => DiskBooks'
    BY BooksKept
<1>3. DiskBooks => DescriptorsSound /\ SlotsApart
    BY DescriptorsTile, SlotsStayApart DEF DiskBooks
<1> QED BY <1>1, <1>2, <1>3, PTL DEF DiskSpec

\* A requester another one's step leaves alone, but for waking it, and a slot
\* whose contents a step leaves alone
Unmoved(u) ==
    /\ req'[u].op = req[u].op /\ req'[u].lba = req[u].lba /\ req'[u].value = req[u].value
    /\ req'[u].slot = req[u].slot /\ req'[u].writes = req[u].writes /\ req'[u].ok = req[u].ok
    /\ req'[u].answered = req[u].answered /\ req'[u].direct = req[u].direct /\ req'[u].seen = req[u].seen
    /\ req'[u].pc = req[u].pc \/ (req[u].pc = "sleep" /\ req'[u].pc = "claim")
SlotAs(s) == /\ slots'[s].op = slots[s].op /\ slots'[s].lba = slots[s].lba
             /\ slots'[s].data = slots[s].data /\ slots'[s].status = slots[s].status

LEMMA ReqStays ==
    ASSUME NEW u \in Requesters, ReqOK(u), Unmoved(u), Fetching(u) => SlotAs(req[u].slot), disk' = disk,
           req[u].writes \in Nat, cache.writes \in Nat, cache'.writes \in Nat, cache.writes <= cache'.writes,
           cache.ready => cache'.ready
    PROVE  ReqOK(u)'
<1>1. Fetching(u)' = Fetching(u) /\ req'[u].slot = req[u].slot
    BY DEF Fetching, Unmoved
<1>2. Fetched(u)' = Fetched(u)
    BY <1>1 DEF Fetched, Unmoved, SlotAs
<1>3. req'[u].pc \in Early => req[u].pc \in Early
    BY DEF Early, Unmoved
<1>4. req'[u].pc # "idle" <=> req[u].pc # "idle"
    BY DEF Unmoved
<1>5. Fetching(u)' => /\ slots'[req'[u].slot].op = req'[u].op /\ slots'[req'[u].slot].lba = req'[u].lba
                      /\ req'[u].op = "write" => slots'[req'[u].slot].data = req'[u].value
    BY <1>1 DEF ReqOK, Unmoved, SlotAs
<1>6. req'[u].pc = "release" /\ req'[u].ok => req'[u].answered /\ slots'[req'[u].slot].status = 0
    BY <1>1 DEF ReqOK, Unmoved, SlotAs, Fetching
<1>7. Fetched(u)' => slots'[req'[u].slot].data \in req'[u].seen
    BY <1>1, <1>2 DEF ReqOK, Unmoved, SlotAs, Fetched
<1>8. req'[u].op = "read" /\ req'[u].pc \notin {"idle", "read", "failed"} =>
          req'[u].writes <= cache'.writes /\ (~req'[u].direct => cache'.ready)
    BY DEF ReqOK, Unmoved
<1>9. /\ req'[u].pc \in Early => ~req'[u].ok
      /\ req'[u].pc = "update" => req'[u].op = "write"
      /\ req'[u].pc \in {"store", "read", "failed", "idle"} => req'[u].op = "read"
      /\ req'[u].pc # "idle" => disk'[req'[u].lba] \in req'[u].seen
      /\ req'[u].pc = "store" => req'[u].value \in req'[u].seen
    BY <1>3, <1>4 DEF ReqOK, Unmoved
<1> QED BY <1>5, <1>6, <1>7, <1>8, <1>9 DEF ReqOK

\* What is known stays known while those who write go on
LEMMA KnownStays ==
    ASSUME disk' = disk,
           \A u \in Requesters : req[u].op = "write" /\ req[u].pc # "idle" =>
              req'[u].op = "write" /\ req'[u].pc # "idle" /\ req'[u].lba = req[u].lba /\ req[u].seen \subseteq req'[u].seen
    PROVE  \A l, v : Known(l, v) => Known(l, v)'
<1>1. SUFFICES ASSUME NEW l, NEW v, Known(l, v) PROVE Known(l, v)'
    OBVIOUS
<1>2. \A u \in Writing(l) : u \in Writing(l)' /\ req[u].seen \subseteq req'[u].seen
    BY DEF Writing
<1> QED BY <1>1, <1>2 DEF Known

LEMMA CalmOneStays ==
    ASSUME NEW u \in Requesters, CalmOK(u), Unmoved(u), Fetching(u) => SlotAs(req[u].slot), disk' = disk,
           cache'.writes = cache.writes, \A l, v : Known(l, v) => Known(l, v)'
    PROVE  CalmOK(u)'
<1>1. Fetching(u)' = Fetching(u) /\ req'[u].slot = req[u].slot
    BY DEF Fetching, Unmoved
<1>2. Fetched(u)' = Fetched(u) /\ Young(u)' = Young(u) /\ (Fetched(u) => Fetching(u))
    BY <1>1 DEF Fetched, Unmoved, SlotAs, Young
<1>3. req'[u].op = "write" /\ Fetching(u)' /\ slots'[req'[u].slot].status = 0 => disk'[req'[u].lba] = req'[u].value
    BY <1>1 DEF CalmOK, Unmoved, SlotAs
<1>4. req'[u].pc = "update" /\ req'[u].ok => disk'[req'[u].lba] = req'[u].value
    BY DEF CalmOK, Unmoved
<1>5. ASSUME Fetched(u)', Young(u)' PROVE Known(req[u].lba, slots[req[u].slot].data)'
    <2>1. PICK l, v : l = req[u].lba /\ v = slots[req[u].slot].data
        OBVIOUS
    <2>2. Known(l, v)
        BY <1>2, <1>5, <2>1 DEF CalmOK
    <2>3. Known(l, v)'
        BY <2>2
    <2>4. l = req'[u].lba /\ v = slots'[req'[u].slot].data
        BY <1>1, <1>2, <1>5, <2>1 DEF Unmoved, SlotAs
    <2> QED BY <2>3, <2>4
<1>6. ASSUME req'[u].pc = "store", Young(u)' PROVE Known(req[u].lba, req[u].value)'
    <2>1. PICK l, v : l = req[u].lba /\ v = req[u].value
        OBVIOUS
    <2>2. Known(l, v)
        BY <1>2, <1>6, <2>1 DEF CalmOK, Unmoved
    <2>3. Known(l, v)'
        BY <2>2
    <2>4. l = req'[u].lba /\ v = req'[u].value
        BY <2>1 DEF Unmoved
    <2> QED BY <2>3, <2>4
<1>7. req'[u].pc = "read" => req'[u].value \in req'[u].seen
    BY DEF CalmOK, Unmoved
<1> QED BY <1>3, <1>4, <1>5, <1>6, <1>7 DEF CalmOK

LEMMA EntriesStay ==
    ASSUME EntriesKnown, cache'.entries = cache.entries, cache.ready => cache'.ready,
           \A l \in Sectors : \A v : Known(l, v) => Known(l, v)'
    PROVE  EntriesKnown'
<1>1. ASSUME NEW p \in 0 .. CacheSize - 1, cache'.entries[p].valid
      PROVE  /\ cache'.entries[p].lba \in Sectors /\ Place(cache.entries[p].lba)' = p /\ cache'.ready
             /\ Known(cache.entries[p].lba, cache.entries[p].data)'
    <2>1. PICK l, v : l = cache.entries[p].lba /\ v = cache.entries[p].data
        OBVIOUS
    <2>2. l \in Sectors /\ Place(l) = p /\ cache.ready /\ Known(l, v)
        BY <1>1, <2>1 DEF EntriesKnown
    <2>3. Known(l, v)' /\ l = cache'.entries[p].lba /\ v = cache'.entries[p].data
        BY <2>1, <2>2
    <2> QED BY <2>2, <2>3 DEF Place
<1> QED BY <1>1 DEF EntriesKnown

\* A step of one requester
LEMMA OneMoves ==
    ASSUME DiskTypeOK, DiskReads, NEW t \in Requesters, \A u \in Requesters \ {t} : Unmoved(u),
           \A u \in Requesters \ {t} : Fetching(u) => SlotAs(req[u].slot), disk' = disk,
           cache'.writes \in Nat, cache.writes <= cache'.writes, cache.ready => cache'.ready,
           diskLeft'.timeouts <= diskLeft'.most,
           ReqOK(t)',
           req'[t].op = "write" => \A u \in Requesters \ {t} : req[u].op # "write"
    PROVE  DiskReads'
<1>1. ASSUME NEW u \in Requesters \ {t} PROVE ReqOK(u)'
    <2>1. ReqOK(u) /\ Unmoved(u) /\ (Fetching(u) => SlotAs(req[u].slot))
        BY DEF DiskReads
    <2>2. req[u].writes \in Nat /\ cache.writes \in Nat
        BY DEF DiskTypeOK, Request, SectorCache
    <2> QED BY <2>1, <2>2, ReqStays
<1>2. OneWriter'
    <2>1. \A u \in Requesters \ {t} : req'[u].op = req[u].op
        BY DEF Unmoved
    <2> QED BY <2>1 DEF OneWriter, DiskReads
<1> QED BY <1>1, <1>2 DEF DiskReads

\* ... that goes on writing if it was
LEMMA OneMovesOn ==
    ASSUME DiskBooks, DiskReads, DiskCalm, NEW t \in Requesters, \A u \in Requesters \ {t} : Unmoved(u),
           \A u \in Requesters \ {t} : Fetching(u) => SlotAs(req[u].slot), disk' = disk,
           cache'.writes = cache.writes,
           diskLeft'.timeouts = diskLeft.timeouts, diskLeft'.most = diskLeft.most,
           req[t].op = "write" /\ req[t].pc # "idle" =>
              req'[t].op = "write" /\ req'[t].pc # "idle" /\ req'[t].lba = req[t].lba /\ req[t].seen \subseteq req'[t].seen,
           Awaited => Awaited',
           ASSUME CalmOK(t), EntriesKnown, \A l, v : Known(l, v) => Known(l, v)' PROVE CalmOK(t)' /\ EntriesKnown'
    PROVE  DiskCalm'
<1>1. SUFFICES ASSUME ~MayLandLate' PROVE Awaited' /\ (\A u \in Requesters : CalmOK(u)') /\ EntriesKnown'
    BY DEF DiskCalm
<1>2. ~MayLandLate
    BY <1>1 DEF MayLandLate
<1>3. Awaited /\ (\A u \in Requesters : CalmOK(u)) /\ EntriesKnown
    BY <1>2 DEF DiskCalm
<1>4. \A l, v : Known(l, v) => Known(l, v)'
    <2>1. \A u \in Requesters : req[u].op = "write" /\ req[u].pc # "idle" =>
              req'[u].op = "write" /\ req'[u].pc # "idle" /\ req'[u].lba = req[u].lba /\ req[u].seen \subseteq req'[u].seen
        BY DEF Unmoved
    <2> QED BY <2>1, KnownStays
<1>5. CalmOK(t)' /\ EntriesKnown'
    BY <1>3, <1>4
<1>6. ASSUME NEW u \in Requesters \ {t} PROVE CalmOK(u)'
    BY <1>3, <1>4, CalmOneStays
<1> QED BY <1>3, <1>5, <1>6

\* ... and leaves the cache alone
LEMMA OneMovesCalm ==
    ASSUME DiskBooks, DiskReads, DiskCalm, NEW t \in Requesters, \A u \in Requesters \ {t} : Unmoved(u),
           \A u \in Requesters \ {t} : Fetching(u) => SlotAs(req[u].slot), disk' = disk,
           cache'.writes = cache.writes, cache'.entries = cache.entries, cache.ready => cache'.ready,
           diskLeft'.timeouts = diskLeft.timeouts, diskLeft'.most = diskLeft.most,
           req[t].op = "write" /\ req[t].pc # "idle" =>
              req'[t].op = "write" /\ req'[t].pc # "idle" /\ req'[t].lba = req[t].lba /\ req[t].seen \subseteq req'[t].seen,
           Awaited => Awaited',
           ASSUME CalmOK(t), EntriesKnown, \A l, v : Known(l, v) => Known(l, v)' PROVE CalmOK(t)'
    PROVE  DiskCalm'
<1>1. ASSUME CalmOK(t), EntriesKnown, \A l, v : Known(l, v) => Known(l, v)' PROVE CalmOK(t)' /\ EntriesKnown'
    BY <1>1, EntriesStay
<1> QED BY <1>1, OneMovesOn

\* Who else has a slot has another one
LEMMA SlotsOfOthers ==
    ASSUME DiskBooks, NEW t \in Requesters, NEW u \in Requesters \ {t}, Fetching(u)
    PROVE  req[u].slot \in Slots /\ (req[t].pc \in WithSlot => req[u].slot # req[t].slot)
BY DEF DiskBooks, HoldersOK, WithSlot, Fetching

LEMMA ClaimReads ==
    ASSUME DiskBooks, DiskReads, DiskCalm, NEW t \in Requesters, claim(t)
    PROVE  DiskReads' /\ DiskCalm'
<1>0. DiskTypeOK /\ ReqOK(t)
    BY DEF DiskBooks, DiskReads
<1>1. PICK x : x = req[t]
    OBVIOUS
<1>2. x \in Request /\ req \in [Requesters -> Request] /\ x.pc = "claim"
    BY <1>0, <1>1 DEF DiskTypeOK, claim
<1>3. UNCHANGED <<vq, avail, used, slot_of, cache, disk, diskLeft>> /\ cache.writes \in Nat
    BY <1>0 DEF claim, DiskTypeOK, SectorCache
<1>4. \A s \in Slots : SlotAs(s)
    <2>1. slots \in [Slots -> BlkSlot]
        BY <1>0 DEF DiskTypeOK
    <2>2. CASE slots' = slots
        BY <2>2 DEF SlotAs
    <2>3. CASE \E z : slots' = [slots EXCEPT ![z].in_use = TRUE, ![z].done = FALSE]
        <3>1. PICK z : slots' = [slots EXCEPT ![z].in_use = TRUE, ![z].done = FALSE]
            BY <2>3
        <3>2. ASSUME NEW s \in Slots PROVE SlotAs(s)
            <4>1. PICK y : y = slots[s]
                OBVIOUS
            <4>2. y \in BlkSlot
                BY <2>1, <4>1
            <4>3. CASE s = z
                <5>1. slots'[s] = [y EXCEPT !.in_use = TRUE, !.done = FALSE]
                    BY <2>1, <3>1, <4>1, <4>2, <4>3 DEF BlkSlot
                <5> QED BY <4>1, <4>2, <5>1 DEF SlotAs, BlkSlot
            <4>4. CASE s # z
                BY <2>1, <3>1, <4>4 DEF SlotAs
            <4> QED BY <4>3, <4>4
        <3> QED BY <3>2
    <2> QED BY <2>2, <2>3 DEF claim
<1>5. /\ req'[t].pc \in {"sleep", "submit"} /\ req'[t].op = x.op /\ req'[t].lba = x.lba /\ req'[t].value = x.value
      /\ req'[t].writes = x.writes /\ req'[t].ok = x.ok /\ req'[t].direct = x.direct /\ req'[t].seen = x.seen
      /\ \A u \in Requesters \ {t} : req'[u] = req[u]
    <2>1. PICK z : \/ req' = [req EXCEPT ![t].pc = "sleep"]
                   \/ req' = [req EXCEPT ![t].pc = "submit", ![t].slot = z]
        BY DEF claim, Go
    <2> QED BY <1>1, <1>2, <2>1 DEF Request
<1>6. \A u \in Requesters \ {t} : Unmoved(u) /\ (Fetching(u) => SlotAs(req[u].slot))
    BY <1>4, <1>5, SlotsOfOthers DEF Unmoved
<1>7. ReqOK(t)'
    BY <1>0, <1>1, <1>2, <1>3, <1>5 DEF ReqOK, Fetching, Fetched, Early
<1>8. DiskReads'
    <2>1. req'[t].op = "write" => \A u \in Requesters \ {t} : req[u].op # "write"
        BY <1>1, <1>5 DEF DiskReads, OneWriter
    <2>2. diskLeft'.timeouts <= diskLeft'.most
        BY <1>3 DEF DiskReads
    <2> QED BY <1>0, <1>3, <1>6, <1>7, <2>1, <2>2, OneMoves
<1>9. Awaited => Awaited'
    BY <1>1, <1>2, <1>3, <1>5 DEF Awaited, InQueue
<1>10. CalmOK(t)'
    BY <1>5 DEF CalmOK, Fetching, Fetched
<1>11. DiskCalm'
    BY <1>1, <1>2, <1>3, <1>5, <1>6, <1>9, <1>10, OneMovesCalm
<1> QED BY <1>8, <1>11

LEMMA SubmitReads ==
    ASSUME DiskAssumption, DiskBooks, DiskReads, DiskCalm, NEW t \in Requesters, submit(t)
    PROVE  DiskReads' /\ DiskCalm'
<1>0. DiskTypeOK /\ ReqOK(t) /\ HoldersOK /\ QueuedOK
    BY DEF DiskBooks, DiskReads
<1>1. PICK x, s0 : x = req[t] /\ s0 = x.slot
    OBVIOUS
<1>2. x \in Request /\ req \in [Requesters -> Request] /\ x.pc = "submit" /\ s0 \in Slots
    BY <1>0, <1>1 DEF DiskTypeOK, submit, HoldersOK, WithSlot
<1>3. UNCHANGED <<used, cache, disk, diskLeft>> /\ cache.writes \in Nat
    BY <1>0 DEF submit, DiskTypeOK, SectorCache
<1>4. /\ slots'[s0].op = x.op /\ slots'[s0].lba = x.lba /\ slots'[s0].status = 1
      /\ x.op = "write" => slots'[s0].data = x.value
      /\ \A s \in Slots \ {s0} : slots'[s] = slots[s]
    <2>1. PICK d : d = IF x.op = "write" THEN x.value ELSE slots[s0].data
        OBVIOUS
    <2>2. slots' = [slots EXCEPT ![s0].op = x.op, ![s0].lba = x.lba, ![s0].status = 1, ![s0].data = d]
        BY <1>1, <2>1 DEF submit
    <2>3. slots \in [Slots -> BlkSlot]
        BY <1>0 DEF DiskTypeOK
    <2>4. PICK y : y = slots[s0]
        OBVIOUS
    <2>5. slots'[s0] = [y EXCEPT !.op = x.op, !.lba = x.lba, !.status = 1, !.data = d] /\ y \in BlkSlot
        BY <1>2, <2>2, <2>3, <2>4
    <2>6. \A s \in Slots \ {s0} : slots'[s] = slots[s]
        BY <2>2, <2>3
    <2> QED BY <2>1, <2>5, <2>6 DEF BlkSlot
<1>5. /\ req'[t].pc \in {"wait", "release"} /\ req'[t].op = x.op /\ req'[t].lba = x.lba /\ req'[t].value = x.value
      /\ req'[t].writes = x.writes /\ req'[t].ok = x.ok /\ req'[t].direct = x.direct /\ req'[t].seen = x.seen
      /\ req'[t].slot = s0 /\ \A u \in Requesters \ {t} : req'[u] = req[u]
    <2>1. PICK i : \/ req' = [req EXCEPT ![t].pc = "wait", ![t].id = i]
                   \/ req' = [req EXCEPT ![t].pc = "release", ![t].id = i]
        BY DEF submit
    <2> QED BY <1>1, <1>2, <2>1 DEF Request
<1>6. \A u \in Requesters \ {t} : Unmoved(u) /\ (Fetching(u) => SlotAs(req[u].slot))
    <2>1. req[t].pc \in WithSlot
        BY <1>1, <1>2 DEF WithSlot
    <2> QED BY <1>1, <1>4, <1>5, <2>1, SlotsOfOthers DEF Unmoved, SlotAs
<1>7. ReqOK(t)'
    <2>1. ~x.ok /\ disk[x.lba] \in x.seen /\ (x.op = "read" => x.writes <= cache.writes /\ (~x.direct => cache.ready))
        BY <1>0, <1>1, <1>2 DEF ReqOK, Early
    <2> QED BY <1>3, <1>4, <1>5, <2>1 DEF ReqOK, Fetching, Fetched, Early
<1>8. DiskReads'
    <2>1. req'[t].op = "write" => \A u \in Requesters \ {t} : req[u].op # "write"
        BY <1>1, <1>5 DEF DiskReads, OneWriter
    <2>2. diskLeft'.timeouts <= diskLeft'.most
        BY <1>3 DEF DiskReads
    <2> QED BY <1>0, <1>3, <1>6, <1>7, <2>1, <2>2, OneMoves
<1>9. ASSUME Awaited PROVE Awaited'
    <2>1. CASE ~(vq.count >= CHAIN)
        <3>1. UNCHANGED <<vq, avail>>
            BY <2>1 DEF submit
        <3> QED BY <1>1, <1>2, <1>3, <1>5, <1>9, <3>1 DEF Awaited, InQueue
    <2>2. CASE vq.count >= CHAIN
        <3>1. PICK h : h = vq.head
            OBVIOUS
        <3>2. vq' = virtqueue_add(vq, s0) /\ avail' = avail \cup {h}
            BY <1>1, <2>2, <3>1 DEF submit
        <3>3. req'[t].pc = "wait"
            <4>1. req' = [req EXCEPT ![t].pc = "wait", ![t].id = vq.head]
                BY <2>2 DEF submit
            <4> QED BY <1>1, <1>2, <4>1 DEF Request
        <3>4. vq'.addr[h] = s0 /\ \A id \in InQueue : vq'.addr[id] = vq.addr[id]
            BY <1>2, <2>2, <3>1, <3>2, AddIs DEF CHAIN
        <3>5. InQueue' = InQueue \cup {h}
            BY <1>3, <3>2 DEF InQueue
        <3>6. ASSUME NEW id \in InQueue'
              PROVE  \E u \in Requesters : req'[u].pc = "wait" /\ req'[u].slot = vq'.addr[id]
            <4>1. CASE id = h
                BY <1>5, <3>3, <3>4, <4>1
            <4>2. CASE id \in InQueue
                <5>1. PICK u \in Requesters : req[u].pc = "wait" /\ req[u].slot = vq.addr[id]
                    BY <1>9, <4>2 DEF Awaited
                <5>2. u # t
                    BY <1>1, <1>2, <5>1
                <5> QED BY <1>5, <3>4, <4>2, <5>1, <5>2
            <4> QED BY <3>5, <4>1, <4>2
        <3> QED BY <3>6 DEF Awaited
    <2> QED BY <2>1, <2>2
<1>10. CalmOK(t)'
    BY <1>4, <1>5 DEF CalmOK, Fetching, Fetched
<1>11. DiskCalm'
    BY <1>1, <1>2, <1>3, <1>5, <1>6, <1>9, <1>10, OneMovesCalm
<1> QED BY <1>8, <1>11

\* Collecting answers tells nobody anything new
LEMMA CollectReads ==
    ASSUME DiskBooks, DiskReads, DiskCalm, collect_finished, UNCHANGED <<avail, slot_of, cache, disk, req, diskLeft>>
    PROVE  DiskReads' /\ DiskCalm'
<1>0. DiskTypeOK
    BY DEF DiskBooks
<1>1. vq'.addr = vq.addr /\ used' = <<>>
    BY CollectSlots
<1>2. \A s \in Slots : SlotAs(s)
    <2>1. ASSUME NEW s \in Slots PROVE SlotAs(s)
        <3>1. PICK y : y = slots[s]
            OBVIOUS
        <3>2. y \in BlkSlot /\ (slots'[s] = y \/ slots'[s] = [y EXCEPT !.done = TRUE])
            BY <1>0, <3>1, CollectSlots DEF DiskTypeOK
        <3> QED BY <3>1, <3>2 DEF SlotAs, BlkSlot
    <2> QED BY <2>1
<1>3. \A u \in Requesters : Unmoved(u) /\ (Fetching(u) => SlotAs(req[u].slot))
    BY <1>2 DEF Unmoved, DiskBooks, HoldersOK, Fetching, WithSlot
<1>4. DiskReads'
    <2>1. ASSUME NEW u \in Requesters PROVE ReqOK(u)'
        <3>1. ReqOK(u) /\ req[u].writes \in Nat /\ cache.writes \in Nat
            BY <1>0 DEF DiskReads, DiskTypeOK, Request, SectorCache
        <3> QED BY <1>3, <3>1, ReqStays
    <2> QED BY <2>1 DEF DiskReads, OneWriter
<1>5. DiskCalm'
    <2>1. SUFFICES ASSUME ~MayLandLate' PROVE Awaited' /\ (\A u \in Requesters : CalmOK(u)') /\ EntriesKnown'
        BY DEF DiskCalm
    <2>2. Awaited /\ (\A u \in Requesters : CalmOK(u)) /\ EntriesKnown
        BY <2>1 DEF DiskCalm, MayLandLate
    <2>3. \A l, v : Known(l, v) => Known(l, v)'
        BY KnownStays
    <2>4. Awaited'
        <3>1. InQueue' \subseteq InQueue
            <4>1. DOMAIN used' = {}
                BY <1>1
            <4> QED BY <4>1 DEF InQueue
        <3> QED BY <1>1, <2>2, <3>1 DEF Awaited
    <2>5. ASSUME NEW u \in Requesters PROVE CalmOK(u)'
        BY <1>3, <2>2, <2>3, CalmOneStays
    <2> QED BY <2>2, <2>3, <2>4, <2>5, EntriesStay
<1> QED BY <1>4, <1>5

LEMMA AwaitReads ==
    ASSUME DiskBooks, DiskReads, DiskCalm, NEW t \in Requesters, await(t)
    PROVE  DiskReads' /\ DiskCalm'
<1>0. DiskTypeOK /\ ReqOK(t) /\ HoldersOK /\ QueuedOK
    BY DEF DiskBooks, DiskReads
<1>1. CASE ~slots[req[t].slot].done
    BY <1>1, CollectReads DEF await
<1>2. CASE slots[req[t].slot].done
    <2>1. PICK x, s0, o : x = req[t] /\ s0 = x.slot /\ o = (slots[s0].status = 0)
        OBVIOUS
    <2>2. /\ req' = [req EXCEPT ![t].pc = "release", ![t].answered = TRUE, ![t].ok = o]
          /\ UNCHANGED <<vq, used, slots, avail, slot_of, cache, disk, diskLeft>> /\ x.pc = "wait"
        BY <1>2, <2>1 DEF await
    <2>3. req \in [Requesters -> Request] /\ x \in Request /\ cache.writes \in Nat
        BY <1>0, <2>1 DEF DiskTypeOK, SectorCache
    <2>4. /\ req'[t].pc = "release" /\ req'[t].op = x.op /\ req'[t].lba = x.lba /\ req'[t].value = x.value
          /\ req'[t].writes = x.writes /\ req'[t].ok = o /\ req'[t].direct = x.direct /\ req'[t].seen = x.seen
          /\ req'[t].slot = s0 /\ req'[t].answered /\ \A u \in Requesters \ {t} : req'[u] = req[u]
        BY <2>1, <2>2, <2>3 DEF Request
    <2>5. \A u \in Requesters \ {t} : Unmoved(u) /\ (Fetching(u) => SlotAs(req[u].slot))
        BY <2>2, <2>4 DEF Unmoved, SlotAs
    <2>6. Fetching(t) /\ Fetching(t)' /\ Fetched(t)' = Fetched(t) /\ Young(t)' = Young(t)
        BY <2>1, <2>2, <2>4 DEF Fetching, Fetched, Young
    <2>7. ReqOK(t)'
        <3>1. /\ slots[s0].op = x.op /\ slots[s0].lba = x.lba /\ (x.op = "write" => slots[s0].data = x.value)
              /\ disk[x.lba] \in x.seen /\ (Fetched(t) => slots[s0].data \in x.seen)
              /\ x.op = "read" => x.writes <= cache.writes /\ (~x.direct => cache.ready)
            BY <1>0, <2>1, <2>2, <2>6 DEF ReqOK
        <3> QED BY <2>1, <2>2, <2>4, <2>6, <3>1 DEF ReqOK, Early
    <2>8. DiskReads'
        <3>1. req'[t].op = "write" => \A u \in Requesters \ {t} : req[u].op # "write"
            BY <2>1, <2>4 DEF DiskReads, OneWriter
        <3>2. diskLeft'.timeouts <= diskLeft'.most
            BY <2>2 DEF DiskReads
        <3> QED BY <1>0, <2>2, <2>3, <2>5, <2>7, <3>1, <3>2, OneMoves
    <2>9. ASSUME Awaited PROVE Awaited'
        <3>1. ASSUME NEW id \in InQueue
              PROVE  \E u \in Requesters : req'[u].pc = "wait" /\ req'[u].slot = vq'.addr[id]
            <4>1. PICK u \in Requesters : req[u].pc = "wait" /\ req[u].slot = vq.addr[id]
                BY <2>9 DEF Awaited
            <4>2. u # t
                BY <1>0, <1>2, <4>1 DEF QueuedOK
            <4> QED BY <2>2, <2>4, <4>1, <4>2
        <3>2. InQueue' = InQueue
            BY <2>2 DEF InQueue
        <3> QED BY <3>1, <3>2 DEF Awaited
    <2>10. ASSUME CalmOK(t), \A l, v : Known(l, v) => Known(l, v)' PROVE CalmOK(t)'
        <3>1. PICK l, v : l = x.lba /\ v = slots[s0].data
            OBVIOUS
        <3>2. Fetched(t) /\ Young(t) => Known(l, v)'
            BY <2>1, <2>10, <3>1 DEF CalmOK
        <3>3. l = req'[t].lba /\ v = slots'[req'[t].slot].data
            BY <2>2, <2>4, <3>1
        <3>4. Fetched(t)' /\ Young(t)' => Known(req[t].lba, slots[req[t].slot].data)'
            BY <2>6, <3>2, <3>3
        <3>5. req'[t].op = "write" /\ Fetching(t)' /\ slots'[req'[t].slot].status = 0 => disk'[req'[t].lba] = req'[t].value
            BY <2>1, <2>2, <2>4, <2>6, <2>10 DEF CalmOK
        <3> QED BY <2>4, <3>4, <3>5 DEF CalmOK
    <2>11. DiskCalm'
        <3>1. req[t].op = "write" /\ req[t].pc # "idle" =>
                  req'[t].op = "write" /\ req'[t].pc # "idle" /\ req'[t].lba = req[t].lba /\ req[t].seen \subseteq req'[t].seen
            BY <2>1, <2>4
        <3> QED BY <2>2, <2>5, <2>9, <2>10, <3>1, OneMovesCalm
    <2> QED BY <2>8, <2>11
<1> QED BY <1>1, <1>2

\* A request given up may land late: nothing is promised of the cache any more
LEMMA TimeOutReads ==
    ASSUME DiskBooks, DiskReads, DiskCalm, NEW t \in Requesters, time_out(t)
    PROVE  DiskReads' /\ DiskCalm'
<1>0. DiskTypeOK /\ ReqOK(t) /\ HoldersOK
    BY DEF DiskBooks, DiskReads
<1>1. PICK x, s0 : x = req[t] /\ s0 = x.slot
    OBVIOUS
<1>2. req' = [req EXCEPT ![t].pc = "release"] /\ UNCHANGED <<vq, avail, used, slots, slot_of, cache, disk>> /\ x.pc = "wait"
    BY <1>1 DEF time_out, Go
<1>3. req \in [Requesters -> Request] /\ x \in Request /\ cache.writes \in Nat
    BY <1>0, <1>1 DEF DiskTypeOK, SectorCache
<1>4. /\ req'[t].pc = "release" /\ req'[t].op = x.op /\ req'[t].lba = x.lba /\ req'[t].value = x.value
      /\ req'[t].writes = x.writes /\ req'[t].ok = x.ok /\ req'[t].direct = x.direct /\ req'[t].seen = x.seen
      /\ req'[t].slot = s0 /\ \A u \in Requesters \ {t} : req'[u] = req[u]
    BY <1>1, <1>2, <1>3 DEF Request
<1>5. \A u \in Requesters \ {t} : Unmoved(u) /\ (Fetching(u) => SlotAs(req[u].slot))
    BY <1>2, <1>4 DEF Unmoved, SlotAs
<1>6. Fetching(t) /\ Fetching(t)' /\ Fetched(t)' = Fetched(t)
    BY <1>1, <1>2, <1>4 DEF Fetching, Fetched
<1>7. ReqOK(t)'
    <2>1. /\ slots[s0].op = x.op /\ slots[s0].lba = x.lba /\ (x.op = "write" => slots[s0].data = x.value)
          /\ disk[x.lba] \in x.seen /\ (Fetched(t) => slots[s0].data \in x.seen) /\ ~x.ok
          /\ x.op = "read" => x.writes <= cache.writes /\ (~x.direct => cache.ready)
        BY <1>0, <1>1, <1>2, <1>6 DEF ReqOK, Early
    <2> QED BY <1>1, <1>2, <1>4, <1>6, <2>1 DEF ReqOK, Early
<1>8. diskLeft'.timeouts < diskLeft'.most
    <2>1. diskLeft \in Bounds /\ diskLeft.timeouts <= diskLeft.most
        BY <1>0 DEF DiskTypeOK, DiskReads
    <2>2. diskLeft' = [diskLeft EXCEPT !.timeouts = diskLeft.timeouts - 1]
        BY DEF time_out
    <2>3. diskLeft'.timeouts = diskLeft.timeouts - 1 /\ diskLeft'.most = diskLeft.most
          /\ diskLeft.timeouts \in Int /\ diskLeft.most \in Int
        BY <2>1, <2>2 DEF Bounds
    <2> QED BY <2>1, <2>3
<1>9. DiskReads'
    <2>1. req'[t].op = "write" => \A u \in Requesters \ {t} : req[u].op # "write"
        BY <1>1, <1>4 DEF DiskReads, OneWriter
    <2>2. diskLeft'.timeouts <= diskLeft'.most
        <3>1. diskLeft'.timeouts \in Int /\ diskLeft'.most \in Int
            <4>1. diskLeft \in Bounds /\ diskLeft' = [diskLeft EXCEPT !.timeouts = diskLeft.timeouts - 1]
                BY <1>0 DEF DiskTypeOK, time_out
            <4> QED BY <4>1 DEF Bounds
        <3> QED BY <1>8, <3>1
    <2> QED BY <1>0, <1>2, <1>3, <1>5, <1>7, <2>1, <2>2, OneMoves
<1>10. DiskCalm'
    BY <1>8 DEF DiskCalm, MayLandLate
<1> QED BY <1>9, <1>10

LEMMA ReleaseReads ==
    ASSUME DiskBooks, DiskReads, DiskCalm, NEW t \in Requesters, release_slot(t)
    PROVE  DiskReads' /\ DiskCalm'
<1>0. DiskTypeOK /\ ReqOK(t) /\ HoldersOK
    BY DEF DiskBooks, DiskReads
<1>1. PICK x, s0 : x = req[t] /\ s0 = x.slot
    OBVIOUS
<1>2. UNCHANGED <<vq, avail, used, slot_of, cache, disk, diskLeft>> /\ x.pc = "release"
    BY <1>1 DEF release_slot
<1>3. req \in [Requesters -> Request] /\ x \in Request /\ cache.writes \in Nat /\ slots \in [Slots -> BlkSlot] /\ s0 \in Slots
    BY <1>0, <1>1, <1>2 DEF DiskTypeOK, SectorCache, HoldersOK, WithSlot
<1>4. \A s \in Slots : SlotAs(s)
    <2>1. slots' = slots \/ slots' = [slots EXCEPT ![s0].in_use = FALSE]
        BY <1>1 DEF release_slot
    <2>2. ASSUME NEW s \in Slots PROVE SlotAs(s)
        <3>1. PICK y : y = slots[s]
            OBVIOUS
        <3>2. y \in BlkSlot /\ (slots'[s] = y \/ slots'[s] = [y EXCEPT !.in_use = FALSE])
            BY <1>3, <2>1, <3>1
        <3> QED BY <3>1, <3>2 DEF SlotAs, BlkSlot
    <2> QED BY <2>2
<1>5. PICK p, v : /\ p = IF x.op = "write" THEN "update" ELSE IF x.ok THEN "store" ELSE "failed"
                  /\ v = IF x.op = "read" /\ x.ok THEN slots[s0].data ELSE x.value
    OBVIOUS
<1>6. /\ req'[t].pc = p /\ req'[t].op = x.op /\ req'[t].lba = x.lba /\ req'[t].value = v
      /\ req'[t].writes = x.writes /\ req'[t].ok = x.ok /\ req'[t].direct = x.direct /\ req'[t].seen = x.seen
    <2>1. req'[t] = [x EXCEPT !.pc = p, !.value = v]
        BY <1>1, <1>5 DEF release_slot
    <2> QED BY <1>3, <2>1 DEF Request
<1>7. \A u \in Requesters \ {t} : Unmoved(u) /\ (Fetching(u) => SlotAs(req[u].slot))
    <2>1. ASSUME NEW u \in Requesters \ {t} PROVE Unmoved(u)
        <3>1. PICK y : y = req[u]
            OBVIOUS
        <3>2. y \in Request /\ (req'[u] = y \/ (y.pc = "sleep" /\ req'[u] = [y EXCEPT !.pc = "claim"]))
            BY <1>3, <3>1 DEF release_slot
        <3> QED BY <3>1, <3>2 DEF Unmoved, Request
    <2> QED BY <1>4, <2>1, SlotsOfOthers
<1>8. x.op \in {"read", "write"} /\ Fetching(t)
    BY <1>1, <1>2, <1>3 DEF Request, Fetching
<1>9. x.op = "read" /\ x.ok => Fetched(t)
    BY <1>0, <1>1, <1>2, <1>8 DEF Fetched, ReqOK
<1>10. ReqOK(t)'
    <2>1. /\ disk[x.lba] \in x.seen /\ (x.op = "read" /\ x.ok => slots[s0].data \in x.seen)
          /\ x.op = "read" => x.writes <= cache.writes /\ (~x.direct => cache.ready)
        BY <1>0, <1>1, <1>2, <1>9 DEF ReqOK
    <2>2. ~Fetching(t)' /\ ~Fetched(t)' /\ req'[t].pc \notin Early /\ req'[t].pc # "release"
        BY <1>5, <1>6 DEF Fetching, Fetched, Early
    <2> QED BY <1>2, <1>5, <1>6, <1>8, <2>1, <2>2 DEF ReqOK
<1>11. DiskReads'
    <2>1. req'[t].op = "write" => \A u \in Requesters \ {t} : req[u].op # "write"
        BY <1>1, <1>6 DEF DiskReads, OneWriter
    <2>2. diskLeft'.timeouts <= diskLeft'.most
        BY <1>2 DEF DiskReads
    <2> QED BY <1>0, <1>2, <1>3, <1>7, <1>10, <2>1, <2>2, OneMoves
<1>12. ASSUME Awaited PROVE Awaited'
    <2>1. InQueue' = InQueue
        BY <1>2 DEF InQueue
    <2>2. \A u \in Requesters : req[u].pc = "wait" => req'[u].pc = "wait" /\ req'[u].slot = req[u].slot
        BY <1>1, <1>2, <1>7 DEF Unmoved
    <2> QED BY <1>2, <1>12, <2>1, <2>2 DEF Awaited
<1>13. ASSUME CalmOK(t), \A l, w : Known(l, w) => Known(l, w)' PROVE CalmOK(t)'
    <2>1. req'[t].pc = "update" /\ req'[t].ok => disk'[req'[t].lba] = req'[t].value
        BY <1>0, <1>1, <1>2, <1>5, <1>6, <1>8, <1>13 DEF CalmOK, ReqOK
    <2>2. ASSUME req'[t].pc = "store", Young(t)' PROVE Known(req[t].lba, req[t].value)'
        <3>1. PICK l : l = x.lba
            OBVIOUS
        <3>2. x.op = "read" /\ x.ok /\ v = slots[s0].data
            BY <1>5, <1>6, <1>8, <2>2
        <3>3. Young(t)
            BY <1>1, <1>2, <1>6, <2>2 DEF Young
        <3>4. Known(l, v)
            BY <1>1, <1>9, <1>13, <3>1, <3>2, <3>3 DEF CalmOK
        <3>5. Known(l, v)' /\ l = req'[t].lba /\ v = req'[t].value
            BY <1>6, <1>13, <3>1, <3>4
        <3> QED BY <3>5
    <2>3. ~Fetching(t)' /\ ~Fetched(t)' /\ req'[t].pc # "read"
        BY <1>5, <1>6 DEF Fetching, Fetched
    <2> QED BY <2>1, <2>2, <2>3 DEF CalmOK
<1>14. DiskCalm'
    <2>1. req[t].op = "write" /\ req[t].pc # "idle" =>
              req'[t].op = "write" /\ req'[t].pc # "idle" /\ req'[t].lba = req[t].lba /\ req[t].seen \subseteq req'[t].seen
        BY <1>1, <1>5, <1>6
    <2> QED BY <1>2, <1>7, <1>12, <1>13, <2>1, OneMovesCalm
<1> QED BY <1>11, <1>14

\* A read: what the cache holds may be read, and nothing is known of what a
\* request brings
LEMMA ReadReads ==
    ASSUME DiskAssumption, DiskBooks, DiskReads, DiskCalm, NEW t \in Requesters, NEW lba \in Sectors, bcache_read(t, lba)
    PROVE  DiskReads' /\ DiskCalm'
<1>0. DiskTypeOK
    BY DEF DiskBooks
<1>1. /\ req[t].pc = "idle" /\ UNCHANGED <<vq, avail, used, slots, slot_of, disk>>
      /\ diskLeft'.timeouts = diskLeft.timeouts /\ diskLeft'.most = diskLeft.most
      /\ cache'.entries = cache.entries /\ cache'.writes = cache.writes
      /\ cache.ready => cache'.ready
    BY <1>0, ReadIs
<1>2. PICK r \in Request :
         /\ req' = [req EXCEPT ![t] = r]
         /\ r.op = "read" /\ r.lba = lba /\ ~r.answered /\ ~r.ok
         /\ r.seen = {disk[lba]} \cup UNION {req[u].seen : u \in Writing(lba)}
         /\ \/ r.pc = "read" /\ Holds(lba) /\ r.value = cache.entries[Place(lba)].data
            \/ r.pc = "claim" /\ r.writes = cache.writes /\ (~r.direct => cache'.ready)
    BY <1>0, ReadIs
<1>3. req'[t] = r /\ (\A u \in Requesters \ {t} : req'[u] = req[u]) /\ cache.writes \in Nat
    BY <1>0, <1>2 DEF DiskTypeOK, SectorCache
<1>4. \A u \in Requesters \ {t} : Unmoved(u) /\ (Fetching(u) => SlotAs(req[u].slot))
    BY <1>1, <1>3 DEF Unmoved, SlotAs
<1>5. ReqOK(t)'
    <2>1. disk'[r.lba] \in r.seen
        BY <1>1, <1>2
    <2>2. ~Fetching(t)' /\ ~Fetched(t)'
        BY <1>2, <1>3 DEF Fetching, Fetched
    <2> QED BY <1>1, <1>2, <1>3, <2>1, <2>2 DEF ReqOK
<1>6. DiskReads'
    <2>1. diskLeft'.timeouts <= diskLeft'.most
        BY <1>1 DEF DiskReads
    <2> QED BY <1>0, <1>1, <1>2, <1>3, <1>4, <1>5, <2>1, OneMoves
<1>7. ASSUME Awaited PROVE Awaited'
    <2>1. InQueue' = InQueue
        BY <1>1 DEF InQueue
    <2> QED BY <1>1, <1>3, <1>7, <2>1 DEF Awaited
<1>8. ASSUME EntriesKnown PROVE CalmOK(t)'
    <2>1. ASSUME r.pc = "read" PROVE r.value \in r.seen
        <3>1. PICK p, v : p = Place(lba) /\ v = cache.entries[p].data
            OBVIOUS
        <3>2. cache.entries[p].valid /\ cache.entries[p].lba = lba /\ r.value = v /\ p \in 0 .. CacheSize - 1
            BY <1>2, <2>1, <3>1, PlaceIn DEF Holds
        <3>3. Known(lba, v)
            BY <1>8, <3>1, <3>2 DEF EntriesKnown
        <3> QED BY <1>2, <3>2, <3>3 DEF Known
    <2>2. ~Fetching(t)' /\ ~Fetched(t)'
        BY <1>2, <1>3 DEF Fetching, Fetched
    <2> QED BY <1>2, <1>3, <2>1, <2>2 DEF CalmOK
<1>9. DiskCalm'
    BY <1>1, <1>4, <1>7, <1>8, OneMovesCalm
<1> QED BY <1>6, <1>9

\* What is fetched is stored only while it is known
LEMMA StoreReads ==
    ASSUME DiskAssumption, DiskBooks, DiskReads, DiskCalm, NEW t \in Requesters, store_read(t)
    PROVE  DiskReads' /\ DiskCalm'
<1>0. DiskTypeOK /\ ReqOK(t) /\ HoldersOK
    BY DEF DiskBooks, DiskReads
<1>1. PICK x : x = req[t]
    OBVIOUS
<1>2. /\ x.pc = "store" /\ UNCHANGED <<vq, avail, used, slots, slot_of, disk, diskLeft>>
      /\ cache' = IF KeepRead(t) THEN store(cache, x.lba, x.value) ELSE cache
    BY <1>0, <1>1, StoreReadIs
<1>3. PICK r \in Request : req' = [req EXCEPT ![t] = r] /\ r.pc = "read"
                 /\ r.op = x.op /\ r.lba = x.lba /\ r.value = x.value /\ r.seen = x.seen
    BY <1>0, <1>1, StoreReadIs
<1>4. req'[t] = r /\ (\A u \in Requesters \ {t} : req'[u] = req[u])
    BY <1>0, <1>3 DEF DiskTypeOK
<1>5. /\ cache \in SectorCache /\ x.lba \in Sectors /\ x.value \in DkValues /\ cache.writes \in Nat
      /\ x.op = "read" /\ disk[x.lba] \in x.seen /\ x.value \in x.seen /\ (~x.direct => cache.ready)
    BY <1>0, <1>1, <1>2 DEF DiskTypeOK, HoldersOK, Request, SectorCache, ReqOK
<1>6. KeepRead(t) => /\ cache'.writes = cache.writes /\ cache'.ready = cache.ready
                     /\ \A p \in 0 .. CacheSize - 1 :
                           \/ cache'.entries[p] = cache.entries[p]
                           \/ p = Place(x.lba) /\ cache'.entries[p] = [valid |-> TRUE, lba |-> x.lba, data |-> x.value]
    <2>1. PICK D : D = store(cache, x.lba, x.value)
        OBVIOUS
    <2>2. /\ D.writes = cache.writes /\ D.ready = cache.ready
          /\ \A p \in 0 .. CacheSize - 1 :
                \/ D.entries[p] = cache.entries[p] /\ p # Place(x.lba)
                \/ p = Place(x.lba) /\ D.entries[p] = [valid |-> TRUE, lba |-> x.lba, data |-> x.value]
        BY <1>5, <2>1, StoreIs
    <2> QED BY <1>2, <2>1, <2>2
<1>7. cache'.writes = cache.writes /\ cache'.ready = cache.ready
    BY <1>2, <1>6
<1>8. \A u \in Requesters \ {t} : Unmoved(u) /\ (Fetching(u) => SlotAs(req[u].slot))
    BY <1>2, <1>4 DEF Unmoved, SlotAs
<1>9. ReqOK(t)'
    <2>1. ~Fetching(t)' /\ ~Fetched(t)' /\ disk'[r.lba] \in r.seen /\ r.op = "read"
        BY <1>2, <1>3, <1>4, <1>5 DEF Fetching, Fetched
    <2> QED BY <1>3, <1>4, <2>1 DEF ReqOK, Early
<1>10. DiskReads'
    <2>1. diskLeft'.timeouts <= diskLeft'.most /\ req'[t].op # "write"
        BY <1>2, <1>3, <1>4, <1>5 DEF DiskReads
    <2>2. cache'.writes \in Nat /\ cache.writes <= cache'.writes
        BY <1>5, <1>7
    <2> QED BY <1>0, <1>2, <1>7, <1>8, <1>9, <2>1, <2>2, OneMoves
<1>11. ASSUME Awaited PROVE Awaited'
    <2>1. InQueue' = InQueue
        BY <1>2 DEF InQueue
    <2> QED BY <1>1, <1>2, <1>4, <1>11, <2>1 DEF Awaited
<1>12. ASSUME CalmOK(t), EntriesKnown, \A l, v : Known(l, v) => Known(l, v)' PROVE CalmOK(t)' /\ EntriesKnown'
    <2>1. CalmOK(t)'
        BY <1>3, <1>4, <1>5 DEF CalmOK, Fetching, Fetched
    <2>2. CASE ~KeepRead(t)
        <3>1. cache' = cache
            BY <1>2, <2>2
        <3> QED BY <1>12, <2>1, <3>1, EntriesStay
    <2>3. CASE KeepRead(t)
        <3>1. ASSUME NEW p \in 0 .. CacheSize - 1, cache'.entries[p].valid
              PROVE  /\ cache'.entries[p].lba \in Sectors /\ Place(cache.entries[p].lba)' = p /\ cache'.ready
                     /\ Known(cache.entries[p].lba, cache.entries[p].data)'
            <4>1. PICK l, v : l = cache'.entries[p].lba /\ v = cache'.entries[p].data
                OBVIOUS
            <4>2. CASE cache'.entries[p] = cache.entries[p]
                <5>1. l \in Sectors /\ Place(l) = p /\ cache.ready /\ Known(l, v)
                    BY <1>12, <3>1, <4>1, <4>2 DEF EntriesKnown
                <5>2. Known(l, v)'
                    BY <1>12, <5>1
                <5> QED BY <1>7, <4>1, <5>1, <5>2 DEF Place
            <4>3. CASE p = Place(x.lba) /\ cache'.entries[p] = [valid |-> TRUE, lba |-> x.lba, data |-> x.value]
                <5>1. l = x.lba /\ v = x.value /\ l \in Sectors /\ Place(l) = p
                    BY <1>5, <4>1, <4>3
                <5>2. Young(t) /\ cache.ready
                    BY <1>1, <1>5, <2>3 DEF KeepRead, Young
                <5>3. Known(l, v)'
                    BY <1>1, <1>2, <1>12, <5>1, <5>2 DEF CalmOK
                <5> QED BY <1>7, <4>1, <5>1, <5>2, <5>3 DEF Place
            <4> QED BY <1>6, <2>3, <4>2, <4>3
        <3> QED BY <2>1, <3>1 DEF EntriesKnown
    <2> QED BY <2>2, <2>3
<1>13. DiskCalm'
    <2>1. req[t].op # "write"
        BY <1>1, <1>5
    <2> QED BY <1>2, <1>7, <1>8, <1>11, <1>12, <2>1, OneMovesOn
<1> QED BY <1>10, <1>13

LEMMA ReturnReads ==
    ASSUME DiskBooks, DiskReads, DiskCalm, NEW t \in Requesters, return_read(t)
    PROVE  DiskReads' /\ DiskCalm'
<1>0. DiskTypeOK /\ ReqOK(t)
    BY DEF DiskBooks, DiskReads
<1>1. /\ req' = [req EXCEPT ![t] = NoTask] /\ UNCHANGED <<vq, avail, used, slots, slot_of, cache, disk, diskLeft>>
      /\ req[t].pc \in {"read", "failed"} /\ cache.writes \in Nat
    BY <1>0 DEF return_read, DiskTypeOK, SectorCache
<1>2. req'[t] = NoTask /\ (\A u \in Requesters \ {t} : req'[u] = req[u])
    BY <1>0, <1>1 DEF DiskTypeOK
<1>3. req'[t].pc = "idle" /\ req'[t].op = "read" /\ req[t].op = "read"
    BY <1>0, <1>1, <1>2, NoTaskIs DEF ReqOK
<1>4. \A u \in Requesters \ {t} : Unmoved(u) /\ (Fetching(u) => SlotAs(req[u].slot))
    BY <1>1, <1>2 DEF Unmoved, SlotAs
<1>5. ReqOK(t)' /\ CalmOK(t)'
    BY <1>3 DEF ReqOK, CalmOK, Fetching, Fetched, Early
<1>6. DiskReads'
    <2>1. diskLeft'.timeouts <= diskLeft'.most
        BY <1>1 DEF DiskReads
    <2> QED BY <1>0, <1>1, <1>3, <1>4, <1>5, <2>1, OneMoves
<1>7. ASSUME Awaited PROVE Awaited'
    <2>1. InQueue' = InQueue
        BY <1>1 DEF InQueue
    <2> QED BY <1>1, <1>2, <1>7, <2>1 DEF Awaited
<1>8. DiskCalm'
    BY <1>1, <1>3, <1>4, <1>5, <1>7, OneMovesCalm
<1> QED BY <1>6, <1>8

LEMMA WriteReads ==
    ASSUME DiskAssumption, DiskBooks, DiskReads, DiskCalm, NEW t \in Requesters, NEW lba \in Sectors, NEW v \in Values,
           bcache_write(t, lba, v)
    PROVE  DiskReads' /\ DiskCalm'
<1>0. DiskTypeOK /\ ReqOK(t)
    BY DEF DiskBooks, DiskReads
<1>1. /\ req' = [req EXCEPT ![t] = NewRequest("write", lba, v)] /\ UNCHANGED <<vq, avail, used, slots, slot_of, cache, disk>>
      /\ req[t].pc = "idle" /\ cache.writes \in Nat
    BY <1>0 DEF bcache_write, DiskTypeOK, SectorCache
<1>2. diskLeft'.timeouts = diskLeft.timeouts /\ diskLeft'.most = diskLeft.most
    <2>1. diskLeft' = [diskLeft EXCEPT !.writes = diskLeft.writes - 1] /\ diskLeft \in Bounds
        BY <1>0 DEF bcache_write, DiskTypeOK
    <2> QED BY <2>1 DEF Bounds
<1>3. PICK r : r = NewRequest("write", lba, v)
    OBVIOUS
<1>4. /\ r.pc = "claim" /\ r.op = "write" /\ r.lba = lba /\ ~r.ok
      /\ r.seen = {disk[lba]} \cup UNION {req[u].seen : u \in Writing(lba)}
    <2>1. v \in DkValues
        BY DEF DkValues
    <2> QED BY <1>0, <1>3, <2>1, NewRequestIs
<1>5. req'[t] = r /\ (\A u \in Requesters \ {t} : req'[u] = req[u])
    BY <1>0, <1>1, <1>3 DEF DiskTypeOK
<1>6. \A u \in Requesters : req[u].op # "write"
    BY DEF bcache_write, DiskReads, ReqOK
<1>7. \A u \in Requesters \ {t} : Unmoved(u) /\ (Fetching(u) => SlotAs(req[u].slot))
    BY <1>1, <1>5 DEF Unmoved, SlotAs
<1>8. ReqOK(t)'
    <2>1. disk'[r.lba] \in r.seen
        BY <1>1, <1>4
    <2>2. ~Fetching(t)' /\ ~Fetched(t)'
        BY <1>4, <1>5 DEF Fetching, Fetched
    <2> QED BY <1>4, <1>5, <2>1, <2>2 DEF ReqOK
<1>9. DiskReads'
    <2>1. diskLeft'.timeouts <= diskLeft'.most
        BY <1>2 DEF DiskReads
    <2> QED BY <1>0, <1>1, <1>6, <1>7, <1>8, <2>1, OneMoves
<1>10. ASSUME Awaited PROVE Awaited'
    <2>1. InQueue' = InQueue
        BY <1>1 DEF InQueue
    <2> QED BY <1>1, <1>5, <1>10, <2>1 DEF Awaited
<1>11. CalmOK(t)'
    BY <1>4, <1>5 DEF CalmOK, Fetching, Fetched
<1>12. DiskCalm'
    BY <1>1, <1>2, <1>6, <1>7, <1>10, <1>11, OneMovesCalm
<1> QED BY <1>9, <1>12

\* A write that is over: nobody who read before it may store what it read, and
\* of its sector the cache holds what it wrote, or nothing
LEMMA UpdateReads ==
    ASSUME DiskAssumption, DiskBooks, DiskReads, DiskCalm, NEW t \in Requesters, update_cache(t)
    PROVE  DiskReads' /\ DiskCalm'
<1>0. DiskTypeOK /\ ReqOK(t) /\ HoldersOK
    BY DEF DiskBooks, DiskReads
<1>1. PICK x : x = req[t]
    OBVIOUS
<1>2. /\ x.pc = "update" /\ req' = [req EXCEPT ![t] = NoTask]
      /\ UNCHANGED <<vq, avail, used, slots, slot_of, disk, diskLeft>>
      /\ cache' \in SectorCache /\ cache'.ready = cache.ready
      /\ ~cache.ready => cache' = cache
      /\ cache.ready =>
           /\ cache'.writes = cache.writes + 1
           /\ \A p \in 0 .. CacheSize - 1 :
                \/ cache'.entries[p] = cache.entries[p] /\ (cache.entries[p].valid /\ p = Place(x.lba) => cache.entries[p].lba # x.lba)
                \/ ~cache'.entries[p].valid
                \/ x.ok /\ p = Place(x.lba) /\ cache'.entries[p] = [valid |-> TRUE, lba |-> x.lba, data |-> x.value]
    BY <1>1, UpdateIs
<1>3. cache \in SectorCache /\ cache.writes \in Nat /\ cache'.writes \in Nat /\ x.lba \in Sectors /\ x.op = "write"
    BY <1>0, <1>1, <1>2 DEF DiskTypeOK, SectorCache, HoldersOK, ReqOK
<1>4. req'[t] = NoTask /\ (\A u \in Requesters \ {t} : req'[u] = req[u])
    BY <1>0, <1>2 DEF DiskTypeOK
<1>5. req'[t].pc = "idle" /\ req'[t].op = "read"
    BY <1>4, NoTaskIs
<1>6. \A u \in Requesters \ {t} : Unmoved(u) /\ (Fetching(u) => SlotAs(req[u].slot))
    BY <1>2, <1>4 DEF Unmoved, SlotAs
<1>7. ReqOK(t)' /\ CalmOK(t)'
    BY <1>5 DEF ReqOK, CalmOK, Fetching, Fetched, Early
<1>8. cache.writes <= cache'.writes
    BY <1>2, <1>3
<1>9. DiskReads'
    <2>1. diskLeft'.timeouts <= diskLeft'.most
        BY <1>2 DEF DiskReads
    <2> QED BY <1>0, <1>2, <1>3, <1>5, <1>6, <1>7, <1>8, <2>1, OneMoves
<1>10. \A u \in Requesters \ {t} : req[u].op = "read"
    <2>1. \A u \in Requesters \ {t} : req[u].op # "write" /\ req[u].op \in {"read", "write"}
        BY <1>0, <1>1, <1>3 DEF DiskReads, OneWriter, DiskTypeOK, Request
    <2> QED BY <2>1
<1>11. DiskCalm'
    <2>1. SUFFICES ASSUME ~MayLandLate' PROVE Awaited' /\ (\A u \in Requesters : CalmOK(u)') /\ EntriesKnown'
        BY DEF DiskCalm
    <2>2. Awaited /\ (\A u \in Requesters : CalmOK(u)) /\ EntriesKnown
        BY <1>2, <2>1 DEF DiskCalm, MayLandLate
    <2>3. Awaited'
        <3>1. InQueue' = InQueue
            BY <1>2 DEF InQueue
        <3> QED BY <1>1, <1>2, <1>4, <2>2, <3>1 DEF Awaited
    <2>4. ASSUME NEW u \in Requesters \ {t} PROVE CalmOK(u)'
        <3>1. ReqOK(u) /\ CalmOK(u) /\ req[u].writes \in Nat /\ req[u].op = "read" /\ req'[u] = req[u]
            BY <1>0, <1>4, <1>10, <2>2 DEF DiskReads, DiskTypeOK, Request
        <3>2. req[u].pc \notin {"idle", "read", "failed"} => ~Young(u)'
            BY <1>2, <1>3, <3>1 DEF ReqOK, Young
        <3>3. Fetched(u)' => req[u].pc \notin {"idle", "read", "failed"}
            BY <3>1 DEF Fetched, Fetching
        <3>4. req[u].pc # "update"
            BY <3>1 DEF ReqOK
        <3>5. req'[u].pc = "read" => req'[u].value \in req'[u].seen
            BY <3>1 DEF CalmOK
        <3> QED BY <3>1, <3>2, <3>3, <3>4, <3>5 DEF CalmOK
    <2>5. EntriesKnown'
        <3>1. ASSUME NEW p \in 0 .. CacheSize - 1, cache'.entries[p].valid
              PROVE  /\ cache'.entries[p].lba \in Sectors /\ Place(cache.entries[p].lba)' = p /\ cache'.ready
                     /\ Known(cache.entries[p].lba, cache.entries[p].data)'
            <4>1. PICK l, v : l = cache'.entries[p].lba /\ v = cache'.entries[p].data
                OBVIOUS
            <4>2. cache.ready
                BY <1>2, <2>2, <3>1 DEF EntriesKnown
            <4>3. CASE cache'.entries[p] = cache.entries[p] /\ (cache.entries[p].valid /\ p = Place(x.lba) => cache.entries[p].lba # x.lba)
                <5>1. l \in Sectors /\ Place(l) = p /\ Known(l, v) /\ l # x.lba
                    BY <2>2, <3>1, <4>1, <4>3 DEF EntriesKnown
                <5>2. Writing(l) = {}
                    BY <1>1, <1>10, <5>1 DEF Writing
                <5>3. v = disk'[l]
                    BY <1>2, <5>1, <5>2 DEF Known
                <5>4. Known(l, v)'
                    BY <5>3 DEF Known
                <5> QED BY <1>2, <4>1, <4>2, <5>1, <5>4 DEF Place
            <4>4. CASE x.ok /\ p = Place(x.lba) /\ cache'.entries[p] = [valid |-> TRUE, lba |-> x.lba, data |-> x.value]
                <5>1. l = x.lba /\ v = x.value
                    BY <4>1, <4>4
                <5>2. v = disk'[l]
                    BY <1>1, <1>2, <2>2, <4>4, <5>1 DEF CalmOK
                <5>3. Known(l, v)'
                    BY <5>2 DEF Known
                <5>4. Place(l) = p
                    BY <4>4, <5>1
                <5> QED BY <1>2, <1>3, <4>1, <4>2, <5>1, <5>3, <5>4 DEF Place
            <4> QED BY <1>2, <3>1, <4>2, <4>3, <4>4
        <3> QED BY <3>1 DEF EntriesKnown
    <2> QED BY <1>7, <2>3, <2>4, <2>5
<1> QED BY <1>9, <1>11

\* An answer moves a request from one ring to the other
LEMMA DeviceQueue ==
    ASSUME DiskBooks, NEW id \in Descs, device_answers(id)
    PROVE  InQueue' = InQueue
<1>1. id \in avail /\ avail' = avail \ {id} /\ used' = Append(used, id) /\ used \in Seq(Descs)
    BY DEF device_answers, DiskBooks, DiskTypeOK
<1>2. /\ DOMAIN used = 1 .. Len(used) /\ DOMAIN used' = 1 .. Len(used) + 1 /\ used'[Len(used) + 1] = id
      /\ \A i \in DOMAIN used : used'[i] = used[i]
    BY <1>1
<1>3. {used'[i] : i \in DOMAIN used'} = {used[i] : i \in DOMAIN used} \cup {id}
    <2>1. DOMAIN used' = DOMAIN used \cup {Len(used) + 1}
        BY <1>1, <1>2
    <2> QED BY <1>2, <2>1
<1> QED BY <1>1, <1>3 DEF InQueue

\* What the device writes into a slot is what the disk holds, or was asked for
LEMMA DeviceReads ==
    ASSUME DiskAssumption, DiskBooks, DiskReads, NEW id \in Descs, device_answers(id)
    PROVE  DiskReads'
<1>0. DiskTypeOK /\ HoldersOK /\ QueuedOK
    BY DEF DiskBooks
<1>1. PICK s0 : s0 = vq.addr[id]
    OBVIOUS
<1>2. /\ id \in InQueue /\ s0 \in Slots /\ slots[s0].lba \in Sectors
      /\ \A s \in Slots \ {s0} : slots'[s] = slots[s]
      /\ \A s \in Slots : slots'[s].lba = slots[s].lba /\ slots'[s].op = slots[s].op
      /\ disk' \in [Sectors -> DkValues]
    BY <1>1, DeviceIs
<1>3. \/ slots'[s0].status = 2 /\ slots'[s0].data = slots[s0].data /\ disk' = disk
      \/ /\ slots'[s0].status = 0 /\ slots[s0].op = "read" /\ slots'[s0].data = disk[slots[s0].lba] /\ disk' = disk
      \/ /\ slots'[s0].status = 0 /\ slots[s0].op = "write" /\ slots'[s0].data = slots[s0].data
         /\ disk' = [disk EXCEPT ![slots[s0].lba] = slots[s0].data]
    BY <1>1, DeviceIs
<1>4. UNCHANGED <<vq, slot_of, cache, diskLeft>>
    BY DEF device_answers
<1>5. ASSUME NEW u \in Requesters PROVE ReqOK(u)'
    <2>1. /\ req'[u].pc = req[u].pc /\ req'[u].op = req[u].op /\ req'[u].lba = req[u].lba
          /\ req'[u].value = req[u].value /\ req'[u].slot = req[u].slot
          /\ req'[u].writes = req[u].writes /\ req'[u].ok = req[u].ok
          /\ req'[u].answered = req[u].answered /\ req'[u].direct = req[u].direct
          /\ req[u].seen \subseteq req'[u].seen
          /\ req[u].pc # "idle" => disk'[req[u].lba] \in req'[u].seen
        BY <1>2, DeviceSeen
    <2>2. ReqOK(u)
        BY DEF DiskReads
    <2>3. Fetching(u)' = Fetching(u) /\ (Fetching(u) => req[u].slot \in Slots /\ req[u].pc # "idle")
        BY <1>0, <2>1 DEF Fetching, HoldersOK, WithSlot
    <2>4. Fetching(u)' => /\ slots'[req'[u].slot].op = req'[u].op /\ slots'[req'[u].slot].lba = req'[u].lba
                          /\ req'[u].op = "write" => slots'[req'[u].slot].data = req'[u].value
        <3>1. SUFFICES ASSUME Fetching(u)
                       PROVE  /\ slots'[req[u].slot].op = req[u].op /\ slots'[req[u].slot].lba = req[u].lba
                              /\ req[u].op = "write" => slots'[req[u].slot].data = req[u].value
            BY <2>1, <2>3
        <3>2. /\ slots[req[u].slot].op = req[u].op /\ slots[req[u].slot].lba = req[u].lba
              /\ req[u].op = "write" => slots[req[u].slot].data = req[u].value
            BY <2>2, <3>1 DEF ReqOK
        <3>3. slots'[req[u].slot].op = req[u].op /\ slots'[req[u].slot].lba = req[u].lba
            BY <1>2, <2>3, <3>1, <3>2
        <3>4. req[u].op = "write" => slots'[req[u].slot].data = slots[req[u].slot].data
            BY <1>2, <1>3, <2>3, <3>1, <3>2
        <3> QED BY <3>2, <3>3, <3>4
    <2>5. req'[u].pc = "release" /\ req'[u].ok => req'[u].answered /\ slots'[req'[u].slot].status = 0
        <3>1. SUFFICES ASSUME req[u].pc = "release", req[u].ok PROVE req[u].answered /\ slots'[req[u].slot].status = 0
            BY <2>1
        <3>2. req[u].answered /\ slots[req[u].slot].status = 0
            BY <2>2, <3>1 DEF ReqOK
        <3>3. req[u].slot # s0 /\ req[u].slot \in Slots
            BY <1>0, <1>1, <1>2, <2>3, <3>1, <3>2 DEF QueuedOK, GivenBack, Fetching
        <3> QED BY <1>2, <3>2, <3>3
    <2>6. Fetched(u)' => slots'[req'[u].slot].data \in req'[u].seen
        <3>1. SUFFICES ASSUME Fetched(u)' PROVE slots'[req[u].slot].data \in req'[u].seen
            BY <2>1
        <3>2. Fetching(u) /\ req[u].op = "read" /\ slots'[req[u].slot].status = 0
            BY <2>1, <2>3, <3>1 DEF Fetched
        <3>3. slots[req[u].slot].op = "read" /\ slots[req[u].slot].lba = req[u].lba
            BY <2>2, <3>2 DEF ReqOK
        <3>4. CASE req[u].slot = s0
            <4>1. slots'[s0].data = disk[req[u].lba] /\ disk' = disk
                BY <1>3, <3>2, <3>3, <3>4
            <4> QED BY <2>1, <2>3, <3>2, <3>4, <4>1
        <3>5. CASE req[u].slot # s0
            <4>1. slots'[req[u].slot] = slots[req[u].slot]
                BY <1>2, <2>3, <3>2, <3>5
            <4>2. Fetched(u)
                BY <3>2, <4>1 DEF Fetched
            <4> QED BY <2>1, <2>2, <4>1, <4>2 DEF ReqOK
        <3> QED BY <3>4, <3>5
    <2>7. req'[u].op = "read" /\ req'[u].pc \notin {"idle", "read", "failed"} =>
             req'[u].writes <= cache'.writes /\ (~req'[u].direct => cache'.ready)
        BY <1>4, <2>1, <2>2 DEF ReqOK
    <2>8. /\ req'[u].pc \in Early => ~req'[u].ok
          /\ req'[u].pc = "update" => req'[u].op = "write"
          /\ req'[u].pc \in {"store", "read", "failed", "idle"} => req'[u].op = "read"
          /\ req'[u].pc # "idle" => disk'[req'[u].lba] \in req'[u].seen
          /\ req'[u].pc = "store" => req'[u].value \in req'[u].seen
        BY <2>1, <2>2 DEF ReqOK
    <2> QED BY <2>4, <2>5, <2>6, <2>7, <2>8 DEF ReqOK
<1>6. OneWriter'
    <2>1. \A u \in Requesters : req'[u].op = req[u].op
        BY <1>2, DeviceSeen
    <2> QED BY <2>1 DEF DiskReads, OneWriter
<1> QED BY <1>4, <1>5, <1>6 DEF DiskReads

\* Only the one who writes a sector, and waits for it, changes it; what it held
\* before stays known until that write is over
LEMMA DeviceCalm ==
    ASSUME DiskAssumption, DiskBooks, DiskReads, DiskCalm, NEW id \in Descs, device_answers(id)
    PROVE  DiskCalm'
<1>0. DiskTypeOK /\ HoldersOK /\ QueuedOK /\ OneWriter
    BY DEF DiskBooks, DiskReads
<1>1. PICK s0, L : s0 = vq.addr[id] /\ L = slots[s0].lba
    OBVIOUS
<1>2. /\ id \in InQueue /\ s0 \in Slots /\ L \in Sectors
      /\ \A s \in Slots \ {s0} : slots'[s] = slots[s]
      /\ disk' \in [Sectors -> DkValues] /\ disk \in [Sectors -> DkValues]
    BY <1>0, <1>1, DeviceIs DEF DiskTypeOK
<1>3. \/ slots'[s0].status = 2 /\ slots'[s0].data = slots[s0].data /\ disk' = disk
      \/ /\ slots'[s0].status = 0 /\ slots[s0].op = "read" /\ slots'[s0].data = disk[L] /\ disk' = disk
      \/ /\ slots'[s0].status = 0 /\ slots[s0].op = "write" /\ slots'[s0].data = slots[s0].data
         /\ disk' = [disk EXCEPT ![L] = slots[s0].data]
    BY <1>1, DeviceIs
<1>4. UNCHANGED <<vq, slot_of, cache, diskLeft>> /\ InQueue' = InQueue
    BY DeviceQueue DEF device_answers
<1>5. \A u \in Requesters :
          /\ req'[u].pc = req[u].pc /\ req'[u].op = req[u].op /\ req'[u].lba = req[u].lba
          /\ req'[u].value = req[u].value /\ req'[u].slot = req[u].slot
          /\ req'[u].writes = req[u].writes /\ req'[u].ok = req[u].ok /\ req'[u].direct = req[u].direct
          /\ req[u].seen \subseteq req'[u].seen
    BY <1>2, DeviceSeen
<1>6. SUFFICES ASSUME ~MayLandLate' PROVE Awaited' /\ (\A u \in Requesters : CalmOK(u)') /\ EntriesKnown'
    BY DEF DiskCalm
<1>7. Awaited /\ (\A u \in Requesters : CalmOK(u)) /\ EntriesKnown
    BY <1>4, <1>6 DEF DiskCalm, MayLandLate
<1>8. PICK z \in Requesters : req[z].pc = "wait" /\ req[z].slot = s0
    BY <1>1, <1>2, <1>7 DEF Awaited
<1>9. req[z].op = slots[s0].op /\ req[z].lba = L /\ disk[L] \in req[z].seen
      /\ (req[z].op = "write" => slots[s0].data = req[z].value)
    <2>1. ReqOK(z)
        BY DEF DiskReads
    <2> QED BY <1>1, <1>8, <2>1 DEF ReqOK, Fetching
<1>10. disk' # disk => req[z].op = "write"
    BY <1>3, <1>9
<1>11. \A l \in Sectors : \A v : Known(l, v) => Known(l, v)'
    <2>1. SUFFICES ASSUME NEW l \in Sectors, NEW v, Known(l, v) PROVE Known(l, v)'
        OBVIOUS
    <2>2. \A u \in Writing(l) : u \in Writing(l)' /\ req[u].seen \subseteq req'[u].seen
        BY <1>5 DEF Writing
    <2>3. CASE v = disk[l] /\ disk'[l] = disk[l]
        BY <2>3 DEF Known
    <2>4. CASE v = disk[l] /\ disk'[l] # disk[l]
        <3>1. l = L /\ req[z].op = "write"
            BY <1>2, <1>3, <1>10, <2>4
        <3>2. z \in Writing(l) /\ v \in req[z].seen
            BY <1>8, <1>9, <2>4, <3>1 DEF Writing
        <3> QED BY <2>2, <3>2 DEF Known
    <2>5. CASE \E u \in Writing(l) : v \in req[u].seen
        BY <2>2, <2>5 DEF Known
    <2> QED BY <2>1, <2>3, <2>4, <2>5 DEF Known
<1>12. Awaited'
    BY <1>4, <1>5, <1>7 DEF Awaited
<1>13. ASSUME NEW u \in Requesters PROVE CalmOK(u)'
    <2>1. CalmOK(u) /\ ReqOK(u)
        BY <1>7 DEF DiskReads
    <2>2. Fetching(u)' = Fetching(u) /\ (Fetching(u) => req[u].slot \in Slots) /\ Young(u)' = Young(u)
          /\ (req[u].pc # "idle" => req[u].lba \in Sectors)
        BY <1>0, <1>4, <1>5 DEF Fetching, HoldersOK, WithSlot, Young
    <2>3. ASSUME req[u].op = "write", Fetching(u), slots'[req[u].slot].status = 0 PROVE disk'[req[u].lba] = req[u].value
        <3>1. CASE req[u].slot = s0
            <4>1. slots[s0].op = "write" /\ slots[s0].data = req[u].value /\ req[u].lba = L
                BY <1>1, <2>1, <2>3, <3>1 DEF ReqOK
            <4> QED BY <1>2, <1>3, <2>3, <3>1, <4>1
        <3>2. CASE req[u].slot # s0
            <4>1. slots[req[u].slot].status = 0
                BY <1>2, <2>2, <2>3, <3>2
            <4>2. disk' = disk
                BY <1>0, <1>8, <1>10, <2>3, <3>2 DEF OneWriter
            <4> QED BY <2>1, <2>3, <4>1, <4>2 DEF CalmOK
        <3> QED BY <3>1, <3>2
    <2>4. ASSUME req[u].pc = "update", req[u].ok PROVE disk'[req[u].lba] = req[u].value
        <3>1. req[u].op = "write"
            BY <2>1, <2>4 DEF ReqOK
        <3>2. disk' = disk
            BY <1>0, <1>8, <1>10, <2>4, <3>1 DEF OneWriter
        <3> QED BY <2>1, <2>4, <3>2 DEF CalmOK
    <2>5. ASSUME Fetched(u)', Young(u)' PROVE Known(req[u].lba, slots[req[u].slot].data)'
        <3>1. PICK l, v : l = req[u].lba /\ v = slots'[req[u].slot].data
            OBVIOUS
        <3>2. Fetching(u) /\ req[u].op = "read" /\ slots'[req[u].slot].status = 0 /\ l \in Sectors
            BY <1>5, <2>2, <2>5, <3>1 DEF Fetched, Fetching
        <3>3. slots[req[u].slot].op = "read" /\ slots[req[u].slot].lba = l
            BY <2>1, <3>1, <3>2 DEF ReqOK
        <3>4. Known(l, v)'
            <4>1. CASE req[u].slot = s0
                <5>1. v = disk'[l]
                    BY <1>1, <1>3, <3>1, <3>2, <3>3, <4>1
                <5> QED BY <5>1 DEF Known
            <4>2. CASE req[u].slot # s0
                <5>1. slots'[req[u].slot] = slots[req[u].slot]
                    BY <1>2, <2>2, <3>2, <4>2
                <5>2. Fetched(u) /\ Young(u)
                    BY <2>2, <2>5, <3>2, <5>1 DEF Fetched
                <5>3. Known(l, v)
                    BY <2>1, <3>1, <5>1, <5>2 DEF CalmOK
                <5> QED BY <1>11, <3>2, <5>3
            <4> QED BY <4>1, <4>2
        <3>5. l = req'[u].lba /\ v = slots'[req'[u].slot].data
            BY <1>5, <3>1
        <3> QED BY <3>4, <3>5
    <2>6. ASSUME req[u].pc = "store", Young(u)' PROVE Known(req[u].lba, req[u].value)'
        <3>1. PICK l, v : l = req[u].lba /\ v = req[u].value
            OBVIOUS
        <3>2. Known(l, v) /\ l \in Sectors
            BY <2>1, <2>2, <2>6, <3>1 DEF CalmOK
        <3>3. Known(l, v)' /\ l = req'[u].lba /\ v = req'[u].value
            BY <1>5, <1>11, <3>1, <3>2
        <3> QED BY <3>3
    <2>7. req'[u].pc = "read" => req'[u].value \in req'[u].seen
        BY <1>5, <2>1 DEF CalmOK
    <2>8. /\ req'[u].op = "write" /\ Fetching(u)' /\ slots'[req'[u].slot].status = 0 => disk'[req'[u].lba] = req'[u].value
          /\ req'[u].pc = "update" /\ req'[u].ok => disk'[req'[u].lba] = req'[u].value
        BY <1>5, <2>2, <2>3, <2>4
    <2> QED BY <1>5, <2>5, <2>6, <2>7, <2>8 DEF CalmOK
<1>14. EntriesKnown'
    BY <1>4, <1>7, <1>11, EntriesStay
<1> QED BY <1>12, <1>13, <1>14

LEMMA ReadsAtStart ==
    ASSUME DiskAssumption, DiskInit
    PROVE  DiskReads /\ DiskCalm
<1>1. req = [t \in Requesters |-> NoTask] /\ InQueue = {}
    BY DEF DiskInit, InQueue
<1>2. \A t \in Requesters : req[t].pc = "idle" /\ req[t].op = "read"
    BY <1>1, NoTaskIs
<1>3. \A t \in Requesters : ReqOK(t) /\ CalmOK(t)
    BY <1>2 DEF ReqOK, CalmOK, Fetching, Fetched, Early
<1>4. \A p \in 0 .. CacheSize - 1 : ~cache.entries[p].valid
    BY DEF DiskInit
<1>5. diskLeft.timeouts <= diskLeft.most
    <2>1. PICK n \in 0 .. MaxTimeouts : diskLeft = [reads |-> MaxReads - n, writes |-> MaxWrites, timeouts |-> n, most |-> n]
        BY DEF DiskInit
    <2> QED BY <2>1
<1>6. DiskReads
    BY <1>2, <1>3, <1>5 DEF DiskReads, OneWriter
<1>7. DiskCalm
    BY <1>1, <1>3, <1>4 DEF DiskCalm, Awaited, EntriesKnown
<1> QED BY <1>6, <1>7

LEMMA ReadsKept ==
    ASSUME DiskAssumption, DiskBooks, DiskReads, DiskCalm, [DiskNext]_diskVars
    PROVE  DiskReads' /\ DiskCalm'
<1>1. CASE UNCHANGED diskVars
    <2>1. DiskReads'
        BY <1>1 DEF DiskReads, ReqOK, OneWriter, Fetching, Fetched, diskVars
    <2>2. DiskCalm'
        BY <1>1 DEF DiskCalm, MayLandLate, Awaited, InQueue, CalmOK, EntriesKnown, Known, Writing, Young, Fetching, Fetched, Place, diskVars
    <2> QED BY <2>1, <2>2
<1>2. ASSUME NEW t \in Requesters,
             \/ claim(t) \/ submit(t) \/ await(t) \/ time_out(t) \/ release_slot(t)
             \/ store_read(t) \/ return_read(t) \/ update_cache(t)
      PROVE  DiskReads' /\ DiskCalm'
    BY <1>2, ClaimReads, SubmitReads, AwaitReads, TimeOutReads, ReleaseReads, StoreReads, ReturnReads, UpdateReads
<1>3. ASSUME NEW t \in Requesters, NEW lba \in Sectors, bcache_read(t, lba) PROVE DiskReads' /\ DiskCalm'
    BY <1>3, ReadReads
<1>4. ASSUME NEW t \in Requesters, NEW lba \in Sectors, NEW v \in Values, bcache_write(t, lba, v) PROVE DiskReads' /\ DiskCalm'
    BY <1>4, WriteReads
<1>5. ASSUME NEW id \in Descs, device_answers(id) PROVE DiskReads' /\ DiskCalm'
    BY <1>5, DeviceReads, DeviceCalm
<1>6. CASE blk_interrupt
    BY <1>6, CollectReads DEF blk_interrupt
<1> QED BY <1>1, <1>2, <1>3, <1>4, <1>5, <1>6 DEF DiskNext

\* For every cache, number of tasks and order of the device's answers: as long as
\* no request was given up, a read returns what the disk held while it went on,
\* or before a write that was then going on (bcache.c's write_count).
THEOREM ReadsAreCurrent ==
    ASSUME DiskAssumption
    PROVE  DiskSpec => []ReadIsCurrent
<1> DEFINE Inv == DiskBooks /\ DiskReads /\ DiskCalm
<1>1. DiskInit => Inv
    BY BooksAtStart, ReadsAtStart
<1>2. Inv /\ [DiskNext]_diskVars => Inv'
    BY BooksKept, ReadsKept
<1>3. Inv => ReadIsCurrent
    BY DEF DiskCalm, CalmOK, ReadIsCurrent
<1> QED BY <1>1, <1>2, <1>3, PTL DEF DiskSpec
=============================================================================
