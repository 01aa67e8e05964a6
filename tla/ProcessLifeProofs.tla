-------------------------- MODULE ProcessLifeProofs --------------------------
(***************************************************************************)
(* Proofs about ProcessLife, for every finite set of tasks, every set of   *)
(* processes and every limit on the threads of a process.                  *)
(***************************************************************************)
EXTENDS ProcessLife, FiniteSetTheorems, TLAPS

-----------------------------------------------------------------------------
(* The inductive invariant.                                                *)

KernelLocations == {"boot", "naming", "reap", "idle"}

\* What a task's state says about where its code is
Places ==
    /\ proc[KernelTask] = Kernel /\ leader[Kernel] = KernelTask
    /\ st[KernelTask] \in {"live", "blocked"}
    /\ st[KernelTask] = "blocked" => chan[KernelTask] = Reaper /\ pc[KernelTask] = "reap"
    /\ pc[KernelTask] \in KernelLocations
    /\ \A t \in Tasks \ {KernelTask} :
          /\ pc[t] \notin KernelLocations
          /\ st[t] = "new" => pc[t] = "user"
          /\ st[t] \in {"zombie", "freed"} <=> pc[t] = "gone"
          /\ st[t] = "blocked" => pc[t] \in {"wake", "exec"}
          /\ st[t] # "new" => /\ proc[t] \in Procs \ {Kernel}
                              /\ leader[proc[t]] # None

\* Whoever was the last is alone
LastAlone == \A t \in Tasks : pc[t] = "dielast" => live[proc[t]] = 0

\* A sleeper in a waiting call sleeps on its own process, and thread_join
\* waits for a thread of it
SleepersHome ==
    \A t \in Tasks :
        /\ st[t] = "blocked" /\ pc[t] = "wake" => chan[t] = proc[t]
        /\ pc[t] \in {"look", "wake"} /\ call[t] = "join" =>
              /\ target[t] \in Tasks
              /\ proc[target[t]] = proc[t] /\ st[target[t]] # "new"

\* The inductive invariant
LifeInv ==
    /\ TypeOK /\ Places /\ LiveCounts /\ LastAlone
    /\ KillNotSleptThrough /\ SleepersHome /\ JoinNotMissed /\ ReaperNotMissed

\* Whoever waits in exec to be alone sleeps on its own process, and only while
\* another thread is alive or about to wake it
ExecWaits ==
    \A t \in Tasks : pc[t] = "exec" =>
        /\ chan[t] = proc[t]
        /\ st[t] = "blocked" =>
              live[proc[t]] > 1 \/ \E u \in Threads(proc[t]) : pc[u] = "die"

\* PID 0 names init
LEMMA SetInitStep ==
    ASSUME LifeInv, SetInit
    PROVE  LifeInv'
<1> USE LifeAssumption
<1>1. TypeOK'
    BY DEF LifeInv, TypeOK, States, Locations, Leaving, Calls, Places, SetInit, Goto, procVars, Listed
<1>2. Places'
    BY DEF LifeInv, TypeOK, Places, KernelLocations, Leaving, SetInit, Goto, procVars, Listed
<1>3. \A q \in Procs : Counted(q)' = Counted(q)
    BY DEF LifeInv, TypeOK, Places, KernelLocations, Counted, Threads, Listed, SetInit, Goto, procVars, Listed
<1>4. LiveCounts'
    BY <1>3 DEF LifeInv, LiveCounts, SetInit, procVars
<1>5. LastAlone'
    BY DEF LifeInv, TypeOK, LastAlone, SetInit, Goto, procVars, Listed
<1>6. KillNotSleptThrough'
    BY DEF LifeInv, TypeOK, Places, KillNotSleptThrough, SetInit, Goto, procVars, Listed
<1>7. SleepersHome'
    BY DEF LifeInv, TypeOK, Places, SleepersHome, SetInit, Goto, procVars, Listed
<1>8. JoinNotMissed'
    BY DEF LifeInv, TypeOK, Places, SleepersHome, JoinNotMissed, InCall, SetInit, Goto, procVars, Listed
<1>9. ReaperNotMissed'
    BY DEF LifeInv, TypeOK, Places, ReaperNotMissed, Reapable, Telling, Threads, Listed, SetInit, Goto, procVars, Listed
<1> QED BY <1>1, <1>2, <1>4, <1>5, <1>6, <1>7, <1>8, <1>9 DEF LifeInv

\* The reaper frees what is dead and nobody's
LEMMA ReapStep ==
    ASSUME LifeInv, Reap
    PROVE  LifeInv'
<1> USE LifeAssumption
<1>1. TypeOK'
    BY DEF LifeInv, TypeOK, States, Locations, Leaving, Calls, Places, Reap, Goto, procVars, Reapable
<1>2. Places'
    BY DEF LifeInv, TypeOK, Places, KernelLocations, Leaving, Reap, Goto, procVars, Reapable
<1>3. \A q \in Procs : Counted(q)' = Counted(q)
    BY DEF LifeInv, TypeOK, Places, KernelLocations, Counted, Threads, Listed, Reap, Goto, procVars, Reapable
<1>4. LiveCounts'
    BY <1>3 DEF LifeInv, LiveCounts, Reap, procVars
<1>5. LastAlone'
    BY DEF LifeInv, TypeOK, LastAlone, Reap, Goto, procVars, Reapable
<1>6. KillNotSleptThrough'
    BY DEF LifeInv, TypeOK, Places, KillNotSleptThrough, Reap, Goto, procVars, Reapable
<1>7. SleepersHome'
    BY DEF LifeInv, TypeOK, Places, SleepersHome, Reap, Goto, procVars, Reapable
<1>8. JoinNotMissed'
    BY DEF LifeInv, TypeOK, Places, SleepersHome, JoinNotMissed, InCall, Reap, Goto, procVars, Reapable
<1>9. ReaperNotMissed'
    BY DEF LifeInv, TypeOK, Places, ReaperNotMissed, Reapable, Telling, Threads, Listed, Reap, Goto, procVars, Reapable
<1> QED BY <1>1, <1>2, <1>4, <1>5, <1>6, <1>7, <1>8, <1>9 DEF LifeInv

\* The reaper looks, and sleeps if there is nothing
LEMMA WaitForReapableStep ==
    ASSUME LifeInv, WaitForReapable
    PROVE  LifeInv'
<1> USE LifeAssumption
<1>1. TypeOK'
    BY DEF LifeInv, TypeOK, States, Locations, Leaving, Calls, Places, WaitForReapable, Goto, procVars
<1>2. Places'
    BY DEF LifeInv, TypeOK, Places, KernelLocations, Leaving, WaitForReapable, Goto, procVars
<1>3. \A q \in Procs : Counted(q)' = Counted(q)
    BY DEF LifeInv, TypeOK, Places, KernelLocations, Counted, Threads, Listed, WaitForReapable, Goto, procVars
<1>4. LiveCounts'
    BY <1>3 DEF LifeInv, LiveCounts, WaitForReapable, procVars
<1>5. LastAlone'
    BY DEF LifeInv, TypeOK, LastAlone, WaitForReapable, Goto, procVars
<1>6. KillNotSleptThrough'
    BY DEF LifeInv, TypeOK, Places, KillNotSleptThrough, WaitForReapable, Goto, procVars
<1>7. SleepersHome'
    BY DEF LifeInv, TypeOK, Places, SleepersHome, WaitForReapable, Goto, procVars
<1>8. JoinNotMissed'
    BY DEF LifeInv, TypeOK, Places, SleepersHome, JoinNotMissed, InCall, WaitForReapable, Goto, procVars
<1>9. ReaperNotMissed'
    BY DEF LifeInv, TypeOK, Places, ReaperNotMissed, Reapable, Telling, Threads, Listed, WaitForReapable, Goto, procVars
<1> QED BY <1>1, <1>2, <1>4, <1>5, <1>6, <1>7, <1>8, <1>9 DEF LifeInv

\* task_end, first section
LEMMA LeaveStep ==
    ASSUME LifeInv, NEW t \in Tasks, NEW whole \in BOOLEAN, Leave(t, whole)
    PROVE  LifeInv'
<1> USE LifeAssumption
<1>1. TypeOK'
    BY DEF LifeInv, TypeOK, States, Locations, Leaving, Calls, Places, Leave, Goto, Runs, Killed, Killable, Flagged, Threads, Listed
<1>2. Places'
    BY DEF LifeInv, TypeOK, Places, KernelLocations, Leaving, Leave, Goto, Runs, Killed, Killable, Flagged, Threads, Listed
<1>3. \A q \in Procs : Counted(q)' = Counted(q)
    BY DEF LifeInv, TypeOK, Places, KernelLocations, Counted, Threads, Listed, Leave, Goto, Runs, Killed, Killable, Flagged, Threads, Listed
<1>4. LiveCounts'
    BY <1>3 DEF LifeInv, LiveCounts, Leave
<1>5. LastAlone'
    BY DEF LifeInv, TypeOK, LastAlone, Leave, Goto, Runs, Killed, Killable, Flagged, Threads, Listed
<1>6. KillNotSleptThrough'
    BY DEF LifeInv, TypeOK, Places, KillNotSleptThrough, Leave, Goto, Runs, Killed, Killable, Flagged, Threads, Listed
<1>7. SleepersHome'
    BY DEF LifeInv, TypeOK, Places, SleepersHome, Leave, Goto, Runs, Killed, Killable, Flagged, Threads, Listed
<1>8. JoinNotMissed'
    BY DEF LifeInv, TypeOK, Places, SleepersHome, JoinNotMissed, InCall, Leave, Goto, Runs, Killed, Killable, Flagged, Threads, Listed
<1>9. ReaperNotMissed'
    BY DEF LifeInv, TypeOK, Places, ReaperNotMissed, Reapable, Telling, Threads, Listed, Leave, Goto, Runs, Killed, Killable, Flagged, Threads, Listed
<1> QED BY <1>1, <1>2, <1>4, <1>5, <1>6, <1>7, <1>8, <1>9 DEF LifeInv

\* task_end, third section of a thread that was not the last
LEMMA DieStep ==
    ASSUME LifeInv, NEW t \in Tasks, Die(t)
    PROVE  LifeInv'
<1> USE LifeAssumption
<1>1. TypeOK'
    BY DEF LifeInv, TypeOK, States, Locations, Leaving, Calls, Places, Die, Goto, Runs, Wake, procVars
<1>2. Places'
    BY DEF LifeInv, TypeOK, Places, KernelLocations, Leaving, Die, Goto, Runs, Wake, procVars
<1>3. \A q \in Procs : Counted(q)' = Counted(q)
    BY DEF LifeInv, TypeOK, Places, KernelLocations, Counted, Threads, Listed, Die, Goto, Runs, Wake, procVars
<1>4. LiveCounts'
    BY <1>3 DEF LifeInv, LiveCounts, Die, procVars
<1>5. LastAlone'
    BY DEF LifeInv, TypeOK, LastAlone, Die, Goto, Runs, Wake, procVars
<1>6. KillNotSleptThrough'
    BY DEF LifeInv, TypeOK, Places, KillNotSleptThrough, Die, Goto, Runs, Wake, procVars
<1>7. SleepersHome'
    BY DEF LifeInv, TypeOK, Places, SleepersHome, Die, Goto, Runs, Wake, procVars
<1>8. JoinNotMissed'
    BY DEF LifeInv, TypeOK, Places, SleepersHome, JoinNotMissed, InCall, Die, Goto, Runs, Wake, procVars
<1>9. ReaperNotMissed'
    <2> SUFFICES ASSUME st'[KernelTask] = "blocked", NEW u \in Tasks, Reapable(u)'
                 PROVE  Telling(proc[u])'
        BY DEF ReaperNotMissed
    <2>1. st[KernelTask] = "blocked" /\ chan[KernelTask] = Reaper
        BY DEF LifeInv, TypeOK, Places, Die, Runs, Wake
    <2>2. ~detached[t]
        BY <2>1 DEF LifeInv, TypeOK, Places, Die, Runs, Wake
    <2>3. u # t
        BY <2>2 DEF Reapable, Die
    <2>4. Reapable(u)
        BY <2>3 DEF LifeInv, TypeOK, Reapable, Die, Wake, procVars
    <2>5. Telling(proc[u])
        BY <2>1, <2>4 DEF LifeInv, ReaperNotMissed
    <2> QED BY <2>5 DEF LifeInv, TypeOK, Telling, Threads, Listed, Die, Goto, Wake
<1> QED BY <1>1, <1>2, <1>4, <1>5, <1>6, <1>7, <1>8, <1>9 DEF LifeInv

\* task_end, third section of the last thread
LEMMA DieLastStep ==
    ASSUME LifeInv, NEW t \in Tasks, DieLast(t)
    PROVE  LifeInv'
<1> USE LifeAssumption
<1>1. TypeOK'
    BY DEF LifeInv, TypeOK, States, Locations, Leaving, Calls, Places, DieLast, Goto, Runs, Wake
<1>2. Places'
    BY DEF LifeInv, TypeOK, Places, KernelLocations, Leaving, DieLast, Goto, Runs, Wake
<1>3. \A q \in Procs : Counted(q)' = Counted(q)
    BY DEF LifeInv, TypeOK, Places, KernelLocations, Counted, Threads, Listed, DieLast, Goto, Runs, Wake
<1>4. LiveCounts'
    BY <1>3 DEF LifeInv, LiveCounts, DieLast
<1>5. LastAlone'
    BY DEF LifeInv, TypeOK, LastAlone, DieLast, Goto, Runs, Wake
<1>6. KillNotSleptThrough'
    BY DEF LifeInv, TypeOK, Places, KillNotSleptThrough, DieLast, Goto, Runs, Wake
<1>7. SleepersHome'
    BY DEF LifeInv, TypeOK, Places, SleepersHome, DieLast, Goto, Runs, Wake
<1>8. JoinNotMissed'
    BY SMTT(60) DEF LifeInv, TypeOK, Places, SleepersHome, JoinNotMissed, InCall, DieLast, Goto, Runs, Wake
<1>9. ReaperNotMissed'
    BY DEF LifeInv, TypeOK, Places, ReaperNotMissed, Reapable, Telling, Threads, Listed, DieLast, Goto, Runs, Wake
<1> QED BY <1>1, <1>2, <1>4, <1>5, <1>6, <1>7, <1>8, <1>9 DEF LifeInv

\* SIGKILL
LEMMA KillProcessStep ==
    ASSUME LifeInv, NEW p \in Procs, KillProcess(p)
    PROVE  LifeInv'
<1> USE LifeAssumption
<1>1. TypeOK'
    BY DEF LifeInv, TypeOK, States, Locations, Leaving, Calls, Places, KillProcess, Signallable, Killed, Killable, Flagged, Threads, Listed, procVars
<1>2. Places'
    BY DEF LifeInv, TypeOK, Places, KernelLocations, Leaving, KillProcess, Signallable, Killed, Killable, Flagged, Threads, Listed, procVars
<1>3. \A q \in Procs : Counted(q)' = Counted(q)
    BY DEF LifeInv, TypeOK, Places, KernelLocations, Counted, Threads, Listed, KillProcess, Signallable, Killed, Killable, Flagged, Threads, Listed, procVars
<1>4. LiveCounts'
    BY <1>3 DEF LifeInv, LiveCounts, KillProcess, procVars
<1>5. LastAlone'
    BY DEF LifeInv, TypeOK, LastAlone, KillProcess, Signallable, Killed, Killable, Flagged, Threads, Listed, procVars
<1>6. KillNotSleptThrough'
    BY DEF LifeInv, TypeOK, Places, KillNotSleptThrough, KillProcess, Signallable, Killed, Killable, Flagged, Threads, Listed, procVars
<1>7. SleepersHome'
    BY DEF LifeInv, TypeOK, Places, SleepersHome, KillProcess, Signallable, Killed, Killable, Flagged, Threads, Listed, procVars
<1>8. JoinNotMissed'
    BY DEF LifeInv, TypeOK, Places, SleepersHome, JoinNotMissed, InCall, KillProcess, Signallable, Killed, Killable, Flagged, Threads, Listed, procVars
<1>9. ReaperNotMissed'
    BY DEF LifeInv, TypeOK, Places, ReaperNotMissed, Reapable, Telling, Threads, Listed, KillProcess, Signallable, Killed, Killable, Flagged, Threads, Listed, procVars
<1> QED BY <1>1, <1>2, <1>4, <1>5, <1>6, <1>7, <1>8, <1>9 DEF LifeInv

\* SIGSTOP
LEMMA StopProcessStep ==
    ASSUME LifeInv, NEW p \in Procs, StopProcess(p)
    PROVE  LifeInv'
<1> USE LifeAssumption
<1>1. TypeOK'
    BY DEF LifeInv, TypeOK, States, Locations, Leaving, Calls, Places, StopProcess, Signallable, Killed, Flagged, Threads, Listed, procVars
<1>2. Places'
    BY DEF LifeInv, TypeOK, Places, KernelLocations, Leaving, StopProcess, Signallable, Killed, Flagged, Threads, Listed, procVars
<1>3. \A q \in Procs : Counted(q)' = Counted(q)
    BY DEF LifeInv, TypeOK, Places, KernelLocations, Counted, Threads, Listed, StopProcess, Signallable, Killed, Flagged, Threads, Listed, procVars
<1>4. LiveCounts'
    BY <1>3 DEF LifeInv, LiveCounts, StopProcess, procVars
<1>5. LastAlone'
    BY DEF LifeInv, TypeOK, LastAlone, StopProcess, Signallable, Killed, Flagged, Threads, Listed, procVars
<1>6. KillNotSleptThrough'
    BY DEF LifeInv, TypeOK, Places, KillNotSleptThrough, StopProcess, Signallable, Killed, Flagged, Threads, Listed, procVars
<1>7. SleepersHome'
    BY DEF LifeInv, TypeOK, Places, SleepersHome, StopProcess, Signallable, Killed, Flagged, Threads, Listed, procVars
<1>8. JoinNotMissed'
    BY DEF LifeInv, TypeOK, Places, SleepersHome, JoinNotMissed, InCall, StopProcess, Signallable, Killed, Flagged, Threads, Listed, procVars
<1>9. ReaperNotMissed'
    BY DEF LifeInv, TypeOK, Places, ReaperNotMissed, Reapable, Telling, Threads, Listed, StopProcess, Signallable, Killed, Flagged, Threads, Listed, procVars
<1> QED BY <1>1, <1>2, <1>4, <1>5, <1>6, <1>7, <1>8, <1>9 DEF LifeInv

\* SIGCONT
LEMMA ContinueProcessStep ==
    ASSUME LifeInv, NEW p \in Procs, ContinueProcess(p)
    PROVE  LifeInv'
<1> USE LifeAssumption
<1>1. TypeOK'
    BY DEF LifeInv, TypeOK, States, Locations, Leaving, Calls, Places, ContinueProcess, Signallable, Flagged, Threads, Listed, procVars
<1>2. Places'
    BY DEF LifeInv, TypeOK, Places, KernelLocations, Leaving, ContinueProcess, Signallable, Flagged, Threads, Listed, procVars
<1>3. \A q \in Procs : Counted(q)' = Counted(q)
    BY DEF LifeInv, TypeOK, Places, KernelLocations, Counted, Threads, Listed, ContinueProcess, Signallable, Flagged, Threads, Listed, procVars
<1>4. LiveCounts'
    BY <1>3 DEF LifeInv, LiveCounts, ContinueProcess, procVars
<1>5. LastAlone'
    BY DEF LifeInv, TypeOK, LastAlone, ContinueProcess, Signallable, Flagged, Threads, Listed, procVars
<1>6. KillNotSleptThrough'
    BY DEF LifeInv, TypeOK, Places, KillNotSleptThrough, ContinueProcess, Signallable, Flagged, Threads, Listed, procVars
<1>7. SleepersHome'
    BY DEF LifeInv, TypeOK, Places, SleepersHome, ContinueProcess, Signallable, Flagged, Threads, Listed, procVars
<1>8. JoinNotMissed'
    BY DEF LifeInv, TypeOK, Places, SleepersHome, JoinNotMissed, InCall, ContinueProcess, Signallable, Flagged, Threads, Listed, procVars
<1>9. ReaperNotMissed'
    BY DEF LifeInv, TypeOK, Places, ReaperNotMissed, Reapable, Telling, Threads, Listed, ContinueProcess, Signallable, Flagged, Threads, Listed, procVars
<1> QED BY <1>1, <1>2, <1>4, <1>5, <1>6, <1>7, <1>8, <1>9 DEF LifeInv

\* A thread stops at a safe point
LEMMA CheckStopStep ==
    ASSUME LifeInv, NEW t \in Tasks, CheckStop(t)
    PROVE  LifeInv'
<1> USE LifeAssumption
<1>1. TypeOK'
    BY DEF LifeInv, TypeOK, States, Locations, Leaving, Calls, Places, CheckStop, StopNow, Runs, Wake
<1>2. Places'
    BY DEF LifeInv, TypeOK, Places, KernelLocations, Leaving, CheckStop, StopNow, Runs, Wake
<1>3. \A q \in Procs : Counted(q)' = Counted(q)
    BY DEF LifeInv, TypeOK, Places, KernelLocations, Counted, Threads, Listed, CheckStop, StopNow, Runs, Wake
<1>4. LiveCounts'
    BY <1>3 DEF LifeInv, LiveCounts, CheckStop
<1>5. LastAlone'
    BY DEF LifeInv, TypeOK, LastAlone, CheckStop, StopNow, Runs, Wake
<1>6. KillNotSleptThrough'
    BY DEF LifeInv, TypeOK, Places, KillNotSleptThrough, CheckStop, StopNow, Runs, Wake
<1>7. SleepersHome'
    BY DEF LifeInv, TypeOK, Places, SleepersHome, CheckStop, StopNow, Runs, Wake
<1>8. JoinNotMissed'
    BY DEF LifeInv, TypeOK, Places, SleepersHome, JoinNotMissed, InCall, CheckStop, StopNow, Runs, Wake
<1>9. ReaperNotMissed'
    BY DEF LifeInv, TypeOK, Places, ReaperNotMissed, Reapable, Telling, Threads, Listed, CheckStop, StopNow, Runs, Wake
<1> QED BY <1>1, <1>2, <1>4, <1>5, <1>6, <1>7, <1>8, <1>9 DEF LifeInv

\* A waiting call begins
LEMMA StartWaitStep ==
    ASSUME LifeInv, NEW t \in Tasks, StartWait(t)
    PROVE  LifeInv'
<1> USE LifeAssumption
<1>1. TypeOK'
    BY DEF LifeInv, TypeOK, States, Locations, Leaving, Calls, Places, StartWait, Goto, Runs, Threads, Listed, procVars
<1>2. Places'
    BY DEF LifeInv, TypeOK, Places, KernelLocations, Leaving, StartWait, Goto, Runs, Threads, Listed, procVars
<1>3. \A q \in Procs : Counted(q)' = Counted(q)
    BY DEF LifeInv, TypeOK, Places, KernelLocations, Counted, Threads, Listed, StartWait, Goto, Runs, Threads, Listed, procVars
<1>4. LiveCounts'
    BY <1>3 DEF LifeInv, LiveCounts, StartWait, procVars
<1>5. LastAlone'
    BY DEF LifeInv, TypeOK, LastAlone, StartWait, Goto, Runs, Threads, Listed, procVars
<1>6. KillNotSleptThrough'
    BY DEF LifeInv, TypeOK, Places, KillNotSleptThrough, StartWait, Goto, Runs, Threads, Listed, procVars
<1>7. SleepersHome'
    BY DEF LifeInv, TypeOK, Places, SleepersHome, StartWait, Goto, Runs, Threads, Listed, procVars
<1>8. JoinNotMissed'
    BY DEF LifeInv, TypeOK, Places, SleepersHome, JoinNotMissed, InCall, StartWait, Goto, Runs, Threads, Listed, procVars
<1>9. ReaperNotMissed'
    BY DEF LifeInv, TypeOK, Places, ReaperNotMissed, Reapable, Telling, Threads, Listed, StartWait, Goto, Runs, Threads, Listed, procVars
<1> QED BY <1>1, <1>2, <1>4, <1>5, <1>6, <1>7, <1>8, <1>9 DEF LifeInv

\* A stopped child is reported
LEMMA ReportStopStep ==
    ASSUME LifeInv, NEW t \in Tasks, ReportStop(t)
    PROVE  LifeInv'
<1> USE LifeAssumption
<1>1. TypeOK'
    BY DEF LifeInv, TypeOK, States, Locations, Leaving, Calls, Places, ReportStop, EndCall, Goto, Runs
<1>2. Places'
    BY DEF LifeInv, TypeOK, Places, KernelLocations, Leaving, ReportStop, EndCall, Goto, Runs
<1>3. \A q \in Procs : Counted(q)' = Counted(q)
    BY DEF LifeInv, TypeOK, Places, KernelLocations, Counted, Threads, Listed, ReportStop, EndCall, Goto, Runs
<1>4. LiveCounts'
    BY <1>3 DEF LifeInv, LiveCounts, ReportStop
<1>5. LastAlone'
    BY DEF LifeInv, TypeOK, LastAlone, ReportStop, EndCall, Goto, Runs
<1>6. KillNotSleptThrough'
    BY DEF LifeInv, TypeOK, Places, KillNotSleptThrough, ReportStop, EndCall, Goto, Runs
<1>7. SleepersHome'
    BY DEF LifeInv, TypeOK, Places, SleepersHome, ReportStop, EndCall, Goto, Runs
<1>8. JoinNotMissed'
    BY DEF LifeInv, TypeOK, Places, SleepersHome, JoinNotMissed, InCall, ReportStop, EndCall, Goto, Runs
<1>9. ReaperNotMissed'
    BY DEF LifeInv, TypeOK, Places, ReaperNotMissed, Reapable, Telling, Threads, Listed, ReportStop, EndCall, Goto, Runs
<1> QED BY <1>1, <1>2, <1>4, <1>5, <1>6, <1>7, <1>8, <1>9 DEF LifeInv

\* A dead child or thread is collected
LEMMA CollectStep ==
    ASSUME LifeInv, NEW t \in Tasks, Collect(t)
    PROVE  LifeInv'
<1> USE LifeAssumption
<1>1. TypeOK'
    BY DEF LifeInv, TypeOK, States, Locations, Leaving, Calls, Places, Collect, EndCall, Goto, Runs, Collectable, procVars
<1>2. Places'
    BY DEF LifeInv, TypeOK, Places, KernelLocations, Leaving, Collect, EndCall, Goto, Runs, Collectable, procVars
<1>3. \A q \in Procs : Counted(q)' = Counted(q)
    BY DEF LifeInv, TypeOK, Places, KernelLocations, Counted, Threads, Listed, Collect, EndCall, Goto, Runs, Collectable, procVars
<1>4. LiveCounts'
    BY <1>3 DEF LifeInv, LiveCounts, Collect, procVars
<1>5. LastAlone'
    BY DEF LifeInv, TypeOK, LastAlone, Collect, EndCall, Goto, Runs, Collectable, procVars
<1>6. KillNotSleptThrough'
    BY DEF LifeInv, TypeOK, Places, KillNotSleptThrough, Collect, EndCall, Goto, Runs, Collectable, procVars
<1>7. SleepersHome'
    BY DEF LifeInv, TypeOK, Places, SleepersHome, Collect, EndCall, Goto, Runs, Collectable, procVars
<1>8. JoinNotMissed'
    BY DEF LifeInv, TypeOK, Places, SleepersHome, JoinNotMissed, InCall, Collect, EndCall, Goto, Runs, Collectable, procVars
<1>9. ReaperNotMissed'
    BY SMTT(60) DEF LifeInv, TypeOK, Places, ReaperNotMissed, Reapable, Telling, Threads, Listed, Collect, EndCall, Goto, Runs, Collectable, procVars
<1> QED BY <1>1, <1>2, <1>4, <1>5, <1>6, <1>7, <1>8, <1>9 DEF LifeInv

\* A sleeper goes on
LEMMA WakeUpStep ==
    ASSUME LifeInv, NEW t \in Tasks, WakeUp(t)
    PROVE  LifeInv'
<1> USE LifeAssumption
<1>1. TypeOK'
    BY DEF LifeInv, TypeOK, States, Locations, Leaving, Calls, Places, WakeUp, Goto, Runs, procVars
<1>2. Places'
    BY DEF LifeInv, TypeOK, Places, KernelLocations, Leaving, WakeUp, Goto, Runs, procVars
<1>3. \A q \in Procs : Counted(q)' = Counted(q)
    BY DEF LifeInv, TypeOK, Places, KernelLocations, Counted, Threads, Listed, WakeUp, Goto, Runs, procVars
<1>4. LiveCounts'
    BY <1>3 DEF LifeInv, LiveCounts, WakeUp, procVars
<1>5. LastAlone'
    BY DEF LifeInv, TypeOK, LastAlone, WakeUp, Goto, Runs, procVars
<1>6. KillNotSleptThrough'
    BY DEF LifeInv, TypeOK, Places, KillNotSleptThrough, WakeUp, Goto, Runs, procVars
<1>7. SleepersHome'
    BY DEF LifeInv, TypeOK, Places, SleepersHome, WakeUp, Goto, Runs, procVars
<1>8. JoinNotMissed'
    BY DEF LifeInv, TypeOK, Places, SleepersHome, JoinNotMissed, InCall, WakeUp, Goto, Runs, procVars
<1>9. ReaperNotMissed'
    BY DEF LifeInv, TypeOK, Places, ReaperNotMissed, Reapable, Telling, Threads, Listed, WakeUp, Goto, Runs, procVars
<1> QED BY <1>1, <1>2, <1>4, <1>5, <1>6, <1>7, <1>8, <1>9 DEF LifeInv

\* A waiting call ends because it has been killed, stops, or sleeps
LEMMA SleepOnStep ==
    ASSUME LifeInv, NEW t \in Tasks, SleepOn(t)
    PROVE  LifeInv'
<1> USE LifeAssumption
<1>1. CASE kill[t]
    <2>1. Goto(t, "doomed") /\ UNCHANGED <<st, chan, stop, stop_reported>>
        BY <1>1 DEF SleepOn
    <2>2. TypeOK' /\ Places'
        BY <2>1 DEF LifeInv, TypeOK, Places, KernelLocations, Locations, SleepOn, Goto, Runs
    <2>3. \A q \in Procs : Counted(q)' = Counted(q)
        BY <2>1 DEF LifeInv, TypeOK, Counted, Threads, Listed, SleepOn, Goto, Runs
    <2>4. LiveCounts'
        BY <2>3 DEF LifeInv, LiveCounts, SleepOn
    <2>5. LastAlone' /\ KillNotSleptThrough' /\ SleepersHome' /\ JoinNotMissed'
        BY <2>1 DEF LifeInv, TypeOK, LastAlone, KillNotSleptThrough, SleepersHome,
                    JoinNotMissed, InCall, SleepOn, Goto
    <2>6. ReaperNotMissed'
        BY <2>1 DEF LifeInv, TypeOK, ReaperNotMissed, Reapable, Telling, Threads, Listed,
                    SleepOn, Goto, Runs
    <2> QED BY <2>2, <2>4, <2>5, <2>6 DEF LifeInv
<1>2. CASE ~kill[t] /\ stop[t]
    <2>1. StopNow(t) /\ UNCHANGED <<pc, chan>>
        BY <1>2 DEF SleepOn
    <2>2. TypeOK' /\ Places'
        BY <2>1 DEF LifeInv, TypeOK, States, Places, KernelLocations, SleepOn, StopNow, Wake, Runs
    <2>3. \A q \in Procs : Counted(q)' = Counted(q)
        BY <2>1 DEF LifeInv, TypeOK, Counted, Threads, Listed, SleepOn, StopNow, Wake, Runs
    <2>4. LiveCounts'
        BY <2>3 DEF LifeInv, LiveCounts, SleepOn
    <2>5. LastAlone' /\ KillNotSleptThrough' /\ SleepersHome'
        BY <1>2, <2>1 DEF LifeInv, TypeOK, LastAlone, KillNotSleptThrough, SleepersHome,
                          SleepOn, StopNow, Wake, Runs
    <2>6. JoinNotMissed'
        BY <2>1 DEF LifeInv, TypeOK, SleepersHome, JoinNotMissed, InCall, SleepOn, StopNow, Wake, Runs
    <2>7. ReaperNotMissed'
        BY <2>1 DEF LifeInv, TypeOK, Places, ReaperNotMissed, Reapable, Telling, Threads, Listed,
                    SleepOn, StopNow, Wake, Runs
    <2> QED BY <2>2, <2>4, <2>5, <2>6, <2>7 DEF LifeInv
<1>3. CASE ~kill[t] /\ ~stop[t]
    <2>1. /\ st' = [st EXCEPT ![t] = "blocked"] /\ chan' = [chan EXCEPT ![t] = proc[t]]
          /\ Goto(t, "wake") /\ UNCHANGED <<stop, stop_reported>>
        BY <1>3 DEF SleepOn
    <2>2. TypeOK' /\ Places'
        BY <2>1 DEF LifeInv, TypeOK, States, Locations, Places, KernelLocations, SleepOn, Goto, Runs
    <2>3. \A q \in Procs : Counted(q)' = Counted(q)
        BY <2>1 DEF LifeInv, TypeOK, Counted, Threads, Listed, SleepOn, Goto, Runs
    <2>4. LiveCounts'
        BY <2>3 DEF LifeInv, LiveCounts, SleepOn
    <2>5. LastAlone' /\ KillNotSleptThrough'
        BY <1>3, <2>1 DEF LifeInv, TypeOK, LastAlone, KillNotSleptThrough, SleepOn, Goto
    <2>6. SleepersHome'
        BY <2>1 DEF LifeInv, TypeOK, SleepersHome, SleepOn, Goto, Runs
    <2>7. JoinNotMissed'
        BY <2>1 DEF LifeInv, TypeOK, SleepersHome, JoinNotMissed, InCall, NothingYet, SleepOn, Goto, Runs
    <2>8. ReaperNotMissed'
        BY <2>1 DEF LifeInv, TypeOK, Places, ReaperNotMissed, Reapable, Telling, Threads, Listed,
                    SleepOn, Goto, Runs
    <2> QED BY <2>2, <2>4, <2>5, <2>6, <2>7, <2>8 DEF LifeInv
<1> QED BY <1>1, <1>2, <1>3

\* exec has outlived the other threads: they go to the reaper, and it may
\* take over the PID
LEMMA AloneStep ==
    ASSUME LifeInv, NEW t \in Tasks, Runs(t), pc[t] \in {"user", "exec"}, AloneNow(t, st),
           chan' = chan \/ chan' = [chan EXCEPT ![t] = None],
           UNCHANGED <<proc, call, target, kill, stop, parent, live, group_exit,
                       stop_reported, init_task>>
    PROVE  LifeInv'
<1> USE LifeAssumption
<1>1. TypeOK'
    BY DEF LifeInv, TypeOK, States, Locations, AloneNow, Wake, Flagged, Goto
<1>2. Places'
    BY DEF LifeInv, TypeOK, Places, KernelLocations, AloneNow, Wake, Goto, Runs, Threads, Listed
<1>3. \A q \in Procs : Counted(q)' = Counted(q)
    BY DEF LifeInv, TypeOK, Counted, Threads, Listed, AloneNow, Wake, Goto, Runs
<1>4. LiveCounts'
    BY <1>3 DEF LifeInv, LiveCounts
<1>5. LastAlone' /\ KillNotSleptThrough'
    BY DEF LifeInv, TypeOK, LastAlone, KillNotSleptThrough, AloneNow, Wake, Goto
<1>6. SleepersHome'
    BY DEF LifeInv, TypeOK, Places, SleepersHome, AloneNow, Wake, Goto, Runs
<1>7. JoinNotMissed'
    BY DEF LifeInv, TypeOK, SleepersHome, JoinNotMissed, InCall, AloneNow, Wake, Goto, Runs
<1>8. ReaperNotMissed'
    <2> SUFFICES ASSUME st'[KernelTask] = "blocked", NEW u \in Tasks, Reapable(u)'
                 PROVE  Telling(proc[u])'
        BY DEF ReaperNotMissed
    <2>1. st[KernelTask] = "blocked" /\ chan[KernelTask] = Reaper
        BY DEF LifeInv, TypeOK, Places, AloneNow, Wake
    <2>2. Threads(proc[t]) \ {t} = {} /\ st' = st
        BY <2>1 DEF LifeInv, TypeOK, AloneNow, Wake
    <2>3. leader' = leader /\ detached' = detached
        BY <2>2 DEF LifeInv, TypeOK, AloneNow, Flagged
    <2>4. Reapable(u)
        BY <2>2, <2>3 DEF Reapable
    <2>5. Telling(proc[u])
        BY <2>1, <2>4 DEF LifeInv, ReaperNotMissed
    <2> QED BY <2>2, <2>5 DEF LifeInv, TypeOK, Telling, Threads, Listed, AloneNow, Goto
<1> QED BY <1>1, <1>2, <1>4, <1>5, <1>6, <1>7, <1>8 DEF LifeInv

\* exec begins: with others alive it kills them and sleeps
LEMMA ExecStep ==
    ASSUME LifeInv, NEW t \in Tasks, Exec(t)
    PROVE  LifeInv'
<1> USE LifeAssumption
<1>1. CASE ~(live[proc[t]] > 1)
    BY <1>1, AloneStep DEF Exec
<1>2. CASE live[proc[t]] > 1
    <2> DEFINE hit == Killable(Threads(proc[t]) \ {t})
    <2>1. /\ Runs(t) /\ pc[t] = "user"
          /\ exec_tid' = [exec_tid EXCEPT ![proc[t]] = t]
          /\ st' = [Killed(hit) EXCEPT ![t] = "blocked"]
          /\ kill' = Flagged(kill, hit, TRUE) /\ stop' = Flagged(stop, hit, FALSE)
          /\ chan' = [chan EXCEPT ![t] = proc[t]]
          /\ Goto(t, "exec")
          /\ UNCHANGED <<leader, detached, proc, call, target, parent, live, group_exit,
                         stop_reported, init_task>>
        BY <1>2 DEF Exec
    <2>2. hit \subseteq Tasks \ {t} /\ \A u \in hit : u # KernelTask /\ pc[u] \notin Leaving
                                        /\ st[u] \in {"live", "blocked", "stopped"}
        BY <2>1 DEF LifeInv, Places, Killable, Threads, Listed, Runs, TypeOK
    <2> HIDE DEF hit
    <2>3. TypeOK' /\ Places'
        BY <2>1, <2>2 DEF LifeInv, TypeOK, States, Locations, Places, KernelLocations, Leaving,
                          Killed, Flagged, Goto, Runs
    <2>4. \A q \in Procs : Counted(q)' = Counted(q)
        BY <2>1, <2>2 DEF LifeInv, TypeOK, Counted, Threads, Listed, Killed, Goto, Runs
    <2>5. LiveCounts'
        BY <2>1, <2>4 DEF LifeInv, LiveCounts
    <2>6. LastAlone' /\ KillNotSleptThrough'
        BY <2>1, <2>2 DEF LifeInv, TypeOK, LastAlone, KillNotSleptThrough, Killed, Flagged, Goto
    <2>7. SleepersHome'
        BY <2>1, <2>2 DEF LifeInv, TypeOK, SleepersHome, Killed, Goto, Runs
    <2>8. JoinNotMissed'
        BY <2>1, <2>2 DEF LifeInv, TypeOK, SleepersHome, JoinNotMissed, InCall, Killed, Goto, Runs
    <2>9. ReaperNotMissed'
        BY <2>1, <2>2 DEF LifeInv, TypeOK, Places, ReaperNotMissed, Reapable, Telling, Threads,
                          Listed, Killed, Goto, Runs
    <2> QED BY <2>3, <2>5, <2>6, <2>7, <2>8, <2>9 DEF LifeInv
<1> QED BY <1>1, <1>2

\* exec goes on waiting, or is alone
LEMMA ExecGoOnStep ==
    ASSUME LifeInv, NEW t \in Tasks, ExecGoOn(t)
    PROVE  LifeInv'
<1> USE LifeAssumption
<1>1. CASE ~(live[proc[t]] > 1)
    BY <1>1, AloneStep DEF ExecGoOn
<1>2. CASE live[proc[t]] > 1
    <2>1. /\ Runs(t) /\ pc[t] = "exec" /\ st' = [st EXCEPT ![t] = "blocked"]
          /\ UNCHANGED <<pc, chan, detached, leader, exec_tid, proc, call, target, kill, stop,
                         parent, live, group_exit, stop_reported, init_task>>
        BY <1>2 DEF ExecGoOn
    <2>2. TypeOK' /\ Places'
        BY <2>1 DEF LifeInv, TypeOK, States, Places, KernelLocations, Runs
    <2>3. \A q \in Procs : Counted(q)' = Counted(q)
        BY <2>1 DEF LifeInv, TypeOK, Counted, Threads, Listed, Runs
    <2>4. LiveCounts'
        BY <2>1, <2>3 DEF LifeInv, LiveCounts
    <2>5. LastAlone' /\ KillNotSleptThrough' /\ SleepersHome' /\ JoinNotMissed'
        BY <2>1 DEF LifeInv, TypeOK, LastAlone, KillNotSleptThrough, SleepersHome, JoinNotMissed,
                    InCall, Runs
    <2>6. ReaperNotMissed'
        BY <2>1 DEF LifeInv, TypeOK, ReaperNotMissed, Reapable, Telling, Threads, Listed, Runs
    <2> QED BY <2>2, <2>4, <2>5, <2>6 DEF LifeInv
<1> QED BY <1>1, <1>2

\* The counted threads are finitely many
LEMMA CountedFinite ==
    ASSUME NEW p
    PROVE  IsFiniteSet(Counted(p)) /\ Cardinality(Counted(p)) \in Nat
<1>1. Counted(p) \subseteq Tasks
    BY DEF Counted, Threads
<1> QED BY <1>1, LifeAssumption, FS_Subset, FS_CardinalityType

\* A process starts with one thread that counts
LEMMA NewProcessStep ==
    ASSUME LifeInv, NEW p \in Procs, NEW t \in Tasks, NEW creator \in Procs,
           NewProcess(p, t, creator),
           pc' = pc \/ (pc[KernelTask] = "boot" /\ Goto(KernelTask, "naming")),
           UNCHANGED <<call, chan, target, kill, stop, group_exit, exec_tid,
                       stop_reported, init_task>>
    PROVE  LifeInv'
<1> USE LifeAssumption
<1>1. p # Kernel /\ t # KernelTask /\ st[t] = "new" /\ pc[t] = "user"
    BY DEF LifeInv, Places, NewProcess
<1>2. \A u \in Tasks : st[u] # "new" => proc[u] # p
    BY <1>1 DEF LifeInv, Places, NewProcess
<1>3. TypeOK'
    BY <1>1 DEF LifeInv, TypeOK, States, Locations, NewProcess, Start, Goto
<1>4. Places'
    BY <1>1, <1>2 DEF LifeInv, TypeOK, Places, KernelLocations, NewProcess, Start, Goto
<1>5. ASSUME NEW q \in Procs PROVE live'[q] = Cardinality(Counted(q)')
    <2>1. CASE q # p
        <3>1. Counted(q)' = Counted(q)
            BY <1>1, <2>1 DEF LifeInv, TypeOK, Places, KernelLocations, Counted, Threads, Listed,
                              NewProcess, Start, Goto
        <3> QED BY <2>1, <3>1 DEF LifeInv, TypeOK, LiveCounts, NewProcess
    <2>2. CASE q = p
        <3>1. Counted(q)' = {t}
            BY <1>1, <1>2, <2>2 DEF LifeInv, TypeOK, Counted, Threads, Listed, NewProcess, Start, Goto
        <3> QED BY <2>2, <3>1, FS_Singleton DEF LifeInv, TypeOK, NewProcess
    <2> QED BY <2>1, <2>2
<1>6. LiveCounts'
    BY <1>5 DEF LiveCounts
<1>7. LastAlone' /\ KillNotSleptThrough'
    BY <1>1, <1>2 DEF LifeInv, TypeOK, Places, LastAlone, KillNotSleptThrough, NewProcess, Start, Goto
<1>8. SleepersHome'
    BY <1>1 DEF LifeInv, TypeOK, Places, SleepersHome, NewProcess, Start, Goto
<1>9. JoinNotMissed'
    BY <1>1 DEF LifeInv, TypeOK, Places, SleepersHome, JoinNotMissed, InCall, NewProcess, Start, Goto
<1>10. ReaperNotMissed'
    <2> SUFFICES ASSUME st'[KernelTask] = "blocked", NEW u \in Tasks, Reapable(u)'
                 PROVE  Telling(proc[u])'
        BY DEF ReaperNotMissed
    <2>1. st[KernelTask] = "blocked" /\ u # t
        BY <1>1 DEF LifeInv, TypeOK, Reapable, NewProcess, Start
    <2>2. st[u] = "zombie" /\ proc'[u] = proc[u] /\ proc[u] # p /\ proc[u] \in Procs
        BY <1>2, <2>1 DEF LifeInv, TypeOK, Places, Reapable, NewProcess, Start
    <2>3. Reapable(u)
        BY <2>1, <2>2 DEF LifeInv, TypeOK, Reapable, NewProcess, Start
    <2>4. Telling(proc[u])
        BY <2>1, <2>3 DEF LifeInv, ReaperNotMissed
    <2> QED BY <1>1, <2>1, <2>2, <2>4 DEF LifeInv, TypeOK, Places, Telling, Threads, Listed,
                                          NewProcess, Start, Goto
<1> QED BY <1>3, <1>4, <1>6, <1>7, <1>8, <1>9, <1>10 DEF LifeInv

\* A thread is added while its creator counts
LEMMA AddThreadStep ==
    ASSUME LifeInv, NEW t \in Tasks, NEW u \in Tasks, AddThread(t, u)
    PROVE  LifeInv'
<1> USE LifeAssumption
<1>1. /\ t # KernelTask /\ u # KernelTask /\ t # u
      /\ st[u] = "new" /\ pc[u] = "user" /\ st[t] = "live" /\ pc[t] = "user"
      /\ proc[t] \in Procs \ {Kernel} /\ leader[proc[t]] # None
    BY DEF LifeInv, TypeOK, Places, AddThread, Runs
<1>2. TypeOK'
    BY <1>1 DEF LifeInv, TypeOK, States, AddThread, Start
<1>3. Places'
    BY <1>1 DEF LifeInv, TypeOK, Places, KernelLocations, AddThread, Start
<1>4. ASSUME NEW q \in Procs PROVE live'[q] = Cardinality(Counted(q)')
    <2>1. CASE q # proc[t]
        <3>1. Counted(q)' = Counted(q)
            BY <1>1, <2>1 DEF LifeInv, TypeOK, Counted, Threads, Listed, AddThread, Start
        <3> QED BY <2>1, <3>1 DEF LifeInv, TypeOK, LiveCounts, AddThread
    <2>2. CASE q = proc[t]
        <3>1. Counted(q)' = Counted(q) \cup {u} /\ u \notin Counted(q)
            BY <1>1, <2>2 DEF LifeInv, TypeOK, Counted, Threads, Listed, AddThread, Start
        <3>2. Cardinality(Counted(q)') = Cardinality(Counted(q)) + 1
            BY <3>1, CountedFinite, FS_AddElement
        <3> QED BY <2>2, <3>2 DEF LifeInv, TypeOK, LiveCounts, AddThread
    <2> QED BY <2>1, <2>2
<1>5. LiveCounts'
    BY <1>4 DEF LiveCounts
<1>6. live[proc[t]] # 0
    <2>1. t \in Counted(proc[t])
        BY <1>1 DEF Counted, Threads, Listed
    <2>2. Cardinality(Counted(proc[t])) # 0
        BY <2>1, CountedFinite, FS_EmptySet
    <2> QED BY <2>2, <1>1 DEF LifeInv, LiveCounts
<1>7. LastAlone' /\ KillNotSleptThrough'
    BY <1>1, <1>6 DEF LifeInv, TypeOK, Places, LastAlone, KillNotSleptThrough, AddThread, Start
<1>8. SleepersHome'
    BY <1>1 DEF LifeInv, TypeOK, Places, SleepersHome, AddThread, Start
<1>9. JoinNotMissed'
    BY <1>1 DEF LifeInv, TypeOK, Places, SleepersHome, JoinNotMissed, InCall, AddThread, Start
<1>10. ReaperNotMissed'
    <2> SUFFICES ASSUME st'[KernelTask] = "blocked", NEW v \in Tasks, Reapable(v)'
                 PROVE  Telling(proc[v])'
        BY DEF ReaperNotMissed
    <2>1. st[KernelTask] = "blocked" /\ v # u
        BY <1>1 DEF LifeInv, TypeOK, Reapable, AddThread, Start
    <2>2. st[v] = "zombie" /\ proc'[v] = proc[v] /\ proc[v] \in Procs
        BY <2>1 DEF LifeInv, TypeOK, Places, Reapable, AddThread, Start
    <2>3. Reapable(v)
        BY <1>1, <2>1, <2>2 DEF LifeInv, TypeOK, Reapable, AddThread, Start
    <2>4. Telling(proc[v])
        BY <2>1, <2>3 DEF LifeInv, ReaperNotMissed
    <2> QED BY <1>1, <2>1, <2>2, <2>4 DEF LifeInv, TypeOK, Places, Telling, Threads, Listed,
                                          AddThread, Start
<1> QED BY <1>2, <1>3, <1>5, <1>7, <1>8, <1>9, <1>10 DEF LifeInv

\* task_end, second section: the thread counts no longer
LEMMA StopCountingStep ==
    ASSUME LifeInv, NEW t \in Tasks, StopCounting(t)
    PROVE  LifeInv'
<1> USE LifeAssumption
<1>1. t # KernelTask /\ st[t] = "live" /\ pc[t] = "leave" /\ proc[t] \in Procs \ {Kernel}
    BY DEF LifeInv, TypeOK, Places, StopCounting, Runs
<1>2. Counted(proc[t])' = Counted(proc[t]) \ {t} /\ t \in Counted(proc[t])
    BY <1>1 DEF LifeInv, TypeOK, Counted, Threads, Listed, StopCounting, Goto
<1>3. /\ Cardinality(Counted(proc[t]) \ {t}) = Cardinality(Counted(proc[t])) - 1
      /\ Cardinality(Counted(proc[t])) # 0 /\ Cardinality(Counted(proc[t])) \in Nat
    <2> DEFINE C == Counted(proc[t])
    <2>1. t \in C /\ IsFiniteSet(C) /\ Cardinality(C) \in Nat
        BY <1>2, CountedFinite
    <2> HIDE DEF C
    <2>2. Cardinality(C \ {t}) = Cardinality(C) - 1 /\ Cardinality(C) # 0
        BY <2>1, FS_RemoveElement, FS_EmptySet
    <2> QED BY <2>1, <2>2 DEF C
<1>4. live[proc[t]] \in Nat /\ live[proc[t]] # 0 /\ live'[proc[t]] = live[proc[t]] - 1
    BY <1>1, <1>3 DEF LifeInv, TypeOK, LiveCounts, StopCounting
<1>5. TypeOK'
    BY <1>1, <1>4 DEF LifeInv, TypeOK, Locations, Leaving, StopCounting, Goto
<1>6. Places'
    BY <1>1 DEF LifeInv, TypeOK, Places, KernelLocations, StopCounting, Goto
<1>7. ASSUME NEW q \in Procs PROVE live'[q] = Cardinality(Counted(q)')
    <2>1. CASE q # proc[t]
        <3>1. Counted(q)' = Counted(q)
            BY <1>1, <2>1 DEF LifeInv, TypeOK, Counted, Threads, Listed, StopCounting, Goto
        <3> QED BY <2>1, <3>1 DEF LifeInv, TypeOK, LiveCounts, StopCounting
    <2>2. CASE q = proc[t]
        <3>1. Counted(q)' = Counted(q) \ {t}
            BY <1>2, <2>2 DEF StopCounting
        <3> QED BY <2>2, <3>1, <1>3, <1>4 DEF LifeInv, LiveCounts
    <2> QED BY <2>1, <2>2
<1>8. LiveCounts'
    BY <1>7 DEF LiveCounts
<1>9. LastAlone'
    <2> SUFFICES ASSUME NEW u \in Tasks, pc'[u] = "dielast" PROVE live'[proc[u]] = 0
        BY DEF LastAlone, StopCounting
    <2>1. CASE u = t
        BY <2>1, <1>4, <1>1 DEF LifeInv, TypeOK, StopCounting, Goto
    <2>2. CASE u # t
        <3>1. live[proc[u]] = 0
            BY <2>2 DEF LifeInv, TypeOK, LastAlone, StopCounting, Goto
        <3> QED BY <3>1, <1>4, <1>1 DEF LifeInv, TypeOK, StopCounting
    <2> QED BY <2>1, <2>2
<1>10. KillNotSleptThrough' /\ SleepersHome' /\ JoinNotMissed'
    BY <1>1 DEF LifeInv, TypeOK, KillNotSleptThrough, SleepersHome, JoinNotMissed, InCall,
                StopCounting, Goto
<1>11. ReaperNotMissed'
    <2> SUFFICES ASSUME st[KernelTask] = "blocked", NEW v \in Tasks, Reapable(v)'
                 PROVE  Telling(proc[v])'
        BY DEF ReaperNotMissed, StopCounting
    <2>1. st[v] = "zombie" /\ proc[v] \in Procs
        BY <1>1 DEF LifeInv, TypeOK, Places, Reapable, StopCounting
    <2>2. CASE Reapable(v)
        <3>1. Telling(proc[v])
            BY <2>2 DEF LifeInv, ReaperNotMissed
        <3> QED BY <3>1, <1>1 DEF LifeInv, TypeOK, Telling, Threads, Listed, StopCounting, Goto
    <2>3. CASE ~Reapable(v)
        <3>1. proc[v] = proc[t] /\ live'[proc[t]] = 0
            BY <2>1, <2>3, <1>1, <1>4 DEF LifeInv, TypeOK, Reapable, StopCounting
        <3>2. pc'[t] = "dielast" /\ t \in Threads(proc[v])'
            BY <3>1, <1>1, <1>4 DEF LifeInv, TypeOK, Threads, Listed, StopCounting, Goto
        <3> QED BY <3>2 DEF Telling, StopCounting
    <2> QED BY <2>2, <2>3
<1> QED BY <1>5, <1>6, <1>8, <1>9, <1>10, <1>11 DEF LifeInv

-----------------------------------------------------------------------------
(* The theorems.                                                           *)

\* kernel_main starts in a state of the invariant
LEMMA LifeInit == Init => LifeInv
<1> SUFFICES ASSUME Init PROVE LifeInv
    OBVIOUS
<1> USE LifeAssumption
<1>1. TypeOK
    BY DEF Init, TypeOK, States, Locations, Leaving, Calls
<1>2. Places
    BY DEF Init, Places, KernelLocations
<1>3. ASSUME NEW p \in Procs PROVE live[p] = Cardinality(Counted(p))
    <2>1. CASE p = Kernel
        <3>1. Counted(p) = {KernelTask}
            BY <2>1 DEF Init, Counted, Threads, Listed
        <3> QED BY <2>1, <3>1, FS_Singleton DEF Init
    <2>2. CASE p # Kernel
        <3>1. Counted(p) = {}
            BY <2>2 DEF Init, Counted, Threads, Listed
        <3> QED BY <2>2, <3>1, FS_EmptySet DEF Init
    <2> QED BY <2>1, <2>2
<1>4. LiveCounts
    BY <1>3 DEF LiveCounts
<1>5. LastAlone /\ KillNotSleptThrough /\ SleepersHome /\ JoinNotMissed /\ ReaperNotMissed
    BY DEF Init, LastAlone, KillNotSleptThrough, SleepersHome, JoinNotMissed, InCall,
           ReaperNotMissed
<1> QED BY <1>1, <1>2, <1>4, <1>5 DEF LifeInv

\* Every step keeps it
LEMMA LifeNext == LifeInv /\ [Next]_vars => LifeInv'
<1> SUFFICES ASSUME LifeInv, [Next]_vars PROVE LifeInv'
    OBVIOUS
<1> USE LifeAssumption
<1>1. ASSUME NEW p \in Procs, NEW t \in Tasks, SpawnInit(p, t) PROVE LifeInv'
    BY <1>1, NewProcessStep DEF SpawnInit
<1>2. CASE SetInit
    BY <1>2, SetInitStep
<1>3. CASE Reaping
    BY <1>3, ReapStep, WaitForReapableStep DEF Reaping
<1>4. ASSUME NEW p \in Procs, KillProcess(p) \/ StopProcess(p) \/ ContinueProcess(p)
      PROVE LifeInv'
    BY <1>4, KillProcessStep, StopProcessStep, ContinueProcessStep
<1>5. ASSUME NEW t \in Tasks, NEW whole \in BOOLEAN, Leave(t, whole) PROVE LifeInv'
    BY <1>5, LeaveStep
<1>6. ASSUME NEW t \in Tasks, StartWait(t) \/ Exec(t) PROVE LifeInv'
    BY <1>6, StartWaitStep, ExecStep
<1>7. ASSUME NEW t \in Tasks, NEW p \in Procs, NEW u \in Tasks, Fork(t, p, u) PROVE LifeInv'
    <2>1. proc[t] \in Procs
        BY <1>7 DEF LifeInv, TypeOK, Places, Fork, Runs
    <2> QED BY <1>7, <2>1, NewProcessStep DEF Fork
<1>8. ASSUME NEW t \in Tasks, NEW u \in Tasks, AddThread(t, u) PROVE LifeInv'
    BY <1>8, AddThreadStep
<1>9. ASSUME NEW t \in Tasks, Work(t) PROVE LifeInv'
    BY <1>9, StopCountingStep, DieStep, DieLastStep, CheckStopStep, ReportStopStep, CollectStep,
       SleepOnStep, WakeUpStep, ExecGoOnStep, LeaveStep DEF Work
<1>10. CASE UNCHANGED vars
    <2>1. \A p \in Procs : Counted(p)' = Counted(p)
        BY <1>10 DEF vars, taskVars, procVars, Counted, Threads, Listed
    <2>2. LiveCounts'
        BY <1>10, <2>1 DEF LifeInv, LiveCounts, vars, procVars
    <2> QED BY <1>10, <2>2 DEF LifeInv, TypeOK, Places, LastAlone, KillNotSleptThrough,
               SleepersHome, JoinNotMissed, InCall, ReaperNotMissed, Reapable, Telling,
               Threads, Listed, vars, taskVars, procVars
<1> QED BY <1>1, <1>2, <1>3, <1>4, <1>5, <1>6, <1>7, <1>8, <1>9, <1>10
        DEF Next, Boot, Demand

\* The invariant holds in every reachable state
THEOREM LifeInvariance == Spec => []LifeInv
BY LifeInit, LifeNext, PTL DEF Spec

\* The variables have their types; in particular proc->live never goes below
\* zero
THEOREM LifeTypes == Spec => []TypeOK
<1>1. LifeInv => TypeOK
    BY DEF LifeInv
<1> QED BY <1>1, LifeInvariance, PTL

\* proc->live is the number of threads that have not left the process's
\* page tables in task_end
THEOREM LiveIsExact == Spec => []LiveCounts
<1>1. LifeInv => LiveCounts
    BY DEF LifeInv
<1> QED BY <1>1, LifeInvariance, PTL

\* A thread that has been killed does not sleep interruptibly and is not
\* stopped
THEOREM NoKillIsSleptThrough == Spec => []KillNotSleptThrough
<1>1. LifeInv => KillNotSleptThrough
    BY DEF LifeInv
<1> QED BY <1>1, LifeInvariance, PTL

\* thread_join never sleeps for a thread that has ended
THEOREM NoJoinIsMissed == Spec => []JoinNotMissed
<1>1. LifeInv => JoinNotMissed
    BY DEF LifeInv
<1> QED BY <1>1, LifeInvariance, PTL

\* The kernel's reaper never sleeps beside something to reap
THEOREM TheReaperIsTold == Spec => []ReaperNotMissed
<1>1. LifeInv => ReaperNotMissed
    BY DEF LifeInv
<1> QED BY <1>1, LifeInvariance, PTL

\* What cannot disturb it: a step that puts nobody to sleep in exec, takes no
\* thread from a count and ends no thread that is still to wake others
LEMMA ExecKept ==
    ASSUME LifeInv, ExecWaits,
           \A t \in Tasks : pc'[t] = "exec" =>
               /\ pc[t] = "exec" /\ chan'[t] = chan[t] /\ proc'[t] = proc[t]
               /\ st'[t] = "blocked" => st[t] = "blocked"
               /\ st'[t] = "blocked" => live'[proc[t]] = live[proc[t]] \/ live'[proc[t]] > 1,
           \A u \in Tasks : pc[u] = "die" /\ Listed(u) =>
               pc'[u] = "die" /\ proc'[u] = proc[u] /\ Listed(u)'
    PROVE  ExecWaits'
BY DEF ExecWaits, Threads

\* A thread that dies wakes whoever waits in its process's exec
LEMMA ExecDieStep ==
    ASSUME LifeInv, ExecWaits, NEW t \in Tasks, Die(t)
    PROVE  ExecWaits'
<1> USE LifeAssumption
<1> SUFFICES ASSUME NEW x \in Tasks, pc'[x] = "exec"
             PROVE  /\ chan'[x] = proc'[x]
                    /\ st'[x] = "blocked" =>
                          live'[proc'[x]] > 1 \/ \E u \in Threads(proc[x])' : pc'[u] = "die"
    BY DEF ExecWaits
<1>1. x # t /\ pc[x] = "exec" /\ chan'[x] = chan[x] /\ proc'[x] = proc[x] /\ live' = live
    BY DEF LifeInv, TypeOK, Die, Goto, procVars
<1>2. chan[x] = proc[x]
    BY <1>1 DEF ExecWaits
<1>3. CASE proc[x] = proc[t]
    BY <1>1, <1>2, <1>3 DEF LifeInv, TypeOK, Die, Wake
<1>4. CASE proc[x] # proc[t] /\ st'[x] = "blocked"
    <2>1. st[x] = "blocked"
        BY <1>1, <1>4 DEF LifeInv, TypeOK, Die, Wake
    <2>2. CASE live[proc[x]] > 1
        BY <1>1, <1>2, <2>2
    <2>3. ASSUME NEW u \in Threads(proc[x]), pc[u] = "die"
          PROVE  u \in Threads(proc[x])' /\ pc'[u] = "die"
        BY <1>4, <2>3 DEF LifeInv, TypeOK, Threads, Listed, Die, Wake, Goto
    <2> QED BY <1>1, <1>2, <2>1, <2>2, <2>3 DEF ExecWaits
<1> QED BY <1>1, <1>2, <1>3, <1>4

\* A thread that stops counting is still to wake whoever it leaves alone
LEMMA ExecCountStep ==
    ASSUME LifeInv, ExecWaits, NEW t \in Tasks, StopCounting(t)
    PROVE  ExecWaits'
<1> USE LifeAssumption
<1> SUFFICES ASSUME NEW x \in Tasks, pc'[x] = "exec"
             PROVE  /\ chan'[x] = proc'[x]
                    /\ st'[x] = "blocked" =>
                          live'[proc'[x]] > 1 \/ \E u \in Threads(proc[x])' : pc'[u] = "die"
    BY DEF ExecWaits
<1>1. /\ x # t /\ pc[x] = "exec" /\ chan'[x] = chan[x] /\ proc'[x] = proc[x] /\ st' = st
      /\ st[t] = "live" /\ pc[t] = "leave" /\ t # KernelTask /\ proc[t] \in Procs
    BY DEF LifeInv, TypeOK, Places, StopCounting, Goto, Runs
<1>2. chan[x] = proc[x]
    BY <1>1 DEF ExecWaits
<1>3. CASE proc[x] = proc[t] /\ st[x] = "blocked"
    <2> DEFINE C == Counted(proc[t])
    <2>1. t \in C /\ x \in C
        BY <1>1, <1>3 DEF Counted, Threads, Listed
    <2>2. IsFiniteSet(C) /\ Cardinality(C) \in Nat /\ live[proc[t]] = Cardinality(C)
        BY <1>1, CountedFinite DEF LifeInv, LiveCounts
    <2> HIDE DEF C
    <2>3. Cardinality(C \ {t}) = Cardinality(C) - 1 /\ IsFiniteSet(C \ {t})
        BY <2>1, <2>2, FS_RemoveElement
    <2>4. Cardinality(C \ {t}) # 0
        BY <1>1, <2>1, <2>3, FS_EmptySet
    <2>5. live[proc[t]] # 1
        BY <2>2, <2>3, <2>4
    <2>6. pc'[t] = "die" /\ t \in Threads(proc[x])'
        BY <1>1, <1>3, <2>5 DEF LifeInv, TypeOK, Threads, Listed, StopCounting, Goto
    <2> QED BY <1>1, <1>2, <2>6
<1>4. CASE proc[x] # proc[t] /\ st[x] = "blocked"
    <2>1. live'[proc[x]] = live[proc[x]]
        BY <1>1, <1>4 DEF LifeInv, TypeOK, StopCounting
    <2>2. ASSUME NEW u \in Threads(proc[x]), pc[u] = "die"
          PROVE  u \in Threads(proc[x])' /\ pc'[u] = "die"
        BY <1>1, <1>4, <2>2 DEF LifeInv, TypeOK, Threads, Listed, StopCounting, Goto
    <2> QED BY <1>1, <1>2, <1>4, <2>1, <2>2 DEF ExecWaits
<1> QED BY <1>1, <1>2, <1>3, <1>4

\* Every step keeps it
LEMMA ExecNext == LifeInv /\ ExecWaits /\ [Next]_vars => ExecWaits'
<1> SUFFICES ASSUME LifeInv, ExecWaits, [Next]_vars PROVE ExecWaits'
    OBVIOUS
<1> USE LifeAssumption
<1>1. ASSUME NEW p \in Procs, NEW t \in Tasks, NEW q, NewProcess(p, t, q),
             pc' = pc \/ (pc[KernelTask] = "boot" /\ Goto(KernelTask, "naming")), chan' = chan
      PROVE  ExecWaits'
    <2>1. leader[p] = None /\ t # KernelTask /\ pc[t] = "user"
        BY <1>1 DEF LifeInv, Places, NewProcess
    <2>2. \A u \in Tasks : pc[u] = "exec" => pc'[u] = "exec" /\ u # t /\ proc'[u] = proc[u]
              /\ st'[u] = st[u] /\ st[u] # "new" /\ proc[u] # p
        BY <1>1, <2>1 DEF LifeInv, TypeOK, Places, KernelLocations, NewProcess, Start, Goto
    <2> QED BY <1>1, <2>1, <2>2, ExecKept DEF LifeInv, TypeOK, Places, Listed, NewProcess, Start, Goto
<1>2. CASE Boot
    BY <1>1, <1>2, ExecKept DEF LifeInv, TypeOK, Places, Boot, SpawnInit, SetInit, Goto, procVars, Listed
<1>3. CASE Reaping
    BY <1>3, ExecKept DEF LifeInv, TypeOK, Places, Reaping, Reap, WaitForReapable, Reapable, Goto,
                          procVars, Listed
<1>4. ASSUME NEW p \in Procs, KillProcess(p) \/ StopProcess(p) \/ ContinueProcess(p)
      PROVE  ExecWaits'
    <2>1. /\ \A u \in Tasks : st'[u] = st[u] \/ (st'[u] = "live" /\ Listed(u))
          /\ UNCHANGED <<pc, chan, proc, live>>
        <3>1. CASE KillProcess(p)
            BY <3>1 DEF LifeInv, TypeOK, KillProcess, Killed, Killable, Threads, procVars
        <3>2. CASE StopProcess(p)
            BY <3>2 DEF LifeInv, TypeOK, StopProcess, Killed, Threads, procVars
        <3>3. CASE ContinueProcess(p)
            BY <3>3 DEF LifeInv, TypeOK, ContinueProcess, Threads, procVars
        <3> QED BY <1>4, <3>1, <3>2, <3>3
    <2> QED BY <2>1, ExecKept DEF Listed
<1>5. ASSUME NEW t \in Tasks, NEW whole \in BOOLEAN, Leave(t, whole) PROVE ExecWaits'
    BY <1>5, ExecKept DEF LifeInv, TypeOK, Leave, Killed, Killable, Threads, Goto, Listed
<1>6. ASSUME NEW t \in Tasks, StartWait(t) PROVE ExecWaits'
    BY <1>6, ExecKept DEF LifeInv, TypeOK, StartWait, Goto, procVars, Listed
<1>7. ASSUME NEW t \in Tasks, AloneNow(t, st), Runs(t), pc[t] \in {"user", "exec"},
             chan' = chan \/ chan' = [chan EXCEPT ![t] = None], UNCHANGED <<proc, live>>
      PROVE  ExecWaits'
    BY <1>7, ExecKept DEF LifeInv, TypeOK, AloneNow, Wake, Goto, Listed
<1>8. ASSUME NEW t \in Tasks, Exec(t) PROVE ExecWaits'
    <2>1. CASE ~(live[proc[t]] > 1)
        BY <1>7, <1>8, <2>1 DEF Exec
    <2>2. CASE live[proc[t]] > 1
        <3>1. /\ pc[t] = "user" /\ pc' = [pc EXCEPT ![t] = "exec"]
              /\ chan' = [chan EXCEPT ![t] = proc[t]] /\ UNCHANGED <<proc, live>>
              /\ \A u \in Tasks \ {t} : st'[u] = st[u] \/ (st'[u] = "live" /\ Listed(u))
            BY <1>8, <2>2 DEF LifeInv, TypeOK, Exec, Killed, Killable, Goto, Threads
        <3>2. \A u \in Tasks : \A p : u # t /\ u \in Threads(p) => u \in Threads(p)'
            BY <3>1 DEF Threads, Listed
        <3>3. \A u \in Tasks : pc[u] = "die" => u # t /\ pc'[u] = "die"
            BY <3>1 DEF LifeInv, TypeOK
        <3>4. ASSUME NEW x \in Tasks, x # t, pc[x] = "exec", st[x] = "blocked",
                     ~(live[proc[x]] > 1)
              PROVE  \E u \in Threads(proc[x])' : pc'[u] = "die"
            BY <3>1, <3>2, <3>3, <3>4 DEF ExecWaits, Threads
        <3> SUFFICES ASSUME NEW x \in Tasks, pc'[x] = "exec"
                     PROVE  /\ chan'[x] = proc'[x]
                            /\ st'[x] = "blocked" =>
                                  \/ live'[proc'[x]] > 1
                                  \/ \E u \in Threads(proc[x])' : pc'[u] = "die"
            BY DEF ExecWaits
        <3>5. CASE x = t
            BY <2>2, <3>1, <3>5 DEF LifeInv, TypeOK
        <3>6. CASE x # t
            <4>1. pc[x] = "exec" /\ chan'[x] = proc'[x] /\ proc'[x] = proc[x]
                BY <3>1, <3>6 DEF LifeInv, TypeOK, ExecWaits
            <4> QED BY <3>1, <3>4, <3>6, <4>1
        <3> QED BY <3>5, <3>6
    <2> QED BY <2>1, <2>2
<1>9. ASSUME NEW t \in Tasks, ExecGoOn(t) PROVE ExecWaits'
    <2>1. CASE ~(live[proc[t]] > 1)
        BY <1>7, <1>9, <2>1 DEF ExecGoOn
    <2>2. CASE live[proc[t]] > 1
        BY <1>9, <2>2 DEF ExecWaits, LifeInv, TypeOK, ExecGoOn, Threads, Listed, Runs
    <2> QED BY <2>1, <2>2
<1>10. ASSUME NEW t \in Tasks, NEW p \in Procs, NEW u \in Tasks, Fork(t, p, u) PROVE ExecWaits'
    BY <1>1, <1>10 DEF Fork
<1>11. ASSUME NEW t \in Tasks, NEW u \in Tasks, AddThread(t, u) PROVE ExecWaits'
    <2>1. \A x \in Tasks : pc[x] = "exec" =>
              x # u /\ (live'[proc[x]] = live[proc[x]] \/ live'[proc[x]] > 1)
        <3> SUFFICES ASSUME NEW x \in Tasks, pc[x] = "exec"
                     PROVE  x # u /\ (live'[proc[x]] = live[proc[x]] \/ live'[proc[x]] > 1)
            OBVIOUS
        <3>1. x # u /\ x # KernelTask /\ st[x] # "new" /\ proc[x] \in Procs
            BY <1>11 DEF LifeInv, TypeOK, Places, KernelLocations, AddThread
        <3>2. st[x] \notin {"zombie", "freed"}
            BY <3>1 DEF LifeInv, Places
        <3>3. x \in Counted(proc[x])
            BY <3>1, <3>2 DEF Counted, Threads, Listed, LifeInv
        <3>4. live[proc[x]] # 0 /\ live[proc[x]] \in Nat
            BY <3>1, <3>3, CountedFinite, FS_EmptySet DEF LifeInv, LiveCounts
        <3> QED BY <1>11, <3>1, <3>4 DEF LifeInv, TypeOK, AddThread
    <2> QED BY <1>11, <2>1, ExecKept DEF LifeInv, TypeOK, Places, AddThread, Start, Listed
<1>12. ASSUME NEW t \in Tasks, DieLast(t) PROVE ExecWaits'
    BY <1>12, ExecKept DEF LifeInv, TypeOK, DieLast, Wake, Goto, Listed
<1>13. ASSUME NEW t \in Tasks, CheckStop(t) \/ ReportStop(t) \/ SleepOn(t) PROVE ExecWaits'
    BY <1>13, ExecKept DEF LifeInv, TypeOK, CheckStop, StopNow, ReportStop, EndCall, SleepOn,
                           Wake, Goto, Listed, Runs
<1>14. ASSUME NEW t \in Tasks, Collect(t) PROVE ExecWaits'
    BY <1>14, ExecKept DEF LifeInv, TypeOK, Places, Collect, EndCall, Collectable, Goto, procVars, Listed
<1>15. ASSUME NEW t \in Tasks, WakeUp(t) PROVE ExecWaits'
    BY <1>15, ExecKept DEF LifeInv, TypeOK, WakeUp, Goto, procVars, Listed
<1>16. CASE UNCHANGED vars
    BY <1>16, ExecKept DEF vars, taskVars, procVars, Listed
<1>17. ASSUME NEW t \in Tasks, Work(t) PROVE ExecWaits'
    BY <1>17, <1>5, <1>9, <1>12, <1>13, <1>14, <1>15, ExecDieStep, ExecCountStep DEF Work
<1> QED BY <1>2, <1>3, <1>4, <1>5, <1>6, <1>8, <1>10, <1>11, <1>16, <1>17 DEF Next, Demand

\* exec never sleeps in sched_end_other_threads once it is alone, unless the
\* thread that left is about to wake it
THEOREM ExecIsTold == Spec => []ExecNotMissed
<1>1. Init => ExecWaits
    BY DEF Init, ExecWaits
<1>2. ExecWaits => ExecNotMissed
    BY DEF ExecWaits, ExecNotMissed
<1> QED BY <1>1, <1>2, ExecNext, LifeInvariance, PTL DEF Spec

\* Nobody sleeps through what it waits for: a thread's end, the end of all
\* others, work for the reaper, or its own death
THEOREM NobodySleepsThrough == Spec => []SleepersTold
BY ExecIsTold, NoJoinIsMissed, TheReaperIsTold, NoKillIsSleptThrough, PTL DEF SleepersTold

\* exec leaves sched_end_other_threads only when every other thread has left
\* the process's page tables, and none of them will act for the process
THEOREM ExecLeavesNobody == Spec => ExecIsAlone
<1>1. ASSUME LifeInv, [Next]_vars
      PROVE  [\A t \in Tasks : pc[t] = "exec" /\ pc'[t] = "user" =>
                 \A u \in Threads(proc[t]) \ {t} : pc[u] \in {"die", "gone"}]_vars
    <2> SUFFICES ASSUME Next, NEW t \in Tasks, pc[t] = "exec", pc'[t] = "user",
                        NEW u \in Threads(proc[t]) \ {t}
                 PROVE  pc[u] \in {"die", "gone"}
        BY <1>1
    <2> USE LifeAssumption
    <2>1. t # KernelTask /\ u \in Tasks /\ st[t] # "new"
        BY <1>1 DEF LifeInv, TypeOK, Places, KernelLocations, Threads
    <2>2. ExecGoOn(t)
        <3>1. ~Boot /\ ~Reaping
            BY <1>1, <2>1 DEF LifeInv, TypeOK, Boot, SpawnInit, SetInit, Reaping, Reap,
                              WaitForReapable, Goto
        <3>2. ~Demand
            BY <1>1, <2>1, ZenonT(60) DEF LifeInv, TypeOK, Demand, KillProcess, StopProcess, ContinueProcess,
                              Leave, StartWait, Exec, AloneNow, Fork, AddThread, Goto
        <3>3. PICK v \in Tasks : Work(v)
            BY <3>1, <3>2 DEF Next
        <3>4. v = t
            BY <1>1, <3>3 DEF LifeInv, TypeOK, Work, StopCounting, Die, DieLast, CheckStop, Leave,
               ReportStop, Collect, EndCall, SleepOn, WakeUp, ExecGoOn, AloneNow, Goto
        <3> QED BY <3>3, <3>4 DEF Work, StopCounting, Die, DieLast, CheckStop, Leave, ReportStop,
                                  Collect, SleepOn, WakeUp
    <2>3. st[t] = "live" /\ proc[t] \in Procs /\ ~(live[proc[t]] > 1)
        <3>1. st[t] = "live" /\ proc[t] \in Procs
            BY <1>1, <2>1, <2>2 DEF LifeInv, Places, ExecGoOn, Runs
        <3>2. CASE live[proc[t]] > 1
            BY <2>2, <3>2 DEF ExecGoOn
        <3> QED BY <3>1, <3>2
    <2>4. t \in Counted(proc[t])
        BY <2>3 DEF Counted, Threads, Listed, LifeInv
    <2>5. live[proc[t]] # 0
        BY <1>1, <2>3, <2>4, CountedFinite, FS_EmptySet DEF LifeInv, LiveCounts
    <2>6. u \notin Counted(proc[t])
        <3> SUFFICES ASSUME u \in Counted(proc[t]) PROVE FALSE
            OBVIOUS
        <3> DEFINE rest == Counted(proc[t]) \ {t}
        <3>1. /\ IsFiniteSet(rest) /\ Cardinality(rest) = Cardinality(Counted(proc[t])) - 1
              /\ Cardinality(Counted(proc[t])) \in Nat
            BY <2>4, CountedFinite, FS_RemoveElement
        <3>2. u \in rest
            BY DEF Threads
        <3> HIDE DEF rest
        <3>3. Cardinality(rest) # 0 /\ Cardinality(rest) \in Nat
            BY <3>1, <3>2, FS_EmptySet, FS_CardinalityType
        <3> QED BY <1>1, <2>3, <3>1, <3>3 DEF LifeInv, LiveCounts
    <2>7. pc[u] # "dielast"
        BY <1>1, <2>1, <2>5 DEF LifeInv, LastAlone, Threads
    <2> QED BY <2>6, <2>7 DEF Counted
<1> QED BY <1>1, LifeInvariance, PTL DEF Spec, ExecIsAlone

-----------------------------------------------------------------------------
(***************************************************************************)
(* Parents and children while no program has more than one thread: every   *)
(* parent is told of what waitpid promises it, and every dead process has  *)
(* somebody to collect it.  (With more threads neither holds: a parent     *)
(* whose first thread is dead may miss a child; see module ProcessLife and *)
(* the README.)                                                            *)
(***************************************************************************)

\* No program has called thread_create
SingleThreaded == \A p \in Procs : live[p] <= 1

\* Every task is the first, and only, thread of its process
OneThread ==
    /\ \A t \in Tasks : st[t] # "new" => proc[t] \in Procs /\ leader[proc[t]] = t
    /\ \A t \in Tasks : pc[t] \notin {"die", "exec"}
    /\ \A t \in Tasks : st[t] = "stopped" => pc[t] \in {"user", "look"}
    /\ \A p \in Procs : leader[p] # None => proc[leader[p]] = p /\ st[leader[p]] # "new"

\* Process p is one waitpid of process q returns for, or waits for
Expected(p, q) == p # q /\ parent[p] = q /\ Listed(leader[p]) /\ ~detached[leader[p]]

\* Nobody sleeps in waitpid with a dead child, or with WUNTRACED beside a
\* stopped one that has not been reported
FamilyTold ==
    \A t \in Tasks, p \in Procs :
        st[t] = "blocked" /\ pc[t] = "wake" /\ call[t] \in {"wait", "untraced"}
          /\ Expected(p, proc[t]) =>
            /\ st[leader[p]] # "zombie"
            /\ call[t] = "untraced" /\ st[leader[p]] = "stopped" => stop_reported[p]

\* Until PID 0 has named it, init is the only process and does nothing
Booting ==
    /\ pc[KernelTask] = "boot" => \A t \in Tasks \ {KernelTask} : st[t] = "new"
    /\ pc[KernelTask] = "naming" =>
          /\ \A t \in Tasks \ {KernelTask} :
                st[t] # "new" => pc[t] = "user" /\ parent[proc[t]] = Kernel
          /\ \A t, u \in Tasks \ {KernelTask} : st[t] # "new" /\ st[u] # "new" => t = u
    /\ pc[KernelTask] \in {"boot", "naming"} => init_task = None

\* Whoever is named as init is alive
InitLives ==
    init_task # None =>
        /\ init_task # KernelTask /\ st[init_task] \notin {"new", "zombie", "freed"}
        /\ parent[proc[init_task]] = Kernel

\* Every process is the reaper's, or the child of one that is alive
Kept ==
    \A p \in Procs \ {Kernel} : Listed(leader[p]) =>
        \/ detached[leader[p]]
        \/ pc[KernelTask] = "naming"
        \/ /\ parent[p] \in Procs \ {Kernel, p} /\ leader[parent[p]] # None
           /\ pc[leader[parent[p]]] # "gone"

OrphanInv == Booting /\ InitLives /\ Kept

-----------------------------------------------------------------------------
(* One thread in each process.                                             *)

\* The threads of a process are its first one
LEMMA OnlyThread ==
    ASSUME LifeInv, OneThread, NEW p \in Procs
    PROVE  /\ \A t \in Threads(p) : t = leader[p]
           /\ Listed(leader[p]) => Threads(p) = {leader[p]}
BY LifeAssumption DEF LifeInv, TypeOK, OneThread, Threads, Listed

\* It counts until the second section of its task_end
LEMMA LiveOfOne ==
    ASSUME LifeInv, OneThread, NEW t \in Tasks, Listed(t)
    PROVE  live[proc[t]] = IF pc[t] \in {"dielast", "gone"} THEN 0 ELSE 1
<1> DEFINE p == proc[t]
<1>1. p \in Procs /\ leader[p] = t
    BY DEF OneThread, Listed
<1>2. Threads(p) = {t}
    BY <1>1, OnlyThread
<1>3. live[p] = Cardinality(Counted(p))
    BY <1>1 DEF LifeInv, LiveCounts
<1>4. CASE pc[t] \in {"dielast", "gone"}
    <2>1. Counted(p) = {}
        BY <1>2, <1>4 DEF Counted
    <2> QED BY <1>3, <1>4, <2>1, FS_EmptySet
<1>5. CASE pc[t] \notin {"dielast", "gone"}
    <2>1. Counted(p) = {t}
        BY <1>2, <1>5 DEF Counted, OneThread
    <2> QED BY <1>3, <1>5, <2>1, FS_Singleton
<1> QED BY <1>4, <1>5

\* A step that adds a thread ends the condition
LEMMA NoSecondThread ==
    ASSUME LifeInv, OneThread, SingleThreaded', NEW t \in Tasks, NEW u \in Tasks, AddThread(t, u)
    PROVE  FALSE
<1>1. st[t] = "live" /\ pc[t] = "user" /\ Listed(t) /\ proc[t] \in Procs
    BY LifeAssumption DEF AddThread, Runs, Listed, OneThread
<1>2. live'[proc[t]] = 2
    BY <1>1, LiveOfOne DEF AddThread, LifeInv, TypeOK
<1>3. proc'[t] = proc[t]
    BY <1>1 DEF AddThread, Start, LifeInv, TypeOK
<1> QED BY <1>1, <1>2, <1>3 DEF SingleThreaded

\* exec finds itself alone at once
LEMMA ExecAlone ==
    ASSUME LifeInv, OneThread, NEW t \in Tasks, Exec(t)
    PROVE  UNCHANGED <<st, proc, pc, call, leader, parent, detached, stop_reported, init_task>>
<1> USE LifeAssumption
<1>1. /\ st[t] = "live" /\ pc[t] = "user" /\ Listed(t) /\ proc[t] \in Procs
      /\ leader[proc[t]] = t
    BY DEF Exec, Runs, Listed, OneThread
<1>2. ~(live[proc[t]] > 1)
    BY <1>1, LiveOfOne
<1>3. Threads(proc[t]) \ {t} = {}
    BY <1>1, OnlyThread
<1>4. AloneNow(t, st) /\ UNCHANGED <<proc, call, parent, stop_reported, init_task>>
    BY <1>2 DEF Exec
<1> QED BY <1>1, <1>3, <1>4 DEF AloneNow, Goto, Flagged, LifeInv, TypeOK

\* While nobody asks for a second thread there is none
LEMMA OneThreadNext ==
    ASSUME LifeInv, OneThread, SingleThreaded', [Next]_vars
    PROVE  OneThread'
<1> USE LifeAssumption
<1>1. ASSUME NEW p \in Procs, NEW t \in Tasks, NEW q, NewProcess(p, t, q),
             pc' = pc \/ (pc[KernelTask] = "boot" /\ Goto(KernelTask, "naming"))
      PROVE  OneThread'
    <2>1. t # KernelTask /\ st[t] = "new" /\ leader[p] = None
        BY <1>1 DEF LifeInv, Places, NewProcess
    <2>2. \A u \in Tasks \ {t} : st'[u] = st[u] /\ proc'[u] = proc[u]
        BY <1>1 DEF LifeInv, TypeOK, NewProcess, Start
    <2>3. \A r \in Procs \ {p} : leader'[r] = leader[r]
        BY <1>1 DEF LifeInv, TypeOK, NewProcess
    <2>4. st'[t] = "live" /\ proc'[t] = p /\ leader'[p] = t
        BY <1>1 DEF LifeInv, TypeOK, NewProcess, Start
    <2>5. \A u \in Tasks : pc'[u] = pc[u] \/ (u = KernelTask /\ pc'[u] = "naming")
        BY <1>1 DEF LifeInv, TypeOK, Goto
    <2>6. st[KernelTask] # "stopped" /\ \A r \in Procs : leader[r] # t
        BY <2>1 DEF LifeInv, Places, OneThread
    <2> QED BY <2>1, <2>2, <2>3, <2>4, <2>5, <2>6 DEF OneThread, LifeInv, TypeOK
<1>2. ASSUME UNCHANGED <<proc, leader>>,
             \A u \in Tasks : st'[u] = "new" <=> st[u] = "new",
             \A u \in Tasks : pc'[u] = pc[u] \/ pc'[u] \notin {"die", "exec"},
             \A u \in Tasks : st'[u] = "stopped" => pc'[u] \in {"user", "look"}
      PROVE  OneThread'
    BY <1>2 DEF OneThread, LifeInv, TypeOK
<1>3. CASE Boot
    <2>1. CASE \E p \in Procs, t \in Tasks : SpawnInit(p, t)
        <3>1. PICK p \in Procs, t \in Tasks : SpawnInit(p, t)
            BY <2>1
        <3>2. /\ NewProcess(p, t, Kernel)
              /\ pc[KernelTask] = "boot" /\ Goto(KernelTask, "naming")
            BY <3>1 DEF SpawnInit
        <3> QED BY <1>1, <3>2
    <2>2. CASE SetInit
        <3>1. UNCHANGED <<proc, leader, st>> /\ Goto(KernelTask, "reap")
            BY <2>2 DEF SetInit, procVars
        <3>2. \A u \in Tasks : pc'[u] = pc[u] \/ (u = KernelTask /\ pc'[u] = "reap")
            BY <3>1 DEF LifeInv, TypeOK, Goto
        <3>3. st[KernelTask] # "stopped"
            BY DEF LifeInv, Places
        <3> QED BY <1>2, <3>1, <3>2, <3>3 DEF OneThread
    <2> QED BY <1>3, <2>1, <2>2 DEF Boot
<1>4. CASE Reaping
    BY <1>2, <1>4 DEF OneThread, LifeInv, TypeOK, Places, Reaping, Reap, Reapable, WaitForReapable,
                      Goto, procVars
<1>5. ASSUME NEW p \in Procs, KillProcess(p) PROVE OneThread'
    BY <1>2, <1>5 DEF OneThread, LifeInv, TypeOK, KillProcess, Killed, Killable, procVars
<1>6. ASSUME NEW p \in Procs, StopProcess(p) PROVE OneThread'
    BY <1>2, <1>6 DEF OneThread, LifeInv, TypeOK, StopProcess, Killed, procVars
<1>7. ASSUME NEW p \in Procs, ContinueProcess(p) PROVE OneThread'
    BY <1>2, <1>7 DEF OneThread, LifeInv, TypeOK, ContinueProcess, procVars
<1>8. ASSUME NEW t \in Tasks, NEW whole \in BOOLEAN, Leave(t, whole) PROVE OneThread'
    BY <1>2, <1>8 DEF OneThread, LifeInv, TypeOK, Leave, Killed, Killable, Goto, Runs
<1>9. ASSUME NEW t \in Tasks, StartWait(t) \/ WakeUp(t) \/ ReportStop(t) PROVE OneThread'
    BY <1>2, <1>9 DEF OneThread, LifeInv, TypeOK, StartWait, WakeUp, ReportStop, EndCall, Goto, Runs,
                      procVars
<1>10. ASSUME NEW t \in Tasks, NEW u \in Tasks, AddThread(t, u) PROVE FALSE
    BY <1>10, NoSecondThread
<1>11. ASSUME NEW t \in Tasks, Exec(t) PROVE OneThread'
    BY <1>2, <1>11, ExecAlone DEF OneThread, LifeInv, TypeOK
<1>12. ASSUME NEW t \in Tasks, Die(t) \/ ExecGoOn(t) PROVE FALSE
    BY <1>12 DEF Die, ExecGoOn, OneThread
<1>13. ASSUME NEW t \in Tasks, StopCounting(t) PROVE OneThread'
    <2>1. st[t] = "live" /\ pc[t] = "leave" /\ Listed(t)
        BY <1>13 DEF StopCounting, Runs, Listed
    <2>2. live[proc[t]] = 1
        BY <2>1, LiveOfOne
    <2> QED BY <1>2, <1>13, <2>1, <2>2 DEF OneThread, LifeInv, TypeOK, StopCounting, Goto
<1>14. ASSUME NEW t \in Tasks, DieLast(t) PROVE OneThread'
    BY <1>2, <1>14 DEF OneThread, LifeInv, TypeOK, DieLast, Wake, Goto, Runs
<1>15. ASSUME NEW t \in Tasks, CheckStop(t) PROVE OneThread'
    BY <1>2, <1>15 DEF OneThread, LifeInv, TypeOK, CheckStop, StopNow, Wake, Runs
<1>16. ASSUME NEW t \in Tasks, SleepOn(t) PROVE OneThread'
    BY <1>2, <1>16 DEF OneThread, LifeInv, TypeOK, SleepOn, StopNow, Wake, Goto, Runs
<1>17. ASSUME NEW t \in Tasks, Collect(t) PROVE OneThread'
    BY <1>2, <1>17 DEF OneThread, LifeInv, TypeOK, Places, Collect, Collectable, EndCall, Goto, Runs, procVars
<1>18. CASE UNCHANGED vars
    BY <1>2, <1>18 DEF OneThread, vars, taskVars, procVars
<1>19. ASSUME NEW t \in Tasks, NEW p \in Procs, NEW u \in Tasks, Fork(t, p, u) PROVE OneThread'
    BY <1>1, <1>19 DEF Fork
<1>20. ASSUME NEW t \in Tasks, Work(t) PROVE OneThread'
    BY <1>8, <1>9, <1>12, <1>13, <1>14, <1>15, <1>16, <1>17, <1>20 DEF Work
<1> QED BY <1>3, <1>4, <1>5, <1>6, <1>7, <1>8, <1>9, <1>10, <1>11, <1>18, <1>19, <1>20
        DEF Next, Demand
-----------------------------------------------------------------------------
(* Parents are told.                                                       *)

\* What cannot make anybody miss a child: a step in which nobody starts to
\* wait, dies, stops, or gets another parent
LEMMA ToldQuietly ==
    ASSUME LifeInv, OneThread, FamilyTold,
           UNCHANGED <<proc, leader, parent>>,
           \A t \in Tasks : st'[t] = "blocked" /\ pc'[t] = "wake" =>
               st[t] = "blocked" /\ pc[t] = "wake" /\ call'[t] = call[t],
           \A t \in Tasks : st'[t] \in {"zombie", "stopped"} => st'[t] = st[t],
           \A t \in Tasks : st[t] \in {"new", "freed"} => st'[t] = st[t],
           \A t \in Tasks : detached[t] => detached'[t],
           \A p \in Procs : stop_reported[p] => stop_reported'[p]
    PROVE  FamilyTold'
<1> SUFFICES ASSUME NEW t \in Tasks, NEW p \in Procs,
                    st'[t] = "blocked", pc'[t] = "wake", call'[t] \in {"wait", "untraced"},
                    p # proc[t], parent[p] = proc[t], leader[p] # None,
                    st'[leader[p]] \notin {"new", "freed"}, ~detached'[leader[p]]
             PROVE  /\ st'[leader[p]] # "zombie"
                    /\ call'[t] = "untraced" /\ st'[leader[p]] = "stopped" => stop_reported'[p]
    BY DEF FamilyTold, Expected, Listed
<1>1. leader[p] \in Tasks
    BY LifeAssumption DEF LifeInv, TypeOK
<1>2. Expected(p, proc[t])
    BY <1>1 DEF Expected, Listed
<1> QED BY <1>1, <1>2 DEF FamilyTold

\* Whoever dies or stops wakes its parent, and whoever is given away its new one
LEMMA ToldByEnds ==
    ASSUME LifeInv, OneThread, FamilyTold, NEW t \in Tasks, DieLast(t)
    PROVE  FamilyTold'
<1> USE LifeAssumption
<1> SUFFICES ASSUME NEW x \in Tasks, NEW p \in Procs,
                    st'[x] = "blocked", pc'[x] = "wake", call'[x] \in {"wait", "untraced"},
                    Expected(p, proc[x])'
             PROVE  /\ st'[leader[p]] # "zombie"
                    /\ call'[x] = "untraced" /\ st'[leader[p]] = "stopped" => stop_reported'[p]
    BY DEF FamilyTold, DieLast
<1>1. /\ UNCHANGED <<proc, leader, call, stop_reported>> /\ x # t /\ x # KernelTask
      /\ st[t] = "live" /\ t # KernelTask
    BY DEF DieLast, LifeInv, TypeOK, Places, KernelLocations, Runs, Goto
<1>2. st[x] = "blocked" /\ pc[x] = "wake" /\ chan[x] = proc[x] /\ proc[x] \in Procs /\ leader[proc[x]] = x
    BY <1>1 DEF DieLast, LifeInv, TypeOK, SleepersHome, OneThread, Wake, Goto
<1>3. leader[p] \in Tasks /\ p # proc[x] /\ parent'[p] = proc[x]
    BY <1>1 DEF Expected, Listed, LifeInv, TypeOK
<1>4. CASE parent'[p] # parent[p]
    \* p has been adopted: its new parent has been woken
    BY <1>1, <1>2, <1>3, <1>4 DEF DieLast, LifeInv, TypeOK, Wake
<1>5. CASE p = proc[t] /\ parent'[p] = parent[p]
    <2>1. parent[p] # None /\ Listed(leader[parent[p]])
        BY <1>2, <1>3, <1>5 DEF Listed
    <2> QED BY <1>1, <1>2, <1>3, <1>5, <2>1 DEF DieLast, LifeInv, TypeOK, Wake
<1>6. CASE p # proc[t] /\ parent'[p] = parent[p]
    <2>1. leader[p] # t
        BY <1>1, <1>3, <1>6 DEF OneThread
    <2>2. st'[leader[p]] \in {"zombie", "stopped"} => st'[leader[p]] = st[leader[p]]
        BY <1>3, <2>1 DEF DieLast, LifeInv, TypeOK, Wake
    <2>3. Listed(leader[p]) /\ ~detached[leader[p]]
        BY <1>1, <1>3, <2>1 DEF DieLast, LifeInv, TypeOK, Wake, Expected, Listed
    <2>4. Expected(p, proc[x])
        BY <1>3, <1>6, <2>3 DEF Expected
    <2> QED BY <1>1, <1>2, <2>2, <2>4 DEF FamilyTold
<1> QED BY <1>4, <1>5, <1>6

LEMMA ToldByStops ==
    ASSUME LifeInv, OneThread, FamilyTold, NEW t \in Tasks, Runs(t), pc[t] \in {"user", "look"},
           StopNow(t), UNCHANGED <<proc, pc, call, leader, parent, detached>>
    PROVE  FamilyTold'
<1> USE LifeAssumption
<1> SUFFICES ASSUME NEW x \in Tasks, NEW p \in Procs,
                    st'[x] = "blocked", pc[x] = "wake", call[x] \in {"wait", "untraced"},
                    p # proc[x], parent[p] = proc[x], leader[p] # None,
                    st'[leader[p]] \notin {"new", "freed"}, ~detached[leader[p]]
             PROVE  /\ st'[leader[p]] # "zombie"
                    /\ call[x] = "untraced" /\ st'[leader[p]] = "stopped" => stop_reported'[p]
    BY DEF FamilyTold, Expected, Listed
<1>1. /\ t # KernelTask /\ st[t] = "live" /\ x # t /\ leader[p] \in Tasks
      /\ proc[t] \in Procs /\ leader[proc[t]] = t
    BY DEF Runs, OneThread, LifeInv, TypeOK
<1>2. st[x] = "blocked" /\ chan[x] = proc[x] /\ proc[x] \in Procs /\ leader[proc[x]] = x
    BY <1>1 DEF StopNow, LifeInv, TypeOK, Places, KernelLocations, SleepersHome, OneThread, Wake
<1>3. CASE p = proc[t]
    <2>1. live[p] = 1 /\ Threads(p) = {t}
        BY <1>1, <1>3, LiveOfOne, OnlyThread DEF Listed
    <2>2. AllStopped(p, [st EXCEPT ![t] = "stopped"])
        BY <2>1 DEF AllStopped, LifeInv, TypeOK
    <2>3. parent[p] # None /\ Listed(leader[parent[p]])
        BY <1>2 DEF Listed
    <2> QED BY <1>1, <1>2, <1>3, <2>2, <2>3 DEF StopNow, LifeInv, TypeOK, Wake
<1>4. CASE p # proc[t]
    <2>1. leader[p] # t
        BY <1>1, <1>4 DEF OneThread
    <2>2. st'[leader[p]] \in {"zombie", "stopped"} => st'[leader[p]] = st[leader[p]]
        BY <1>1, <2>1 DEF StopNow, LifeInv, TypeOK, Wake
    <2>3. Expected(p, proc[x])
        BY <1>1, <2>1 DEF StopNow, LifeInv, TypeOK, Wake, Expected, Listed
    <2>4. stop_reported'[p] = stop_reported[p]
        BY <1>4 DEF StopNow, LifeInv, TypeOK
    <2> QED BY <1>2, <2>2, <2>3, <2>4 DEF FamilyTold
<1> QED BY <1>3, <1>4

\* Whoever goes to sleep in waitpid has looked
LEMMA ToldBeforeSleep ==
    ASSUME LifeInv, OneThread, FamilyTold, NEW t \in Tasks, SleepOn(t), ~kill[t], ~stop[t]
    PROVE  FamilyTold'
<1> USE LifeAssumption
<1>1. /\ st' = [st EXCEPT ![t] = "blocked"] /\ pc' = [pc EXCEPT ![t] = "wake"]
      /\ UNCHANGED <<proc, leader, parent, detached, call, stop_reported>>
      /\ st[t] = "live" /\ pc[t] = "look" /\ NothingYet(t) /\ t # KernelTask
    BY DEF SleepOn, Goto, Runs
<1> SUFFICES ASSUME NEW x \in Tasks, NEW p \in Procs,
                    st'[x] = "blocked", pc'[x] = "wake", call[x] \in {"wait", "untraced"},
                    p # proc[x], parent[p] = proc[x], leader[p] # None,
                    st'[leader[p]] \notin {"new", "freed"}, ~detached[leader[p]]
             PROVE  /\ st'[leader[p]] # "zombie"
                    /\ call[x] = "untraced" /\ st'[leader[p]] = "stopped" => stop_reported[p]
    BY <1>1 DEF FamilyTold, Expected, Listed
<1>2. leader[p] \in Tasks /\ proc[leader[p]] = p
    BY DEF LifeInv, TypeOK, OneThread
<1>3. Expected(p, proc[x])
    BY <1>1, <1>2 DEF LifeInv, TypeOK, Expected, Listed
<1>4. st'[leader[p]] \in {"zombie", "stopped"} => st'[leader[p]] = st[leader[p]]
    BY <1>1, <1>2 DEF LifeInv, TypeOK
<1>5. CASE x # t
    BY <1>1, <1>3, <1>4, <1>5 DEF FamilyTold, LifeInv, TypeOK
<1>6. CASE x = t
    <2>1. p \in Waitable(t)
        BY <1>3, <1>6 DEF Waitable, Children, Expected
    <2>2. ~Collectable(p) /\ (call[t] = "untraced" => ~StopNews(p))
        BY <1>1, <1>6, <2>1 DEF NothingYet
    <2>3. Listed(leader[p]) /\ Threads(p) = {leader[p]}
        BY <1>3, OnlyThread DEF Expected
    <2>4. st[leader[p]] = "zombie" => live[p] = 0
        BY <1>2, <2>3, LiveOfOne DEF LifeInv, Places
    <2>5. st[leader[p]] = "stopped" => live[p] = 1
        BY <1>2, <2>3, LiveOfOne DEF OneThread
    <2>6. st[leader[p]] = "stopped" => AllStopped(p, st)
        BY <2>3, <2>5 DEF AllStopped
    <2> QED BY <1>4, <1>6, <2>2, <2>4, <2>6 DEF Collectable, StopNews
<1> QED BY <1>5, <1>6

\* Every step keeps it
LEMMA ToldNext ==
    ASSUME LifeInv, OneThread, FamilyTold, SingleThreaded', [Next]_vars
    PROVE  FamilyTold'
<1> USE LifeAssumption
<1>1. ASSUME NEW p \in Procs, NEW t \in Tasks, NEW q, NewProcess(p, t, q),
             pc' = pc \/ (pc[KernelTask] = "boot" /\ Goto(KernelTask, "naming")),
             UNCHANGED <<call, stop_reported>>
      PROVE  FamilyTold'
    <2>1. t # KernelTask /\ st[t] = "new" /\ leader[p] = None /\ pc[t] = "user"
        BY <1>1 DEF LifeInv, Places, NewProcess
    <2>2. st'[t] = "live" /\ leader'[p] = t
        BY <1>1 DEF LifeInv, TypeOK, NewProcess, Start
    <2> SUFFICES ASSUME NEW x \in Tasks, NEW r \in Procs,
                        st'[x] = "blocked", pc'[x] = "wake", call[x] \in {"wait", "untraced"},
                        Expected(r, proc[x])'
                 PROVE  /\ st'[leader'[r]] # "zombie"
                        /\ call[x] = "untraced" /\ st'[leader'[r]] = "stopped" => stop_reported[r]
        BY <1>1 DEF FamilyTold
    <2>3. CASE r = p
        BY <2>2, <2>3
    <2>4. CASE r # p
        <3>1. x # t /\ st[x] = "blocked" /\ pc[x] = "wake" /\ proc'[x] = proc[x]
            BY <1>1, <2>2 DEF LifeInv, TypeOK, NewProcess, Start, Goto
        <3>2. leader'[r] = leader[r] /\ parent'[r] = parent[r] /\ leader[r] # t
            BY <1>1, <2>1, <2>4 DEF LifeInv, TypeOK, NewProcess, OneThread
        <3>3. st'[leader[r]] = st[leader[r]] /\ detached'[leader[r]] = detached[leader[r]]
              /\ leader[r] \in Tasks
            BY <1>1, <3>2 DEF LifeInv, TypeOK, NewProcess, Start, Expected, Listed
        <3>4. Expected(r, proc[x])
            BY <3>1, <3>2, <3>3 DEF Expected, Listed
        <3> QED BY <3>1, <3>2, <3>3, <3>4 DEF FamilyTold
    <2> QED BY <2>3, <2>4
<1>3. CASE Boot
    BY <1>1, <1>3, ToldQuietly DEF LifeInv, TypeOK, Places, Boot, SpawnInit, SetInit, Goto, procVars
<1>4. CASE Reaping
    BY <1>4, ToldQuietly DEF LifeInv, TypeOK, Places, Reaping, Reap, Reapable, WaitForReapable,
                             Goto, procVars
<1>5. ASSUME NEW p \in Procs, KillProcess(p) PROVE FamilyTold'
    BY <1>5, ToldQuietly DEF LifeInv, TypeOK, KillProcess, Killed, Killable, procVars
<1>6. ASSUME NEW p \in Procs, StopProcess(p) PROVE FamilyTold'
    BY <1>6, ToldQuietly DEF LifeInv, TypeOK, StopProcess, Killed, procVars
<1>7. ASSUME NEW p \in Procs, ContinueProcess(p) PROVE FamilyTold'
    BY <1>7, ToldQuietly DEF LifeInv, TypeOK, ContinueProcess, procVars
<1>8. ASSUME NEW t \in Tasks, NEW whole \in BOOLEAN, Leave(t, whole) PROVE FamilyTold'
    BY <1>8, ToldQuietly DEF LifeInv, TypeOK, Leave, Killed, Killable, Goto, Runs
<1>9. ASSUME NEW t \in Tasks, StartWait(t) \/ WakeUp(t) \/ ReportStop(t) PROVE FamilyTold'
    BY <1>9, ToldQuietly DEF LifeInv, TypeOK, StartWait, WakeUp, ReportStop, EndCall, Goto, Runs,
                             procVars
<1>10. ASSUME NEW t \in Tasks, NEW u \in Tasks, AddThread(t, u) PROVE FALSE
    BY <1>10, NoSecondThread
<1>11. ASSUME NEW t \in Tasks, Exec(t) PROVE FamilyTold'
    BY <1>11, ExecAlone, ToldQuietly DEF LifeInv, TypeOK
<1>12. ASSUME NEW t \in Tasks, Die(t) \/ ExecGoOn(t) PROVE FALSE
    BY <1>12 DEF Die, ExecGoOn, OneThread
<1>13. ASSUME NEW t \in Tasks, StopCounting(t) PROVE FamilyTold'
    BY <1>13, ToldQuietly DEF LifeInv, TypeOK, StopCounting, Goto
<1>15. ASSUME NEW t \in Tasks, CheckStop(t) PROVE FamilyTold'
    BY <1>15, ToldByStops DEF CheckStop
<1>16. ASSUME NEW t \in Tasks, SleepOn(t) PROVE FamilyTold'
    <2>1. CASE kill[t]
        BY <1>16, <2>1, ToldQuietly DEF LifeInv, TypeOK, SleepOn, Goto
    <2>2. CASE ~kill[t] /\ stop[t]
        BY <1>16, <2>2, ToldByStops DEF SleepOn
    <2> QED BY <1>16, <2>1, <2>2, ToldBeforeSleep
<1>17. ASSUME NEW t \in Tasks, Collect(t) PROVE FamilyTold'
    BY <1>17, ToldQuietly DEF LifeInv, TypeOK, Places, Collect, Collectable, EndCall, Goto, Runs, procVars
<1>18. CASE UNCHANGED vars
    BY <1>18, ToldQuietly DEF vars, taskVars, procVars
<1>19. ASSUME NEW t \in Tasks, NEW p \in Procs, NEW u \in Tasks, Fork(t, p, u) PROVE FamilyTold'
    BY <1>1, <1>19 DEF Fork
<1>20. ASSUME NEW t \in Tasks, Work(t) PROVE FamilyTold'
    BY <1>8, <1>9, <1>12, <1>13, <1>15, <1>16, <1>17, <1>20, ToldByEnds DEF Work
<1> QED BY <1>3, <1>4, <1>5, <1>6, <1>7, <1>8, <1>9, <1>10, <1>11, <1>18, <1>19, <1>20
        DEF Next, Demand

\* It is what waitpid promises
LEMMA ToldIsTold == LifeInv /\ OneThread /\ FamilyTold => ParentsTold
<1> SUFFICES ASSUME LifeInv, OneThread, FamilyTold, NEW t \in Tasks,
                    InCall(t, "wait") \/ InCall(t, "untraced"), NEW p \in Waitable(t)
             PROVE  ~Collectable(p) /\ (InCall(t, "untraced") => ~StopNews(p))
    BY DEF ParentsTold, ChildNotMissed, StopNotMissed
<1>1. p \in Procs /\ Expected(p, proc[t])
    BY DEF Waitable, Children, Expected
<1>2. /\ st[leader[p]] # "zombie"
      /\ call[t] = "untraced" /\ st[leader[p]] = "stopped" => stop_reported[p]
    BY <1>1 DEF FamilyTold, InCall
<1>3. Threads(p) = {leader[p]}
    BY <1>1, OnlyThread DEF Expected
<1> QED BY <1>2, <1>3 DEF Collectable, StopNews, AllStopped, InCall

\* While no program has a second thread, no parent sleeps in waitpid beside a
\* child it could collect, or (with WUNTRACED) beside a stopped one it has not
\* heard of
THEOREM ParentsAreTold == Spec /\ []SingleThreaded => []ParentsTold
<1>1. Init => OneThread /\ FamilyTold
    BY LifeAssumption DEF Init, OneThread, FamilyTold
<1>2. LifeInv /\ OneThread /\ FamilyTold /\ SingleThreaded' /\ [Next]_vars
        => OneThread' /\ FamilyTold'
    BY OneThreadNext, ToldNext
<1> QED BY <1>1, <1>2, ToldIsTold, LifeInvariance, PTL DEF Spec

-----------------------------------------------------------------------------
(* Orphans are kept.                                                       *)

\* What cannot orphan anybody: a step in which nobody is born, dies or is
\* given to another parent
LEMMA KeptQuietly ==
    ASSUME LifeInv, OneThread, OrphanInv,
           UNCHANGED <<proc, leader, parent, init_task>>,
           \A t \in Tasks : pc'[t] = "gone" => pc[t] = "gone",
           \A t \in Tasks : st'[t] \in {"zombie", "freed"} => st[t] \in {"zombie", "freed"},
           \A t \in Tasks : st[t] \in {"new", "freed"} => st'[t] = st[t],
           \A t \in Tasks : st'[t] = "new" => st[t] = "new",
           \A t \in Tasks : detached[t] => detached'[t],
           pc' = pc \/ {pc[KernelTask], pc'[KernelTask]} \cap {"boot", "naming"} = {}
    PROVE  OrphanInv'
<1> USE LifeAssumption
<1>1. Booting'
    BY DEF OrphanInv, Booting, LifeInv, TypeOK
<1>2. InitLives'
    BY DEF OrphanInv, InitLives, LifeInv, TypeOK
<1>3. Kept'
    <2> SUFFICES ASSUME NEW p \in Procs \ {Kernel}, leader[p] # None,
                        st'[leader[p]] \notin {"new", "freed"}, ~detached'[leader[p]],
                        pc'[KernelTask] # "naming"
                 PROVE  /\ parent[p] \in Procs \ {Kernel, p} /\ leader[parent[p]] # None
                        /\ pc'[leader[parent[p]]] # "gone"
        BY DEF Kept, Listed
    <2>1. leader[p] \in Tasks
        BY DEF LifeInv, TypeOK
    <2>2. Listed(leader[p]) /\ ~detached[leader[p]] /\ pc[KernelTask] # "naming"
        BY <2>1 DEF Listed
    <2>3. /\ parent[p] \in Procs \ {Kernel, p} /\ leader[parent[p]] # None
          /\ pc[leader[parent[p]]] # "gone"
        BY <2>2 DEF OrphanInv, Kept
    <2> QED BY <2>3 DEF LifeInv, TypeOK
<1> QED BY <1>1, <1>2, <1>3 DEF OrphanInv

\* PID 0 starts init
LEMMA KeptBySpawn ==
    ASSUME LifeInv, OneThread, OrphanInv, NEW p \in Procs, NEW t \in Tasks, SpawnInit(p, t)
    PROVE  OrphanInv'
<1> USE LifeAssumption
<1>1. /\ t # KernelTask /\ st[t] = "new" /\ pc[t] = "user" /\ pc[KernelTask] = "boot"
      /\ leader[p] = None
    BY DEF LifeInv, Places, SpawnInit, NewProcess
<1>2. /\ st' = [st EXCEPT ![t] = "live"] /\ pc' = [pc EXCEPT ![KernelTask] = "naming"]
      /\ proc'[t] = p /\ parent'[p] = Kernel /\ init_task' = init_task
    BY DEF LifeInv, TypeOK, SpawnInit, NewProcess, Start, Goto
<1>3. \A u \in Tasks \ {KernelTask, t} : st'[u] = "new"
    BY <1>1, <1>2 DEF OrphanInv, Booting, LifeInv, TypeOK
<1>4. init_task' = None
    BY <1>1, <1>2 DEF OrphanInv, Booting
<1> QED BY <1>1, <1>2, <1>3, <1>4 DEF OrphanInv, Booting, InitLives, Kept, LifeInv, TypeOK

\* ... and names it
LEMMA KeptByNaming ==
    ASSUME LifeInv, OneThread, OrphanInv, SetInit
    PROVE  OrphanInv'
<1> USE LifeAssumption
<1>1. PICK p \in Procs : /\ p # Kernel /\ parent[p] = Kernel /\ Listed(leader[p])
                         /\ init_task' = leader[p]
                         /\ detached' = [detached EXCEPT ![leader[p]] = TRUE]
    BY DEF SetInit
<1>2. /\ pc[KernelTask] = "naming" /\ pc' = [pc EXCEPT ![KernelTask] = "reap"]
      /\ UNCHANGED <<st, proc, leader, parent>>
    BY DEF SetInit, Goto, procVars
<1>3. leader[p] \in Tasks /\ proc[leader[p]] = p /\ leader[p] # KernelTask
    BY <1>1 DEF LifeInv, TypeOK, Places, OneThread, Listed
<1>4. pc[leader[p]] = "user" /\ st[leader[p]] \notin {"new", "zombie", "freed"}
    BY <1>1, <1>2, <1>3 DEF OrphanInv, Booting, Listed, LifeInv, Places
<1>5. \A t \in Tasks \ {KernelTask} : st[t] # "new" => t = leader[p]
    BY <1>2, <1>3, <1>4 DEF OrphanInv, Booting
<1>6. InitLives'
    BY <1>1, <1>2, <1>3, <1>4 DEF InitLives
<1>7. Kept'
    <2> SUFFICES ASSUME NEW q \in Procs \ {Kernel}, Listed(leader[q])
                 PROVE  detached'[leader[q]]
        BY <1>2 DEF Kept, Listed
    <2>1. leader[q] \in Tasks \ {KernelTask} /\ st[leader[q]] # "new"
        BY DEF LifeInv, TypeOK, Places, OneThread, Listed
    <2> QED BY <1>1, <1>5, <2>1 DEF LifeInv, TypeOK
<1>8. Booting'
    BY <1>2 DEF Booting, LifeInv, TypeOK
<1> QED BY <1>6, <1>7, <1>8 DEF OrphanInv

\* A child is its creator's
LEMMA KeptByFork ==
    ASSUME LifeInv, OneThread, OrphanInv, ~Overtaken,
           NEW t \in Tasks, NEW p \in Procs, NEW u \in Tasks, Fork(t, p, u)
    PROVE  OrphanInv'
<1> USE LifeAssumption
<1>1. /\ t # KernelTask /\ st[t] = "live" /\ pc[t] = "user" /\ st[u] = "new" /\ leader[p] = None
      /\ pc[KernelTask] # "naming" /\ proc[t] \in Procs \ {Kernel} /\ leader[proc[t]] = t
    BY DEF Fork, Runs, NewProcess, OneThread, LifeInv, Places
<1>2. pc[KernelTask] # "boot" /\ u # KernelTask /\ u # t
    BY <1>1 DEF OrphanInv, Booting, LifeInv, Places
<1>3. /\ leader' = [leader EXCEPT ![p] = u] /\ parent' = [parent EXCEPT ![p] = proc[t]]
      /\ \A x \in Tasks \ {u} : st'[x] = st[x] /\ proc'[x] = proc[x] /\ detached'[x] = detached[x]
      /\ UNCHANGED <<pc, init_task>>
    BY DEF Fork, NewProcess, Start, LifeInv, TypeOK
<1>4. Booting'
    BY <1>1, <1>2, <1>3 DEF Booting
<1>5. InitLives'
    <2> SUFFICES ASSUME init_task # None
                 PROVE  /\ init_task # KernelTask /\ st'[init_task] \notin {"new", "zombie", "freed"}
                        /\ parent'[proc'[init_task]] = Kernel
        BY <1>3 DEF InitLives
    <2>1. /\ init_task \in Tasks \ {KernelTask, u} /\ st[init_task] \notin {"new", "zombie", "freed"}
          /\ parent[proc[init_task]] = Kernel
        BY <1>1 DEF OrphanInv, InitLives, LifeInv, TypeOK
    <2>2. proc[init_task] \in Procs /\ proc[init_task] # p
        BY <1>1, <2>1 DEF OneThread
    <2> QED BY <1>3, <2>1, <2>2 DEF LifeInv, TypeOK
<1>6. Kept'
    <2> SUFFICES ASSUME NEW q \in Procs \ {Kernel}, Listed(leader[q])', ~detached'[leader'[q]]
                 PROVE  /\ parent'[q] \in Procs \ {Kernel, q} /\ leader'[parent'[q]] # None
                        /\ pc[leader'[parent'[q]]] # "gone"
        BY <1>3 DEF Kept
    <2>1. CASE q = p
        BY <1>1, <1>3, <2>1 DEF LifeInv, TypeOK
    <2>2. CASE q # p
        <3>1. leader'[q] = leader[q] /\ parent'[q] = parent[q] /\ leader[q] # u
            BY <1>1, <1>3, <2>2 DEF LifeInv, TypeOK, OneThread
        <3>2. Listed(leader[q]) /\ ~detached[leader[q]]
            BY <1>3, <3>1 DEF LifeInv, TypeOK, Listed
        <3>3. /\ parent[q] \in Procs \ {Kernel, q} /\ leader[parent[q]] # None
              /\ pc[leader[parent[q]]] # "gone"
            BY <1>1, <3>2 DEF OrphanInv, Kept
        <3> QED BY <1>1, <1>3, <3>1, <3>3 DEF LifeInv, TypeOK
    <2> QED BY <2>1, <2>2
<1> QED BY <1>4, <1>5, <1>6 DEF OrphanInv

\* Who dies leaves its children to init, if there is one, and otherwise to
\* the reaper
LEMMA KeptByDeath ==
    ASSUME LifeInv, OneThread, OrphanInv, ~Overtaken, NEW t \in Tasks, DieLast(t)
    PROVE  OrphanInv'
<1> USE LifeAssumption
<1> DEFINE p == proc[t]
<1>1. /\ t # KernelTask /\ st[t] = "live" /\ pc[t] = "dielast" /\ pc[KernelTask] # "naming"
      /\ p \in Procs \ {Kernel} /\ leader[p] = t /\ pc' = [pc EXCEPT ![t] = "gone"]
      /\ UNCHANGED <<proc, leader>>
    BY DEF DieLast, Runs, OneThread, LifeInv, Places, Goto
<1>2. pc[KernelTask] \notin {"boot", "naming"} /\ pc'[KernelTask] = pc[KernelTask]
    BY <1>1 DEF OrphanInv, Booting, LifeInv, TypeOK
<1>3. PICK was \in IsInit(p) :
        LET init == IF was THEN None ELSE init_task
            adopted == Children(p) # {} /\ init # None
        IN /\ init_task' = init
           /\ parent' = [q \in Procs |-> IF adopted /\ q \in Children(p)
                                         THEN proc[init] ELSE parent[q]]
           /\ detached' = [u \in Tasks |->
                 \/ detached[u]
                 \/ u \in Threads(p) /\ leader[p] # u
                 \/ init = None /\ \E q \in Children(p) : leader[q] = u]
    BY DEF DieLast
<1>4. init_task # None =>
        /\ init_task \in Tasks \ {KernelTask} /\ st[init_task] \notin {"new", "zombie", "freed"}
        /\ proc[init_task] \in Procs \ {Kernel} /\ leader[proc[init_task]] = init_task
        /\ parent[proc[init_task]] = Kernel /\ pc[init_task] # "gone"
    BY DEF OrphanInv, InitLives, LifeInv, TypeOK, Places, OneThread
<1>5. init_task # None => was = (init_task = t)
    BY <1>1, <1>3, <1>4 DEF IsInit
<1>6. init_task' # None => init_task' = init_task /\ init_task # None /\ init_task # t
    BY <1>3, <1>5
<1>7. Booting'
    BY <1>2 DEF Booting
<1>8. InitLives'
    <2> SUFFICES ASSUME init_task' # None
                 PROVE  /\ init_task # KernelTask /\ st'[init_task] \notin {"new", "zombie", "freed"}
                        /\ parent'[proc[init_task]] = Kernel
        BY <1>1, <1>6 DEF InitLives
    <2>1. st'[init_task] \notin {"new", "zombie", "freed"}
        BY <1>4, <1>6 DEF DieLast, Wake, LifeInv, TypeOK
    <2>2. proc[init_task] \notin Children(p)
        BY <1>1, <1>4, <1>6 DEF Children
    <2> QED BY <1>3, <1>4, <1>6, <2>1, <2>2
<1>9. Kept'
    <2> SUFFICES ASSUME NEW q \in Procs \ {Kernel}, Listed(leader[q])', ~detached'[leader[q]]
                 PROVE  /\ parent'[q] \in Procs \ {Kernel, q} /\ leader[parent'[q]] # None
                        /\ pc'[leader[parent'[q]]] # "gone"
        BY <1>1 DEF Kept
    <2>1. leader[q] \in Tasks
        BY <1>1 DEF Listed, LifeInv, TypeOK
    <2>2. Listed(leader[q])
        BY <1>1, <2>1 DEF Listed, DieLast, Wake, LifeInv, TypeOK
    <2>3. ~detached[leader[q]]
        BY <1>3, <2>1
    <2>4. /\ parent[q] \in Procs \ {Kernel, q} /\ leader[parent[q]] # None
          /\ pc[leader[parent[q]]] # "gone"
        BY <1>2, <2>2, <2>3 DEF OrphanInv, Kept
    <2>5. CASE parent[q] = p
        <3>1. q \in Children(p)
            BY <2>2, <2>4, <2>5 DEF Children
        <3>2. init_task' # None
            BY <1>3, <2>1, <3>1
        <3>3. parent'[q] = proc[init_task] /\ q # proc[init_task]
            BY <1>1, <1>3, <1>4, <1>6, <2>5, <3>1, <3>2
        <3> QED BY <1>1, <1>4, <1>6, <3>2, <3>3 DEF LifeInv, TypeOK
    <2>6. CASE parent[q] # p
        <3>1. parent'[q] = parent[q]
            BY <1>3, <2>6 DEF Children
        <3>2. leader[parent[q]] # t
            BY <1>1, <2>4, <2>6 DEF OneThread
        <3> QED BY <1>1, <2>4, <3>1, <3>2 DEF LifeInv, TypeOK
    <2> QED BY <2>5, <2>6
<1> QED BY <1>7, <1>8, <1>9 DEF OrphanInv

\* Every step keeps it
LEMMA KeptNext ==
    ASSUME LifeInv, OneThread, OrphanInv, ~Overtaken, SingleThreaded', [Next]_vars
    PROVE  OrphanInv'
<1> USE LifeAssumption
<1>1. ASSUME NEW t \in Tasks, Runs(t) PROVE pc[KernelTask] \notin {"boot", "naming"} /\ t # KernelTask
    BY <1>1 DEF Runs, OrphanInv, Booting
<1>3. CASE Boot
    BY <1>3, KeptBySpawn, KeptByNaming DEF Boot
<1>4. CASE Reaping
    BY <1>4, KeptQuietly DEF LifeInv, TypeOK, Places, Reaping, Reap, Reapable, WaitForReapable,
                             Goto, procVars
<1>5. ASSUME NEW p \in Procs, KillProcess(p) PROVE OrphanInv'
    BY <1>5, KeptQuietly DEF LifeInv, TypeOK, KillProcess, Killed, Killable, procVars
<1>6. ASSUME NEW p \in Procs, StopProcess(p) PROVE OrphanInv'
    BY <1>6, KeptQuietly DEF LifeInv, TypeOK, StopProcess, Killed, procVars
<1>7. ASSUME NEW p \in Procs, ContinueProcess(p) PROVE OrphanInv'
    BY <1>7, KeptQuietly DEF LifeInv, TypeOK, ContinueProcess, procVars
<1>8. ASSUME NEW t \in Tasks, NEW whole \in BOOLEAN, Leave(t, whole) PROVE OrphanInv'
    BY <1>1, <1>8, KeptQuietly DEF LifeInv, TypeOK, Leave, Killed, Killable, Goto
<1>9. ASSUME NEW t \in Tasks, StartWait(t) \/ WakeUp(t) \/ ReportStop(t) PROVE OrphanInv'
    BY <1>1, <1>9, KeptQuietly DEF LifeInv, TypeOK, StartWait, WakeUp, ReportStop, EndCall, Goto,
                                   procVars
<1>11. ASSUME NEW t \in Tasks, Exec(t) PROVE OrphanInv'
    BY <1>11, ExecAlone, KeptQuietly
<1>12. ASSUME NEW t \in Tasks, Die(t) \/ ExecGoOn(t) PROVE FALSE
    BY <1>12 DEF Die, ExecGoOn, OneThread
<1>13. ASSUME NEW t \in Tasks, StopCounting(t) PROVE OrphanInv'
    BY <1>1, <1>13, KeptQuietly DEF LifeInv, TypeOK, StopCounting, Goto
<1>15. ASSUME NEW t \in Tasks, CheckStop(t) PROVE OrphanInv'
    BY <1>1, <1>15, KeptQuietly DEF LifeInv, TypeOK, CheckStop, StopNow, Wake, Runs
<1>16. ASSUME NEW t \in Tasks, SleepOn(t) PROVE OrphanInv'
    BY <1>1, <1>16, KeptQuietly DEF LifeInv, TypeOK, SleepOn, StopNow, Wake, Goto, Runs
<1>17. ASSUME NEW t \in Tasks, Collect(t) PROVE OrphanInv'
    BY <1>1, <1>17, KeptQuietly DEF LifeInv, TypeOK, Places, Collect, Collectable, EndCall, Goto, procVars
<1>18. CASE UNCHANGED vars
    BY <1>18, KeptQuietly DEF vars, taskVars, procVars
<1>20. ASSUME NEW t \in Tasks, Work(t) PROVE OrphanInv'
    BY <1>8, <1>9, <1>12, <1>13, <1>15, <1>16, <1>17, <1>20, KeptByDeath DEF Work
<1> QED BY <1>3, <1>4, <1>5, <1>6, <1>7, <1>8, <1>9, <1>11, <1>18, <1>20, KeptByFork,
           NoSecondThread DEF Next, Demand

\* While no program has a second thread, and init is named before it runs, a
\* dead process is always somebody's to collect and init_task points at a task
\* that exists
THEOREM OrphansAreKept ==
    ASSUME ~Overtaken
    PROVE  Spec /\ []SingleThreaded => []OrphansKept
<1>1. Init => OneThread /\ OrphanInv
    BY LifeAssumption DEF Init, OneThread, OrphanInv, Booting, InitLives, Kept, Listed
<1>2. LifeInv /\ OneThread /\ OrphanInv /\ SingleThreaded' /\ [Next]_vars
        => OneThread' /\ OrphanInv'
    BY OneThreadNext, KeptNext
<1>3. LifeInv /\ OneThread /\ OrphanInv => OrphansKept
    <2> SUFFICES ASSUME LifeInv, OneThread, OrphanInv PROVE OrphansKept
        OBVIOUS
    <2>1. InitTaskValid
        BY DEF OrphanInv, InitLives, InitTaskValid
    <2>2. NobodyForgotten
        <3> SUFFICES ASSUME NEW p \in Procs \ {Kernel}, Listed(leader[p]), ~detached[leader[p]],
                            pc[KernelTask] # "naming"
                     PROVE  parent[p] # Kernel /\ \E u \in Threads(parent[p]) : pc[u] # "gone"
            BY DEF NobodyForgotten
        <3>1. /\ parent[p] \in Procs \ {Kernel, p} /\ leader[parent[p]] # None
              /\ pc[leader[parent[p]]] # "gone"
            BY DEF OrphanInv, Kept
        <3>2. leader[parent[p]] \in Threads(parent[p])
            BY <3>1, LifeAssumption DEF LifeInv, TypeOK, Places, OneThread, Threads, Listed
        <3> QED BY <3>1, <3>2
    <2> QED BY <2>1, <2>2 DEF OrphansKept
<1> QED BY <1>1, <1>2, <1>3, LifeInvariance, PTL DEF Spec

=============================================================================
