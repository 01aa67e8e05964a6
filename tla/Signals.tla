------------------------------ MODULE Signals ------------------------------
(***************************************************************************)
(* Signals of one process with several threads: src/kernel/proc/signal.c,  *)
(* the sleep and safe points of src/kernel/sched/sched.c and the system    *)
(* call exit of src/kernel/syscall/syscall.c that act on them.             *)
(*                                                                         *)
(* One step is one hold of the scheduler lock.  A thread is in "user"      *)
(* code, "asleep" in a restartable call, "awake" in that call's wait loop, *)
(* at the "exit" to user code, "stopped", or "dead".  The program's        *)
(* handlers run to their end without changing the mask.                    *)
(***************************************************************************)
EXTENDS Naturals, Sequences

CONSTANTS
    SigThreads,     \* the threads, in the order of the task list
    HandlerMask,    \* the sa_mask the program gives with its handlers
    SigCalls,       \* bound: signals sent and system calls made
    SigDepth        \* bound: handlers on one stack

SignalsAssumption == SigThreads \subseteq Nat \ {0} /\ SigCalls \in Nat /\ SigDepth \in Nat

\* The signals the model tells apart, by what they do by default
KILL == "KILL"
STOP == "STOP"
CONT == "CONT"
TSTP == "TSTP"
TERM == "TERM"
StopSignals == {STOP, TSTP}
Catchable == {CONT, TSTP, TERM}

\* The order in which they are looked at: by number
SigOrder == <<TERM, CONT, TSTP>>

VARIABLES
    at,         \* where each thread is
    blockedSet, \* sig_blocked
    pendingSet, \* sig_pending
    killP,      \* kill_pending
    stopP,      \* stop_pending
    stopFrom,   \* where a stopped thread goes on
    result,     \* what the call a thread is leaving returns: "ok", "EINTR" or "none" (an interrupt)
    sigFrames,  \* the frames on the user stack, the last entered first
    action,     \* sig_handlers: "DFL", "IGN", "fn", or "fnr" (SA_RESTART)
    asked,      \* ghost: the mask the program itself last asked for, per thread
    lastJob,    \* ghost: the last of STOP and CONT sent
    sigCount

sigVars == <<at, blockedSet, pendingSet, killP, stopP, stopFrom, result, sigFrames, action, asked, lastJob, sigCount>>

SigInit ==
    /\ at = [t \in SigThreads |-> "user"]
    /\ blockedSet = [t \in SigThreads |-> {}] /\ pendingSet = [t \in SigThreads |-> {}]
    /\ killP = [t \in SigThreads |-> FALSE] /\ stopP = [t \in SigThreads |-> FALSE]
    /\ stopFrom = [t \in SigThreads |-> "none"] /\ result = [t \in SigThreads |-> "none"]
    /\ sigFrames = [t \in SigThreads |-> <<>>]
    /\ action = [s \in Catchable |-> "DFL"]
    /\ asked = [t \in SigThreads |-> {}]
    /\ lastJob = "none" /\ sigCount = 0

Counted == sigCount < SigCalls /\ sigCount' = sigCount + 1

IsHandler(a) == a \in {"fn", "fnr"}
Ignored(s, a) == a = "IGN" \/ (a = "DFL" /\ s = CONT)
Deliverable(t, pend, blk) == pend[t] \ blk[t] # {}

-----------------------------------------------------------------------------
(* What sending does to every thread of the process.  The five functions   *)
(* of thread state it works on travel as one record.                       *)

Task == [at |-> at, pend |-> pendingSet, kill |-> killP, stop |-> stopP]

Alive(w, t) == w.at[t] # "dead"

\* wake_task: a sleeper looks at its condition again, a stopped thread goes on.
Woken(w, t) ==
    IF w.at[t] = "asleep" THEN "awake" ELSE IF w.at[t] = "stopped" THEN stopFrom[t] ELSE w.at[t]

request_kill(w) ==
    [w EXCEPT !.kill = [t \in SigThreads |-> @[t] \/ Alive(w, t)],
              !.stop = [t \in SigThreads |-> @[t] /\ (w.kill[t] \/ ~ Alive(w, t))],
              !.at = [t \in SigThreads |-> IF w.kill[t] THEN @[t] ELSE Woken(w, t)]]

\* sched_request_stop passes over a thread that is stopped, dead or being killed.
request_stop(w) ==
    LET Told(t) == w.at[t] \notin {"dead", "stopped"} /\ ~ w.kill[t] IN
    [w EXCEPT !.stop = [t \in SigThreads |-> @[t] \/ Told(t)],
              !.at = [t \in SigThreads |-> IF Told(t) THEN Woken(w, t) ELSE @[t]]]


continue_threads(w) ==
    [w EXCEPT !.stop = [t \in SigThreads |-> FALSE],
              !.at = [t \in SigThreads |-> IF @[t] = "stopped" THEN Woken(w, t) ELSE @[t]]]

drop_pending(w, sigs) == [w EXCEPT !.pend = [t \in SigThreads |-> @[t] \ sigs]]

\* sched_interrupt_sleep
interrupt_sleep(w, t) == [w EXCEPT !.at[t] = IF @ = "asleep" THEN "awake" ELSE @]

\* Act on signal s, ready for thread t, with disposition a.
act_on(w, t, s, a) ==
    LET taken == [w EXCEPT !.pend[t] = @ \ {s}] IN
    IF IsHandler(a) THEN interrupt_sleep(w, t)
    ELSE IF Ignored(s, a) THEN taken
    ELSE IF s \in StopSignals THEN request_stop(taken)
    ELSE request_kill(taken)

\* act_on_pending of thread t: signal by signal, in order.
act_on_pending(w, t, blk, acts) ==
    LET ready == w.pend[t] \ blk[t]
        One(v, s) == IF s \in ready THEN act_on(v, t, s, acts[s]) ELSE v
    IN  One(One(One(w, TERM), CONT), TSTP)

\* receiver: the first thread if it does not block s, else the first that
\* does not, else the first alive, else none (0).
receiver(w, s) ==
    LET live == {t \in SigThreads : Alive(w, t)}
        open == {t \in live : s \notin blockedSet[t]}
        first(S) == CHOOSE t \in S : \A u \in S : t <= u IN
    IF open # {} THEN first(open) ELSE IF live # {} THEN first(live) ELSE 0

\* Give signal s to thread t.
Give(w, s, t) == act_on_pending([w EXCEPT !.pend[t] = @ \union {s}], t, blockedSet, action)

\* signal_send_locked
signal_send(w, s) ==
    LET jobbed == IF s = CONT THEN continue_threads(drop_pending(w, StopSignals))
                  ELSE IF s \in StopSignals THEN drop_pending(w, {CONT}) ELSE w
    IN  IF s = KILL THEN request_kill(w)
        ELSE IF s = STOP THEN request_stop(jobbed)
        ELSE IF Ignored(s, action[s]) \/ receiver(jobbed, s) = 0 THEN jobbed
        ELSE Give(jobbed, s, receiver(jobbed, s))

Becomes(w) == at' = w.at /\ pendingSet' = w.pend /\ killP' = w.kill /\ stopP' = w.stop

Send(s) ==
    /\ \E t \in SigThreads : at[t] # "dead"
    /\ Counted
    /\ Becomes(signal_send(Task, s))
    /\ lastJob' = IF s \in {STOP, CONT} THEN s ELSE IF s \in StopSignals THEN "none" ELSE lastJob
    /\ UNCHANGED <<blockedSet, stopFrom, result, sigFrames, action, asked>>

-----------------------------------------------------------------------------
(* System calls of the program                                             *)

InUser(t) == at[t] = "user" /\ ~ killP[t]

\* signal_set_action: one that is now ignored has nothing left to deliver.
SetAction(t, s, a) ==
    /\ InUser(t) /\ Counted /\ action[s] # a
    /\ action' = [action EXCEPT ![s] = a]
    /\ Becomes([IF Ignored(s, a) THEN drop_pending(Task, {s}) ELSE Task EXCEPT !.at[t] = "exit"])
    /\ result' = [result EXCEPT ![t] = "ok"]
    /\ UNCHANGED <<blockedSet, stopFrom, sigFrames, asked, lastJob>>

\* signal_change_mask: what was held back may now be due.
Mask(t, set) == act_on_pending(Task, t, [blockedSet EXCEPT ![t] = set], action)

ChangeMask(t, set) ==
    /\ InUser(t) /\ sigFrames[t] = <<>> /\ Counted
    /\ blockedSet' = [blockedSet EXCEPT ![t] = set] /\ asked' = [asked EXCEPT ![t] = set]
    /\ Becomes([Mask(t, set) EXCEPT !.at[t] = "exit"])
    /\ result' = [result EXCEPT ![t] = "ok"]
    /\ UNCHANGED <<stopFrom, sigFrames, action, lastJob>>

\* A restartable call (read of an empty pipe) enters its wait loop.
Call(t) ==
    /\ InUser(t) /\ Counted
    /\ at' = [at EXCEPT ![t] = "awake"]
    /\ UNCHANGED <<blockedSet, pendingSet, killP, stopP, stopFrom, result, sigFrames, action, asked, lastJob>>

\* stop_current
StopHere(t, from) ==
    /\ stopP' = [stopP EXCEPT ![t] = FALSE]
    /\ at' = [at EXCEPT ![t] = "stopped"] /\ stopFrom' = [stopFrom EXCEPT ![t] = from]
    /\ UNCHANGED <<blockedSet, pendingSet, killP, result, sigFrames, action, asked, lastJob, sigCount>>

\* task_exit_status of a process: every thread is to die; this one does.
Die(t) ==
    /\ Becomes([request_kill(Task) EXCEPT !.at[t] = "dead", !.pend[t] = {}])
    /\ UNCHANGED <<blockedSet, stopFrom, result, sigFrames, action, asked, lastJob, sigCount>>

Leave(t, r) ==
    /\ at' = [at EXCEPT ![t] = "exit"] /\ result' = [result EXCEPT ![t] = r]
    /\ UNCHANGED <<blockedSet, pendingSet, killP, stopP, stopFrom, sigFrames, action, asked, lastJob, sigCount>>

\* The wait loop: the condition holds, or the wait is given up with EINTR.
Ready(t) == at[t] = "awake" /\ ~ killP[t] /\ Leave(t, "ok")
Interrupted(t) == at[t] = "awake" /\ Deliverable(t, pendingSet, blockedSet) /\ Leave(t, "EINTR")

\* Mutant of MaySleep: signals were looked at before the lock only.
SleepAnyway(t) == ~ killP[t] /\ ~ stopP[t]

\* sleep_on under the scheduler lock: die, stop, return at once, or sleep.
MaySleep(t) == ~ killP[t] /\ ~ stopP[t] /\ ~ Deliverable(t, pendingSet, blockedSet)

Sleep(t) ==
    /\ at[t] = "awake"
    /\ \/ killP[t] /\ Die(t)
       \/ ~ killP[t] /\ stopP[t] /\ StopHere(t, "awake")
       \/ /\ MaySleep(t)
          /\ at' = [at EXCEPT ![t] = "asleep"]
          /\ UNCHANGED <<blockedSet, pendingSet, killP, stopP, stopFrom, result, sigFrames, action, asked, lastJob, sigCount>>

\* What it waited for happens: the waker makes it look again.
Wake(t) ==
    /\ at[t] = "asleep"
    /\ at' = [at EXCEPT ![t] = "awake"]
    /\ UNCHANGED <<blockedSet, pendingSet, killP, stopP, stopFrom, result, sigFrames, action, asked, lastJob, sigCount>>

\* An interrupt while the thread runs user code leads to the same safe point.
Interrupt(t) ==
    /\ at[t] = "user" /\ (Deliverable(t, pendingSet, blockedSet) \/ killP[t] \/ stopP[t])
    /\ Leave(t, "none")

-----------------------------------------------------------------------------
(* The safe point: sched_check_kill, then signal_deliver                   *)

\* The mask while the handler of s runs
HandlerBlocks(set, s) == set \union HandlerMask \union {s}


\* The frame saved for the handler: the mask to go back to, and whether the
\* call is to be made again.
Frame(t, s) == [sig |-> s, blocked |-> blockedSet[t], again |-> action[s] = "fnr" /\ result[t] = "EINTR"]

Lowest(S) == CHOOSE s \in S : \A u \in S : \E i, j \in 1 .. Len(SigOrder) :
                 SigOrder[i] = s /\ SigOrder[j] = u /\ i <= j

signal_deliver(t) ==
    LET ready == pendingSet[t] \ blockedSet[t]
        s == Lowest(ready) IN
    IF ready = {}
    THEN /\ at' = [at EXCEPT ![t] = "user"]
         /\ UNCHANGED <<blockedSet, pendingSet, killP, stopP, sigFrames>>
    ELSE IF IsHandler(action[s])
    THEN /\ Len(sigFrames[t]) < SigDepth
         /\ at' = [at EXCEPT ![t] = "user"]
         /\ pendingSet' = [pendingSet EXCEPT ![t] = @ \ {s}]
         /\ sigFrames' = [sigFrames EXCEPT ![t] = <<Frame(t, s)>> \o @]
         /\ blockedSet' = [blockedSet EXCEPT ![t] = HandlerBlocks(@, s)]
         /\ UNCHANGED <<killP, stopP>>
    ELSE \* Its disposition changed since it was sent
         LET taken == [Task EXCEPT !.pend[t] = @ \ {s}] IN
         /\ Becomes(IF Ignored(s, action[s]) \/ s \in StopSignals
                    THEN [taken EXCEPT !.at[t] = "user"]
                    ELSE [request_kill(taken) EXCEPT !.at[t] = "dead", !.pend[t] = {}])
         /\ UNCHANGED <<blockedSet, sigFrames>>

SafePoint(t) ==
    /\ at[t] = "exit"
    /\ \/ killP[t] /\ Die(t)
       \/ ~ killP[t] /\ stopP[t] /\ StopHere(t, "exit")
       \/ /\ ~ killP[t] /\ ~ stopP[t]
          /\ signal_deliver(t)
          /\ result' = [result EXCEPT ![t] = "none"]
          /\ UNCHANGED <<stopFrom, action, asked, lastJob, sigCount>>

\* signal_return: the frame's mask comes back, and with it what it held back;
\* then the interrupted code, or the call it is to make again.
SigReturn(t) ==
    LET f == Head(sigFrames[t]) IN
    /\ InUser(t) /\ sigFrames[t] # <<>>
    /\ sigFrames' = [sigFrames EXCEPT ![t] = Tail(@)]
    /\ blockedSet' = [blockedSet EXCEPT ![t] = f.blocked]
    /\ Becomes([Mask(t, f.blocked) EXCEPT !.at[t] = IF f.again THEN "awake" ELSE "exit"])
    /\ UNCHANGED <<stopFrom, result, action, asked, lastJob, sigCount>>

\* thread_exit: the thread is gone, and what was pending for it.
ThreadExit(t) ==
    /\ InUser(t) /\ \E u \in SigThreads \ {t} : at[u] # "dead"
    /\ Becomes([Task EXCEPT !.at[t] = "dead", !.pend[t] = {}, !.stop[t] = FALSE])
    /\ UNCHANGED <<blockedSet, stopFrom, result, sigFrames, action, asked, lastJob, sigCount>>

\* exec, once the other threads are gone: handlers go back to the default,
\* which what is pending then has; the mask stays, the stack does not.
Exec(t) ==
    LET acts == [s \in Catchable |-> IF action[s] = "IGN" THEN "IGN" ELSE "DFL"] IN
    /\ InUser(t) /\ \A u \in SigThreads \ {t} : at[u] = "dead"
    /\ Counted
    /\ action' = acts
    /\ Becomes([act_on_pending(Task, t, blockedSet, acts) EXCEPT !.at[t] = "exit"])
    /\ sigFrames' = [sigFrames EXCEPT ![t] = <<>>]
    /\ asked' = [asked EXCEPT ![t] = blockedSet[t]]
    /\ UNCHANGED <<blockedSet, stopFrom, result, lastJob>>

SigNext ==
    \/ \E s \in Catchable \union {KILL, STOP} : Send(s)
    \/ \E t \in SigThreads :
        \/ \E s \in Catchable, a \in {"DFL", "IGN", "fn", "fnr"} : SetAction(t, s, a)
        \/ \E set \in {{}, {TERM}, {TSTP}} : ChangeMask(t, set)
        \/ Call(t) \/ Ready(t) \/ Interrupted(t) \/ Sleep(t) \/ Wake(t) \/ Interrupt(t)
        \/ SafePoint(t) \/ SigReturn(t) \/ ThreadExit(t) \/ Exec(t)

SigSpec == SigInit /\ [][SigNext]_sigVars

-----------------------------------------------------------------------------
(* Properties                                                              *)

\* A signal that is to be acted on is never slept through: whoever sends it,
\* or unblocks it, the sleeper is awake before it is due.
SignalNotSleptThrough ==
    \A t \in SigThreads : at[t] = "asleep" =>
        ~ killP[t] /\ ~ stopP[t] /\ ~ Deliverable(t, pendingSet, blockedSet)

\* Handlers nest and unnest cleanly: below every unfinished handler lies the
\* mask it interrupted, the lowest of them the program's own; no handler
\* interrupts a handler of the same signal.
HandlersNest ==
    \A t \in SigThreads : at[t] # "dead" =>
        LET fs == sigFrames[t]
            mask(i) == IF i > Len(fs) THEN asked[t] ELSE HandlerBlocks(fs[i].blocked, fs[i].sig) IN
        /\ blockedSet[t] = mask(1)
        /\ \A i \in 1 .. Len(fs) : fs[i].blocked = mask(i + 1)
        /\ \A i, j \in 1 .. Len(fs) : fs[i].sig = fs[j].sig => i = j

\* Stopping and continuing cancel each other in every thread: after SIGCONT
\* nothing of an earlier stop is left, and after SIGSTOP no SIGCONT waits.
StopAndContinueCancel ==
    \A t \in SigThreads :
        /\ lastJob = CONT => at[t] # "stopped" /\ ~ stopP[t] /\ TSTP \notin pendingSet[t]
        /\ lastJob = STOP => CONT \notin pendingSet[t]
=============================================================================
