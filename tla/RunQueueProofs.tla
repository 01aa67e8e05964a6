--------------------------- MODULE RunQueueProofs ---------------------------
(***************************************************************************)
(* Proofs about RunQueue, for every number of CPUs and every set of tasks. *)
(***************************************************************************)
EXTENDS RunQueue, TLAPS

-----------------------------------------------------------------------------
(* Queues as sequences.                                                    *)

\* rq_push adds the task and nothing else, and keeps the tasks distinct
LEMMA AppendFacts ==
    ASSUME NEW T, NEW q \in Seq(T), NEW t \in T
    PROVE  /\ Append(q, t) \in Seq(T)
           /\ \A x : In(x, Append(q, t)) <=> In(x, q) \/ x = t
           /\ Distinct(q) /\ ~In(t, q) => Distinct(Append(q, t))
<1> DEFINE p == Append(q, t)
<1>1. /\ p \in Seq(T) /\ Len(p) = Len(q) + 1 /\ p[Len(q) + 1] = t
      /\ \A i \in 1 .. Len(q) : p[i] = q[i]
      /\ Len(q) \in Nat
    OBVIOUS
<1> HIDE DEF p
<1>2. \A x : In(x, p) <=> In(x, q) \/ x = t
    BY <1>1 DEF In
<1>3. Distinct(q) /\ ~In(t, q) => Distinct(p)
    <2> SUFFICES ASSUME Distinct(q), ~In(t, q),
                        NEW i \in 1 .. Len(p), NEW j \in 1 .. Len(p), p[i] = p[j]
                 PROVE  i = j
        BY DEF Distinct
    <2>1. CASE i \in 1 .. Len(q) /\ j \in 1 .. Len(q)
        BY <1>1, <2>1 DEF Distinct
    <2>2. CASE i = Len(q) + 1 /\ j \in 1 .. Len(q)
        BY <1>1, <2>2 DEF In
    <2>3. CASE j = Len(q) + 1 /\ i \in 1 .. Len(q)
        BY <1>1, <2>3 DEF In
    <2>4. CASE i = Len(q) + 1 /\ j = Len(q) + 1
        BY <2>4
    <2> QED BY <1>1, <2>1, <2>2, <2>3, <2>4
<1> QED BY <1>1, <1>2, <1>3 DEF p

\* rq_unlink takes out the task at its place and no other
LEMMA UnlinkFacts ==
    ASSUME NEW T, NEW q \in Seq(T), NEW i \in 1 .. Len(q), Distinct(q)
    PROVE  /\ Unlink(q, i) \in Seq(T)
           /\ \A x : In(x, Unlink(q, i)) <=> In(x, q) /\ x # q[i]
           /\ Distinct(Unlink(q, i))
<1> DEFINE p == Unlink(q, i)
<1>1. Len(q) \in Nat /\ Len(q) - 1 \in Nat /\ \A k \in 1 .. Len(q) : q[k] \in T
    OBVIOUS
<1>2. \A k \in 1 .. Len(q) - 1 : (IF k < i THEN q[k] ELSE q[k + 1]) \in T
    BY <1>1
<1>3. p \in Seq(T) /\ Len(p) = Len(q) - 1
    BY <1>1, <1>2 DEF Unlink
<1>4. \A k \in 1 .. Len(q) - 1 : p[k] = IF k < i THEN q[k] ELSE q[k + 1]
    BY <1>1 DEF Unlink
<1> HIDE DEF p
<1>5. ASSUME NEW x, In(x, p) PROVE In(x, q) /\ x # q[i]
    <2>1. PICK k \in 1 .. Len(p) : p[k] = x
        BY <1>5 DEF In
    <2>2. CASE k < i
        BY <2>1, <2>2, <1>1, <1>3, <1>4 DEF In, Distinct
    <2>3. CASE ~(k < i)
        <3>1. x = q[k + 1] /\ k + 1 \in 1 .. Len(q) /\ k + 1 # i
            BY <2>1, <2>3, <1>1, <1>3, <1>4
        <3> QED BY <3>1 DEF In, Distinct
    <2> QED BY <2>2, <2>3
<1>6. ASSUME NEW x, In(x, q), x # q[i] PROVE In(x, p)
    <2>1. PICK k \in 1 .. Len(q) : q[k] = x
        BY <1>6 DEF In
    <2>2. CASE k < i
        BY <2>1, <2>2, <1>1, <1>3, <1>4 DEF In
    <2>3. CASE k > i
        <3>1. k - 1 \in 1 .. Len(q) - 1 /\ ~(k - 1 < i) /\ (k - 1) + 1 = k
            BY <2>3, <1>1
        <3>2. p[k - 1] = x
            BY <3>1, <2>1, <1>4
        <3> QED BY <3>1, <3>2, <1>3 DEF In
    <2> QED BY <2>1, <2>2, <2>3, <1>6, <1>1
<1>7. Distinct(p)
    <2> SUFFICES ASSUME NEW j \in 1 .. Len(p), NEW k \in 1 .. Len(p), p[j] = p[k]
                 PROVE  j = k
        BY DEF Distinct
    <2>1. p[j] = (IF j < i THEN q[j] ELSE q[j + 1])
        BY <1>3, <1>4
    <2>2. p[k] = (IF k < i THEN q[k] ELSE q[k + 1])
        BY <1>3, <1>4
    <2>3. /\ j \in 1 .. Len(q) /\ k \in 1 .. Len(q)
          /\ j + 1 \in 1 .. Len(q) /\ k + 1 \in 1 .. Len(q)
        BY <1>1, <1>3
    <2>4. CASE j < i /\ k < i
        BY <2>1, <2>2, <2>3, <2>4 DEF Distinct
    <2>5. CASE j < i /\ ~(k < i)
        <3>1. j = k + 1
            BY <2>1, <2>2, <2>3, <2>5 DEF Distinct
        <3> QED BY <3>1, <2>5, <2>3, <1>1
    <2>6. CASE ~(j < i) /\ k < i
        <3>1. k = j + 1
            BY <2>1, <2>2, <2>3, <2>6 DEF Distinct
        <3> QED BY <3>1, <2>6, <2>3, <1>1
    <2>7. CASE ~(j < i) /\ ~(k < i)
        <3>1. j + 1 = k + 1
            BY <2>1, <2>2, <2>3, <2>7 DEF Distinct
        <3> QED BY <3>1
    <2> QED BY <2>4, <2>5, <2>6, <2>7
<1> QED BY <1>3, <1>5, <1>6, <1>7 DEF p

\* A step that only moves CPU c along, between places where it holds the same
\* locks and on the same side of the switch
LEMMA ControlStep ==
    ASSUME IInv, NEW c \in Cpus, NEW l \in Locations, NEW b,
           pc' = [pc EXCEPT ![c] = l], back' = [back EXCEPT ![c] = b],
           UNCHANGED <<lockVars, queueVars, taskVars, cpuVars, hand, holding>>,
           TypeOK', LocalInv',
           HoldsQueue(c)' <=> HoldsQueue(c),
           HoldsSched(c)' <=> HoldsSched(c),
           InWindow(c)' <=> InWindow(c),
           current[c] # Idle /\ state[current[c]] # "RUNNING" =>
               l \in {"crit", "choose", "push", "kick", "set", "send",
                      "lock", "scan", "steal", "switch"},
           hand[c] # None /\ state[hand[c]] # "READY" =>
               l \in {"choose", "push"} /\ b = "crit",
           holding[c] => l = "lock" \/ HoldsQueue(c)
    PROVE  IInv'
<1> USE DEF lockVars, queueVars, taskVars, cpuVars
<1>1. ASSUME NEW d \in Cpus, d # c
      PROVE  /\ pc'[d] = pc[d] /\ back'[d] = back[d]
             /\ HoldsQueue(d)' <=> HoldsQueue(d)
             /\ HoldsSched(d)' <=> HoldsSched(d)
             /\ InWindow(d)' <=> InWindow(d)
    <2>1. pc'[d] = pc[d] /\ back'[d] = back[d] /\ holding'[d] = holding[d]
        BY <1>1 DEF IInv, TypeOK
    <2> QED BY <2>1 DEF HoldsQueue, HoldsSched, InWindow
<1>2. pc'[c] = l /\ back'[c] = b
    BY DEF IInv, TypeOK
<1>3. \A d \in Cpus : /\ HoldsQueue(d)' <=> HoldsQueue(d)
                      /\ HoldsSched(d)' <=> HoldsSched(d)
                      /\ InWindow(d)' <=> InWindow(d)
    BY <1>1
<1>4. QueueInv' BY DEF IInv, QueueInv
<1>5. LockInv' BY <1>1, <1>2, <1>3 DEF IInv, LockInv
<1>6. HandInv'
    <2> SUFFICES ASSUME NEW d \in Cpus, hand[d] # None
                 PROVE  \/ state[hand[d]] = "READY"
                        \/ /\ state[hand[d]] \in {"BLOCKED", "STOPPED"}
                           /\ pc'[d] \in {"choose", "push"} /\ back'[d] = "crit"
        BY DEF IInv, HandInv
    <2>1. CASE d = c
        BY <2>1, <1>2 DEF IInv, HandInv
    <2>2. CASE d # c
        BY <2>2, <1>1 DEF IInv, HandInv
    <2> QED BY <2>1, <2>2
<1>7. CurrentInv' BY <1>1, <1>2, <1>3 DEF IInv, CurrentInv
<1>8. StackInv' BY <1>3 DEF IInv, StackInv
<1>9. PlaceInv' BY DEF IInv, PlaceInv
<1> QED BY <1>4, <1>5, <1>6, <1>7, <1>8, <1>9 DEF IInv

\* hand_over_work's unlocked choice of a CPU preserves the invariant
LEMMA TickStep ==
    ASSUME IInv, NEW c \in Cpus, Tick(c) PROVE IInv'
<1>1. PICK d \in Cpus \ {c}, b \in {"run", "lock"} :
          target' = [target EXCEPT ![c] = d] /\ back' = [back EXCEPT ![c] = b]
    BY DEF Tick, Online
<1>2. /\ pc[c] = "run" /\ pc' = [pc EXCEPT ![c] = "handover"]
      /\ UNCHANGED <<lockVars, queueVars, taskVars, cpuVars, wakeVars,
                     hand, waiting, subject, holding>>
    BY DEF Tick, Goto
<1>3. TypeOK'
    BY <1>1, <1>2 DEF IInv, TypeOK, Locations, lockVars, queueVars, taskVars,
                      cpuVars, wakeVars
<1>4. LocalInv'
    BY <1>1, <1>2 DEF IInv, TypeOK, LocalInv, InWindow
<1>5. /\ HoldsQueue(c)' <=> HoldsQueue(c)
      /\ HoldsSched(c)' <=> HoldsSched(c)
      /\ InWindow(c)' <=> InWindow(c)
    BY <1>1, <1>2 DEF IInv, TypeOK, HoldsQueue, HoldsSched, InWindow, InSchedule
<1>6. /\ current[c] # Idle => state[current[c]] = "RUNNING"
      /\ hand[c] = None /\ ~holding[c]
    BY <1>2 DEF IInv, TypeOK, CurrentInv, LocalInv, LockInv, HoldsQueue, InWindow, InSchedule
<1> QED BY <1>1, <1>2, <1>3, <1>4, <1>5, <1>6, ControlStep DEF Locations

\* task_set_affinity's unlocked look at queued_on preserves the invariant
LEMMA AffinityLookStep ==
    ASSUME IInv, NEW c \in Cpus, AffinityLook(c) PROVE IInv'
<1>1. subject[c] \in Tasks
    BY DEF IInv, TypeOK, LocalInv, AffinityLook
<1>2. PICK l \in {"crit", "unlink"}, d \in Cpus, t \in Tasks \cup {None} :
          /\ pc' = [pc EXCEPT ![c] = l]
          /\ target' = [target EXCEPT ![c] = d]
          /\ subject' = [subject EXCEPT ![c] = t]
          /\ l = "unlink" => t # None
    <2>1. CASE queued_on[subject[c]] = None \/ affinity[subject[c]] \in {AnyCpu, queued_on[subject[c]]}
        <3>1. /\ pc' = [pc EXCEPT ![c] = "crit"]
              /\ subject' = [subject EXCEPT ![c] = None]
              /\ target' = [target EXCEPT ![c] = target[c]]
            BY <2>1 DEF AffinityLook, Goto, IInv, TypeOK
        <3>2. target[c] \in Cpus BY DEF IInv, TypeOK
        <3> QED BY <3>1, <3>2
    <2>2. CASE ~(queued_on[subject[c]] = None \/ affinity[subject[c]] \in {AnyCpu, queued_on[subject[c]]})
        <3>1. /\ pc' = [pc EXCEPT ![c] = "unlink"]
              /\ subject' = [subject EXCEPT ![c] = subject[c]]
              /\ target' = [target EXCEPT ![c] = queued_on[subject[c]]]
            BY <2>2 DEF AffinityLook, Goto, IInv, TypeOK
        <3>2. queued_on[subject[c]] \in Cpus BY <1>1, <2>2 DEF IInv, TypeOK
        <3> QED BY <3>1, <3>2, <1>1, ConstantsAssumption
    <2> QED BY <2>1, <2>2
<1>3. /\ pc[c] = "move" /\ back' = [back EXCEPT ![c] = back[c]]
      /\ UNCHANGED <<lockVars, queueVars, taskVars, cpuVars, wakeVars,
                     hand, waiting, holding>>
    BY DEF AffinityLook, IInv, TypeOK
<1>4. TypeOK'
    BY <1>2, <1>3 DEF IInv, TypeOK, Locations, lockVars, queueVars, taskVars,
                      cpuVars, wakeVars
<1>5. LocalInv'
    BY <1>2, <1>3 DEF IInv, TypeOK, LocalInv, InWindow
<1>6. /\ HoldsQueue(c)' <=> HoldsQueue(c)
      /\ HoldsSched(c)' <=> HoldsSched(c)
      /\ InWindow(c)' <=> InWindow(c)
    BY <1>2, <1>3 DEF IInv, TypeOK, HoldsQueue, HoldsSched, InWindow, InSchedule
<1>7. /\ current[c] # Idle => state[current[c]] = "RUNNING"
      /\ hand[c] = None /\ ~holding[c]
    BY <1>3 DEF IInv, TypeOK, CurrentInv, LocalInv, LockInv, HoldsQueue, InWindow, InSchedule
<1> QED BY <1>2, <1>3, <1>4, <1>5, <1>6, <1>7, ControlStep DEF Locations

\* choose_cpu preserves the invariant
LEMMA PlaceChooseStep ==
    ASSUME IInv, NEW c \in Cpus, PlaceChoose(c) PROVE IInv'
<1>1. PICK d \in Cpus : target' = [target EXCEPT ![c] = d]
    BY DEF PlaceChoose
<1>2. /\ pc[c] = "choose" /\ pc' = [pc EXCEPT ![c] = "push"]
      /\ back' = [back EXCEPT ![c] = back[c]]
      /\ UNCHANGED <<lockVars, queueVars, taskVars, cpuVars, wakeVars,
                     hand, waiting, subject, holding>>
    BY DEF PlaceChoose, Goto, IInv, TypeOK
<1>3. TypeOK'
    BY <1>1, <1>2 DEF IInv, TypeOK, Locations, lockVars, queueVars, taskVars,
                      cpuVars, wakeVars
<1>4. LocalInv'
    BY <1>1, <1>2 DEF IInv, TypeOK, LocalInv, InWindow
<1>5. /\ HoldsQueue(c)' <=> HoldsQueue(c)
      /\ HoldsSched(c)' <=> HoldsSched(c)
      /\ InWindow(c)' <=> InWindow(c)
    BY <1>1, <1>2 DEF IInv, TypeOK, HoldsQueue, HoldsSched, InWindow, InSchedule
<1>6. /\ hand[c] # None /\ state[hand[c]] # "READY" => back[c] = "crit"
      /\ ~holding[c]
    BY <1>2 DEF IInv, TypeOK, HandInv, LockInv, HoldsQueue, InWindow, InSchedule
<1> QED BY <1>1, <1>2, <1>3, <1>4, <1>5, <1>6, ControlStep DEF Locations

\* place_task's decision whom to kick preserves the invariant
LEMMA PlaceKickStep ==
    ASSUME IInv, NEW c \in Cpus, PlaceKick(c) PROVE IInv'
<1>1. PICK l \in {"set", back[c]}, d \in Cpus, b \in {back[c], "run"} :
          /\ pc' = [pc EXCEPT ![c] = l]
          /\ target' = [target EXCEPT ![c] = d]
          /\ back' = [back EXCEPT ![c] = b]
          /\ l = "set" => b = back[c]
    <2>1. back = [back EXCEPT ![c] = back[c]] /\ back[c] # "set"
        BY DEF IInv, TypeOK
    <2>2. CASE \E d \in Cpus : /\ target' = [target EXCEPT ![c] = d]
                               /\ Goto(c, "set") /\ UNCHANGED back
        BY <2>1, <2>2 DEF Goto
    <2>3. CASE Return(c)
        BY <2>1, <2>3 DEF Return, Goto
    <2> QED BY <2>2, <2>3 DEF PlaceKick
<1>2. /\ pc[c] = "kick" /\ subject' = [subject EXCEPT ![c] = None]
      /\ UNCHANGED <<lockVars, queueVars, taskVars, cpuVars, wakeVars,
                     hand, waiting, holding>>
    BY DEF PlaceKick
<1>3. back[c] \in {"run", "halt", "crit"} /\ hand[c] = None /\ ~holding[c]
    BY <1>2 DEF IInv, TypeOK, LocalInv, LockInv, HoldsQueue, InWindow, InSchedule
<1>4. TypeOK'
    BY <1>1, <1>2, <1>3 DEF IInv, TypeOK, Locations, lockVars, queueVars, taskVars,
                      cpuVars, wakeVars
<1>5. LocalInv'
    BY <1>1, <1>2, <1>3 DEF IInv, TypeOK, LocalInv, InWindow
<1>6. /\ HoldsQueue(c)' <=> HoldsQueue(c)
      /\ HoldsSched(c)' <=> HoldsSched(c)
      /\ InWindow(c)' <=> InWindow(c)
    BY <1>1, <1>2, <1>3 DEF IInv, TypeOK, HoldsQueue, HoldsSched, InWindow, InSchedule
<1>7. current[c] # Idle /\ state[current[c]] # "RUNNING" => back[c] = "crit"
    BY <1>2, <1>3 DEF IInv, TypeOK, CurrentInv, HoldsSched
<1> QED BY <1>1, <1>2, <1>3, <1>4, <1>5, <1>6, <1>7, ControlStep DEF Locations

\* kick_cpu's interrupt preserves the invariant
LEMMA KickSendStep ==
    ASSUME IInv, NEW c \in Cpus, KickSend(c) PROVE IInv'
<1>1. /\ pc[c] = "send" /\ pc' = [pc EXCEPT ![c] = back[c]]
      /\ back' = [back EXCEPT ![c] = "run"]
      /\ target' = [target EXCEPT ![c] = c]
      /\ ipi' = [ipi EXCEPT ![target[c]] = TRUE]
      /\ UNCHANGED <<lockVars, queueVars, taskVars, cpuVars, kicked,
                     hand, waiting, subject, holding>>
    BY DEF KickSend, Return, Goto
<1>2. /\ back[c] \in {"run", "halt", "crit", "lock", "ctx"}
      /\ hand[c] # None => back[c] = "ctx"
      /\ holding[c] => back[c] = "ctx"
    BY <1>1 DEF IInv, TypeOK, LocalInv, LockInv, HoldsQueue, InWindow, InSchedule
<1>3. TypeOK'
    BY <1>1, <1>2 DEF IInv, TypeOK, Locations, lockVars, queueVars, taskVars,
                      cpuVars, wakeVars
<1>4. LocalInv'
    BY <1>1, <1>2 DEF IInv, TypeOK, LocalInv, InWindow
<1>5. /\ HoldsQueue(c)' <=> HoldsQueue(c)
      /\ HoldsSched(c)' <=> HoldsSched(c)
      /\ InWindow(c)' <=> InWindow(c)
    BY <1>1, <1>2 DEF IInv, TypeOK, HoldsQueue, HoldsSched, InWindow, InSchedule
<1>6. current[c] # Idle /\ state[current[c]] # "RUNNING" => back[c] = "crit"
    BY <1>1, <1>2 DEF IInv, TypeOK, CurrentInv, HoldsSched, InWindow
<1>7. /\ hand[c] # None => state[hand[c]] = "READY"
      /\ holding[c] => HoldsQueue(c)
    BY <1>1, <1>2 DEF IInv, TypeOK, HandInv, HoldsQueue, InWindow
<1> QED BY <1>1, <1>2, <1>3, <1>4, <1>5, <1>6, <1>7, ControlStep DEF Locations

\* wake_task loses no runnable task: the one in hand is asleep until it is pushed
LEMMA WakeTaskPlace ==
    ASSUME IInv, NEW c \in Cpus, NEW t \in Tasks, WakeTask(c, t)
    PROVE  PlaceInv'
<1>1. /\ hand[c] = None /\ hand' = [hand EXCEPT ![c] = t]
      /\ UNCHANGED <<queueVars, taskVars, cpuVars>>
    BY DEF WakeTask, Place, IInv, LocalInv, InWindow
<1>2. ASSUME NEW u \in Tasks, state[u] = "READY", queued_on[u] = None
      PROVE  \E d \in Cpus : hand'[d] = u
    <2>1. PICK d \in Cpus : hand[d] = u
        BY <1>2 DEF IInv, PlaceInv
    <2>2. d # c
        BY <1>1, <2>1, ConstantsAssumption
    <2> QED BY <1>1, <2>1, <2>2 DEF IInv, TypeOK
<1> QED BY <1>1, <1>2 DEF IInv, PlaceInv, queueVars, taskVars, cpuVars

\* sched_add's new task is in this CPU's hand until it is pushed
LEMMA AddTaskPlace ==
    ASSUME IInv, NEW c \in Cpus, NEW t \in Tasks, AddTask(c, t)
    PROVE  PlaceInv'
<1>1. /\ hand[c] = None /\ hand' = [hand EXCEPT ![c] = t]
      /\ state' = [state EXCEPT ![t] = "READY"]
      /\ UNCHANGED <<queueVars, affinity, last_cpu, cpuVars>>
    BY DEF AddTask, Place, IInv, LocalInv, InWindow
<1>2. ASSUME NEW u \in Tasks, state'[u] = "READY", queued_on[u] = None
      PROVE  \E d \in Cpus : hand'[d] = u
    <2>1. CASE u = t
        BY <1>1, <2>1 DEF IInv, TypeOK
    <2>2. CASE u # t
        <3>1. state[u] = "READY"
            BY <1>1, <1>2, <2>2 DEF IInv, TypeOK
        <3>2. PICK d \in Cpus : hand[d] = u
            BY <3>1, <1>2 DEF IInv, PlaceInv
        <3>3. d # c
            BY <1>1, <3>2, ConstantsAssumption
        <3> QED BY <1>1, <3>2, <3>3 DEF IInv, TypeOK
    <2> QED BY <2>1, <2>2
<1>3. ASSUME NEW u \in Tasks, state'[u] = "RUNNING"
      PROVE  state[u] = "RUNNING"
    BY <1>1, <1>3 DEF IInv, TypeOK
<1> QED BY <1>1, <1>2, <1>3 DEF IInv, PlaceInv, queueVars, cpuVars

\* finish_switch, which releases the outgoing task's locks, preserves the invariant
LEMMA FinishSwitchStep ==
    ASSUME IInv, NEW c \in Cpus, FinishSwitch(c) PROVE IInv'
<1>1. PICK l \in {"run", "halt", "choose"}, b \in {"run", "halt", back[c]} :
          /\ pc[c] = "finish" /\ pc' = [pc EXCEPT ![c] = l]
          /\ back' = [back EXCEPT ![c] = b]
          /\ l = "choose" => b \in {"run", "halt"}
          /\ l # "choose" => b = back[c]
          /\ l = "choose" <=> hand[c] # None
    <2>1. CASE hand[c] = None
        <3>1. back' = [back EXCEPT ![c] = back[c]]
            BY <2>1 DEF FinishSwitch, IInv, TypeOK
        <3> QED BY <2>1, <3>1 DEF FinishSwitch, Goto, Resumed
    <2>2. CASE hand[c] # None
        BY <2>2 DEF FinishSwitch, Goto, Resumed
    <2> QED BY <2>1, <2>2
<1>2. /\ rq_lock' = [rq_lock EXCEPT ![c] = FALSE]
      /\ sched_lock' = IF holding[c] THEN None ELSE sched_lock
      /\ holding' = [holding EXCEPT ![c] = FALSE]
      /\ UNCHANGED <<queueVars, taskVars, cpuVars, wakeVars,
                     hand, waiting, target, subject>>
    BY DEF FinishSwitch
<1> USE DEF queueVars, taskVars, cpuVars, wakeVars
<1>3. TypeOK'
    BY <1>1, <1>2 DEF IInv, TypeOK, Locations
<1>4. LocalInv'
    BY <1>1, <1>2 DEF IInv, TypeOK, LocalInv, InWindow
<1>5. ASSUME NEW d \in Cpus, d # c
      PROVE  /\ pc'[d] = pc[d] /\ back'[d] = back[d] /\ holding'[d] = holding[d]
             /\ rq_lock'[d] = rq_lock[d]
             /\ HoldsQueue(d)' <=> HoldsQueue(d)
             /\ HoldsSched(d)' <=> HoldsSched(d)
             /\ InWindow(d)' <=> InWindow(d)
    <2>1. /\ pc'[d] = pc[d] /\ back'[d] = back[d] /\ holding'[d] = holding[d]
          /\ rq_lock'[d] = rq_lock[d]
        BY <1>1, <1>2, <1>5 DEF IInv, TypeOK
    <2> QED BY <2>1 DEF HoldsQueue, HoldsSched, InWindow
<1>6. /\ pc'[c] = l /\ back'[c] = b /\ ~holding'[c] /\ ~rq_lock'[c]
      /\ ~HoldsQueue(c)' /\ ~HoldsSched(c)' /\ ~InWindow(c)' /\ ~InWindow(c)
    BY <1>1, <1>2 DEF IInv, TypeOK, HoldsQueue, HoldsSched, InWindow, InSchedule
<1>7. current[c] # Idle => state[current[c]] = "RUNNING"
    BY <1>1 DEF IInv, CurrentInv
<1>8. \A d \in Cpus : d # c /\ HoldsSched(d) => sched_lock' = d
    BY <1>2 DEF IInv, LockInv, HoldsSched, TypeOK
<1>9. QueueInv'
    BY <1>2 DEF IInv, QueueInv
<1>10. LockInv'
    BY <1>5, <1>6, <1>8 DEF IInv, LockInv
<1>11. HandInv'
    <2>1. hand[c] # None => state[hand[c]] = "READY"
        BY <1>1 DEF IInv, HandInv
    <2> QED BY <1>2, <1>5, <2>1 DEF IInv, HandInv
<1>12. CurrentInv'
    BY <1>2, <1>5, <1>7 DEF IInv, CurrentInv
<1>13. StackInv'
    BY <1>2, <1>5, <1>6 DEF IInv, StackInv
<1>14. PlaceInv'
    BY <1>2 DEF IInv, PlaceInv
<1> QED BY <1>3, <1>4, <1>9, <1>10, <1>11, <1>12, <1>13, <1>14 DEF IInv

\* A zombie seen under the scheduler lock is on nobody's stack
LEMMA ZombieOffStack ==
    ASSUME IInv, NEW c \in Cpus, NEW t \in Tasks, pc[c] = "crit",
           t # current[c], state[t] \in Off, NEW d \in Cpus
    PROVE  stack[d] # t /\ current[d] # t
<1>1. sched_lock = c
    BY DEF IInv, LockInv, HoldsSched
<1>2. ~InWindow(c)
    BY DEF InWindow
<1>3. current[d] # t
    <2> SUFFICES ASSUME current[d] = t PROVE FALSE
        OBVIOUS
    <2>1. HoldsSched(d)
        BY ConstantsAssumption DEF IInv, CurrentInv, Off
    <2>2. d = c
        BY <1>1, <2>1 DEF IInv, LockInv
    <2> QED BY <2>2
<1>4. stack[d] # t
    <2> SUFFICES ASSUME stack[d] = t PROVE FALSE
        OBVIOUS
    <2>1. InWindow(d)
        BY <1>3 DEF IInv, StackInv
    <2>2. queued_on[t] # d
        BY ConstantsAssumption DEF IInv, QueueInv, Off
    <2>3. hand[d] # t
        BY <2>1, ConstantsAssumption DEF IInv, HandInv, InWindow, Off
    <2>4. holding[d]
        BY <2>1, <2>2, <2>3, ConstantsAssumption DEF IInv, StackInv
    <2>5. d = c
        BY <1>1, <2>4 DEF IInv, LockInv, HoldsSched
    <2> QED BY <1>2, <2>1, <2>5
<1> QED BY <1>3, <1>4

\* sched_reap frees a task whose stack no CPU is on
LEMMA ReapStack ==
    ASSUME IInv, NEW c \in Cpus, NEW t \in Tasks, Reap(c, t)
    PROVE  StackInv'
<1>1. /\ state' = [state EXCEPT ![t] = "FREE"]
      /\ last_cpu' = [last_cpu EXCEPT ![t] = None]
      /\ UNCHANGED <<queueVars, cpuVars, pc, localVars>>
      /\ \A d \in Cpus : stack[d] # t
    BY ZombieOffStack DEF Reap, Off
<1>2. \A d \in Cpus : InWindow(d)' <=> InWindow(d)
    BY <1>1 DEF InWindow, localVars
<1> QED BY <1>1, <1>2, ConstantsAssumption DEF IInv, TypeOK, StackInv, queueVars, cpuVars, localVars

\* schedule taking its queue's lock and oldest task preserves the invariant
LEMMA ScheduleLockStep ==
    ASSUME IInv, NEW c \in Cpus, ScheduleLock(c) PROVE IInv'
<1>1. /\ pc[c] = "lock" /\ hand[c] = None
      /\ rq_lock' = [rq_lock EXCEPT ![c] = TRUE]
      /\ kicked' = [kicked EXCEPT ![c] = FALSE]
      /\ UNCHANGED <<sched_lock, taskVars, cpuVars, ipi,
                     waiting, target, subject, holding, back>>
    BY DEF ScheduleLock, IInv, LocalInv, InWindow
<1> USE DEF taskVars, cpuVars, queueVars
<1>2. CASE queue[c] = <<>>
    <2>1. pc' = [pc EXCEPT ![c] = "scan"] /\ UNCHANGED <<queueVars, hand>>
        BY <1>2 DEF ScheduleLock, Goto
    <2>2. TypeOK'
        BY <1>1, <2>1 DEF IInv, TypeOK, Locations
    <2>3. QueueInv' /\ PlaceInv'
        BY <1>1, <2>1 DEF IInv, QueueInv, PlaceInv
    <2>4. LockInv'
        BY <1>1, <2>1 DEF IInv, TypeOK, LockInv, HoldsQueue, HoldsSched, InWindow, InSchedule
    <2>5. LocalInv' /\ HandInv'
        BY <1>1, <2>1 DEF IInv, TypeOK, LocalInv, HandInv, InWindow
    <2>6. CurrentInv' /\ StackInv'
        BY <1>1, <2>1 DEF IInv, TypeOK, CurrentInv, StackInv, HoldsSched, InWindow
    <2> QED BY <2>2, <2>3, <2>4, <2>5, <2>6 DEF IInv
<1>3. CASE queue[c] # <<>>
    <2> DEFINE t == Head(queue[c])
    <2>1. /\ queue[c] \in Seq(Tasks) /\ 1 \in 1 .. Len(queue[c])
          /\ queue[c][1] = t /\ t \in Tasks /\ In(t, queue[c]) /\ Distinct(queue[c])
        BY <1>3 DEF IInv, TypeOK, QueueInv, In
    <2>2. /\ hand' = [hand EXCEPT ![c] = t]
          /\ queue' = [queue EXCEPT ![c] = Unlink(queue[c], 1)]
          /\ queued_on' = [queued_on EXCEPT ![t] = None]
          /\ pc' = [pc EXCEPT ![c] = "switch"]
        BY <1>3 DEF ScheduleLock, Goto
    <2> HIDE DEF t
    <2>3. queued_on[t] = c /\ state[t] = "READY" /\ \A d \in Cpus : hand[d] # t
        BY <2>1, ConstantsAssumption DEF IInv, QueueInv, HandInv
    <2>4. TypeOK'
        BY <1>1, <2>1, <2>2, UnlinkFacts DEF IInv, TypeOK, Locations
    <2>5. QueueInv'
        BY <1>1, <2>1, <2>2, <2>3, UnlinkFacts, ConstantsAssumption DEF IInv, TypeOK, QueueInv
    <2>6. LockInv'
        BY <1>1, <2>2 DEF IInv, TypeOK, LockInv, HoldsQueue, HoldsSched, InWindow, InSchedule
    <2>7. LocalInv'
        BY <1>1, <2>2 DEF IInv, TypeOK, LocalInv, InWindow
    <2>8. current[c] # t
        BY <2>1, <2>3, ConstantsAssumption DEF IInv, CurrentInv
    <2>9. HandInv'
        BY <1>1, <2>1, <2>2, <2>3, <2>8 DEF IInv, TypeOK, HandInv
    <2>10. CurrentInv'
        BY <1>1, <2>1, <2>2 DEF IInv, TypeOK, CurrentInv, HoldsSched, InWindow
    <2>11. StackInv'
        BY <1>1, <2>1, <2>2, <2>3 DEF IInv, TypeOK, StackInv, LockInv, HoldsQueue, InWindow
    <2>12. PlaceInv'
        BY <1>1, <2>1, <2>2, <2>3, ConstantsAssumption DEF IInv, TypeOK, PlaceInv
    <2> QED BY <2>4, <2>5, <2>6, <2>7, <2>9, <2>10, <2>11, <2>12 DEF IInv
<1> QED BY <1>2, <1>3

\* A steal from another CPU's queue preserves the invariant
LEMMA StealTakeStep ==
    ASSUME IInv, NEW c \in Cpus, StealTake(c) PROVE IInv'
<1>0. PICK v \in Cpus : \E i \in 1 .. Len(queue[v]) :
          /\ v # c /\ ~rq_lock[v]
          /\ hand' = [hand EXCEPT ![c] = queue[v][i]]
          /\ queue' = [queue EXCEPT ![v] = Unlink(queue[v], i)]
          /\ queued_on' = [queued_on EXCEPT ![queue[v][i]] = None]
    BY DEF StealTake, IsNextVictim
<1>1. PICK i \in 1 .. Len(queue[v]) :
          /\ v # c /\ ~rq_lock[v]
          /\ hand' = [hand EXCEPT ![c] = queue[v][i]]
          /\ queue' = [queue EXCEPT ![v] = Unlink(queue[v], i)]
          /\ queued_on' = [queued_on EXCEPT ![queue[v][i]] = None]
    BY <1>0
<1>2. /\ pc[c] = "steal" /\ hand[c] = None /\ pc' = [pc EXCEPT ![c] = "switch"]
      /\ waiting' = [waiting EXCEPT ![c] = Nothing]
      /\ UNCHANGED <<lockVars, taskVars, cpuVars, wakeVars,
                     target, subject, holding, back>>
    BY DEF StealTake, Goto, IInv, LocalInv, InWindow
<1> DEFINE t == queue[v][i]
<1>3. queue[v] \in Seq(Tasks) /\ t \in Tasks /\ In(t, queue[v]) /\ Distinct(queue[v])
    BY DEF IInv, TypeOK, QueueInv, In
<1> USE DEF lockVars, taskVars, cpuVars, wakeVars
<1>4. queued_on[t] = v /\ state[t] = "READY" /\ \A d \in Cpus : hand[d] # t
    BY <1>3, ConstantsAssumption DEF IInv, QueueInv, HandInv
<1>5. \A d \in Cpus : current[d] # t /\ stack[d] # t
    <2>1. \A d \in Cpus : current[d] # t
        BY <1>3, <1>4, ConstantsAssumption DEF IInv, CurrentInv
    <2>2. ~InWindow(v)
        BY <1>1 DEF IInv, LockInv, HoldsQueue
    <2> QED BY <1>3, <1>4, <2>1, <2>2, ConstantsAssumption DEF IInv, StackInv, Off
<1>6. TypeOK'
    BY <1>1, <1>2, <1>3, UnlinkFacts DEF IInv, TypeOK, Locations, Nothing
<1>7. QueueInv'
    BY <1>1, <1>2, <1>3, <1>4, UnlinkFacts, ConstantsAssumption, SMTT(60) DEF IInv, TypeOK, QueueInv
<1> HIDE DEF t
<1>8. /\ hand' = [hand EXCEPT ![c] = t]
      /\ queued_on' = [queued_on EXCEPT ![t] = None]
    BY <1>1 DEF t
<1>9. LockInv'
    BY <1>2 DEF IInv, TypeOK, LockInv, HoldsQueue, HoldsSched, InWindow, InSchedule
<1>10. LocalInv'
    BY <1>2, <1>8 DEF IInv, TypeOK, LocalInv, InWindow
<1>11. HandInv'
    BY <1>2, <1>3, <1>4, <1>5, <1>8 DEF IInv, TypeOK, HandInv
<1>12. CurrentInv'
    BY <1>2, <1>3, <1>5, <1>8 DEF IInv, TypeOK, CurrentInv, HoldsSched, InWindow
<1>13. StackInv'
    BY <1>2, <1>3, <1>5, <1>8 DEF IInv, TypeOK, StackInv, InWindow
<1>14. PlaceInv'
    BY <1>2, <1>3, <1>4, <1>8, ConstantsAssumption DEF IInv, TypeOK, PlaceInv
<1> QED BY <1>6, <1>7, <1>9, <1>10, <1>11, <1>12, <1>13, <1>14 DEF IInv

\* place_task's push preserves the invariant
LEMMA PlacePushStep ==
    ASSUME IInv, NEW c \in Cpus, PlacePush(c) PROVE IInv'
<1> DEFINE t == hand[c]
           d == target[c]
<1>1. /\ pc[c] = "push" /\ t \in Tasks /\ d \in Cpus /\ queue[d] \in Seq(Tasks)
      /\ back[c] \in {"run", "halt", "crit"} /\ ~holding[c]
    BY ZenonT(60) DEF PlacePush, IInv, TypeOK, LocalInv, LockInv, HoldsQueue, InWindow, InSchedule
<1>2. /\ state' = [state EXCEPT ![t] = "READY"]
      /\ queue' = [queue EXCEPT ![d] = Append(queue[d], t)]
      /\ queued_on' = [queued_on EXCEPT ![t] = d]
      /\ subject' = [subject EXCEPT ![c] = t]
      /\ hand' = [hand EXCEPT ![c] = None]
      /\ pc' = [pc EXCEPT ![c] = "kick"]
      /\ UNCHANGED <<lockVars, affinity, last_cpu, cpuVars, wakeVars,
                     waiting, target, holding, back>>
    BY DEF PlacePush, Goto
<1> HIDE DEF t, d
<1> USE DEF lockVars, cpuVars, wakeVars
<1>3. /\ hand[c] = t /\ queued_on[t] = None /\ current[c] # t
      /\ \A e \in Cpus : hand[e] = t => e = c
      /\ state[t] # "READY" => state[t] \in {"BLOCKED", "STOPPED"} /\ HoldsSched(c)
    BY <1>1, ConstantsAssumption DEF IInv, HandInv, HoldsSched, t
<1>4. \A e \in Cpus : current[e] # t /\ stack[e] # t
    <2> SUFFICES ASSUME NEW e \in Cpus PROVE current[e] # t /\ stack[e] # t
        OBVIOUS
    <2>1. current[e] # t
        <3> SUFFICES ASSUME current[e] = t PROVE FALSE
            OBVIOUS
        <3>1. state[t] \in {"RUNNING"} \cup Off /\ (state[t] # "RUNNING" => HoldsSched(e))
            BY <1>1, ConstantsAssumption DEF IInv, CurrentInv
        <3>2. HoldsSched(e) /\ HoldsSched(c)
            BY <1>3, <3>1 DEF Off
        <3>3. e = c
            BY <3>2 DEF IInv, LockInv
        <3> QED BY <3>3, <1>3
    <2>2. stack[e] # t
        <3> SUFFICES ASSUME stack[e] = t PROVE FALSE
            OBVIOUS
        <3>1. InWindow(e) /\ ~InWindow(c)
            BY <1>1, <2>1 DEF IInv, StackInv, InWindow
        <3>2. state[t] \in Off /\ holding[e]
            BY <1>1, <1>3, <3>1, ConstantsAssumption DEF IInv, StackInv
        <3>3. HoldsSched(c) /\ HoldsSched(e)
            BY <1>3, <3>2 DEF HoldsSched, Off
        <3>4. e = c
            BY <3>3 DEF IInv, LockInv
        <3> QED BY <3>1, <3>4
    <2> QED BY <2>1, <2>2
<1>5. TypeOK'
    BY <1>1, <1>2, AppendFacts DEF IInv, TypeOK, Locations, TaskStates
<1>6. QueueInv'
    <2>1. ~In(t, queue[d])
        BY <1>1, <1>3, ConstantsAssumption DEF IInv, QueueInv
    <2> QED BY <1>1, <1>2, <1>3, <2>1, AppendFacts, ConstantsAssumption, SMTT(60)
            DEF IInv, TypeOK, QueueInv
<1>7. LockInv'
    BY <1>1, <1>2, SMTT(60) DEF IInv, TypeOK, LockInv, HoldsQueue, HoldsSched, InWindow, InSchedule
<1>8. LocalInv'
    BY <1>1, <1>2, ConstantsAssumption DEF IInv, TypeOK, LocalInv, InWindow
<1>9. HandInv'
    BY <1>1, <1>2, <1>3, ConstantsAssumption DEF IInv, TypeOK, HandInv
<1>10. CurrentInv'
    BY <1>1, <1>2, <1>4 DEF IInv, TypeOK, CurrentInv, HoldsSched, InWindow
<1>11. StackInv'
    BY <1>1, <1>2, <1>4 DEF IInv, TypeOK, StackInv, InWindow
<1>12. PlaceInv'
    BY <1>1, <1>2, <1>3, ConstantsAssumption DEF IInv, TypeOK, PlaceInv
<1> QED BY <1>5, <1>6, <1>7, <1>8, <1>9, <1>10, <1>11, <1>12 DEF IInv

\* A task in a queue whose lock is free is on nobody's stack
LEMMA QueuedOffStack ==
    ASSUME IInv, NEW q \in Cpus, NEW t \in Tasks, queued_on[t] = q, ~rq_lock[q]
    PROVE  /\ state[t] = "READY"
           /\ \A d \in Cpus : hand[d] # t /\ current[d] # t /\ stack[d] # t
<1>1. state[t] = "READY" /\ \A d \in Cpus : hand[d] # t
    BY ConstantsAssumption DEF IInv, QueueInv, HandInv
<1>2. \A d \in Cpus : current[d] # t
    BY ConstantsAssumption DEF IInv, CurrentInv
<1>3. ~InWindow(q)
    BY DEF IInv, LockInv, HoldsQueue
<1> QED BY <1>1, <1>2, <1>3, ConstantsAssumption DEF IInv, StackInv, Off

\* task_set_affinity's move, under the queue's lock, preserves the invariant
LEMMA AffinityMoveStep ==
    ASSUME IInv, NEW c \in Cpus, AffinityMove(c) PROVE IInv'
<1> DEFINE t == subject[c]
           on == target[c]
<1>1. /\ pc[c] = "unlink" /\ t \in Tasks /\ on \in Cpus /\ ~rq_lock[on]
      /\ queue[on] \in Seq(Tasks) /\ hand[c] = None /\ ~holding[c]
      /\ target' = [target EXCEPT ![c] = c]
      /\ UNCHANGED <<lockVars, taskVars, cpuVars, wakeVars, waiting, holding>>
    BY DEF AffinityMove, IInv, TypeOK, LocalInv, LockInv, HoldsQueue, InWindow, InSchedule
<1> USE DEF lockVars, taskVars, cpuVars, wakeVars, queueVars
<1>2. CASE queued_on[t] # on
    <2>1. pc' = [pc EXCEPT ![c] = "move"] /\ UNCHANGED <<queueVars, hand, back, subject>>
        BY <1>2 DEF AffinityMove, Goto
    <2>2. TypeOK'
        BY <1>1, <2>1 DEF IInv, TypeOK, Locations
    <2>3. LocalInv'
        BY <1>1, <2>1 DEF IInv, TypeOK, LocalInv, InWindow
    <2>4. /\ HoldsQueue(c)' <=> HoldsQueue(c)
          /\ HoldsSched(c)' <=> HoldsSched(c)
          /\ InWindow(c)' <=> InWindow(c)
        BY <1>1, <2>1 DEF IInv, TypeOK, HoldsQueue, HoldsSched, InWindow, InSchedule
    <2>5. /\ current[c] # Idle => state[current[c]] = "RUNNING"
          /\ back' = [back EXCEPT ![c] = back[c]]
        BY <1>1, <2>1 DEF IInv, TypeOK, CurrentInv
    <2> QED BY <1>1, <2>1, <2>2, <2>3, <2>4, <2>5, ControlStep DEF Locations
<1>3. CASE queued_on[t] = on
    <2>1. PICK i \in 1 .. Len(queue[on]) :
              queue[on][i] = t /\ queue' = [queue EXCEPT ![on] = Unlink(queue[on], i)]
        BY <1>3 DEF AffinityMove
    <2>2. /\ queued_on' = [queued_on EXCEPT ![t] = None]
          /\ hand' = [hand EXCEPT ![c] = t]
          /\ back' = [back EXCEPT ![c] = "crit"]
          /\ pc' = [pc EXCEPT ![c] = "choose"]
          /\ subject' = [subject EXCEPT ![c] = None]
        BY <1>3 DEF AffinityMove, Place, Goto
    <2>3. Distinct(queue[on])
        BY <1>1 DEF IInv, QueueInv
    <2> HIDE DEF t, on
    <2>4. state[t] = "READY" /\ \A d \in Cpus : hand[d] # t /\ current[d] # t /\ stack[d] # t
        BY <1>1, <1>3, QueuedOffStack
    <2>5. TypeOK'
        BY <1>1, <2>1, <2>2, <2>3, UnlinkFacts DEF IInv, TypeOK, Locations
    <2>6. QueueInv'
        <3>1. /\ queue'[on] = Unlink(queue[on], i) /\ queue[on][i] = t
              /\ \A d \in Cpus : d # on => queue'[d] = queue[d]
            BY <1>1, <2>1 DEF IInv, TypeOK
        <3>2. /\ queued_on'[t] = None
              /\ \A x \in Tasks : x # t => queued_on'[x] = queued_on[x]
            BY <1>1, <2>2 DEF IInv, TypeOK
        <3>3. /\ Distinct(queue'[on])
              /\ \A x \in Tasks : In(x, queue'[on]) <=> In(x, queue[on]) /\ x # t
            BY <1>1, <2>1, <2>3, <3>1, UnlinkFacts
        <3>4. \A d \in Cpus : Distinct(queue'[d])
            BY <3>1, <3>3 DEF IInv, QueueInv
        <3>5. ASSUME NEW d \in Cpus, NEW x \in Tasks
              PROVE  In(x, queue'[d]) <=> queued_on'[x] = d
            <4>1. In(x, queue[d]) <=> queued_on[x] = d
                BY DEF IInv, QueueInv
            <4>2. None \notin Cpus
                BY ConstantsAssumption
            <4>3. CASE d = on
                BY <3>2, <3>3, <4>1, <4>2, <4>3
            <4>4. CASE d # on
                BY <1>3, <3>1, <3>2, <4>1, <4>2, <4>4
            <4> QED BY <4>3, <4>4
        <3>6. \A x \in Tasks : queued_on'[x] # None => state'[x] = "READY"
            BY <1>1, <3>2 DEF IInv, QueueInv
        <3>7. /\ \A d \in Cpus : (Distinct(queue[d]))'
              /\ \A d \in Cpus, x \in Tasks : (In(x, queue[d]) <=> queued_on[x] = d)'
            BY <3>4, <3>5 DEF Distinct, In
        <3> QED BY <3>6, <3>7 DEF QueueInv
    <2>7. LockInv'
        BY <1>1, <2>2 DEF IInv, TypeOK, LockInv, HoldsQueue, HoldsSched, InWindow, InSchedule
    <2>8. LocalInv'
        BY <1>1, <2>2, ConstantsAssumption DEF IInv, TypeOK, LocalInv, InWindow
    <2>9. HandInv'
        <3>1. /\ hand'[c] = t /\ queued_on'[t] = None /\ pc'[c] = "choose"
              /\ \A e \in Cpus : e # c => /\ hand'[e] = hand[e] /\ pc'[e] = pc[e]
                                          /\ back'[e] = back[e]
              /\ \A x \in Tasks : x # t => queued_on'[x] = queued_on[x]
            BY <1>1, <2>2 DEF IInv, TypeOK
        <3> SUFFICES ASSUME NEW e \in Cpus, hand'[e] # None
                     PROVE  /\ queued_on'[hand'[e]] = None
                            /\ \/ state[hand'[e]] = "READY"
                               \/ /\ state[hand'[e]] \in {"BLOCKED", "STOPPED"}
                                  /\ pc'[e] \in {"choose", "push"} /\ back'[e] = "crit"
                            /\ \A f \in Cpus : hand'[f] = hand'[e] => f = e
                            /\ hand'[e] # current[e]
            BY <1>1 DEF HandInv
        <3>2. CASE e = c
            BY <3>1, <3>2, <2>4
        <3>3. CASE e # c
            <4>0. hand'[e] = hand[e] /\ hand[e] # None /\ hand[e] # t
                BY <3>1, <3>3, <2>4
            <4>1. /\ hand'[e] = hand[e] /\ hand[e] \in Tasks /\ hand[e] # t
                  /\ queued_on[hand[e]] = None /\ hand[e] # current[e]
                  /\ \A f \in Cpus : hand[f] = hand[e] => f = e
                BY <4>0 DEF IInv, TypeOK, HandInv
            <4>2. \/ state[hand[e]] = "READY"
                  \/ /\ state[hand[e]] \in {"BLOCKED", "STOPPED"}
                     /\ pc[e] \in {"choose", "push"} /\ back[e] = "crit"
                BY <4>1, ConstantsAssumption DEF IInv, HandInv
            <4>3. \A f \in Cpus : hand'[f] = hand[e] => f = e
                BY <3>1, <4>1
            <4> QED BY <3>1, <3>3, <4>1, <4>2, <4>3
        <3> QED BY <3>2, <3>3
    <2>10. CurrentInv'
        BY <1>1, <2>2, <2>4 DEF IInv, TypeOK, CurrentInv, HoldsSched, InWindow
    <2>11. StackInv'
        BY <1>1, <2>2, <2>4 DEF IInv, TypeOK, StackInv, InWindow
    <2>12. PlaceInv'
        BY <1>1, <2>2, <2>4, ConstantsAssumption DEF IInv, TypeOK, PlaceInv
    <2> QED BY <2>5, <2>6, <2>7, <2>8, <2>9, <2>10, <2>11, <2>12 DEF IInv
<1> QED BY <1>2, <1>3

\* hand_over_work's move between two queues, and its kick, preserve the invariant
LEMMA HandOverStep ==
    ASSUME IInv, NEW c \in Cpus, HandOver(c) PROVE IInv'
<1> DEFINE d == target[c]
<1>1. /\ pc[c] = "handover" /\ ~rq_lock[c] /\ d \in Cpus /\ d # c
      /\ back[c] \in {"run", "lock"} /\ hand[c] = None /\ ~holding[c]
      /\ queue[c] \in Seq(Tasks) /\ queue[d] \in Seq(Tasks)
      /\ Distinct(queue[c]) /\ Distinct(queue[d])
      /\ UNCHANGED <<lockVars, taskVars, cpuVars, wakeVars,
                     hand, waiting, subject, holding>>
    BY DEF HandOver, IInv, TypeOK, LocalInv, LockInv, HoldsQueue, InWindow, InSchedule, QueueInv
<1>2. PICK l \in {"set", "run", "lock"}, e \in Cpus, b \in {"run", "lock"} :
          /\ pc' = [pc EXCEPT ![c] = l]
          /\ target' = [target EXCEPT ![c] = e]
          /\ back' = [back EXCEPT ![c] = b]
    <2>1. /\ back = [back EXCEPT ![c] = back[c]]
          /\ target = [target EXCEPT ![c] = target[c]]
        BY DEF IInv, TypeOK
    <2>2. CASE Return(c)
        BY <1>1, <2>2 DEF Return, Goto
    <2>3. CASE Goto(c, "set") /\ UNCHANGED <<target, back>>
        BY <1>1, <2>1, <2>3 DEF Goto
    <2> QED BY <2>2, <2>3 DEF HandOver
<1> USE DEF lockVars, taskVars, cpuVars, wakeVars, queueVars
<1>3. CASE UNCHANGED queueVars
    <2>1. TypeOK'
        BY <1>1, <1>2, <1>3 DEF IInv, TypeOK, Locations
    <2>2. LocalInv'
        BY <1>1, <1>2, <1>3 DEF IInv, TypeOK, LocalInv, InWindow
    <2>3. /\ HoldsQueue(c)' <=> HoldsQueue(c)
          /\ HoldsSched(c)' <=> HoldsSched(c)
          /\ InWindow(c)' <=> InWindow(c)
        BY <1>1, <1>2 DEF IInv, TypeOK, HoldsQueue, HoldsSched, InWindow, InSchedule
    <2>4. current[c] # Idle => state[current[c]] = "RUNNING"
        BY <1>1 DEF IInv, CurrentInv
    <2> QED BY <1>1, <1>2, <1>3, <2>1, <2>2, <2>3, <2>4, ControlStep DEF Locations
<1>4. CASE /\ ~rq_lock[d]
           /\ \E i \in 1 .. Len(queue[c]) :
                /\ queue' = [queue EXCEPT ![c] = Unlink(queue[c], i),
                                          ![d] = Append(queue[d], queue[c][i])]
                /\ queued_on' = [queued_on EXCEPT ![queue[c][i]] = d]
    <2>1. PICK i \in 1 .. Len(queue[c]) :
                /\ queue' = [queue EXCEPT ![c] = Unlink(queue[c], i),
                                          ![d] = Append(queue[d], queue[c][i])]
                /\ queued_on' = [queued_on EXCEPT ![queue[c][i]] = d]
        BY <1>4
    <2> DEFINE t == queue[c][i]
    <2>2. t \in Tasks /\ In(t, queue[c]) /\ queued_on[t] = c /\ ~In(t, queue[d])
        <3>1. t \in Tasks /\ In(t, queue[c])
            BY <1>1 DEF In
        <3> QED BY <1>1, <3>1 DEF IInv, QueueInv
    <2>3. state[t] = "READY" /\ \A e2 \in Cpus : hand[e2] # t /\ current[e2] # t /\ stack[e2] # t
        BY <1>1, <2>2, QueuedOffStack
    <2>4. TypeOK'
        BY <1>1, <1>2, <2>1, <2>2, UnlinkFacts, AppendFacts DEF IInv, TypeOK, Locations
    <2>5. /\ queue'[c] = Unlink(queue[c], i) /\ queue'[d] = Append(queue[d], t)
          /\ \A e2 \in Cpus \ {c, d} : queue'[e2] = queue[e2]
        BY <1>1, <2>1 DEF IInv, TypeOK
    <2>6. \A x : In(x, queue'[c]) <=> In(x, queue[c]) /\ x # t
        BY <1>1, <2>5, UnlinkFacts
    <2>7. \A x : In(x, queue'[d]) <=> In(x, queue[d]) \/ x = t
        BY <1>1, <2>2, <2>5, AppendFacts
    <2>8. Distinct(queue'[c]) /\ Distinct(queue'[d])
        BY <1>1, <2>2, <2>5, UnlinkFacts, AppendFacts
    <2> HIDE DEF t, d
    <2>9. queued_on' = [queued_on EXCEPT ![t] = d]
        BY <2>1 DEF t
    <2>10. QueueInv'
        <3>1. \A e2 \in Cpus : Distinct(queue'[e2])
            BY <2>5, <2>8 DEF IInv, QueueInv
        <3>2. ASSUME NEW e2 \in Cpus, NEW x \in Tasks
              PROVE  In(x, queue'[e2]) <=> queued_on'[x] = e2
            <4>1. In(x, queue[e2]) <=> queued_on[x] = e2
                BY DEF IInv, QueueInv
            <4>2. queued_on'[x] = IF x = t THEN d ELSE queued_on[x]
                BY <2>2, <2>9 DEF IInv, TypeOK
            <4>3. CASE e2 = c
                BY <1>1, <4>1, <4>2, <4>3, <2>6
            <4>4. CASE e2 = d
                BY <1>1, <4>1, <4>2, <4>4, <2>7
            <4>5. CASE e2 \notin {c, d}
                BY <1>1, <2>2, <4>1, <4>2, <4>5, <2>5
            <4> QED BY <4>3, <4>4, <4>5
        <3>3. \A x \in Tasks : queued_on'[x] # None => state[x] = "READY"
            BY <2>2, <2>3, <2>9 DEF IInv, TypeOK, QueueInv
        <3> QED BY <1>1, <3>1, <3>2, <3>3 DEF QueueInv
    <2>11. LockInv'
        BY <1>1, <1>2 DEF IInv, TypeOK, LockInv, HoldsQueue, HoldsSched, InWindow, InSchedule
    <2>12. LocalInv'
        BY <1>1, <1>2 DEF IInv, TypeOK, LocalInv, InWindow
    <2>13. \A e2 \in Cpus : e2 # c => pc'[e2] = pc[e2] /\ back'[e2] = back[e2]
        BY <1>2 DEF IInv, TypeOK
    <2>14. \A x \in Tasks : x # t => queued_on'[x] = queued_on[x]
        BY <2>9 DEF IInv, TypeOK
    <2>17. HandInv'
        <3> SUFFICES ASSUME NEW e2 \in Cpus, hand[e2] # None
                     PROVE  /\ queued_on'[hand[e2]] = None
                            /\ \/ state[hand[e2]] = "READY"
                               \/ /\ state[hand[e2]] \in {"BLOCKED", "STOPPED"}
                                  /\ pc'[e2] \in {"choose", "push"} /\ back'[e2] = "crit"
            BY <1>1 DEF IInv, HandInv
        <3>1. hand[e2] \in Tasks /\ queued_on[hand[e2]] = None /\ e2 # c
            BY <1>1 DEF IInv, TypeOK, HandInv
        <3>2. \/ state[hand[e2]] = "READY"
              \/ /\ state[hand[e2]] \in {"BLOCKED", "STOPPED"}
                 /\ pc[e2] \in {"choose", "push"} /\ back[e2] = "crit"
            BY DEF IInv, HandInv
        <3> QED BY <2>3, <2>13, <2>14, <3>1, <3>2
    <2>18. CurrentInv'
        <3>1. current[c] # Idle => state[current[c]] = "RUNNING"
            BY <1>1 DEF IInv, CurrentInv
        <3>2. \A e2 \in Cpus : e2 # c => /\ HoldsSched(e2) => HoldsSched(e2)'
                                         /\ InWindow(e2)' => InWindow(e2)
            BY <1>1, <2>13 DEF HoldsSched, InWindow
        <3>3. \A e2 \in Cpus : current[e2] # Idle => queued_on'[current[e2]] = None
            <4> SUFFICES ASSUME NEW e2 \in Cpus, current[e2] # Idle
                         PROVE  queued_on'[current[e2]] = None
                OBVIOUS
            <4>1. current[e2] \in Tasks /\ queued_on[current[e2]] = None
                BY DEF IInv, TypeOK, CurrentInv
            <4> QED BY <2>3, <2>14, <4>1
        <3> QED BY <1>1, <2>13, <3>1, <3>2, <3>3 DEF IInv, CurrentInv
    <2>15. StackInv'
        BY <1>1, <1>2, <2>3, <2>9, ZenonT(60) DEF IInv, TypeOK, StackInv, InWindow
    <2>16. PlaceInv'
        BY <1>1, <2>2, <2>9, ConstantsAssumption, ZenonT(60) DEF IInv, TypeOK, PlaceInv
    <2> QED BY <2>4, <2>10, <2>11, <2>12, <2>17, <2>18, <2>15, <2>16 DEF IInv
<1> QED BY <1>3, <1>4 DEF HandOver

\* Switch, with its local definitions unfolded: next takes the CPU, and the
\* old task is queued behind this CPU's lock, kept in hand, or was made
\* not runnable with the scheduler lock held
LEMMA SwitchStep ==
    ASSUME IInv, NEW c \in Cpus, Switch(c) PROVE IInv'
<1> DEFINE old  == current[c]
           next == IF hand[c] = None THEN Idle ELSE hand[c]
           runnable == old # Idle /\ state[old] = "RUNNING"
           pushed == runnable /\ MayStay(c)
<1>1. /\ pc[c] = "switch" /\ (hand[c] # None \/ ~MayStay(c))
      /\ old \in Tasks \cup {Idle} /\ next \in Tasks \cup {Idle}
      /\ runnable \in BOOLEAN /\ pushed \in BOOLEAN /\ (pushed => runnable)
      /\ runnable => old \in Tasks
    BY DEF Switch, IInv, TypeOK
<1>2. /\ state' = [t \in Tasks |-> IF t = next THEN "RUNNING"
                                   ELSE IF runnable /\ t = old THEN "READY"
                                   ELSE state[t]]
      /\ last_cpu' = [t \in Tasks |-> IF t = next THEN c ELSE last_cpu[t]]
      /\ current' = [current EXCEPT ![c] = next]
      /\ hand' = [hand EXCEPT ![c] = IF runnable /\ ~pushed THEN old ELSE None]
      /\ pushed => /\ queue' = [queue EXCEPT ![c] = Append(queue[c], old)]
                   /\ queued_on' = [queued_on EXCEPT ![old] = c]
      /\ ~pushed => UNCHANGED queueVars
      /\ UNCHANGED <<lockVars, affinity, stack, wakeVars, waiting, subject, holding>>
    BY DEF Switch
<1>3. PICK l \in {"set", "ctx"}, d \in Cpus,
           b \in {"run", "halt", "crit", "lock", "ctx"} :
          /\ pc' = [pc EXCEPT ![c] = l]
          /\ back' = [back EXCEPT ![c] = b]
          /\ target' = [target EXCEPT ![c] = d]
          /\ l = "set" => b = "ctx"
    <2>1. /\ back = [back EXCEPT ![c] = back[c]]
          /\ target = [target EXCEPT ![c] = target[c]]
          /\ back[c] \in {"run", "halt", "crit", "lock", "ctx"}
          /\ target[c] \in Cpus
        BY DEF IInv, TypeOK
    <2>2. CASE /\ \E d \in Cpus : target' = [target EXCEPT ![c] = d]
               /\ back' = [back EXCEPT ![c] = "ctx"]
               /\ Goto(c, "set")
        BY <2>2 DEF Goto
    <2>3. CASE Goto(c, "ctx") /\ UNCHANGED <<target, back>>
        BY <2>1, <2>3 DEF Goto
    <2> QED BY <2>2, <2>3 DEF Switch
\* What is known of the two tasks beforehand
<1>4. next # old
    <2>1. CASE hand[c] # None
        BY <2>1 DEF IInv, HandInv
    <2>2. CASE hand[c] = None
        BY <1>1, <2>2 DEF MayStay
    <2> QED BY <2>1, <2>2
<1>5. next # Idle => /\ next \in Tasks /\ hand[c] = next
                     /\ state[next] = "READY" /\ queued_on[next] = None
                     /\ \A d2 \in Cpus : d2 # c => hand[d2] # next
                     /\ \A d2 \in Cpus : current[d2] # next
    <2> SUFFICES ASSUME next # Idle
                 PROVE  /\ next \in Tasks /\ hand[c] = next
                        /\ state[next] = "READY" /\ queued_on[next] = None
                        /\ \A d2 \in Cpus : d2 # c => hand[d2] # next
                        /\ \A d2 \in Cpus : current[d2] # next
        OBVIOUS
    <2>1. next \in Tasks /\ hand[c] = next /\ hand[c] # None
        BY <1>1
    <2> HIDE DEF next
    <2>2. /\ state[next] = "READY" /\ queued_on[next] = None
          /\ \A d2 \in Cpus : d2 # c => hand[d2] # next
        BY <1>1, <2>1 DEF IInv, HandInv
    <2>3. \A d2 \in Cpus : current[d2] # next
        BY <2>1, <2>2, ConstantsAssumption DEF IInv, CurrentInv, Off
    <2> QED BY <2>1, <2>2, <2>3
<1>6. next # Idle => \A d2 \in Cpus : stack[d2] # next
    <2> SUFFICES ASSUME next # Idle, NEW d2 \in Cpus, stack[d2] = next PROVE FALSE
        OBVIOUS
    <2> HIDE DEF next
    <2>1. InWindow(d2) /\ ~InWindow(c)
        BY <1>1, <1>5 DEF IInv, StackInv, InWindow
    <2> QED BY <2>1, <1>5, ConstantsAssumption DEF IInv, StackInv, Off
<1>7. /\ stack[c] = old
      /\ old # Idle => /\ old \in Tasks /\ last_cpu[old] = c /\ queued_on[old] = None
                       /\ ~runnable => state[old] \in Off /\ holding[c]
                       /\ \A d2 \in Cpus : d2 # c => current[d2] # old
                       /\ \A d2 \in Cpus : runnable => hand[d2] # old
    <2>1. stack[c] = old
        BY <1>1 DEF IInv, StackInv, InWindow
    <2>2. old # Idle => /\ old \in Tasks /\ last_cpu[old] = c /\ queued_on[old] = None
                        /\ \A d2 \in Cpus : d2 # c => current[d2] # old
        BY DEF IInv, CurrentInv, TypeOK
    <2>3. old # Idle /\ ~runnable => state[old] \in Off /\ holding[c]
        BY <1>1 DEF IInv, CurrentInv, HoldsSched
    <2>4. old # Idle /\ runnable => \A d2 \in Cpus : hand[d2] # old
        BY <2>2, ConstantsAssumption DEF IInv, HandInv
    <2> QED BY <2>1, <2>2, <2>3, <2>4
<1> HIDE DEF old, next, runnable, pushed
<1> USE DEF lockVars, queueVars, wakeVars
<1>8. TypeOK'
    <2>1. queue' \in [Cpus -> Seq(Tasks)] /\ queued_on' \in [Tasks -> Cpus \cup {None}]
        <3>1. CASE pushed
            <4>1. Append(queue[c], old) \in Seq(Tasks) /\ old \in Tasks
                BY <1>1, <3>1, AppendFacts DEF IInv, TypeOK
            <4>2. /\ queue \in [Cpus -> Seq(Tasks)]
                  /\ queued_on \in [Tasks -> Cpus \cup {None}]
                BY DEF IInv, TypeOK
            <4>3. /\ queue' = [queue EXCEPT ![c] = Append(queue[c], old)]
                  /\ queued_on' = [queued_on EXCEPT ![old] = c]
                BY <1>2, <3>1
            <4> QED BY <4>1, <4>2, <4>3
        <3>2. CASE ~pushed
            BY <1>2, <3>2 DEF IInv, TypeOK
        <3> QED BY <3>1, <3>2
    <2> QED BY <1>1, <1>2, <1>3, <2>1 DEF IInv, TypeOK, TaskStates, Locations
<1>9. ASSUME NEW d2 \in Cpus, d2 # c
      PROVE  /\ pc'[d2] = pc[d2] /\ back'[d2] = back[d2] /\ holding'[d2] = holding[d2]
             /\ hand'[d2] = hand[d2] /\ current'[d2] = current[d2]
             /\ HoldsQueue(d2)' <=> HoldsQueue(d2)
             /\ HoldsSched(d2)' <=> HoldsSched(d2)
             /\ InWindow(d2)' <=> InWindow(d2)
    <2>1. /\ pc'[d2] = pc[d2] /\ back'[d2] = back[d2] /\ holding'[d2] = holding[d2]
          /\ hand'[d2] = hand[d2] /\ current'[d2] = current[d2]
        BY <1>2, <1>3, <1>9 DEF IInv, TypeOK
    <2> QED BY <2>1 DEF HoldsQueue, HoldsSched, InWindow
<1>10. /\ pc'[c] = l /\ back'[c] = b /\ holding'[c] = holding[c] /\ current'[c] = next
       /\ hand'[c] = (IF runnable /\ ~pushed THEN old ELSE None)
       /\ HoldsQueue(c)' /\ HoldsQueue(c) /\ InWindow(c)'
       /\ HoldsSched(c)' => HoldsSched(c)
    BY <1>1, <1>2, <1>3 DEF IInv, TypeOK, HoldsQueue, HoldsSched, InWindow, InSchedule
<1>11. LockInv'
    BY <1>2, <1>9, <1>10 DEF IInv, LockInv
<1>12. LocalInv'
    BY <1>1, <1>2, <1>3 DEF IInv, TypeOK, LocalInv, InWindow
<1>13. ASSUME NEW t \in Tasks
       PROVE  /\ state'[t] = (IF t = next THEN "RUNNING"
                              ELSE IF runnable /\ t = old THEN "READY" ELSE state[t])
              /\ last_cpu'[t] = (IF t = next THEN c ELSE last_cpu[t])
              /\ queued_on'[t] = (IF pushed /\ t = old THEN c ELSE queued_on[t])
    BY <1>1, <1>2 DEF IInv, TypeOK
<1>14. QueueInv'
    <2>1. ASSUME NEW t \in Tasks, queued_on'[t] # None PROVE state'[t] = "READY"
        BY <1>1, <1>4, <1>5, <1>13, <2>1, ConstantsAssumption DEF IInv, QueueInv
    <2>2. CASE ~pushed
        BY <1>2, <2>1, <2>2 DEF IInv, QueueInv
    <2>3. CASE pushed
        <3>1. /\ old \in Tasks /\ queue[c] \in Seq(Tasks) /\ ~In(old, queue[c])
              /\ Distinct(queue[c]) /\ old # Idle
            BY <1>1, <1>7, <2>3, ConstantsAssumption DEF IInv, TypeOK, QueueInv
        <3>2. /\ queue'[c] = Append(queue[c], old)
              /\ \A e \in Cpus : e # c => queue'[e] = queue[e]
            BY <1>2, <2>3 DEF IInv, TypeOK
        <3>3. /\ Distinct(queue'[c])
              /\ \A x : In(x, queue'[c]) <=> In(x, queue[c]) \/ x = old
            BY <3>1, <3>2, AppendFacts
        <3>4. \A e \in Cpus : Distinct(queue'[e])
            BY <3>2, <3>3 DEF IInv, QueueInv
        <3>5. ASSUME NEW e \in Cpus, NEW t \in Tasks
              PROVE  In(t, queue'[e]) <=> queued_on'[t] = e
            <4>1. /\ In(t, queue[e]) <=> queued_on[t] = e
                  /\ queued_on'[t] = (IF t = old THEN c ELSE queued_on[t])
                  /\ queued_on[old] = None
                BY <1>7, <1>13, <2>3, <3>1 DEF IInv, QueueInv
            <4>2. CASE e = c
                BY <3>3, <4>1, <4>2
            <4>3. CASE e # c
                BY <3>2, <4>1, <4>3, ConstantsAssumption
            <4> QED BY <4>2, <4>3
        <3> QED BY <2>1, <3>4, <3>5 DEF QueueInv
    <2> QED BY <2>2, <2>3
<1>15. HandInv'
    <2> SUFFICES ASSUME NEW e \in Cpus, hand'[e] # None
                 PROVE  /\ queued_on'[hand'[e]] = None
                        /\ \/ state'[hand'[e]] = "READY"
                           \/ /\ state'[hand'[e]] \in {"BLOCKED", "STOPPED"}
                              /\ pc'[e] \in {"choose", "push"} /\ back'[e] = "crit"
                        /\ \A f \in Cpus : hand'[f] = hand'[e] => f = e
                        /\ hand'[e] # current'[e]
        BY DEF HandInv
    <2>1. CASE e = c
        <3>1. runnable /\ ~pushed /\ hand'[c] = old /\ old \in Tasks /\ old # Idle
            BY <1>1, <1>10, <2>1, ConstantsAssumption
        <3>2. queued_on'[old] = None /\ state'[old] = "READY"
            BY <1>4, <1>7, <1>13, <3>1
        <3>3. \A f \in Cpus : f # c => hand'[f] # old
            BY <1>7, <1>9, <3>1
        <3> QED BY <1>4, <1>10, <2>1, <3>1, <3>2, <3>3
    <2>2. CASE e # c
        <3>1. /\ hand'[e] = hand[e] /\ hand[e] \in Tasks
              /\ queued_on[hand[e]] = None
              /\ \A f \in Cpus : hand[f] = hand[e] => f = e
              /\ hand[e] # current[e] /\ current'[e] = current[e]
            <4>1. hand'[e] = hand[e] /\ hand[e] # None /\ current'[e] = current[e]
                BY <1>9, <2>2
            <4> QED BY <4>1 DEF IInv, TypeOK, HandInv
        <3>2. \/ state[hand[e]] = "READY"
              \/ /\ state[hand[e]] \in {"BLOCKED", "STOPPED"}
                 /\ pc'[e] \in {"choose", "push"} /\ back'[e] = "crit"
            BY <1>9, <2>2, <3>1, ConstantsAssumption DEF IInv, HandInv
        <3>3. hand[e] # next
            BY <1>5, <2>2, <3>1, ConstantsAssumption
        <3>4. hand[e] = old => ~runnable
            BY <1>7, <3>1, ConstantsAssumption
        <3>5. queued_on'[hand[e]] = None /\ state'[hand[e]] = state[hand[e]]
            BY <1>1, <1>13, <3>1, <3>3, <3>4
        <3>6. \A f \in Cpus : hand'[f] = hand[e] => f = e
            <4> SUFFICES ASSUME NEW f \in Cpus, hand'[f] = hand[e] PROVE f = e
                OBVIOUS
            <4>1. CASE f = c
                BY <1>10, <3>1, <3>4, <4>1, ConstantsAssumption
            <4>2. CASE f # c
                BY <1>9, <3>1, <4>2
            <4> QED BY <4>1, <4>2
        <3> QED BY <3>1, <3>2, <3>5, <3>6
    <2> QED BY <2>1, <2>2
<1>16. CurrentInv'
    <2> SUFFICES ASSUME NEW e \in Cpus, current'[e] # Idle
                 PROVE  /\ last_cpu'[current'[e]] = e
                        /\ queued_on'[current'[e]] = None
                        /\ state'[current'[e]] # "RUNNING" =>
                              /\ state'[current'[e]] \in Off
                              /\ HoldsSched(e)'
                              /\ pc'[e] \in {"crit", "choose", "push", "kick", "set", "send",
                                            "lock", "scan", "steal", "switch"}
                              /\ ~InWindow(e)'
        BY DEF CurrentInv
    <2>1. CASE e = c
        BY <1>4, <1>5, <1>10, <1>13, <2>1
    <2>2. CASE e # c
        <3>1. current'[e] = current[e] /\ current[e] \in Tasks /\ current[e] # old
            <4>1. current'[e] = current[e] /\ current[e] # Idle
                BY <1>9, <2>2
            <4>2. current[e] \in Tasks
                BY <4>1 DEF IInv, TypeOK
            <4> QED BY <1>7, <2>2, <4>1, <4>2, ConstantsAssumption
        <3>2. current[e] # next
            BY <1>5, <3>1, <2>2, ConstantsAssumption
        <3>3. /\ last_cpu'[current[e]] = last_cpu[current[e]]
              /\ queued_on'[current[e]] = queued_on[current[e]]
              /\ state'[current[e]] = state[current[e]]
            BY <1>13, <3>1, <3>2
        <3> QED BY <1>9, <2>2, <3>1, <3>3 DEF IInv, CurrentInv
    <2> QED BY <2>1, <2>2
<1>17. StackInv'
    <2>0. stack' = stack
        BY <1>2
    <2> SUFFICES ASSUME NEW e \in Cpus
                 PROVE  /\ stack[e] # Idle => last_cpu'[stack[e]] = e
                        /\ ~InWindow(e)' => stack[e] = current'[e]
                        /\ InWindow(e)' =>
                              /\ stack[e] # current'[e]
                              /\ \/ stack[e] = Idle
                                 \/ queued_on'[stack[e]] = e
                                 \/ hand'[e] = stack[e]
                                 \/ state'[stack[e]] \in Off /\ holding'[e]
        BY <2>0 DEF StackInv
    <2>1. CASE e = c
        <3>1. stack[e] = old /\ InWindow(e)' /\ old # current'[e]
            BY <1>4, <1>7, <1>10, <2>1
        <3>2. CASE old = Idle
            BY <3>1, <3>2
        <3>3. CASE old # Idle
            <4>1. old \in Tasks /\ last_cpu'[old] = c
                BY <1>4, <1>7, <1>13, <3>3
            <4>2. CASE pushed
                BY <1>1, <1>13, <2>1, <3>1, <4>1, <4>2
            <4>3. CASE runnable /\ ~pushed
                BY <1>10, <2>1, <3>1, <4>1, <4>3
            <4>4. CASE ~runnable
                BY <1>4, <1>7, <1>10, <1>13, <2>1, <3>1, <3>3, <4>1, <4>4
            <4> QED BY <1>1, <4>2, <4>3, <4>4
        <3> QED BY <3>2, <3>3
    <2>2. CASE e # c
        <3>1. CASE stack[e] = Idle
            BY <1>9, <2>2, <3>1 DEF IInv, StackInv
        <3>2. CASE stack[e] # Idle
            <4>1. stack[e] \in Tasks /\ stack[e] # next /\ stack[e] # old
                BY <1>6, <1>7, <2>2, <3>2 DEF IInv, TypeOK, StackInv
            <4>2. /\ last_cpu'[stack[e]] = last_cpu[stack[e]]
                  /\ queued_on'[stack[e]] = queued_on[stack[e]]
                  /\ state'[stack[e]] = state[stack[e]]
                BY <1>13, <4>1
            <4> QED BY <1>9, <2>2, <3>2, <4>1, <4>2 DEF IInv, StackInv
        <3> QED BY <3>1, <3>2
    <2> QED BY <2>1, <2>2
<1>18. PlaceInv'
    <2>1. ASSUME NEW t \in Tasks, state'[t] = "READY", queued_on'[t] = None
          PROVE  \E e \in Cpus : hand'[e] = t
        <3>1. CASE t = old /\ runnable
            BY <1>1, <1>7, <1>10, <1>13, <2>1, <3>1, ConstantsAssumption
        <3>2. CASE ~(t = old /\ runnable)
            <4>1. t # next /\ state[t] = "READY" /\ queued_on[t] = None
                BY <1>1, <1>13, <2>1, <3>2
            <4>2. PICK e \in Cpus : hand[e] = t
                BY <4>1 DEF IInv, PlaceInv
            <4>3. e # c
                <5>1. hand[c] = None \/ hand[c] = next
                    BY DEF next
                <5> QED BY <4>1, <4>2, <5>1, ConstantsAssumption
            <4> QED BY <1>9, <4>2, <4>3
        <3> QED BY <3>1, <3>2
    <2>2. ASSUME NEW t \in Tasks, state'[t] = "RUNNING"
          PROVE  last_cpu'[t] # None /\ current'[last_cpu'[t]] = t
        <3>1. CASE t = next
            BY <1>10, <1>13, <3>1, ConstantsAssumption
        <3>2. CASE t # next
            <4>1. state[t] = "RUNNING" /\ ~(runnable /\ t = old) /\ last_cpu'[t] = last_cpu[t]
                BY <1>13, <2>2, <3>2
            <4>2. t # old
                BY <4>1, ConstantsAssumption DEF runnable
            <4>3. last_cpu[t] \in Cpus /\ current[last_cpu[t]] = t
                BY <4>1 DEF IInv, TypeOK, PlaceInv
            <4>4. last_cpu[t] # c
                BY <4>2, <4>3 DEF old
            <4> QED BY <1>9, <4>1, <4>3, <4>4, ConstantsAssumption
        <3> QED BY <3>1, <3>2
    <2> QED BY <2>1, <2>2 DEF PlaceInv
<1> QED BY <1>8, <1>11, <1>12, <1>14, <1>15, <1>16, <1>17, <1>18 DEF IInv

\* sched_join_this_cpu preserves the invariant
LEMMA JoinStep ==
    ASSUME IInv, NEW c \in Cpus, Join(c)
    PROVE  IInv'
<1> USE ConstantsAssumption DEF IInv, Join, Goto,
        lockVars, queueVars, taskVars, cpuVars, wakeVars, localVars
<1>1. TypeOK'
    BY DEF TypeOK, TaskStates, Locations, Nothing, LocalInv
<1>2. QueueInv'
    BY DEF TypeOK, QueueInv
<1>3. LockInv'
    BY DEF TypeOK, LockInv, HoldsQueue, HoldsSched, InWindow, InSchedule, LocalInv
<1>4. LocalInv'
    BY DEF TypeOK, LocalInv, InWindow
<1>5. HandInv'
    BY DEF TypeOK, HandInv, LocalInv, InWindow, LockInv, HoldsSched, CurrentInv, Off, QueueInv
<1>6. CurrentInv'
    BY DEF TypeOK, CurrentInv, HandInv, LockInv, HoldsSched, HoldsQueue, InSchedule, InWindow, Off, LocalInv
<1>7. StackInv'
    BY DEF TypeOK, StackInv, LockInv, HoldsSched, HoldsQueue, InSchedule, InWindow, Off, HandInv, CurrentInv, LocalInv, QueueInv
<1>8. PlaceInv'
    BY DEF TypeOK, PlaceInv, LocalInv, CurrentInv, InWindow
<1> QED BY <1>1, <1>2, <1>3, <1>4, <1>5, <1>6, <1>7, <1>8 DEF IInv

\* The wake-up interrupt preserves the invariant
LEMMA TakeIpiStep ==
    ASSUME IInv, NEW c \in Cpus, TakeIpi(c)
    PROVE  IInv'
<1> USE ConstantsAssumption DEF IInv, TakeIpi, Goto,
        lockVars, queueVars, taskVars, cpuVars, wakeVars, localVars
<1>1. TypeOK'
    BY DEF TypeOK, TaskStates, Locations, Nothing, LocalInv
<1>2. QueueInv'
    BY DEF TypeOK, QueueInv
<1>3. LockInv'
    BY DEF TypeOK, LockInv, HoldsQueue, HoldsSched, InWindow, InSchedule, LocalInv
<1>4. LocalInv'
    BY DEF TypeOK, LocalInv, InWindow
<1>5. HandInv'
    BY DEF TypeOK, HandInv, LocalInv, InWindow, LockInv, HoldsSched, CurrentInv, Off, QueueInv
<1>6. CurrentInv'
    BY DEF TypeOK, CurrentInv, HandInv, LockInv, HoldsSched, HoldsQueue, InSchedule, InWindow, Off, LocalInv
<1>7. StackInv'
    BY DEF TypeOK, StackInv, LockInv, HoldsSched, HoldsQueue, InSchedule, InWindow, Off, HandInv, CurrentInv, LocalInv, QueueInv
<1>8. PlaceInv'
    BY DEF TypeOK, PlaceInv, LocalInv, CurrentInv, InWindow
<1> QED BY <1>1, <1>2, <1>3, <1>4, <1>5, <1>6, <1>7, <1>8 DEF IInv

\* Any other interrupt at a halted CPU preserves the invariant
LEMMA OtherInterruptStep ==
    ASSUME IInv, NEW c \in Cpus, OtherInterrupt(c)
    PROVE  IInv'
<1> USE ConstantsAssumption DEF IInv, OtherInterrupt, Goto,
        lockVars, queueVars, taskVars, cpuVars, wakeVars, localVars
<1>1. TypeOK'
    BY DEF TypeOK, TaskStates, Locations, Nothing, LocalInv
<1>2. QueueInv'
    BY DEF TypeOK, QueueInv
<1>3. LockInv'
    BY DEF TypeOK, LockInv, HoldsQueue, HoldsSched, InWindow, InSchedule, LocalInv
<1>4. LocalInv'
    BY DEF TypeOK, LocalInv, InWindow
<1>5. HandInv'
    BY DEF TypeOK, HandInv, LocalInv, InWindow, LockInv, HoldsSched, CurrentInv, Off, QueueInv
<1>6. CurrentInv'
    BY DEF TypeOK, CurrentInv, HandInv, LockInv, HoldsSched, HoldsQueue, InSchedule, InWindow, Off, LocalInv
<1>7. StackInv'
    BY DEF TypeOK, StackInv, LockInv, HoldsSched, HoldsQueue, InSchedule, InWindow, Off, HandInv, CurrentInv, LocalInv, QueueInv
<1>8. PlaceInv'
    BY DEF TypeOK, PlaceInv, LocalInv, CurrentInv, InWindow
<1> QED BY <1>1, <1>2, <1>3, <1>4, <1>5, <1>6, <1>7, <1>8 DEF IInv

\* sched_yield's entry preserves the invariant
LEMMA YieldStep ==
    ASSUME IInv, NEW c \in Cpus, Yield(c)
    PROVE  IInv'
<1> USE ConstantsAssumption DEF IInv, Yield, Goto,
        lockVars, queueVars, taskVars, cpuVars, wakeVars, localVars
<1>1. TypeOK'
    BY DEF TypeOK, TaskStates, Locations, Nothing, LocalInv
<1>2. QueueInv'
    BY DEF TypeOK, QueueInv
<1>3. LockInv'
    BY DEF TypeOK, LockInv, HoldsQueue, HoldsSched, InWindow, InSchedule, LocalInv
<1>4. LocalInv'
    BY DEF TypeOK, LocalInv, InWindow
<1>5. HandInv'
    BY DEF TypeOK, HandInv, LocalInv, InWindow, LockInv, HoldsSched, CurrentInv, Off, QueueInv
<1>6. CurrentInv'
    BY DEF TypeOK, CurrentInv, HandInv, LockInv, HoldsSched, HoldsQueue, InSchedule, InWindow, Off, LocalInv
<1>7. StackInv'
    BY DEF TypeOK, StackInv, LockInv, HoldsSched, HoldsQueue, InSchedule, InWindow, Off, HandInv, CurrentInv, LocalInv, QueueInv
<1>8. PlaceInv'
    BY DEF TypeOK, PlaceInv, LocalInv, CurrentInv, InWindow
<1> QED BY <1>1, <1>2, <1>3, <1>4, <1>5, <1>6, <1>7, <1>8 DEF IInv

\* steal's unlocked count of the other queues preserves the invariant
LEMMA StealScanStep ==
    ASSUME IInv, NEW c \in Cpus, StealScan(c)
    PROVE  IInv'
<1> USE ConstantsAssumption DEF IInv, StealScan, Goto, Online,
        lockVars, queueVars, taskVars, cpuVars, wakeVars, localVars
<1>1. TypeOK'
    BY DEF TypeOK, TaskStates, Locations, Nothing, LocalInv
<1>2. QueueInv'
    BY DEF TypeOK, QueueInv
<1>3. LockInv'
    BY DEF TypeOK, LockInv, HoldsQueue, HoldsSched, InWindow, InSchedule, LocalInv
<1>4. LocalInv'
    BY DEF TypeOK, LocalInv, InWindow
<1>5. HandInv'
    BY DEF TypeOK, HandInv, LocalInv, InWindow, LockInv, HoldsSched, CurrentInv, Off, QueueInv
<1>6. CurrentInv'
    BY DEF TypeOK, CurrentInv, HandInv, LockInv, HoldsSched, HoldsQueue, InSchedule, InWindow, Off, LocalInv
<1>7. StackInv'
    BY DEF TypeOK, StackInv, LockInv, HoldsSched, HoldsQueue, InSchedule, InWindow, Off, HandInv, CurrentInv, LocalInv, QueueInv
<1>8. PlaceInv'
    BY DEF TypeOK, PlaceInv, LocalInv, CurrentInv, InWindow
<1> QED BY <1>1, <1>2, <1>3, <1>4, <1>5, <1>6, <1>7, <1>8 DEF IInv

\* steal passing over a victim preserves the invariant
LEMMA StealPassStep ==
    ASSUME IInv, NEW c \in Cpus, StealPass(c)
    PROVE  IInv'
<1> USE ConstantsAssumption DEF IInv, StealPass, IsNextVictim,
        lockVars, queueVars, taskVars, cpuVars, wakeVars, localVars
<1>1. TypeOK'
    BY DEF TypeOK, TaskStates, Locations, Nothing, LocalInv
<1>2. QueueInv'
    BY DEF TypeOK, QueueInv
<1>3. LockInv'
    BY DEF TypeOK, LockInv, HoldsQueue, HoldsSched, InWindow, InSchedule, LocalInv
<1>4. LocalInv'
    BY DEF TypeOK, LocalInv, InWindow
<1>5. HandInv'
    BY DEF TypeOK, HandInv, LocalInv, InWindow, LockInv, HoldsSched, CurrentInv, Off, QueueInv
<1>6. CurrentInv'
    BY DEF TypeOK, CurrentInv, HandInv, LockInv, HoldsSched, HoldsQueue, InSchedule, InWindow, Off, LocalInv
<1>7. StackInv'
    BY DEF TypeOK, StackInv, LockInv, HoldsSched, HoldsQueue, InSchedule, InWindow, Off, HandInv, CurrentInv, LocalInv, QueueInv
<1>8. PlaceInv'
    BY DEF TypeOK, PlaceInv, LocalInv, CurrentInv, InWindow
<1> QED BY <1>1, <1>2, <1>3, <1>4, <1>5, <1>6, <1>7, <1>8 DEF IInv

\* steal finding nothing preserves the invariant
LEMMA StealNothingStep ==
    ASSUME IInv, NEW c \in Cpus, StealNothing(c)
    PROVE  IInv'
<1> USE ConstantsAssumption DEF IInv, StealNothing, Goto,
        lockVars, queueVars, taskVars, cpuVars, wakeVars, localVars
<1>1. TypeOK'
    BY DEF TypeOK, TaskStates, Locations, Nothing, LocalInv
<1>2. QueueInv'
    BY DEF TypeOK, QueueInv
<1>3. LockInv'
    BY DEF TypeOK, LockInv, HoldsQueue, HoldsSched, InWindow, InSchedule, LocalInv
<1>4. LocalInv'
    BY DEF TypeOK, LocalInv, InWindow
<1>5. HandInv'
    BY DEF TypeOK, HandInv, LocalInv, InWindow, LockInv, HoldsSched, CurrentInv, Off, QueueInv
<1>6. CurrentInv'
    BY DEF TypeOK, CurrentInv, HandInv, LockInv, HoldsSched, HoldsQueue, InSchedule, InWindow, Off, LocalInv
<1>7. StackInv'
    BY DEF TypeOK, StackInv, LockInv, HoldsSched, HoldsQueue, InSchedule, InWindow, Off, HandInv, CurrentInv, LocalInv, QueueInv
<1>8. PlaceInv'
    BY DEF TypeOK, PlaceInv, LocalInv, CurrentInv, InWindow
<1> QED BY <1>1, <1>2, <1>3, <1>4, <1>5, <1>6, <1>7, <1>8 DEF IInv

\* schedule returning to the same task preserves the invariant
LEMMA CarryOnStep ==
    ASSUME IInv, NEW c \in Cpus, CarryOn(c)
    PROVE  IInv'
<1> USE ConstantsAssumption DEF IInv, CarryOn, Goto, MayStay, Resumed,
        lockVars, queueVars, taskVars, cpuVars, wakeVars, localVars
<1>1. TypeOK'
    BY DEF TypeOK, TaskStates, Locations, Nothing, LocalInv
<1>2. QueueInv'
    BY DEF TypeOK, QueueInv
<1>3. LockInv'
  <2> USE DEF HoldsQueue, HoldsSched, InWindow, InSchedule
  <2>1. ASSUME NEW d \in Cpus PROVE rq_lock'[d] <=> HoldsQueue(d)'
      BY DEF TypeOK, LockInv
  <2>2. ASSUME NEW d \in Cpus, HoldsSched(d)' PROVE sched_lock' = d
    <3>1. CASE d = c
        BY <2>2, <3>1 DEF TypeOK
    <3>2. CASE d # c
      <4>1. HoldsSched(d)
          BY <2>2, <3>2 DEF TypeOK
      <4>2. sched_lock = d /\ ~holding[c]
          BY <3>2, <4>1 DEF LockInv
      <4> QED BY <4>2
    <3> QED BY <3>1, <3>2
  <2>3. ASSUME NEW d \in Cpus, holding'[d] PROVE pc'[d] = "lock" \/ HoldsQueue(d)'
      BY <2>3 DEF TypeOK, LockInv
  <2> QED BY <2>1, <2>2, <2>3 DEF LockInv
<1>4. LocalInv'
    BY DEF TypeOK, LocalInv, InWindow
<1>5. HandInv'
    BY DEF TypeOK, HandInv, LocalInv, InWindow, LockInv, HoldsSched, CurrentInv, Off, QueueInv
<1>6. CurrentInv'
    BY DEF TypeOK, CurrentInv, HandInv, LockInv, HoldsSched, HoldsQueue, InSchedule, InWindow, Off, LocalInv
<1>7. StackInv'
    BY DEF TypeOK, StackInv, LockInv, HoldsSched, HoldsQueue, InSchedule, InWindow, Off, HandInv, CurrentInv, LocalInv, QueueInv
<1>8. PlaceInv'
    BY DEF TypeOK, PlaceInv, LocalInv, CurrentInv, InWindow
<1> QED BY <1>1, <1>2, <1>3, <1>4, <1>5, <1>6, <1>7, <1>8 DEF IInv

\* ctx_switch preserves the invariant
LEMMA CtxSwitchStep ==
    ASSUME IInv, NEW c \in Cpus, CtxSwitch(c)
    PROVE  IInv'
<1> USE ConstantsAssumption DEF IInv, CtxSwitch, Goto,
        lockVars, queueVars, taskVars, cpuVars, wakeVars, localVars
<1>1. TypeOK'
    BY DEF TypeOK, TaskStates, Locations, Nothing, LocalInv
<1>2. QueueInv'
    BY DEF TypeOK, QueueInv
<1>3. LockInv'
    BY DEF TypeOK, LockInv, HoldsQueue, HoldsSched, InWindow, InSchedule, LocalInv
<1>4. LocalInv'
    BY DEF TypeOK, LocalInv, InWindow
<1>5. HandInv'
    BY DEF TypeOK, HandInv, LocalInv, InWindow, LockInv, HoldsSched, CurrentInv, Off, QueueInv
<1>6. CurrentInv'
    BY DEF TypeOK, CurrentInv, HandInv, LockInv, HoldsSched, HoldsQueue, InSchedule, InWindow, Off, LocalInv
<1>7. StackInv'
    BY DEF TypeOK, StackInv, LockInv, HoldsSched, HoldsQueue, InSchedule, InWindow, Off, HandInv, CurrentInv, LocalInv, QueueInv
<1>8. PlaceInv'
    BY DEF TypeOK, PlaceInv, LocalInv, CurrentInv, InWindow
<1> QED BY <1>1, <1>2, <1>3, <1>4, <1>5, <1>6, <1>7, <1>8 DEF IInv

\* kick_cpu's flag preserves the invariant
LEMMA KickSetStep ==
    ASSUME IInv, NEW c \in Cpus, KickSet(c)
    PROVE  IInv'
<1> USE ConstantsAssumption DEF IInv, KickSet, Goto,
        lockVars, queueVars, taskVars, cpuVars, wakeVars, localVars
<1>1. TypeOK'
    BY DEF TypeOK, TaskStates, Locations, Nothing, LocalInv
<1>2. QueueInv'
    BY DEF TypeOK, QueueInv
<1>3. LockInv'
    BY DEF TypeOK, LockInv, HoldsQueue, HoldsSched, InWindow, InSchedule, LocalInv
<1>4. LocalInv'
    BY DEF TypeOK, LocalInv, InWindow
<1>5. HandInv'
    BY DEF TypeOK, HandInv, LocalInv, InWindow, LockInv, HoldsSched, CurrentInv, Off, QueueInv
<1>6. CurrentInv'
    BY DEF TypeOK, CurrentInv, HandInv, LockInv, HoldsSched, HoldsQueue, InSchedule, InWindow, Off, LocalInv
<1>7. StackInv'
    BY DEF TypeOK, StackInv, LockInv, HoldsSched, HoldsQueue, InSchedule, InWindow, Off, HandInv, CurrentInv, LocalInv, QueueInv
<1>8. PlaceInv'
    BY DEF TypeOK, PlaceInv, LocalInv, CurrentInv, InWindow
<1> QED BY <1>1, <1>2, <1>3, <1>4, <1>5, <1>6, <1>7, <1>8 DEF IInv

\* Taking the scheduler lock preserves the invariant
LEMMA SchedLockStep ==
    ASSUME IInv, NEW c \in Cpus, SchedLock(c)
    PROVE  IInv'
<1> USE ConstantsAssumption DEF IInv, SchedLock, Goto,
        lockVars, queueVars, taskVars, cpuVars, wakeVars, localVars
<1>1. TypeOK'
    BY DEF TypeOK, TaskStates, Locations, Nothing, LocalInv
<1>2. QueueInv'
    BY DEF TypeOK, QueueInv
<1>3. LockInv'
    BY DEF TypeOK, LockInv, HoldsQueue, HoldsSched, InWindow, InSchedule, LocalInv
<1>4. LocalInv'
    BY DEF TypeOK, LocalInv, InWindow
<1>5. HandInv'
    BY DEF TypeOK, HandInv, LocalInv, InWindow, LockInv, HoldsSched, CurrentInv, Off, QueueInv
<1>6. CurrentInv'
    BY DEF TypeOK, CurrentInv, HandInv, LockInv, HoldsSched, HoldsQueue, InSchedule, InWindow, Off, LocalInv
<1>7. StackInv'
    BY DEF TypeOK, StackInv, LockInv, HoldsSched, HoldsQueue, InSchedule, InWindow, Off, HandInv, CurrentInv, LocalInv, QueueInv
<1>8. PlaceInv'
    BY DEF TypeOK, PlaceInv, LocalInv, CurrentInv, InWindow
<1> QED BY <1>1, <1>2, <1>3, <1>4, <1>5, <1>6, <1>7, <1>8 DEF IInv

\* Releasing the scheduler lock preserves the invariant
LEMMA SchedUnlockStep ==
    ASSUME IInv, NEW c \in Cpus, SchedUnlock(c)
    PROVE  IInv'
<1> USE ConstantsAssumption DEF IInv, SchedUnlock, Goto, StaysRunning,
        lockVars, queueVars, taskVars, cpuVars, wakeVars, localVars
<1>1. TypeOK'
    BY DEF TypeOK, TaskStates, Locations, Nothing, LocalInv
<1>2. QueueInv'
    BY DEF TypeOK, QueueInv
<1>3. LockInv'
    BY DEF TypeOK, LockInv, HoldsQueue, HoldsSched, InWindow, InSchedule, LocalInv
<1>4. LocalInv'
    BY DEF TypeOK, LocalInv, InWindow
<1>5. HandInv'
    BY DEF TypeOK, HandInv, LocalInv, InWindow, LockInv, HoldsSched, CurrentInv, Off, QueueInv
<1>6. CurrentInv'
    BY DEF TypeOK, CurrentInv, HandInv, LockInv, HoldsSched, HoldsQueue, InSchedule, InWindow, Off, LocalInv
<1>7. StackInv'
    BY DEF TypeOK, StackInv, LockInv, HoldsSched, HoldsQueue, InSchedule, InWindow, Off, HandInv, CurrentInv, LocalInv, QueueInv
<1>8. PlaceInv'
    BY DEF TypeOK, PlaceInv, LocalInv, CurrentInv, InWindow
<1> QED BY <1>1, <1>2, <1>3, <1>4, <1>5, <1>6, <1>7, <1>8 DEF IInv

\* wake_task's entry into place_task preserves the invariant
LEMMA WakeTaskStep ==
    ASSUME IInv, NEW c \in Cpus, NEW t \in Tasks, WakeTask(c, t)
    PROVE  IInv'
<1> USE ConstantsAssumption DEF IInv, WakeTask, Goto, Place,
        lockVars, queueVars, taskVars, cpuVars, wakeVars, localVars
<1>1. TypeOK'
    BY DEF TypeOK, TaskStates, Locations, Nothing, LocalInv
<1>2. QueueInv'
    BY DEF TypeOK, QueueInv
<1>3. LockInv'
    BY DEF TypeOK, LockInv, HoldsQueue, HoldsSched, InWindow, InSchedule, LocalInv
<1>4. LocalInv'
    BY DEF TypeOK, LocalInv, InWindow
<1>5. HandInv'
    BY DEF TypeOK, HandInv, LocalInv, InWindow, LockInv, HoldsSched, CurrentInv, Off, QueueInv
<1>6. CurrentInv'
    BY DEF TypeOK, CurrentInv, HandInv, LockInv, HoldsSched, HoldsQueue, InSchedule, InWindow, Off, LocalInv
<1>7. StackInv'
    BY DEF TypeOK, StackInv, LockInv, HoldsSched, HoldsQueue, InSchedule, InWindow, Off, HandInv, CurrentInv, LocalInv, QueueInv
<1>8. PlaceInv'
    BY WakeTaskPlace
<1> QED BY <1>1, <1>2, <1>3, <1>4, <1>5, <1>6, <1>7, <1>8 DEF IInv

\* sched_add preserves the invariant
LEMMA AddTaskStep ==
    ASSUME IInv, NEW c \in Cpus, NEW t \in Tasks, AddTask(c, t)
    PROVE  IInv'
<1> USE ConstantsAssumption DEF IInv, AddTask, Goto, Place, StaysRunning,
        lockVars, queueVars, taskVars, cpuVars, wakeVars, localVars
<1>1. TypeOK'
    BY DEF TypeOK, TaskStates, Locations, Nothing, LocalInv
<1>2. QueueInv'
    BY DEF TypeOK, QueueInv
<1>3. LockInv'
    BY DEF TypeOK, LockInv, HoldsQueue, HoldsSched, InWindow, InSchedule, LocalInv
<1>4. LocalInv'
    BY DEF TypeOK, LocalInv, InWindow
<1>5. HandInv'
    BY DEF TypeOK, HandInv, LocalInv, InWindow, LockInv, HoldsSched, CurrentInv, Off, QueueInv
<1>6. CurrentInv'
    BY DEF TypeOK, CurrentInv, HandInv, LockInv, HoldsSched, HoldsQueue, InSchedule, InWindow, Off, LocalInv
<1>7. StackInv'
    BY DEF TypeOK, StackInv, LockInv, HoldsSched, HoldsQueue, InSchedule, InWindow, Off, HandInv, CurrentInv, LocalInv, QueueInv
<1>8. PlaceInv'
    BY AddTaskPlace
<1> QED BY <1>1, <1>2, <1>3, <1>4, <1>5, <1>6, <1>7, <1>8 DEF IInv

\* sched_reap preserves the invariant
LEMMA ReapStep ==
    ASSUME IInv, NEW c \in Cpus, NEW t \in Tasks, Reap(c, t)
    PROVE  IInv'
<1> USE ConstantsAssumption DEF IInv, Reap, StaysRunning,
        lockVars, queueVars, taskVars, cpuVars, wakeVars, localVars
<1>1. TypeOK'
    BY DEF TypeOK, TaskStates, Locations, Nothing, LocalInv
<1>2. QueueInv'
    BY DEF TypeOK, QueueInv
<1>3. LockInv'
    BY DEF TypeOK, LockInv, HoldsQueue, HoldsSched, InWindow, InSchedule, LocalInv
<1>4. LocalInv'
    BY DEF TypeOK, LocalInv, InWindow
<1>5. HandInv'
    BY DEF TypeOK, HandInv, LocalInv, InWindow, LockInv, HoldsSched, CurrentInv, Off, QueueInv
<1>6. CurrentInv'
    BY DEF TypeOK, CurrentInv, HandInv, LockInv, HoldsSched, HoldsQueue, InSchedule, InWindow, Off, LocalInv
<1>7. StackInv'
    BY ReapStack
<1>8. PlaceInv'
    BY DEF TypeOK, PlaceInv, LocalInv, CurrentInv, InWindow
<1> QED BY <1>1, <1>2, <1>3, <1>4, <1>5, <1>6, <1>7, <1>8 DEF IInv

\* sleep_on preserves the invariant
LEMMA SleepStep ==
    ASSUME IInv, NEW c \in Cpus, Sleep(c)
    PROVE  IInv'
<1> USE ConstantsAssumption DEF IInv, Sleep, Goto, StaysRunning,
        lockVars, queueVars, taskVars, cpuVars, wakeVars, localVars
<1>1. TypeOK'
    BY DEF TypeOK, TaskStates, Locations, Nothing, LocalInv
<1>2. QueueInv'
    BY DEF TypeOK, QueueInv
<1>3. LockInv'
    BY DEF TypeOK, LockInv, HoldsQueue, HoldsSched, InWindow, InSchedule, LocalInv
<1>4. LocalInv'
    BY DEF TypeOK, LocalInv, InWindow
<1>5. HandInv'
    BY DEF TypeOK, HandInv, LocalInv, InWindow, LockInv, HoldsSched, CurrentInv, Off, QueueInv
<1>6. CurrentInv'
    BY DEF TypeOK, CurrentInv, HandInv, LockInv, HoldsSched, HoldsQueue, InSchedule, InWindow, Off, LocalInv
<1>7. StackInv'
    BY DEF TypeOK, StackInv, LockInv, HoldsSched, HoldsQueue, InSchedule, InWindow, Off, HandInv, CurrentInv, LocalInv, QueueInv
<1>8. PlaceInv'
    BY DEF TypeOK, PlaceInv, LocalInv, CurrentInv, InWindow
<1> QED BY <1>1, <1>2, <1>3, <1>4, <1>5, <1>6, <1>7, <1>8 DEF IInv

\* stop_current's and task_end's change of state preserve the invariant
LEMMA StopOrExitStep ==
    ASSUME IInv, NEW c \in Cpus, StopOrExit(c)
    PROVE  IInv'
<1> USE ConstantsAssumption DEF IInv, StopOrExit, StaysRunning,
        lockVars, queueVars, taskVars, cpuVars, wakeVars, localVars
<1>1. TypeOK'
    BY DEF TypeOK, TaskStates, Locations, Nothing, LocalInv
<1>2. QueueInv'
    BY DEF TypeOK, QueueInv
<1>3. LockInv'
    BY DEF TypeOK, LockInv, HoldsQueue, HoldsSched, InWindow, InSchedule, LocalInv
<1>4. LocalInv'
    BY DEF TypeOK, LocalInv, InWindow
<1>5. HandInv'
    BY DEF TypeOK, HandInv, LocalInv, InWindow, LockInv, HoldsSched, CurrentInv, Off, QueueInv
<1>6. CurrentInv'
    BY DEF TypeOK, CurrentInv, HandInv, LockInv, HoldsSched, HoldsQueue, InSchedule, InWindow, Off, LocalInv
<1>7. StackInv'
    BY DEF TypeOK, StackInv, LockInv, HoldsSched, HoldsQueue, InSchedule, InWindow, Off, HandInv, CurrentInv, LocalInv, QueueInv
<1>8. PlaceInv'
    BY DEF TypeOK, PlaceInv, LocalInv, CurrentInv, InWindow
<1> QED BY <1>1, <1>2, <1>3, <1>4, <1>5, <1>6, <1>7, <1>8 DEF IInv

\* A stopped or dead task's call of schedule preserves the invariant
LEMMA LeaveForGoodStep ==
    ASSUME IInv, NEW c \in Cpus, LeaveForGood(c)
    PROVE  IInv'
<1> USE ConstantsAssumption DEF IInv, LeaveForGood, Goto, StaysRunning,
        lockVars, queueVars, taskVars, cpuVars, wakeVars, localVars
<1>1. TypeOK'
    BY DEF TypeOK, TaskStates, Locations, Nothing, LocalInv
<1>2. QueueInv'
    BY DEF TypeOK, QueueInv
<1>3. LockInv'
    BY DEF TypeOK, LockInv, HoldsQueue, HoldsSched, InWindow, InSchedule, LocalInv
<1>4. LocalInv'
    BY DEF TypeOK, LocalInv, InWindow
<1>5. HandInv'
    BY DEF TypeOK, HandInv, LocalInv, InWindow, LockInv, HoldsSched, CurrentInv, Off, QueueInv
<1>6. CurrentInv'
    BY DEF TypeOK, CurrentInv, HandInv, LockInv, HoldsSched, HoldsQueue, InSchedule, InWindow, Off, LocalInv
<1>7. StackInv'
    BY DEF TypeOK, StackInv, LockInv, HoldsSched, HoldsQueue, InSchedule, InWindow, Off, HandInv, CurrentInv, LocalInv, QueueInv
<1>8. PlaceInv'
    BY DEF TypeOK, PlaceInv, LocalInv, CurrentInv, InWindow
<1> QED BY <1>1, <1>2, <1>3, <1>4, <1>5, <1>6, <1>7, <1>8 DEF IInv

\* task_set_affinity's first write preserves the invariant
LEMMA SetAffinityStep ==
    ASSUME IInv, NEW c \in Cpus, NEW t \in Tasks, NEW a \in Pins, SetAffinity(c, t, a)
    PROVE  IInv'
<1> USE ConstantsAssumption DEF IInv, SetAffinity, Goto, StaysRunning, Online,
        lockVars, queueVars, taskVars, cpuVars, wakeVars, localVars
<1>1. TypeOK'
    BY DEF TypeOK, TaskStates, Locations, Nothing, LocalInv
<1>2. QueueInv'
    BY DEF TypeOK, QueueInv
<1>3. LockInv'
    BY DEF TypeOK, LockInv, HoldsQueue, HoldsSched, InWindow, InSchedule, LocalInv
<1>4. LocalInv'
    BY DEF TypeOK, LocalInv, InWindow
<1>5. HandInv'
    BY DEF TypeOK, HandInv, LocalInv, InWindow, LockInv, HoldsSched, CurrentInv, Off, QueueInv
<1>6. CurrentInv'
    BY DEF TypeOK, CurrentInv, HandInv, LockInv, HoldsSched, HoldsQueue, InSchedule, InWindow, Off, LocalInv
<1>7. StackInv'
    BY DEF TypeOK, StackInv, LockInv, HoldsSched, HoldsQueue, InSchedule, InWindow, Off, HandInv, CurrentInv, LocalInv, QueueInv
<1>8. PlaceInv'
    BY DEF TypeOK, PlaceInv, LocalInv, CurrentInv, InWindow
<1> QED BY <1>1, <1>2, <1>3, <1>4, <1>5, <1>6, <1>7, <1>8 DEF IInv

-----------------------------------------------------------------------------
(* The invariant holds of every behaviour.                                 *)

\* The invariant holds when sched_init returns
LEMMA InitIInv == Init => IInv
<1> SUFFICES ASSUME Init PROVE IInv
    OBVIOUS
<1> USE ConstantsAssumption
<1>1. 0 \in Cpus
    BY DEF Cpus
<1>2. TypeOK
    BY <1>1 DEF Init, TypeOK, TaskStates, Locations, Nothing
<1>3. QueueInv
    BY DEF Init, QueueInv, Distinct, In
<1>4. LockInv /\ LocalInv /\ HandInv
    BY DEF Init, LockInv, LocalInv, HandInv, HoldsQueue, HoldsSched, InWindow, InSchedule
<1>5. CurrentInv
    BY DEF Init, CurrentInv
<1>6. StackInv
    BY <1>1 DEF Init, StackInv, InWindow
<1>7. PlaceInv
    BY <1>1 DEF Init, PlaceInv
<1> QED BY <1>2, <1>3, <1>4, <1>5, <1>6, <1>7 DEF IInv

\* Every step of every CPU preserves the invariant
LEMMA NextIInv == IInv /\ [Next]_vars => IInv'
<1> SUFFICES ASSUME IInv, [Next]_vars PROVE IInv'
    OBVIOUS
<1>1. CASE UNCHANGED vars
    <2> USE <1>1 DEF vars, lockVars, queueVars, taskVars, cpuVars, wakeVars, localVars
    <2>1. TypeOK' /\ QueueInv' /\ PlaceInv'
        BY DEF IInv, TypeOK, QueueInv, PlaceInv
    <2>2. \A c \in Cpus : /\ HoldsQueue(c)' <=> HoldsQueue(c)
                          /\ HoldsSched(c)' <=> HoldsSched(c)
                          /\ InWindow(c)' <=> InWindow(c)
        BY DEF HoldsQueue, HoldsSched, InWindow
    <2>3. LockInv' /\ LocalInv' /\ HandInv' /\ CurrentInv' /\ StackInv'
        BY <2>2 DEF IInv, LockInv, LocalInv, HandInv, CurrentInv, StackInv
    <2> QED BY <2>1, <2>3 DEF IInv
<1>2. ASSUME NEW c \in Cpus, Work(c) PROVE IInv'
    BY <1>2, HandOverStep, ScheduleLockStep, StealScanStep, StealTakeStep,
       StealPassStep, StealNothingStep, CarryOnStep, SwitchStep, CtxSwitchStep,
       FinishSwitchStep, PlaceChooseStep, PlacePushStep, PlaceKickStep,
       KickSetStep, KickSendStep, SchedUnlockStep, LeaveForGoodStep,
       AffinityLookStep, AffinityMoveStep
    DEF Work
<1>3. ASSUME NEW c \in Cpus, Demand(c) PROVE IInv'
    BY <1>3, JoinStep, TakeIpiStep, OtherInterruptStep, YieldStep, TickStep,
       SchedLockStep, SleepStep, StopOrExitStep, WakeTaskStep, AddTaskStep,
       ReapStep, SetAffinityStep
    DEF Demand
<1> QED BY <1>1, <1>2, <1>3 DEF Next

\* The inductive invariant is an invariant: the locks are where the code has
\* them, and every task is in one place
THEOREM Invariance == Spec => []IInv
<1> QED BY InitIInv, NextIInv, PTL DEF Spec

\* No step of any CPU writes anything of the wrong type
THEOREM TypeCorrect == Spec => []TypeOK
<1>1. IInv => TypeOK
    BY DEF IInv
<1> QED BY <1>1, Invariance, PTL

\* No two CPUs ever execute on one task's kernel stack: ctx_switch with the
\* queue lock (and, for a task that leaves, the scheduler lock) held is enough
THEOREM StackNeverShared == Spec => []NoSharedStack
<1>1. IInv => NoSharedStack
    BY DEF IInv, StackInv, NoSharedStack
<1> QED BY <1>1, Invariance, PTL

\* A task seen BLOCKED, STOPPED or ZOMBIE under the scheduler lock has left its
\* stack: what wake_task and sched_reap rely on
THEOREM OffHasLeftStack == Spec => []OffMeansLeftStack
<1>1. ASSUME IInv PROVE OffMeansLeftStack
    <2> SUFFICES ASSUME NEW c \in Cpus, stack[c] \in Tasks, state[stack[c]] \in Off
                 PROVE  sched_lock = c
        BY DEF OffMeansLeftStack
    <2>1. CASE ~InWindow(c)
        <3>1. HoldsSched(c)
            BY <1>1, <2>1, ConstantsAssumption DEF IInv, StackInv, CurrentInv, Off
        <3> QED BY <1>1, <3>1 DEF IInv, LockInv
    <2>2. CASE InWindow(c)
        <3>1. queued_on[stack[c]] # c
            BY <1>1, ConstantsAssumption DEF IInv, QueueInv, Off
        <3>2. hand[c] # stack[c]
            BY <1>1, <2>2, ConstantsAssumption DEF IInv, HandInv, InWindow, Off
        <3>3. HoldsSched(c)
            BY <1>1, <2>2, <3>1, <3>2, ConstantsAssumption DEF IInv, StackInv, HoldsSched
        <3> QED BY <1>1, <3>3 DEF IInv, LockInv
    <2> QED BY <2>1, <2>2
<1> QED BY <1>1, Invariance, PTL

\* A task that queued itself as it gave up the CPU is out of reach until it has
\* left its stack
THEOREM QueuedIsBehindLock == Spec => []QueuedMeansBehindLock
<1>1. ASSUME IInv PROVE QueuedMeansBehindLock
    <2> SUFFICES ASSUME NEW c \in Cpus, stack[c] \in Tasks, queued_on[stack[c]] # None
                 PROVE  queued_on[stack[c]] = c /\ rq_lock[c]
        BY DEF QueuedMeansBehindLock
    <2>1. InWindow(c)
        BY <1>1, ConstantsAssumption DEF IInv, StackInv, CurrentInv
    <2>2. rq_lock[c]
        BY <1>1, <2>1 DEF IInv, LockInv, HoldsQueue
    <2>3. state[stack[c]] = "READY" /\ hand[c] # stack[c]
        BY <1>1, ConstantsAssumption DEF IInv, QueueInv, HandInv
    <2>4. queued_on[stack[c]] = c
        BY <1>1, <2>1, <2>3, ConstantsAssumption DEF IInv, StackInv, Off
    <2> QED BY <2>2, <2>4
<1> QED BY <1>1, Invariance, PTL

\* Nobody's kernel stack is ever freed under a CPU that executes on it
THEOREM FreedStackIsUnused == Spec => []FreedStackUnused
<1>1. ASSUME IInv PROVE FreedStackUnused
    <2> SUFFICES ASSUME NEW c \in Cpus, stack[c] \in Tasks
                 PROVE  state[stack[c]] # "FREE"
        BY DEF FreedStackUnused
    <2>1. CASE ~InWindow(c)
        BY <1>1, <2>1, ConstantsAssumption DEF IInv, StackInv, CurrentInv, Off
    <2>2. CASE InWindow(c)
        <3>1. queued_on[stack[c]] = c => state[stack[c]] = "READY"
            BY <1>1, ConstantsAssumption DEF IInv, QueueInv
        <3>2. hand[c] = stack[c] => state[stack[c]] = "READY"
            BY <1>1, <2>2, ConstantsAssumption DEF IInv, HandInv, InWindow
        <3> QED BY <1>1, <2>2, <3>1, <3>2, ConstantsAssumption DEF IInv, StackInv, Off
    <2> QED BY <2>1, <2>2
<1> QED BY <1>1, Invariance, PTL

\* A queue holds READY tasks of its own, each once
THEOREM QueuesAreSound == Spec => []QueuesSound
<1>1. ASSUME IInv PROVE QueuesSound
    <2> SUFFICES ASSUME NEW c \in Cpus, NEW i \in 1 .. Len(queue[c])
                 PROVE  /\ queued_on[queue[c][i]] = c
                        /\ state[queue[c][i]] = "READY"
                        /\ \A j \in 1 .. Len(queue[c]) : queue[c][i] = queue[c][j] => i = j
        BY DEF QueuesSound
    <2>1. queue[c][i] \in Tasks /\ In(queue[c][i], queue[c])
        BY <1>1 DEF IInv, TypeOK, In
    <2>2. queued_on[queue[c][i]] = c
        BY <1>1, <2>1 DEF IInv, QueueInv
    <2>3. state[queue[c][i]] = "READY"
        BY <1>1, <2>1, <2>2, ConstantsAssumption DEF IInv, QueueInv
    <2>4. \A j \in 1 .. Len(queue[c]) : queue[c][i] = queue[c][j] => i = j
        BY <1>1 DEF IInv, QueueInv, Distinct
    <2> QED BY <2>2, <2>3, <2>4
<1> QED BY <1>1, Invariance, PTL

\* No task is lost or doubled on its way between queues, hands and CPUs
THEOREM NothingIsLost == Spec => []NoTaskLost
<1>1. ASSUME IInv PROVE NoTaskLost
    <2> SUFFICES ASSUME NEW t \in Tasks
                 PROVE  /\ queued_on[t] # None =>
                              /\ \E i \in 1 .. Len(queue[queued_on[t]]) : queue[queued_on[t]][i] = t
                              /\ \A c \in Cpus : hand[c] # t
                        /\ state[t] = "READY" /\ queued_on[t] = None => \E c \in Cpus : hand[c] = t
                        /\ state[t] = "RUNNING" => \E c \in Cpus : current[c] = t
                        /\ \A c, d \in Cpus : hand[c] = t /\ hand[d] = t => c = d
                        /\ \A c, d \in Cpus : current[c] = t /\ current[d] = t => c = d
        BY DEF NoTaskLost
    <2>1. queued_on[t] # None =>
              /\ \E i \in 1 .. Len(queue[queued_on[t]]) : queue[queued_on[t]][i] = t
              /\ \A c \in Cpus : hand[c] # t
        <3> SUFFICES ASSUME queued_on[t] # None
                     PROVE  In(t, queue[queued_on[t]]) /\ \A c \in Cpus : hand[c] # t
            BY DEF In
        <3>1. queued_on[t] \in Cpus
            BY <1>1 DEF IInv, TypeOK
        <3> QED BY <1>1, <3>1, ConstantsAssumption DEF IInv, QueueInv, HandInv
    <2>2. state[t] = "RUNNING" => \E c \in Cpus : current[c] = t
        BY <1>1 DEF IInv, TypeOK, PlaceInv
    <2>3. \A c, d \in Cpus : hand[c] = t /\ hand[d] = t => c = d
        BY <1>1, ConstantsAssumption DEF IInv, HandInv
    <2>4. \A c, d \in Cpus : current[c] = t /\ current[d] = t => c = d
        BY <1>1, ConstantsAssumption DEF IInv, CurrentInv
    <2>5. state[t] = "READY" /\ queued_on[t] = None => \E c \in Cpus : hand[c] = t
        BY <1>1 DEF IInv, PlaceInv
    <2> QED BY <2>1, <2>2, <2>3, <2>4, <2>5
<1> QED BY <1>1, Invariance, PTL

-----------------------------------------------------------------------------
(* No wakeup is slept through, as long as only PID 0 is bound to a CPU.    *)
(*                                                                         *)
(* A CPU that has found its queue empty and goes to sleep is told of       *)
(* whatever comes into the queue from then on, by the interrupt that is    *)
(* pending, or by the CPU that is about to send it.  The flag that spares  *)
(* a second interrupt is down when it looks, so that it is up only if one  *)
(* has come since.                                                         *)

\* In the idle loop with interrupts off, or on the way there
Dozing(c) ==
    \/ pc[c] = "halt"
    \/ pc[c] \in {"choose", "push", "kick", "set", "send"} /\ back[c] = "halt"

\* Since it took its queue's lock in schedule
AfterLook(c) == HoldsQueue(c) \/ Dozing(c)

\* The task in its hand may not run here
Away(c) == affinity[hand[c]] \notin {AnyCpu, c}

Asking(d, c) == pc[d] = "send" /\ target[d] = c
Kicking(d, c) == pc[d] \in {"kick", "set", "send"} /\ target[d] = c

\* A CPU that found nothing has nothing in its queue while it keeps the lock
Looked(c) ==
    \/ pc[c] \in {"scan", "steal"}
    \/ pc[c] = "switch" /\ hand[c] = None
    \/ (pc[c] = "finish" \/ InWindow(c)) /\ current[c] = Idle
    => queue[c] = <<>>

\* The task that had to leave it does not come back to it
HandsAway(c) ==
    /\ (pc[c] = "finish" \/ InWindow(c)) /\ hand[c] # None => Away(c)
    /\ pc[c] \in {"choose", "push"} /\ back[c] = "halt" => Away(c)
    /\ pc[c] \in {"push", "kick"} /\ back[c] = "halt" => target[c] # c

\* The flag is up only if the interrupt is there or on its way
KickedTold(c) ==
    AfterLook(c) /\ kicked[c] => ipi[c] \/ \E d \in Cpus : Asking(d, c)

\* What came into its queue is announced
Announced(c) ==
    Dozing(c) /\ queue[c] # <<>> => ipi[c] \/ \E d \in Cpus : Kicking(d, c)

WakeAt(c) ==
    /\ Looked(c) /\ HandsAway(c) /\ KickedTold(c) /\ Announced(c)
    /\ Dozing(c) => current[c] = Idle

WakeInv == \A c \in Cpus : WakeAt(c)

\* A step of CPU c, which is not about to kick anyone, that puts nothing into
\* another's queue
LEMMA OwnStep ==
    ASSUME WakeInv, NEW c \in Cpus, pc[c] \notin {"kick", "set", "send"},
           \A e \in Cpus \ {c} :
               /\ pc'[e] = pc[e] /\ back'[e] = back[e] /\ hand'[e] = hand[e]
               /\ target'[e] = target[e] /\ current'[e] = current[e]
               /\ kicked'[e] = kicked[e] /\ ipi'[e] = ipi[e]
               /\ queue[e] = <<>> => queue'[e] = <<>>
               /\ hand[e] # None /\ Away(e) => Away(e)',
           Looked(c)', HandsAway(c)', Dozing(c)' => current'[c] = Idle,
           AfterLook(c)' /\ kicked'[c]
               => ipi'[c] \/ \E d \in Cpus \ {c} : Asking(d, c),
           Dozing(c)' /\ queue'[c] # <<>>
               => ipi'[c] \/ \E d \in Cpus \ {c} : Kicking(d, c),
           \A e \in Cpus : pc[e] \in {"choose", "push"} => hand[e] # None
    PROVE  WakeInv'
<1>1. \A e \in Cpus, d \in Cpus \ {c} : /\ Asking(d, e)' <=> Asking(d, e)
                                        /\ Kicking(d, e)' <=> Kicking(d, e)
    BY DEF Asking, Kicking
<1>2. \A e \in Cpus : ~Asking(c, e) /\ ~Kicking(c, e)
    BY DEF Asking, Kicking
<1>3. ASSUME NEW e \in Cpus \ {c} PROVE WakeAt(e)'
    <2>1. /\ Dozing(e)' <=> Dozing(e)
          /\ InWindow(e)' <=> InWindow(e)
          /\ AfterLook(e)' <=> AfterLook(e)
        BY DEF Dozing, InWindow, AfterLook, HoldsQueue
    <2>2. WakeAt(e)
        BY DEF WakeInv
    <2>3. Looked(e)'
        BY <2>1, <2>2 DEF WakeAt, Looked
    <2>4. HandsAway(e)'
        BY <2>1, <2>2 DEF WakeAt, HandsAway
    <2>5. KickedTold(e)'
        BY <1>1, <1>2, <2>1, <2>2 DEF WakeAt, KickedTold
    <2>6. Announced(e)'
        BY <1>1, <1>2, <2>1, <2>2 DEF WakeAt, Announced
    <2> QED BY <2>1, <2>2, <2>3, <2>4, <2>5, <2>6 DEF WakeAt
<1>4. WakeAt(c)'
    <2>1. KickedTold(c)' /\ Announced(c)'
        BY <1>1 DEF KickedTold, Announced
    <2> QED BY <2>1 DEF WakeAt
<1> QED BY <1>3, <1>4 DEF WakeInv

\* ... after which it is not on its way to sleep
LEMMA AwakeStep ==
    ASSUME WakeInv, NEW c \in Cpus, pc[c] \notin {"kick", "set", "send"},
           \A e \in Cpus \ {c} :
               /\ pc'[e] = pc[e] /\ back'[e] = back[e] /\ hand'[e] = hand[e]
               /\ target'[e] = target[e] /\ current'[e] = current[e]
               /\ kicked'[e] = kicked[e] /\ ipi'[e] = ipi[e]
               /\ queue[e] = <<>> => queue'[e] = <<>>
               /\ hand[e] # None /\ Away(e) => Away(e)',
           \A e \in Cpus : pc[e] \in {"choose", "push"} => hand[e] # None,
           pc'[c] \in {"run", "crit", "lock", "handover", "move", "unlink", "choose"},
           pc'[c] = "choose" => back'[c] = "crit"
    PROVE  WakeInv'
<1>1. ~Dozing(c)' /\ ~AfterLook(c)' /\ ~InWindow(c)'
    BY DEF Dozing, AfterLook, HoldsQueue, InWindow, InSchedule
<1>2. Looked(c)' /\ HandsAway(c)'
    BY <1>1 DEF Looked, HandsAway
<1> QED BY <1>1, <1>2, OwnStep
\* What a step of another CPU leaves alone at CPU e
Stays(e) ==
    /\ pc'[e] = pc[e] /\ back'[e] = back[e] /\ hand'[e] = hand[e]
    /\ target'[e] = target[e] /\ current'[e] = current[e]

\* The steps of a critical section, of a task, and of an interrupt: the CPU is
\* not on its way to sleep
LEMMA AwakeSteps ==
    ASSUME IInv, WakeInv, OnlyBootIsBound, OnlyBootIsBound', NEW c \in Cpus,
           \/ Join(c) \/ TakeIpi(c) \/ OtherInterrupt(c) \/ Yield(c) \/ Tick(c)
           \/ SchedLock(c) \/ SchedUnlock(c) \/ Sleep(c) \/ StopOrExit(c)
           \/ LeaveForGood(c)
           \/ \E t \in Tasks : WakeTask(c, t) \/ AddTask(c, t) \/ Reap(c, t)
           \/ \E t \in Tasks, a \in Pins : SetAffinity(c, t, a)
    PROVE  WakeInv'
<1> USE DEF lockVars, queueVars, taskVars, cpuVars, wakeVars, localVars, Goto, Place
<1>1. pc[c] \in {"off", "run", "halt", "crit"}
    BY DEF Join, TakeIpi, OtherInterrupt, Yield, Tick, SchedLock, SchedUnlock,
           Sleep, StopOrExit, LeaveForGood, WakeTask, AddTask, Reap, SetAffinity
<1>2. \A e \in Cpus : pc[e] \in {"choose", "push"} => hand[e] # None
    BY DEF IInv, LocalInv
<1>3. /\ pc'[c] \in {"run", "crit", "lock", "handover", "move", "choose"}
      /\ pc'[c] = "choose" => back'[c] = "crit"
    <2>1. CASE \E t \in Tasks : WakeTask(c, t) \/ AddTask(c, t)
        <3>1. /\ pc' = [pc EXCEPT ![c] = "choose"]
              /\ back' = [back EXCEPT ![c] = "crit"]
            BY <2>1 DEF WakeTask, AddTask
        <3> QED BY <3>1 DEF IInv, TypeOK
    <2>2. CASE \/ \E t \in Tasks : Reap(c, t)
               \/ StopOrExit(c)
        <3>1. pc' = pc /\ pc[c] = "crit"
            BY <2>2 DEF Reap, StopOrExit
        <3> QED BY <3>1
    <2>3. CASE \E t \in Tasks, a \in Pins : SetAffinity(c, t, a)
        BY <2>3 DEF IInv, TypeOK, SetAffinity
    <2> QED BY <2>1, <2>2, <2>3
        DEF IInv, TypeOK, Join, TakeIpi, OtherInterrupt, Yield, Tick, SchedLock,
            SchedUnlock, Sleep, LeaveForGood
<1>4. \A e \in Cpus \ {c} : Stays(e)
    <2>1. \A e \in Cpus \ {c} : pc'[e] = pc[e]
        BY DEF IInv, TypeOK, Join, TakeIpi, OtherInterrupt, Yield, Tick, SchedLock,
            SchedUnlock, Sleep, StopOrExit, LeaveForGood, WakeTask, AddTask, Reap,
            SetAffinity
    <2>2. \A e \in Cpus \ {c} : back'[e] = back[e]
        <3>1. back' = back \/ \E l : back' = [back EXCEPT ![c] = l]
            BY DEF Join, TakeIpi, OtherInterrupt, Yield, Tick, SchedLock, SchedUnlock,
                   Sleep, StopOrExit, LeaveForGood, WakeTask, AddTask, Reap, SetAffinity
        <3> QED BY <3>1 DEF IInv, TypeOK
    <2>3. \A e \in Cpus \ {c} : hand'[e] = hand[e]
        BY DEF IInv, TypeOK, Join, TakeIpi, OtherInterrupt, Yield, Tick, SchedLock,
            SchedUnlock, Sleep, StopOrExit, LeaveForGood, WakeTask, AddTask, Reap,
            SetAffinity
    <2>4. \A e \in Cpus \ {c} : target'[e] = target[e]
        BY DEF IInv, TypeOK, Join, TakeIpi, OtherInterrupt, Yield, Tick, SchedLock,
            SchedUnlock, Sleep, StopOrExit, LeaveForGood, WakeTask, AddTask, Reap,
            SetAffinity
    <2>5. \A e \in Cpus \ {c} : current'[e] = current[e]
        BY DEF IInv, TypeOK, Join, TakeIpi, OtherInterrupt, Yield, Tick, SchedLock,
            SchedUnlock, Sleep, StopOrExit, LeaveForGood, WakeTask, AddTask, Reap,
            SetAffinity
    <2> QED BY <2>1, <2>2, <2>3, <2>4, <2>5 DEF Stays
<1>5. \A e \in Cpus \ {c} : kicked'[e] = kicked[e] /\ ipi'[e] = ipi[e]
    BY DEF IInv, TypeOK, Join, TakeIpi, OtherInterrupt, Yield, Tick, SchedLock,
           SchedUnlock, Sleep, StopOrExit, LeaveForGood, WakeTask, AddTask, Reap,
           SetAffinity
<1>6. queue' = queue
    BY DEF Join, TakeIpi, OtherInterrupt, Yield, Tick, SchedLock, SchedUnlock,
           Sleep, StopOrExit, LeaveForGood, WakeTask, AddTask, Reap, SetAffinity
<1>7. ASSUME NEW e \in Cpus \ {c}, hand[e] # None, Away(e) PROVE Away(e)'
    <2>1. hand[e] \in Tasks /\ hand'[e] = hand[e]
        BY <1>4, <1>7 DEF IInv, TypeOK, Stays
    <2>2. hand[e] = Boot
        BY <2>1, <1>7 DEF OnlyBootIsBound, Away
    <2>3. affinity'[Boot] = affinity[Boot]
        <3>1. CASE affinity' = affinity
            BY <3>1
        <3>2. CASE \E t \in Tasks : Reap(c, t)
            <4>1. PICK t \in Tasks : Reap(c, t)
                BY <3>2
            <4>2. state[Boot] # "ZOMBIE"
                BY <2>2, <1>7 DEF IInv, HandInv
            <4> QED BY <4>1, <4>2, ConstantsAssumption DEF IInv, TypeOK, Reap
        <3>3. CASE \E t \in Tasks, a \in Pins : SetAffinity(c, t, a)
            BY <3>3, ConstantsAssumption DEF IInv, TypeOK, SetAffinity
        <3> QED BY <3>1, <3>2, <3>3
            DEF Join, TakeIpi, OtherInterrupt, Yield, Tick, SchedLock, SchedUnlock,
                Sleep, StopOrExit, LeaveForGood, WakeTask, AddTask
    <2> QED BY <2>1, <2>2, <2>3, <1>7 DEF Away
<1> QED BY <1>1, <1>2, <1>3, <1>4, <1>5, <1>6, <1>7, AwakeStep DEF Stays

\* task_set_affinity's look at a queue, and the task it takes out
LEMMA AffinitySteps ==
    ASSUME IInv, WakeInv, NEW c \in Cpus, AffinityLook(c) \/ AffinityMove(c)
    PROVE  WakeInv'
<1> USE DEF lockVars, queueVars, taskVars, cpuVars, wakeVars, localVars, Goto, Place
<1>1. pc[c] \in {"move", "unlink"}
    BY DEF AffinityLook, AffinityMove
<1>2. \A e \in Cpus : pc[e] \in {"choose", "push"} => hand[e] # None
    BY DEF IInv, LocalInv
<1>3. /\ pc'[c] \in {"crit", "move", "unlink", "choose"}
      /\ pc'[c] = "choose" => back'[c] = "crit"
    <2>1. CASE AffinityLook(c)
        BY <2>1 DEF IInv, TypeOK, AffinityLook
    <2>2. CASE AffinityMove(c)
        <3>1. \/ /\ pc' = [pc EXCEPT ![c] = "choose"]
                 /\ back' = [back EXCEPT ![c] = "crit"]
              \/ pc' = [pc EXCEPT ![c] = "move"]
            BY <2>2 DEF AffinityMove
        <3> QED BY <3>1 DEF IInv, TypeOK
    <2> QED BY <2>1, <2>2
<1>4. \A e \in Cpus \ {c} :
          Stays(e) /\ kicked'[e] = kicked[e] /\ ipi'[e] = ipi[e]
    <2>1. \A e \in Cpus \ {c} : pc'[e] = pc[e]
        BY DEF IInv, TypeOK, AffinityLook, AffinityMove
    <2>2. \A e \in Cpus \ {c} : back'[e] = back[e]
        BY DEF IInv, TypeOK, AffinityLook, AffinityMove
    <2>3. \A e \in Cpus \ {c} : hand'[e] = hand[e]
        BY DEF IInv, TypeOK, AffinityLook, AffinityMove
    <2>4. \A e \in Cpus \ {c} : target'[e] = target[e]
        BY DEF IInv, TypeOK, AffinityLook, AffinityMove
    <2>5. \A e \in Cpus \ {c} : current'[e] = current[e]
        BY DEF IInv, TypeOK, AffinityLook, AffinityMove
    <2> QED BY <2>1, <2>2, <2>3, <2>4, <2>5 DEF Stays, AffinityLook, AffinityMove
<1>5. ASSUME NEW e \in Cpus, queue[e] = <<>> PROVE queue'[e] = <<>>
    <2>1. CASE queue' = queue
        BY <2>1, <1>5
    <2>2. CASE AffinityMove(c) /\ queue' # queue
        <3>1. PICK i \in 1 .. Len(queue[target[c]]) :
                  queue' = [queue EXCEPT ![target[c]] = Unlink(queue[target[c]], i)]
            BY <2>2 DEF AffinityMove
        <3>2. target[c] # e
            BY <3>1, <1>5
        <3> QED BY <3>1, <3>2, <1>5 DEF IInv, TypeOK
    <2> QED BY <2>1, <2>2 DEF AffinityLook
<1>6. affinity' = affinity
    BY DEF AffinityLook, AffinityMove
<1>7. \A e \in Cpus \ {c} : Away(e) => Away(e)'
    BY <1>4, <1>6 DEF Stays, Away
<1> QED BY <1>1, <1>2, <1>3, <1>4, <1>5, <1>7, AwakeStep DEF Stays
\* schedule under this CPU's queue lock, up to the choice of the next task.
\* The flag is lowered as the queue is looked at.
LEMMA LookSteps ==
    ASSUME IInv, WakeInv, NEW c \in Cpus,
           \/ ScheduleLock(c) \/ StealScan(c) \/ StealTake(c) \/ StealPass(c)
           \/ StealNothing(c)
    PROVE  WakeInv'
<1> USE DEF lockVars, queueVars, taskVars, cpuVars, wakeVars, localVars, Goto
<1>1. pc[c] \in {"lock", "scan", "steal"} /\ pc'[c] \in {"scan", "steal", "switch"}
    BY DEF IInv, TypeOK, ScheduleLock, StealScan, StealTake, StealPass, StealNothing
<1>2. \A e \in Cpus : pc[e] \in {"choose", "push"} => hand[e] # None
    BY DEF IInv, LocalInv
<1>3. \A e \in Cpus \ {c} : Stays(e)
    <2>1. \A e \in Cpus \ {c} : pc'[e] = pc[e]
        BY DEF IInv, TypeOK, ScheduleLock, StealScan, StealTake, StealPass, StealNothing
    <2>2. \A e \in Cpus \ {c} : hand'[e] = hand[e]
        BY DEF IInv, TypeOK, ScheduleLock, StealScan, StealTake, StealPass, StealNothing
    <2> QED BY <2>1, <2>2
        DEF Stays, ScheduleLock, StealScan, StealTake, StealPass, StealNothing
<1>4. /\ \A e \in Cpus \ {c} : kicked'[e] = kicked[e]
      /\ ipi' = ipi /\ affinity' = affinity
    BY DEF IInv, TypeOK, ScheduleLock, StealScan, StealTake, StealPass, StealNothing
<1>5. ASSUME NEW e \in Cpus, queue[e] = <<>> PROVE queue'[e] = <<>>
    <2>1. CASE queue' = queue
        BY <2>1, <1>5
    <2>2. CASE ScheduleLock(c) /\ queue' # queue
        <3>1. queue' = [queue EXCEPT ![c] = Unlink(queue[c], 1)] /\ queue[c] # <<>>
            BY <2>2 DEF ScheduleLock
        <3> QED BY <3>1, <1>5 DEF IInv, TypeOK
    <2>3. CASE StealTake(c)
        <3>1. PICK d \in Cpus : \E i \in 1 .. Len(queue[d]) :
                  queue' = [queue EXCEPT ![d] = Unlink(queue[d], i)]
            BY <2>3 DEF StealTake
        <3>2. d # e
            BY <3>1, <1>5
        <3> QED BY <3>1, <3>2, <1>5 DEF IInv, TypeOK
    <2> QED BY <2>1, <2>2, <2>3 DEF StealScan, StealPass, StealNothing
<1>6. \A e \in Cpus \ {c} : Away(e) => Away(e)'
    BY <1>3, <1>4 DEF Stays, Away
<1>7. /\ ~Dozing(c)' /\ ~InWindow(c)' /\ HandsAway(c)'
    BY <1>1 DEF Dozing, InWindow, HandsAway
<1>8. Looked(c)'
    <2>1. SUFFICES ASSUME pc'[c] = "switch" => hand'[c] = None
                   PROVE  queue'[c] = <<>>
        BY <1>1, <1>7 DEF Looked
    <2>2. CASE ScheduleLock(c)
        <3>1. CASE queue[c] = <<>>
            BY <3>1, <1>5
        <3>2. CASE queue[c] # <<>>
            <4>1. hand'[c] = Head(queue[c]) /\ pc'[c] = "switch" /\ hand'[c] \in Tasks
                BY <2>2, <3>2 DEF IInv, TypeOK, ScheduleLock
            <4> QED BY <4>1, <2>1, ConstantsAssumption
        <3> QED BY <3>1, <3>2
    <2>3. CASE ~ScheduleLock(c)
        <3>1. pc[c] \in {"scan", "steal"}
            BY <2>3 DEF StealScan, StealTake, StealPass, StealNothing
        <3> QED BY <3>1, <1>5 DEF WakeInv, WakeAt, Looked
    <2> QED BY <2>2, <2>3
<1>9. kicked'[c] => ipi'[c] \/ \E d \in Cpus \ {c} : Asking(d, c)
    <2>1. CASE ScheduleLock(c)
        BY <2>1 DEF IInv, TypeOK, ScheduleLock
    <2>2. CASE ~ScheduleLock(c)
        <3>1. pc[c] \in {"scan", "steal"} /\ kicked' = kicked
            BY <2>2 DEF StealScan, StealTake, StealPass, StealNothing
        <3>2. AfterLook(c) /\ ~Asking(c, c)
            BY <3>1 DEF AfterLook, HoldsQueue, InSchedule, Asking
        <3> QED BY <3>1, <3>2, <1>4 DEF WakeInv, WakeAt, KickedTold
    <2> QED BY <2>1, <2>2
<1> QED BY <1>1, <1>2, <1>3, <1>4, <1>5, <1>6, <1>7, <1>8, <1>9, OwnStep DEF Stays
\* A CPU that took its queue's lock in schedule is still told if it was kicked
LEMMA StillTold ==
    ASSUME WakeInv, NEW c \in Cpus, AfterLook(c), pc[c] # "send",
           kicked' = kicked, ipi' = ipi
    PROVE  kicked'[c] => ipi'[c] \/ \E d \in Cpus \ {c} : Asking(d, c)
BY DEF WakeInv, WakeAt, KickedTold, Asking

\* The end of schedule, ctx_switch and finish_switch, and choose_cpu: a CPU
\* that goes to sleep found nothing, and the task it places belongs elsewhere
LEMMA LeaveSteps ==
    ASSUME IInv, WakeInv, NEW c \in Cpus,
           CarryOn(c) \/ CtxSwitch(c) \/ FinishSwitch(c) \/ PlaceChoose(c)
    PROVE  WakeInv'
<1> USE DEF lockVars, queueVars, taskVars, cpuVars, wakeVars, localVars, Goto
<1>1. /\ pc[c] \in {"switch", "ctx", "finish", "choose"}
      /\ pc'[c] \in {"run", "halt", "finish", "choose", "push"}
    BY DEF IInv, TypeOK, CarryOn, CtxSwitch, FinishSwitch, PlaceChoose, Resumed
<1>2. \A e \in Cpus : pc[e] \in {"choose", "push"} => hand[e] # None
    BY DEF IInv, LocalInv
<1>3. /\ queue' = queue /\ kicked' = kicked /\ ipi' = ipi
      /\ affinity' = affinity /\ current' = current /\ hand' = hand
    BY DEF CarryOn, CtxSwitch, FinishSwitch, PlaceChoose
<1>4. \A e \in Cpus \ {c} : Stays(e)
    <2>1. \A e \in Cpus \ {c} : pc'[e] = pc[e]
        BY DEF IInv, TypeOK, CarryOn, CtxSwitch, FinishSwitch, PlaceChoose
    <2>2. \A e \in Cpus \ {c} : back'[e] = back[e]
        BY DEF IInv, TypeOK, CarryOn, CtxSwitch, FinishSwitch, PlaceChoose
    <2>3. \A e \in Cpus \ {c} : target'[e] = target[e]
        BY DEF IInv, TypeOK, CarryOn, CtxSwitch, FinishSwitch, PlaceChoose
    <2> QED BY <1>3, <2>1, <2>2, <2>3 DEF Stays
<1>5. \A e \in Cpus \ {c} : Away(e) => Away(e)'
    BY <1>3 DEF Away
<1>6. WakeAt(c)
    BY DEF WakeInv
<1>7. CASE CarryOn(c)
    <2>1. /\ pc[c] = "switch" /\ hand[c] = None
          /\ pc'[c] = "halt" => current[c] = Idle
          /\ pc'[c] \in {"run", "halt"}
        BY <1>7 DEF IInv, TypeOK, CarryOn, Resumed
    <2>2. queue[c] = <<>> /\ AfterLook(c)
        BY <2>1, <1>6 DEF WakeAt, Looked, AfterLook, HoldsQueue, InSchedule
    <2>3. Looked(c)' /\ HandsAway(c)'
        BY <2>1 DEF Looked, HandsAway, InWindow
    <2>4. Dozing(c)' => current'[c] = Idle
        BY <2>1, <1>3 DEF Dozing
    <2>5. kicked'[c] => ipi'[c] \/ \E d \in Cpus \ {c} : Asking(d, c)
        BY <2>1, <2>2, <1>3, StillTold
    <2> QED BY <1>1, <1>2, <1>3, <1>4, <1>5, <2>2, <2>3, <2>4, <2>5, OwnStep DEF Stays
<1>8. CASE CtxSwitch(c)
    <2>1. pc[c] = "ctx" /\ pc'[c] = "finish"
        BY <1>8 DEF IInv, TypeOK, CtxSwitch
    <2>2. AfterLook(c) /\ InWindow(c)
        BY <2>1 DEF AfterLook, HoldsQueue, InSchedule, InWindow
    <2>3. Looked(c)' /\ HandsAway(c)'
        BY <2>1, <2>2, <1>3, <1>6 DEF WakeAt, Looked, HandsAway, Away, InWindow
    <2>4. ~Dozing(c)'
        BY <2>1 DEF Dozing
    <2>5. kicked'[c] => ipi'[c] \/ \E d \in Cpus \ {c} : Asking(d, c)
        BY <2>1, <2>2, <1>3, StillTold
    <2> QED BY <1>1, <1>2, <1>3, <1>4, <1>5, <2>2, <2>3, <2>4, <2>5, OwnStep DEF Stays
<1>9. CASE FinishSwitch(c)
    <2>1. /\ pc[c] = "finish" /\ pc'[c] \in {"run", "halt", "choose"}
          /\ pc'[c] = "halt" => current[c] = Idle
          /\ pc'[c] = "choose" => /\ hand[c] # None
                                  /\ back'[c] = "halt" => current[c] = Idle
        BY <1>9 DEF IInv, TypeOK, FinishSwitch, Resumed
    <2>2. AfterLook(c) /\ (current[c] = Idle => queue[c] = <<>>)
        BY <2>1, <1>6 DEF WakeAt, Looked, AfterLook, HoldsQueue, InSchedule
    <2>3. Looked(c)' /\ HandsAway(c)'
        BY <2>1, <1>3, <1>6 DEF WakeAt, Looked, HandsAway, Away, InWindow
    <2>4. Dozing(c)' => current[c] = Idle
        BY <2>1, <1>3 DEF Dozing
    <2>5. kicked'[c] => ipi'[c] \/ \E d \in Cpus \ {c} : Asking(d, c)
        BY <2>1, <2>2, <1>3, StillTold
    <2> QED BY <1>1, <1>2, <1>3, <1>4, <1>5, <2>2, <2>3, <2>4, <2>5, OwnStep DEF Stays
<1>10. CASE PlaceChoose(c)
    <2>1. /\ pc[c] = "choose" /\ pc'[c] = "push" /\ back' = back
          /\ Chosen(hand[c], target'[c])
        BY <1>10 DEF IInv, TypeOK, PlaceChoose
    <2>2. Dozing(c)' <=> Dozing(c)
        BY <2>1 DEF Dozing
    <2>3. ~Dozing(c) => ~AfterLook(c)'
        BY <2>1, <2>2 DEF AfterLook, HoldsQueue, InSchedule, InWindow
    <2>4. Dozing(c) => Away(c) /\ current[c] = Idle
        BY <2>1, <1>6 DEF WakeAt, HandsAway, Dozing
    <2>5. Looked(c)' /\ HandsAway(c)'
        BY <2>1, <2>2, <2>4, <1>3
        DEF Looked, HandsAway, Away, InWindow, Chosen, Dozing
    <2>6. Dozing(c) /\ kicked'[c] => ipi'[c] \/ \E d \in Cpus \ {c} : Asking(d, c)
        BY <2>1, <1>3, StillTold DEF AfterLook
    <2>7. Dozing(c) /\ queue[c] # <<>> => ipi[c] \/ \E d \in Cpus \ {c} : Kicking(d, c)
        BY <2>1, <1>6 DEF WakeAt, Announced, Kicking
    <2> QED BY <1>1, <1>2, <1>3, <1>4, <1>5, <2>2, <2>3, <2>4, <2>5, <2>6, <2>7,
               OwnStep DEF Stays
<1> QED BY <1>7, <1>8, <1>9, <1>10

\* The switch itself: the CPU turns to its idle task only with an empty queue,
\* and keeps in its hand a task that may not run here
LEMMA SwitchWakes ==
    ASSUME IInv, WakeInv, NEW c \in Cpus, Switch(c) PROVE WakeInv'
<1> USE DEF lockVars, queueVars, taskVars, cpuVars, wakeVars, localVars, Goto
<1> DEFINE old == current[c]
           runnable == old # Idle /\ state[old] = "RUNNING"
           pushed == runnable /\ MayStay(c)
<1>1. /\ pc[c] = "switch" /\ (hand[c] # None \/ ~MayStay(c))
      /\ pc'[c] = "ctx" \/ (pc'[c] = "set" /\ back'[c] = "ctx")
      /\ kicked' = kicked /\ ipi' = ipi /\ affinity' = affinity
    BY DEF IInv, TypeOK, Switch
<1>2. /\ hand'[c] = (IF runnable /\ ~pushed THEN old ELSE None)
      /\ current'[c] = (IF hand[c] = None THEN Idle ELSE hand[c])
      /\ queue' = (IF pushed THEN [queue EXCEPT ![c] = Append(queue[c], old)] ELSE queue)
    BY DEF IInv, TypeOK, Switch
<1>3. \A e \in Cpus \ {c} : Stays(e)
    <2>1. \A e \in Cpus \ {c} : pc'[e] = pc[e]
        BY DEF IInv, TypeOK, Switch
    <2>2. \A e \in Cpus \ {c} : back'[e] = back[e] /\ target'[e] = target[e]
        BY DEF IInv, TypeOK, Switch
    <2>3. \A e \in Cpus \ {c} : hand'[e] = hand[e] /\ current'[e] = current[e]
        BY DEF IInv, TypeOK, Switch
    <2> QED BY <2>1, <2>2, <2>3 DEF Stays
<1>4. \A e \in Cpus \ {c} : queue'[e] = queue[e]
    BY <1>2 DEF IInv, TypeOK
<1>5. \A e \in Cpus \ {c} : Away(e) => Away(e)'
    BY <1>1, <1>3 DEF Away, Stays
<1>6. AfterLook(c) /\ WakeAt(c) /\ ~Dozing(c)' /\ InWindow(c)'
    BY <1>1 DEF AfterLook, HoldsQueue, InSchedule, InWindow, Dozing, WakeInv
<1>7. HandsAway(c)'
    <2>1. hand'[c] # None => hand'[c] = old /\ ~MayStay(c)
        BY <1>2
    <2>2. hand'[c] # None => Away(c)'
        BY <2>1, <1>1, <1>2 DEF MayStay, Away
    <2> QED BY <1>1, <2>2 DEF HandsAway
<1>8. Looked(c)'
    <2>1. SUFFICES ASSUME current'[c] = Idle PROVE queue'[c] = <<>>
        BY <1>1 DEF Looked
    <2>2. hand[c] = None
        BY <1>2, <2>1, ConstantsAssumption DEF IInv, TypeOK
    <2>3. queue[c] = <<>> /\ ~MayStay(c)
        BY <2>2, <1>1, <1>6 DEF WakeAt, Looked
    <2> QED BY <2>3, <1>2
<1>9. kicked'[c] => ipi'[c] \/ \E d \in Cpus \ {c} : Asking(d, c)
    BY <1>1, <1>6, StillTold
<1>10. \A e \in Cpus : pc[e] \in {"choose", "push"} => hand[e] # None
    BY DEF IInv, LocalInv
<1> QED BY <1>1, <1>3, <1>4, <1>5, <1>6, <1>7, <1>8, <1>9, <1>10, OwnStep DEF Stays
\* A step of CPU c that may fill a queue whose lock is free, or tell a CPU
LEMMA TellStep ==
    ASSUME WakeInv, NEW c \in Cpus, affinity' = affinity,
           \A e \in Cpus \ {c} : Stays(e),
           \A e \in Cpus \ {c} : queue'[e] = queue[e] \/ ~HoldsQueue(e),
           \A e \in Cpus : KickedTold(e)' /\ Announced(e)',
           Looked(c)', HandsAway(c)', Dozing(c)' => current'[c] = Idle
    PROVE  WakeInv'
<1> SUFFICES ASSUME NEW e \in Cpus \ {c} PROVE WakeAt(e)'
    BY DEF WakeInv, WakeAt
<1>1. WakeAt(e) /\ Stays(e)
    BY DEF WakeInv
<1>2. (Dozing(e)' <=> Dozing(e)) /\ (InWindow(e)' <=> InWindow(e))
    BY <1>1 DEF Dozing, InWindow, Stays
<1>3. Away(e)' <=> Away(e)
    BY <1>1 DEF Away, Stays
<1>4. Looked(e)'
    <2>1. CASE queue'[e] = queue[e]
        BY <2>1, <1>1, <1>2 DEF WakeAt, Looked, Stays
    <2>2. CASE ~HoldsQueue(e)
        BY <2>2, <1>1, <1>2 DEF HoldsQueue, InSchedule, Looked, Stays
    <2> QED BY <2>1, <2>2
<1>5. HandsAway(e)'
    BY <1>1, <1>2, <1>3 DEF WakeAt, HandsAway, Stays
<1> QED BY <1>1, <1>2, <1>4, <1>5 DEF WakeAt, Stays

\* Who is about to kick whom, but for CPU c, is as before
LEMMA OthersKick ==
    ASSUME NEW c \in Cpus, \A e \in Cpus \ {c} : Stays(e)
    PROVE  \A d \in Cpus \ {c}, e \in Cpus :
               (Asking(d, e)' <=> Asking(d, e)) /\ (Kicking(d, e)' <=> Kicking(d, e))
BY DEF Stays, Asking, Kicking

\* hand_over_work: the CPU that is handed a task is idle and kicked, or told
\* already
LEMMA HandOverWakes ==
    ASSUME IInv, WakeInv, NEW c \in Cpus, HandOver(c) PROVE WakeInv'
<1> USE DEF lockVars, queueVars, taskVars, cpuVars, wakeVars, localVars, Goto, Return
<1>1. /\ pc[c] = "handover" /\ target[c] # c /\ back[c] \in {"run", "lock"}
      /\ target[c] \in Cpus
    BY DEF IInv, TypeOK, HandOver, LocalInv
<1>2. /\ pc'[c] \in {"run", "lock"}
         \/ (pc'[c] = "set" /\ target'[c] = target[c] /\ back'[c] = back[c])
      /\ kicked' = kicked /\ ipi' = ipi /\ affinity' = affinity
    BY <1>1 DEF IInv, TypeOK, HandOver
<1>3. \A e \in Cpus \ {c} : Stays(e)
    <2>1. \A e \in Cpus \ {c} : pc'[e] = pc[e]
        BY DEF IInv, TypeOK, HandOver
    <2>2. \A e \in Cpus \ {c} : back'[e] = back[e] /\ target'[e] = target[e]
        BY DEF IInv, TypeOK, HandOver
    <2> QED BY <2>1, <2>2 DEF Stays, HandOver
<1>4. \A e \in Cpus \ {c, target[c]} : queue'[e] = queue[e]
    BY <1>1 DEF IInv, TypeOK, HandOver
<1>5. \/ queue'[target[c]] = queue[target[c]]
      \/ /\ ~rq_lock[target[c]]
         /\ current[target[c]] = Idle /\ ~kicked[target[c]] => pc'[c] = "set"
    BY DEF IInv, TypeOK, HandOver
<1>6. ~Dozing(c)' /\ ~AfterLook(c)' /\ ~InWindow(c)'
    BY <1>1, <1>2 DEF Dozing, AfterLook, HoldsQueue, InSchedule, InWindow
<1>7. Looked(c)' /\ HandsAway(c)'
    BY <1>2, <1>6 DEF Looked, HandsAway
<1>8. \A e \in Cpus \ {c} : /\ Dozing(e)' <=> Dozing(e)
                            /\ AfterLook(e)' <=> AfterLook(e)
    BY <1>3 DEF Stays, Dozing, AfterLook, HoldsQueue, InWindow
<1>9. \A e \in Cpus : ~Asking(c, e) /\ ~Kicking(c, e)
    BY <1>1 DEF Asking, Kicking
<1>10. ASSUME NEW e \in Cpus PROVE KickedTold(e)'
    BY <1>2, <1>3, <1>6, <1>8, <1>9, OthersKick DEF WakeInv, WakeAt, KickedTold
<1>11. ASSUME NEW e \in Cpus PROVE Announced(e)'
    <2>1. CASE e = c
        BY <2>1, <1>6 DEF Announced
    <2>2. CASE e # c /\ queue'[e] = queue[e]
        BY <2>2, <1>2, <1>3, <1>8, <1>9, OthersKick DEF WakeInv, WakeAt, Announced
    <2>3. CASE e = target[c] /\ queue'[e] # queue[e]
        <3>1. SUFFICES ASSUME Dozing(e) PROVE ipi'[e] \/ \E d \in Cpus : Kicking(d, e)'
            BY <2>3, <1>1, <1>8 DEF Announced
        <3>2. current[e] = Idle
            BY <3>1 DEF WakeInv, WakeAt
        <3>3. CASE kicked[e]
            <4>1. ipi[e] \/ \E d \in Cpus \ {c} : Asking(d, e)
                BY <3>1, <3>3, <1>9 DEF WakeInv, WakeAt, KickedTold, AfterLook
            <4> QED BY <4>1, <1>2, <1>3, OthersKick DEF Asking, Kicking
        <3>4. CASE ~kicked[e]
            BY <3>2, <3>4, <2>3, <1>2, <1>5 DEF Kicking
        <3> QED BY <3>3, <3>4
    <2> QED BY <2>1, <2>2, <2>3, <1>4
<1>12. \A e \in Cpus \ {c} : queue'[e] = queue[e] \/ ~HoldsQueue(e)
    BY <1>4, <1>5 DEF IInv, LockInv
<1> QED BY <1>2, <1>3, <1>6, <1>7, <1>10, <1>11, <1>12, TellStep

\* place_task's push: the CPU that pushes is the one to tell
LEMMA PlacePushWakes ==
    ASSUME IInv, WakeInv, NEW c \in Cpus, PlacePush(c) PROVE WakeInv'
<1> USE DEF lockVars, queueVars, taskVars, cpuVars, wakeVars, localVars, Goto
<1>1. /\ pc[c] = "push" /\ pc'[c] = "kick" /\ ~rq_lock[target[c]] /\ target[c] \in Cpus
      /\ kicked' = kicked /\ ipi' = ipi /\ affinity' = affinity
      /\ target' = target /\ back' = back /\ current' = current
      /\ back[c] \in {"run", "halt", "crit"}
    BY DEF IInv, TypeOK, PlacePush, LocalInv
<1>2. \A e \in Cpus \ {c} : Stays(e)
    BY DEF IInv, TypeOK, PlacePush, Stays
<1>3. \A e \in Cpus \ {target[c]} : queue'[e] = queue[e]
    BY DEF IInv, TypeOK, PlacePush
<1>4. \A e \in Cpus : /\ Dozing(e)' <=> Dozing(e)
                      /\ AfterLook(e)' <=> AfterLook(e)
    <2>1. ASSUME NEW e \in Cpus \ {c}
          PROVE  (Dozing(e)' <=> Dozing(e)) /\ (AfterLook(e)' <=> AfterLook(e))
        BY <1>2 DEF Stays, Dozing, AfterLook, HoldsQueue, InWindow
    <2>2. (Dozing(c)' <=> Dozing(c)) /\ (AfterLook(c)' <=> AfterLook(c))
        BY <1>1 DEF Dozing, AfterLook, HoldsQueue, InSchedule, InWindow
    <2> QED BY <2>1, <2>2
<1>5. \A e \in Cpus : ~Asking(c, e) /\ ~Kicking(c, e)
    BY <1>1 DEF Asking, Kicking
<1>6. ASSUME NEW e \in Cpus PROVE KickedTold(e)'
    BY <1>1, <1>2, <1>4, <1>5, OthersKick DEF WakeInv, WakeAt, KickedTold
<1>7. ASSUME NEW e \in Cpus PROVE Announced(e)'
    <2>1. CASE e = target[c]
        BY <2>1, <1>1 DEF Announced, Kicking
    <2>2. CASE e # target[c]
        BY <2>2, <1>1, <1>2, <1>3, <1>4, <1>5, OthersKick DEF WakeInv, WakeAt, Announced
    <2> QED BY <2>1, <2>2
<1>8. Looked(c)' /\ HandsAway(c)'
    <2>1. WakeAt(c)
        BY DEF WakeInv
    <2>2. ~InWindow(c)'
        BY <1>1 DEF InWindow
    <2> QED BY <2>1, <2>2, <1>1 DEF WakeAt, Looked, HandsAway
<1>9. Dozing(c)' => current'[c] = Idle
    BY <1>1, <1>4 DEF WakeInv, WakeAt
<1>10. \A e \in Cpus \ {c} : queue'[e] = queue[e] \/ ~HoldsQueue(e)
    BY <1>1, <1>3 DEF IInv, LockInv
<1> QED BY <1>1, <1>2, <1>6, <1>7, <1>8, <1>9, <1>10, TellStep
\* After the push: a CPU that dozes over the task is idle, so that it is kicked
\* unless its flag is up, and then someone else tells it
LEMMA PlaceKickWakes ==
    ASSUME IInv, WakeInv, NEW c \in Cpus, PlaceKick(c) PROVE WakeInv'
<1> USE DEF lockVars, queueVars, taskVars, cpuVars, wakeVars, localVars, Goto
<1>1. /\ pc[c] = "kick" /\ target[c] \in Cpus
      /\ kicked' = kicked /\ ipi' = ipi /\ affinity' = affinity /\ queue' = queue
      /\ current' = current /\ hand' = hand
      /\ back[c] \in {"run", "halt", "crit"}
    BY DEF IInv, TypeOK, PlaceKick, LocalInv
<1>2. PICK movable \in BOOLEAN :
          \/ \E d \in Cpus :
                /\ MustKick(c, movable, d)
                /\ target' = [target EXCEPT ![c] = d]
                /\ pc' = [pc EXCEPT ![c] = "set"] /\ back' = back
          \/ /\ \A d \in Cpus : ~MustKick(c, movable, d)
             /\ Return(c)
    <2>1. MovableNow(subject[c]) \subseteq BOOLEAN
        BY DEF MovableNow
    <2> QED BY <2>1 DEF PlaceKick
<1>3. \/ pc'[c] = "set" /\ back'[c] = back[c]
      \/ pc'[c] = back[c] /\ \A d \in Cpus : ~MustKick(c, movable, d)
    BY <1>2 DEF IInv, TypeOK, Return
<1>4. \A e \in Cpus \ {c} : Stays(e)
    BY <1>1, <1>2 DEF IInv, TypeOK, Return, Stays
<1>5. /\ Dozing(c)' <=> Dozing(c)
      /\ AfterLook(c)' <=> AfterLook(c)
      /\ ~InWindow(c)'
    BY <1>1, <1>3 DEF Dozing, AfterLook, HoldsQueue, InSchedule, InWindow
<1>6. \A e \in Cpus : /\ Dozing(e)' <=> Dozing(e)
                      /\ AfterLook(e)' <=> AfterLook(e)
    <2>1. ASSUME NEW e \in Cpus \ {c}
          PROVE  (Dozing(e)' <=> Dozing(e)) /\ (AfterLook(e)' <=> AfterLook(e))
        BY <1>4 DEF Stays, Dozing, AfterLook, HoldsQueue, InWindow
    <2> QED BY <2>1, <1>5
<1>7. \A e \in Cpus : ~Asking(c, e)
    BY <1>1 DEF Asking
<1>8. ASSUME NEW e \in Cpus PROVE KickedTold(e)'
    BY <1>1, <1>4, <1>6, <1>7, OthersKick DEF WakeInv, WakeAt, KickedTold
<1>9. ASSUME NEW e \in Cpus PROVE Announced(e)'
    <2>1. SUFFICES ASSUME Dozing(e), queue[e] # <<>>
                   PROVE  ipi[e] \/ \E d \in Cpus : Kicking(d, e)'
        BY <1>1, <1>6 DEF Announced
    <2>2. WakeAt(e)
        BY DEF WakeInv
    <2>3. CASE e # target[c]
        <3>1. ~Kicking(c, e)
            BY <2>3 DEF Kicking
        <3> QED BY <3>1, <2>1, <2>2, <1>4, OthersKick DEF WakeAt, Announced
    <2>4. CASE e = target[c]
        <3>1. current[e] = Idle /\ e # c
            BY <2>1, <2>2, <2>4, <1>1 DEF WakeAt, HandsAway, Dozing
        <3>2. CASE kicked[e]
            <4>1. ipi[e] \/ \E d \in Cpus \ {c} : Asking(d, e)
                BY <2>1, <2>2, <3>2, <1>7 DEF WakeAt, KickedTold, AfterLook
            <4> QED BY <4>1, <1>4, OthersKick DEF Asking, Kicking
        <3>3. CASE ~kicked[e]
            <4>1. MustKick(c, movable, e)
                BY <2>4, <3>1, <3>3 DEF MustKick
            <4>2. PICK d \in Cpus : /\ MustKick(c, movable, d)
                                    /\ target' = [target EXCEPT ![c] = d]
                                    /\ pc' = [pc EXCEPT ![c] = "set"]
                BY <4>1, <1>2
            <4>3. d = e
                BY <4>2, <3>1, <2>4 DEF MustKick
            <4>4. Kicking(c, e)'
                BY <4>2, <4>3 DEF IInv, TypeOK, Kicking
            <4> QED BY <4>4
        <3> QED BY <3>2, <3>3
    <2> QED BY <2>3, <2>4
<1>10. Looked(c)' /\ HandsAway(c)'
    BY <1>1, <1>3, <1>5 DEF Looked, HandsAway
<1>11. Dozing(c)' => current'[c] = Idle
    BY <1>1, <1>5 DEF WakeInv, WakeAt
<1> QED BY <1>1, <1>4, <1>8, <1>9, <1>10, <1>11, TellStep

\* kick_cpu raises the flag before it sends the interrupt: in between, it is
\* the CPU that is about to send it
LEMMA KickSetWakes ==
    ASSUME IInv, WakeInv, NEW c \in Cpus, KickSet(c) PROVE WakeInv'
<1> USE DEF lockVars, queueVars, taskVars, cpuVars, wakeVars, localVars, Goto
<1>1. /\ pc[c] = "set" /\ pc'[c] = "send" /\ target[c] \in Cpus
      /\ ipi' = ipi /\ affinity' = affinity /\ queue' = queue /\ target' = target
      /\ current' = current /\ hand' = hand /\ back' = back
      /\ kicked' = [kicked EXCEPT ![target[c]] = TRUE]
    BY DEF IInv, TypeOK, KickSet
<1>2. \A e \in Cpus \ {c} : Stays(e)
    BY DEF IInv, TypeOK, KickSet, Stays
<1>3. \A e \in Cpus : /\ Dozing(e)' <=> Dozing(e)
                      /\ AfterLook(e)' <=> AfterLook(e)
                      /\ InWindow(e)' <=> InWindow(e)
    <2>1. ASSUME NEW e \in Cpus \ {c}
          PROVE  /\ (Dozing(e)' <=> Dozing(e)) /\ (AfterLook(e)' <=> AfterLook(e))
                 /\ InWindow(e)' <=> InWindow(e)
        BY <1>2 DEF Stays, Dozing, AfterLook, HoldsQueue, InWindow
    <2>2. /\ (Dozing(c)' <=> Dozing(c)) /\ (AfterLook(c)' <=> AfterLook(c))
          /\ InWindow(c)' <=> InWindow(c)
        BY <1>1 DEF Dozing, AfterLook, HoldsQueue, InSchedule, InWindow
    <2> QED BY <2>1, <2>2
<1>4. \A d, e \in Cpus : /\ Asking(d, e) => Asking(d, e)'
                         /\ Kicking(d, e)' <=> Kicking(d, e)
    <2>1. \A e \in Cpus : ~Asking(c, e) /\ (Kicking(c, e)' <=> Kicking(c, e))
        BY <1>1 DEF Asking, Kicking
    <2> QED BY <2>1, <1>2, OthersKick
<1>5. pc'[c] = "send" /\ target'[c] = target[c]
    BY <1>1
<1>6. ASSUME NEW e \in Cpus PROVE KickedTold(e)'
    <2>1. CASE e = target[c]
        BY <2>1, <1>5 DEF KickedTold, Asking
    <2>2. CASE e # target[c]
        <3>1. kicked'[e] = kicked[e]
            BY <2>2, <1>1 DEF IInv, TypeOK
        <3> QED BY <3>1, <1>1, <1>3, <1>4 DEF WakeInv, WakeAt, KickedTold
    <2> QED BY <2>1, <2>2
<1>7. ASSUME NEW e \in Cpus PROVE Announced(e)'
    BY <1>1, <1>3, <1>4 DEF WakeInv, WakeAt, Announced
<1>8. Looked(c)' /\ HandsAway(c)'
    <2>1. WakeAt(c)
        BY DEF WakeInv
    <2> QED BY <2>1, <1>1, <1>3 DEF WakeAt, Looked, HandsAway, Away
<1>9. Dozing(c)' => current'[c] = Idle
    BY <1>1, <1>3 DEF WakeInv, WakeAt
<1> QED BY <1>1, <1>2, <1>6, <1>7, <1>8, <1>9, TellStep

\* The interrupt is sent
LEMMA KickSendWakes ==
    ASSUME IInv, WakeInv, NEW c \in Cpus, KickSend(c) PROVE WakeInv'
<1> USE DEF lockVars, queueVars, taskVars, cpuVars, wakeVars, localVars, Goto, Return
<1>1. /\ pc[c] = "send" /\ pc'[c] = back[c] /\ target[c] \in Cpus
      /\ kicked' = kicked /\ affinity' = affinity /\ queue' = queue
      /\ current' = current /\ hand' = hand
      /\ ipi' = [ipi EXCEPT ![target[c]] = TRUE]
      /\ back[c] \in {"run", "halt", "crit", "lock", "ctx"}
    BY DEF IInv, TypeOK, KickSend
<1>2. \A e \in Cpus \ {c} : Stays(e)
    BY DEF IInv, TypeOK, KickSend, Stays
<1>3. \A e \in Cpus : /\ Dozing(e)' <=> Dozing(e)
                      /\ AfterLook(e)' <=> AfterLook(e)
                      /\ InWindow(e)' <=> InWindow(e)
    <2>1. ASSUME NEW e \in Cpus \ {c}
          PROVE  /\ (Dozing(e)' <=> Dozing(e)) /\ (AfterLook(e)' <=> AfterLook(e))
                 /\ InWindow(e)' <=> InWindow(e)
        BY <1>2 DEF Stays, Dozing, AfterLook, HoldsQueue, InWindow
    <2>2. /\ (Dozing(c)' <=> Dozing(c)) /\ (AfterLook(c)' <=> AfterLook(c))
          /\ InWindow(c)' <=> InWindow(c)
        BY <1>1 DEF Dozing, AfterLook, HoldsQueue, InSchedule, InWindow
    <2> QED BY <2>1, <2>2
<1>4. ipi'[target[c]] /\ \A e \in Cpus : ipi[e] => ipi'[e]
    BY <1>1 DEF IInv, TypeOK
<1>5. \A e \in Cpus \ {target[c]} : ~Asking(c, e) /\ ~Kicking(c, e)
    BY DEF Asking, Kicking
<1>6. ASSUME NEW e \in Cpus PROVE KickedTold(e)' /\ Announced(e)'
    <2>1. CASE e = target[c]
        BY <2>1, <1>4 DEF KickedTold, Announced
    <2>2. CASE e # target[c]
        <3>1. WakeAt(e)
            BY DEF WakeInv
        <3>2. KickedTold(e)'
            BY <2>2, <3>1, <1>1, <1>2, <1>3, <1>4, <1>5, OthersKick DEF WakeAt, KickedTold
        <3>3. Announced(e)'
            BY <2>2, <3>1, <1>1, <1>2, <1>3, <1>4, <1>5, OthersKick DEF WakeAt, Announced
        <3> QED BY <3>2, <3>3
    <2> QED BY <2>1, <2>2
<1>7. Looked(c)' /\ HandsAway(c)'
    <2>1. WakeAt(c)
        BY DEF WakeInv
    <2> QED BY <2>1, <1>1, <1>3 DEF WakeAt, Looked, HandsAway, Away
<1>8. Dozing(c)' => current'[c] = Idle
    BY <1>1, <1>3 DEF WakeInv, WakeAt
<1> QED BY <1>1, <1>2, <1>6, <1>7, <1>8, TellStep

\* As long as only PID 0 is bound, every step keeps a dozing CPU told
LEMMA NextWakes ==
    IInv /\ OnlyBootIsBound /\ OnlyBootIsBound' /\ WakeInv /\ [Next]_vars => WakeInv'
<1> SUFFICES ASSUME IInv, OnlyBootIsBound, OnlyBootIsBound', WakeInv, [Next]_vars
             PROVE  WakeInv'
    OBVIOUS
<1>1. CASE UNCHANGED vars
    <2> USE <1>1 DEF vars, lockVars, queueVars, taskVars, cpuVars, wakeVars, localVars
    <2>1. \A c \in Cpus : /\ Dozing(c)' <=> Dozing(c)
                          /\ AfterLook(c)' <=> AfterLook(c)
                          /\ InWindow(c)' <=> InWindow(c)
        BY DEF Dozing, AfterLook, HoldsQueue, InWindow
    <2>2. \A c, d \in Cpus : /\ Asking(d, c)' <=> Asking(d, c)
                             /\ Kicking(d, c)' <=> Kicking(d, c)
        BY DEF Asking, Kicking
    <2>3. ASSUME NEW c \in Cpus PROVE WakeAt(c)'
        <3>1. WakeAt(c)
            BY DEF WakeInv
        <3>2. Looked(c)' /\ HandsAway(c)'
            BY <3>1, <2>1 DEF WakeAt, Looked, HandsAway, Away
        <3>3. KickedTold(c)' /\ Announced(c)'
            BY <3>1, <2>1, <2>2 DEF WakeAt, KickedTold, Announced
        <3> QED BY <3>1, <3>2, <3>3, <2>1 DEF WakeAt
    <2> QED BY <2>3 DEF WakeInv
<1>2. ASSUME NEW c \in Cpus, Work(c) PROVE WakeInv'
    BY <1>2, HandOverWakes, LookSteps, LeaveSteps, SwitchWakes, PlacePushWakes,
       PlaceKickWakes, KickSetWakes, KickSendWakes, AwakeSteps, AffinitySteps
    DEF Work
<1>3. ASSUME NEW c \in Cpus, Demand(c) PROVE WakeInv'
    BY <1>3, AwakeSteps DEF Demand
<1> QED BY <1>1, <1>2, <1>3 DEF Next

\* As long as no task but PID 0 is bound to a CPU, a CPU halts beside a task in
\* its queue only if the interrupt that ends the halt is pending or on its way
\* (idle_wait, kick_cpu and resched_kicked)
THEOREM NoWakeupIsSleptThrough ==
    Spec /\ []OnlyBootIsBound => []WakeupNotSleptThrough
<1>1. Init => WakeInv
    <2> SUFFICES ASSUME Init, NEW c \in Cpus PROVE WakeAt(c)
        BY DEF WakeInv
    <2>1. pc[c] \in {"run", "off"} /\ ~kicked[c] /\ queue[c] = <<>>
        BY DEF Init
    <2> QED BY <2>1
        DEF WakeAt, Looked, HandsAway, KickedTold, Announced, Dozing, InWindow
<1>2. WakeInv => WakeupNotSleptThrough
    BY DEF WakeInv, WakeAt, Announced, Dozing, WakeupNotSleptThrough, KickComing, Kicking
<1> QED BY <1>1, <1>2, NextWakes, Invariance, PTL DEF Spec

\* In particular, a system that never asks for a binding never sleeps through a
\* wakeup
COROLLARY UnboundNeverSleepsThrough ==
    ASSUME Pins \subseteq {AnyCpu}
    PROVE  Spec => []WakeupNotSleptThrough
<1>1. Init => OnlyBootIsBound
    BY DEF Init, OnlyBootIsBound
<1>2. IInv /\ OnlyBootIsBound /\ [Next]_vars => OnlyBootIsBound'
    <2> SUFFICES ASSUME IInv, OnlyBootIsBound, [Next]_vars PROVE OnlyBootIsBound'
        OBVIOUS
    <2>1. \/ affinity' = affinity
          \/ \E t \in Tasks : affinity' = [affinity EXCEPT ![t] = AnyCpu]
        <3>1. CASE \E c \in Cpus, t \in Tasks, a \in Pins : SetAffinity(c, t, a)
            BY <3>1, ConstantsAssumption DEF SetAffinity, Online
        <3>2. CASE \E c \in Cpus, t \in Tasks : Reap(c, t)
            BY <3>2 DEF Reap
        <3>3. ASSUME NEW c \in Cpus, Work(c) PROVE affinity' = affinity
            BY <3>3 DEF Work, taskVars, HandOver, ScheduleLock, StealScan, StealTake,
                StealPass, StealNothing, CarryOn, Switch, CtxSwitch, FinishSwitch,
                PlaceChoose, PlacePush, PlaceKick, KickSet, KickSend, SchedUnlock,
                LeaveForGood, AffinityLook, AffinityMove
        <3>4. ASSUME NEW c \in Cpus, Demand(c),
                     ~ \E t \in Tasks, a \in Pins : SetAffinity(c, t, a),
                     ~ \E t \in Tasks : Reap(c, t)
              PROVE  affinity' = affinity
            BY <3>4 DEF Demand, taskVars, Join, TakeIpi, OtherInterrupt, Yield, Tick,
                SchedLock, Sleep, StopOrExit, WakeTask, AddTask
        <3>5. CASE UNCHANGED vars
            BY <3>5 DEF vars, taskVars
        <3> QED BY <3>1, <3>2, <3>3, <3>4, <3>5 DEF Next
    <2> QED BY <2>1 DEF IInv, TypeOK, OnlyBootIsBound
<1> QED BY <1>1, <1>2, Invariance, NoWakeupIsSleptThrough, PTL DEF Spec

-----------------------------------------------------------------------------
(* The run queues implement AbstractSched: whatever the locks, the steals, *)
(* the kicks and the stale reads do, each step is one abstract step (a     *)
(* task is created, woken or freed while it is on no CPU, or one CPU goes  *)
(* from its task to a runnable one that is on no CPU), or no step at all.  *)

\* What the abstract specification sees of a task
Bar(t) == IF OnStack(t) THEN "on" ELSE StatusOf(state[t])

\* The initial states of the queues are the abstract initial states
LEMMA InitRefines == Init => Abstract!AbstractInit
<1> SUFFICES ASSUME Init PROVE Abstract!AbstractInit
    OBVIOUS
<1>1. stack = [c \in Cpus |-> IF c = 0 THEN Boot ELSE Idle]
    BY DEF Init
<1>2. 0 \in Cpus
    BY ConstantsAssumption DEF Cpus
<1>3. ASSUME NEW t \in Tasks
      PROVE  Bar(t) = IF t = Boot THEN "on" ELSE "free"
    <2>1. OnStack(t) <=> t = Boot
        BY <1>1, <1>2, ConstantsAssumption DEF OnStack
    <2>2. t # Boot => StatusOf(state[t]) = "free"
        BY DEF Init, StatusOf
    <2> QED BY <2>1, <2>2 DEF Bar
<1> QED BY <1>1, <1>3 DEF Abstract!AbstractInit, Bar

\* A step that changes no stack, and no state of a task that is on none other
\* than from READY to RUNNING or back, is invisible
LEMMA Invisible ==
    ASSUME stack' = stack,
           \A t \in Tasks : ~OnStack(t) => StatusOf(state'[t]) = StatusOf(state[t])
    PROVE  UNCHANGED Abstract!abstractVars
<1>1. \A t \in Tasks : OnStack(t)' = OnStack(t)
    BY DEF OnStack
<1>2. [t \in Tasks |-> IF OnStack(t)' THEN "on" ELSE StatusOf(state'[t])]
      = [t \in Tasks |-> IF OnStack(t) THEN "on" ELSE StatusOf(state[t])]
    BY <1>1
<1> QED BY <1>2 DEF Abstract!abstractVars, StatusOf

\* A step that changes no stack and one task's state only, that task being on
\* no stack, changes that task's status and nothing else
LEMMA OneStatus ==
    ASSUME TypeOK, stack' = stack, NEW t \in Tasks, ~OnStack(t), NEW s \in TaskStates,
           state' = [state EXCEPT ![t] = s]
    PROVE  [u \in Tasks |-> IF OnStack(u)' THEN "on" ELSE StatusOf(state'[u])]
           = [[u \in Tasks |-> IF OnStack(u) THEN "on" ELSE StatusOf(state[u])]
              EXCEPT ![t] = StatusOf(s)]
<1>1. \A u \in Tasks : OnStack(u)' = OnStack(u)
    BY DEF OnStack
<1>2. \A u \in Tasks : state'[u] = IF u = t THEN s ELSE state[u]
    BY DEF TypeOK
<1>3. \A u \in Tasks : (IF OnStack(u)' THEN "on" ELSE StatusOf(state'[u]))
                       = IF u = t THEN StatusOf(s)
                         ELSE IF OnStack(u) THEN "on" ELSE StatusOf(state[u])
    <2> TAKE u \in Tasks
    <2>1. CASE u = t
        BY <1>1, <1>2, <2>1
    <2>2. CASE u # t
        BY <1>1, <1>2, <2>2
    <2> QED BY <2>1, <2>2
<1> QED BY <1>3

\* A task that CPU c is about to wake or to add, and one it is about to free,
\* is on no stack: READY tasks in hand outside the window, sleepers and zombies
\* seen under the scheduler lock have left theirs
LEMMA InHandOffStack ==
    ASSUME IInv, NEW c \in Cpus, pc[c] = "push"
    PROVE  hand[c] \in Tasks /\ ~OnStack(hand[c])
<1> USE ConstantsAssumption DEF IInv
<1>1. hand[c] \in Tasks /\ ~InWindow(c)
    BY DEF TypeOK, LocalInv, InWindow
<1>2. SUFFICES ASSUME NEW d \in Cpus, stack[d] = hand[c] PROVE FALSE
    BY <1>1 DEF OnStack
<1>3. stack[d] # Idle
    BY <1>1, <1>2
<1>4. CASE InWindow(d)
    <2>1. d # c
        BY <1>1, <1>4
    <2>2. queued_on[stack[d]] # d /\ hand[d] # stack[d]
        BY <1>2, <2>1 DEF HandInv, TypeOK, LocalInv
    <2>3. state[stack[d]] \in Off /\ holding[d]
        BY <1>3, <1>4, <2>2 DEF StackInv
    <2>4. back[c] = "crit"
        BY <1>1, <1>2, <2>3 DEF HandInv, Off, TypeOK
    <2> QED BY <2>1, <2>3, <2>4 DEF LockInv, HoldsSched
<1>5. CASE ~InWindow(d)
    <2>1. current[d] = hand[c]
        BY <1>2, <1>5 DEF StackInv
    <2>2. d # c
        BY <1>1, <2>1 DEF HandInv
    <2>3. state[current[d]] # "RUNNING"
        BY <1>1, <2>1 DEF HandInv, TypeOK
    <2>4. state[current[d]] \in Off /\ HoldsSched(d)
        BY <1>3, <1>2, <2>1, <2>3 DEF CurrentInv
    <2>5. back[c] = "crit"
        BY <1>1, <2>1, <2>4 DEF HandInv, Off, TypeOK
    <2> QED BY <2>2, <2>4, <2>5 DEF LockInv, HoldsSched
<1> QED BY <1>4, <1>5

\* place_task's push is a wake-up of a task that is asleep, or invisible
LEMMA PlacePushRefines ==
    ASSUME IInv, NEW c \in Cpus, PlacePush(c)
    PROVE  [Abstract!AbstractNext]_(Abstract!abstractVars)
<1> USE DEF IInv
<1> DEFINE t == hand[c]
<1>1. pc[c] = "push" /\ stack' = stack /\ state' = [state EXCEPT ![t] = "READY"]
    BY DEF PlacePush, cpuVars
<1>2. t \in Tasks /\ ~OnStack(t)
    BY <1>1, InHandOffStack
<1>3. CASE state[t] = "READY"
    <2>1. \A u \in Tasks : state'[u] = state[u]
        BY <1>1, <1>3 DEF TypeOK
    <2> QED BY <1>1, <2>1, Invisible
<1>4. CASE state[t] \in {"BLOCKED", "STOPPED"}
    <2> DEFINE status == [u \in Tasks |-> IF OnStack(u) THEN "on" ELSE StatusOf(state[u])]
    <2>1. [u \in Tasks |-> IF OnStack(u)' THEN "on" ELSE StatusOf(state'[u])]
          = [status EXCEPT ![t] = "ready"]
        BY <1>1, <1>2, OneStatus DEF StatusOf, TaskStates
    <2>2. status[t] = "asleep"
        BY <1>2, <1>4 DEF StatusOf
    <2>3. Abstract!Wake(t)
        BY <1>1, <2>1, <2>2 DEF Abstract!Wake, StatusOf
    <2> QED BY <1>2, <2>3 DEF Abstract!AbstractNext
<1> QED BY <1>2, <1>3, <1>4, ConstantsAssumption DEF HandInv

\* A new task was free, on no stack, and becomes runnable
LEMMA AddTaskRefines ==
    ASSUME IInv, NEW c \in Cpus, NEW t \in Tasks, AddTask(c, t)
    PROVE  Abstract!Start(t)
<1> USE DEF IInv
<1> DEFINE status == [u \in Tasks |-> IF OnStack(u) THEN "on" ELSE StatusOf(state[u])]
<1>1. stack' = stack /\ state[t] = "FREE" /\ state' = [state EXCEPT ![t] = "READY"]
    BY DEF AddTask, cpuVars
<1>2. ~OnStack(t)
    <2> SUFFICES ASSUME NEW d \in Cpus, stack[d] = t PROVE FALSE
        BY DEF OnStack
    <2>1. state[t] \notin Off /\ state[t] # "READY" /\ state[t] # "RUNNING"
        BY <1>1 DEF Off
    <2>2. current[d] # t
        BY <2>1, ConstantsAssumption DEF CurrentInv
    <2>3. queued_on[t] # d /\ hand[d] # t
        BY <1>1, ConstantsAssumption DEF QueueInv, HandInv
    <2> QED BY <2>1, <2>2, <2>3, ConstantsAssumption DEF StackInv
<1>3. [u \in Tasks |-> IF OnStack(u)' THEN "on" ELSE StatusOf(state'[u])]
      = [status EXCEPT ![t] = "ready"]
    BY <1>1, <1>2, OneStatus DEF StatusOf, TaskStates
<1>4. status[t] = "free"
    BY <1>1, <1>2 DEF StatusOf
<1> QED BY <1>1, <1>3, <1>4 DEF Abstract!Start, StatusOf

\* A task that is freed was dead, and on no stack
LEMMA ReapRefines ==
    ASSUME IInv, NEW c \in Cpus, NEW t \in Tasks, Reap(c, t)
    PROVE  Abstract!Free(t)
<1> USE DEF IInv
<1> DEFINE status == [u \in Tasks |-> IF OnStack(u) THEN "on" ELSE StatusOf(state[u])]
<1>1. stack' = stack /\ state[t] = "ZOMBIE" /\ state' = [state EXCEPT ![t] = "FREE"]
    BY DEF Reap, cpuVars
<1>2. ~OnStack(t)
    BY <1>1, ZombieOffStack DEF Reap, OnStack, Off
<1>3. [u \in Tasks |-> IF OnStack(u)' THEN "on" ELSE StatusOf(state'[u])]
      = [status EXCEPT ![t] = "free"]
    BY <1>1, <1>2, OneStatus DEF StatusOf, TaskStates
<1>4. status[t] = "dead"
    BY <1>1, <1>2 DEF StatusOf
<1> QED BY <1>1, <1>3, <1>4 DEF Abstract!Free, StatusOf

\* ctx_switch is the abstract dispatch: the new task is runnable and on no
\* stack; the old one, on this CPU's only, is then whatever its state says
LEMMA CtxSwitchRefines ==
    ASSUME IInv, NEW c \in Cpus, CtxSwitch(c)
    PROVE  Abstract!AbstractNext
<1> USE DEF IInv
<1> DEFINE status == [u \in Tasks |-> IF OnStack(u) THEN "on" ELSE StatusOf(state[u])]
           next == current[c]
           old == stack[c]
           left == IF old = Idle THEN "ready" ELSE StatusOf(state[old])
<1>1. pc[c] = "ctx" /\ stack' = [stack EXCEPT ![c] = next] /\ state' = state
    BY DEF CtxSwitch, taskVars
<1>2. InWindow(c) /\ old # next
    BY <1>1 DEF InWindow, StackInv
<1>3. next \in Tasks \cup {Idle} /\ old \in Tasks \cup {Idle}
    BY DEF TypeOK
<1>4. ASSUME NEW d \in Cpus, stack[d] = next PROVE next = Idle
    BY <1>2, <1>4 DEF StackInv, CurrentInv
<1>5. ASSUME NEW d \in Cpus, stack[d] = old, d # c PROVE old = Idle
    BY <1>5 DEF StackInv
<1>6. next # Idle => status[next] = "ready"
    <2> SUFFICES ASSUME next # Idle PROVE status[next] = "ready"
        OBVIOUS
    <2>1. state[next] = "RUNNING"
        BY <1>2 DEF CurrentInv
    <2> QED BY <1>3, <1>4, <2>1 DEF OnStack, StatusOf
<1>7. left \in {"ready", "asleep", "dead"}
    <2> SUFFICES ASSUME old # Idle PROVE StatusOf(state[old]) \in {"ready", "asleep", "dead"}
        OBVIOUS
    <2>1. old \in Tasks
        BY <1>3
    <2>2. CASE queued_on[old] = c
        BY <2>1, <2>2, ConstantsAssumption DEF QueueInv, StatusOf
    <2>3. CASE hand[c] = old
        BY <2>1, <2>3, ConstantsAssumption DEF HandInv, StatusOf
    <2>4. CASE state[old] \in Off
        BY <2>4 DEF Off, StatusOf
    <2> QED BY <1>2, <2>2, <2>3, <2>4 DEF StackInv
<1>8. ASSUME NEW u \in Tasks
      PROVE  (IF OnStack(u)' THEN "on" ELSE StatusOf(state'[u]))
             = IF u = next THEN "on" ELSE IF u = old THEN left ELSE status[u]
    <2>1. \A d \in Cpus : stack'[d] = IF d = c THEN next ELSE stack[d]
        BY <1>1 DEF TypeOK
    <2>2. CASE u = next
        BY <2>1, <2>2 DEF OnStack
    <2>3. CASE u # next /\ u = old
        <3>1. ~OnStack(u)'
            BY <1>5, <2>1, <2>3, ConstantsAssumption DEF OnStack
        <3> QED BY <1>1, <2>3, <3>1, ConstantsAssumption
    <2>4. CASE u # next /\ u # old
        <3>1. OnStack(u)' <=> OnStack(u)
            BY <2>1, <2>4 DEF OnStack
        <3> QED BY <1>1, <2>4, <3>1
    <2> QED BY <2>2, <2>3, <2>4
<1>9. Abstract!Dispatch(c, next, left)
    <2>1. [u \in Tasks |-> IF OnStack(u)' THEN "on" ELSE StatusOf(state'[u])]
          = [u \in Tasks |-> IF u = next THEN "on" ELSE IF u = old THEN left ELSE status[u]]
        BY <1>8
    <2> QED BY <1>1, <1>2, <1>6, <2>1 DEF Abstract!Dispatch, StatusOf
<1> QED BY <1>3, <1>7, <1>9 DEF Abstract!AbstractNext

\* schedule's own changes of state are of tasks on a stack, or from READY to
\* RUNNING: the switch is not seen before ctx_switch
LEMMA SwitchRefines ==
    ASSUME IInv, NEW c \in Cpus, Switch(c)
    PROVE  UNCHANGED Abstract!abstractVars
<1> USE DEF IInv
<1>1. stack' = stack
    BY DEF Switch
<1>2. pc[c] = "switch" /\ ~InWindow(c) /\ stack[c] = current[c]
    BY DEF Switch, InWindow, StackInv
<1>3. ASSUME NEW t \in Tasks, ~OnStack(t)
      PROVE  StatusOf(state'[t]) = StatusOf(state[t])
    <2>1. t # current[c]
        BY <1>2, <1>3 DEF OnStack
    <2>2. state'[t] = IF t = hand[c] THEN "RUNNING" ELSE state[t]
        BY <2>1, ConstantsAssumption DEF Switch
    <2>3. t = hand[c] => state[t] = "READY"
        BY <1>2, ConstantsAssumption DEF HandInv
    <2> QED BY <2>2, <2>3 DEF StatusOf
<1> QED BY <1>1, <1>3, Invisible

\* Sleeping, stopping and exiting change the state of a task that is still on
\* its stack
LEMMA LeavingRefines ==
    ASSUME IInv, NEW c \in Cpus, Sleep(c) \/ StopOrExit(c)
    PROVE  UNCHANGED Abstract!abstractVars
<1> USE DEF IInv
<1>1. stack' = stack /\ pc[c] = "crit"
    BY DEF Sleep, StopOrExit, cpuVars
<1>2. stack[c] = current[c]
    BY <1>1 DEF InWindow, StackInv
<1>3. ASSUME NEW t \in Tasks, ~OnStack(t)
      PROVE  StatusOf(state'[t]) = StatusOf(state[t])
    <2>1. t # current[c]
        BY <1>2, <1>3 DEF OnStack
    <2>2. state'[t] = state[t]
        BY <2>1 DEF Sleep, StopOrExit, TypeOK
    <2> QED BY <2>2
<1> QED BY <1>1, <1>3, Invisible

\* Every other step changes neither a stack nor a state
LEMMA OthersRefine ==
    ASSUME UNCHANGED <<stack, state>>
    PROVE  UNCHANGED Abstract!abstractVars
<1> QED BY Invisible

\* Every step of the queues is an abstract step or none
LEMMA NextRefines ==
    ASSUME IInv, [Next]_vars
    PROVE  [Abstract!AbstractNext]_(Abstract!abstractVars)
<1>1. CASE UNCHANGED vars
    BY <1>1, OthersRefine DEF vars, taskVars, cpuVars
<1>2. ASSUME NEW c \in Cpus, Work(c)
      PROVE  [Abstract!AbstractNext]_(Abstract!abstractVars)
    <2>1. CASE Switch(c)
        BY <2>1, SwitchRefines
    <2>2. CASE CtxSwitch(c)
        BY <2>2, CtxSwitchRefines
    <2>3. CASE PlacePush(c)
        BY <2>3, PlacePushRefines
    <2>4. CASE \/ HandOver(c) \/ ScheduleLock(c) \/ StealScan(c) \/ StealTake(c)
               \/ StealPass(c) \/ StealNothing(c) \/ CarryOn(c) \/ FinishSwitch(c)
               \/ PlaceChoose(c) \/ PlaceKick(c) \/ KickSet(c) \/ KickSend(c)
               \/ SchedUnlock(c) \/ LeaveForGood(c) \/ AffinityLook(c)
               \/ AffinityMove(c)
        <3>1. UNCHANGED <<stack, state>>
            BY <2>4 DEF HandOver, ScheduleLock, StealScan, StealTake, StealPass,
               StealNothing, CarryOn, FinishSwitch, PlaceChoose, PlaceKick,
               KickSet, KickSend, SchedUnlock, LeaveForGood, AffinityLook,
               AffinityMove, taskVars, cpuVars
        <3> QED BY <3>1, OthersRefine
    <2> QED BY <1>2, <2>1, <2>2, <2>3, <2>4 DEF Work
<1>3. ASSUME NEW c \in Cpus, Demand(c)
      PROVE  [Abstract!AbstractNext]_(Abstract!abstractVars)
    <2>1. CASE Sleep(c) \/ StopOrExit(c)
        BY <2>1, LeavingRefines
    <2>2. ASSUME NEW t \in Tasks, AddTask(c, t)
          PROVE  [Abstract!AbstractNext]_(Abstract!abstractVars)
        BY <2>2, AddTaskRefines DEF Abstract!AbstractNext
    <2>3. ASSUME NEW t \in Tasks, Reap(c, t)
          PROVE  [Abstract!AbstractNext]_(Abstract!abstractVars)
        BY <2>3, ReapRefines DEF Abstract!AbstractNext
    <2>4. CASE \/ Join(c) \/ TakeIpi(c) \/ OtherInterrupt(c) \/ Yield(c)
               \/ Tick(c) \/ SchedLock(c)
               \/ \E t \in Tasks : WakeTask(c, t)
               \/ \E t \in Tasks, a \in Pins : SetAffinity(c, t, a)
        <3>1. UNCHANGED <<stack, state>>
            BY <2>4 DEF Join, TakeIpi, OtherInterrupt, Yield, Tick, SchedLock,
               WakeTask, SetAffinity, taskVars, cpuVars
        <3> QED BY <3>1, OthersRefine
    <2> QED BY <1>3, <2>1, <2>2, <2>3, <2>4 DEF Demand
<1> QED BY <1>1, <1>2, <1>3 DEF Next

\* The run queues of sched.c, with all their locks, implement the scheduler
\* that has none: a task is never on two CPUs, never woken or freed while a CPU
\* is on its stack, and changes CPU only by way of being runnable
THEOREM Refinement == Spec => ImplementsAbstract
<1> QED BY InitRefines, Invariance, NextRefines, PTL
    DEF Spec, ImplementsAbstract, Abstract!AbstractSpec
==============================================================================
