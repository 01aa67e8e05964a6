--------------------------- MODULE ShootdownProofs ---------------------------
(***************************************************************************)
(* That no request to flush and no call is lost, for any number of CPUs.   *)
(***************************************************************************)
EXTENDS Shootdown, TLAPS

\* A CPU that may see memory c has unmapped has yet to be told, has been told
\* and c still waits for it, or is about to flush
StaleInv ==
    \A c, d \in Cpus : c \in stale[d] =>
        /\ c # d
        /\ \/ Unsent(c, d)
           \/ tlb_flush_pending[d] /\ Unanswered(c, d)
           \/ flushing[d]

ServiceInv == \A c \in Cpus : again[c] => ~flushing[c]

\* A call goes to a CPU that takes calls
CallAt == \A c \in Cpus : pc[c] \in {"claim", "post", "callwait"} => at[c] \in Callees

\* Whoever is between claiming a slot and publishing has it
CallPost ==
    \A c \in Cpus : pc[c] = "post" =>
        call_pending[at[c]] = 3 /\ call_for[at[c]] = c /\ c \in owed[at[c]]

\* Nothing is owed but what is in the slot, and that until it has run
CallOwed ==
    \A c, d \in Cpus : c \in owed[d] =>
        /\ call_for[d] = c /\ call_pending[d] # 0
        /\ call_pending[d] = 2 => pc[d] = "fn"

\* The handler is in the function while the slot says so
CallSlot ==
    \A d \in Cpus :
        /\ pc[d] \in {"fn", "ret"} <=> call_pending[d] = 2
        /\ pc[d] = "fn" \/ call_pending[d] \in {1, 3} => call_for[d] \in owed[d]

CallInv == CallAt /\ CallPost /\ CallOwed /\ CallSlot

ShootdownInv == TypeOK /\ StaleInv /\ ServiceInv /\ CallInv /\ CallNotLost

-----------------------------------------------------------------------------
\* What the proofs need to know of the CPUs' numbers
LEMMA CpuFacts ==
    /\ 0 \in Places /\ Nobody \in Places /\ NumCpus = Nobody
    /\ Cpus \subseteq Places /\ Callees \subseteq Cpus
    /\ Places \subseteq Nat /\ Nobody \in Nat
    /\ \A i \in Places : i < Nobody <=> i \in Cpus
    /\ \A i \in Cpus : i + 1 \in Places
BY ShootdownAssumption DEF Cpus, Places, Nobody

LEMMA InitInv == Init => ShootdownInv
BY CpuFacts DEF Init, ShootdownInv, TypeOK, StaleInv, ServiceInv, CallInv, CallAt, CallPost,
       CallOwed, CallSlot, CallNotLost, Locations, Waiting

\* A loop looks again
LEMMA GoOnWaitingStep ==
    ASSUME ShootdownInv, NEW e \in Cpus, GoOnWaiting(e)
    PROVE  ShootdownInv'
<1> USE DEF GoOnWaiting, At, Goto, tlbVars, callVars
<1>1. TypeOK'
    BY CpuFacts DEF ShootdownInv, TypeOK, CallInv, CallAt, Locations, Waiting
<1>2. StaleInv'
    BY CpuFacts DEF ShootdownInv, TypeOK, StaleInv, ServiceInv, Unsent, Unanswered, Asking
<1>3. ServiceInv'
    BY DEF ShootdownInv, TypeOK, ServiceInv
<1>4. CallAt'
    BY CpuFacts DEF ShootdownInv, TypeOK, CallInv, CallAt
<1>5. CallPost'
    BY CpuFacts DEF ShootdownInv, TypeOK, CallInv, CallAt, CallPost, CallSlot
<1>6. CallOwed'
    BY CpuFacts DEF ShootdownInv, TypeOK, CallInv, CallAt, CallPost, CallOwed, CallSlot
<1>7. CallSlot'
    BY CpuFacts DEF ShootdownInv, TypeOK, CallInv, CallAt, CallPost, CallOwed, CallSlot
<1>8. CallNotLost'
    BY CpuFacts DEF ShootdownInv, TypeOK, CallInv, CallAt, CallNotLost
<1> QED BY <1>1, <1>2, <1>3, <1>4, <1>5, <1>6, <1>7, <1>8 DEF ShootdownInv, CallInv

\* A loop that waits answers
LEMMA ServiceStep ==
    ASSUME ShootdownInv, NEW e \in Cpus, Service(e)
    PROVE  ShootdownInv'
<1> USE DEF Service, Clear, At, Goto, tlbVars, callVars
<1>1. TypeOK'
    BY CpuFacts DEF ShootdownInv, TypeOK, CallInv, CallAt, Locations, Waiting
<1>2. StaleInv'
    BY CpuFacts DEF ShootdownInv, TypeOK, StaleInv, ServiceInv, Unsent, Unanswered, Asking
<1>3. ServiceInv'
    BY DEF ShootdownInv, TypeOK, ServiceInv
<1>4. CallAt'
    BY CpuFacts DEF ShootdownInv, TypeOK, CallInv, CallAt
<1>5. CallPost'
    BY CpuFacts DEF ShootdownInv, TypeOK, CallInv, CallAt, CallPost, CallSlot
<1>6. CallOwed'
    BY CpuFacts DEF ShootdownInv, TypeOK, CallInv, CallAt, CallPost, CallOwed, CallSlot
<1>7. CallSlot'
    BY CpuFacts DEF ShootdownInv, TypeOK, CallInv, CallAt, CallPost, CallOwed, CallSlot
<1>8. CallNotLost'
    BY CpuFacts DEF ShootdownInv, TypeOK, CallInv, CallAt, CallNotLost
<1> QED BY <1>1, <1>2, <1>3, <1>4, <1>5, <1>6, <1>7, <1>8 DEF ShootdownInv, CallInv

\* The translations are dropped
LEMMA FlushStep ==
    ASSUME ShootdownInv, NEW e \in Cpus, Flush(e)
    PROVE  ShootdownInv'
<1> USE DEF Flush, At, Goto, tlbVars, callVars
<1>1. TypeOK'
    BY CpuFacts DEF ShootdownInv, TypeOK, CallInv, CallAt, Locations, Waiting
<1>2. StaleInv'
    BY CpuFacts DEF ShootdownInv, TypeOK, StaleInv, ServiceInv, Unsent, Unanswered, Asking
<1>3. ServiceInv'
    BY DEF ShootdownInv, TypeOK, ServiceInv
<1>4. CallAt'
    BY CpuFacts DEF ShootdownInv, TypeOK, CallInv, CallAt
<1>5. CallPost'
    BY CpuFacts DEF ShootdownInv, TypeOK, CallInv, CallAt, CallPost, CallSlot
<1>6. CallOwed'
    BY CpuFacts DEF ShootdownInv, TypeOK, CallInv, CallAt, CallPost, CallOwed, CallSlot
<1>7. CallSlot'
    BY CpuFacts DEF ShootdownInv, TypeOK, CallInv, CallAt, CallPost, CallOwed, CallSlot
<1>8. CallNotLost'
    BY CpuFacts DEF ShootdownInv, TypeOK, CallInv, CallAt, CallNotLost
<1> QED BY <1>1, <1>2, <1>3, <1>4, <1>5, <1>6, <1>7, <1>8 DEF ShootdownInv, CallInv

\* A lock is tried
LEMMA SpinStep ==
    ASSUME ShootdownInv, NEW e \in Cpus, Spin(e)
    PROVE  ShootdownInv'
<1> USE DEF Spin, At, Goto, tlbVars, callVars
<1>1. TypeOK'
    BY CpuFacts DEF ShootdownInv, TypeOK, CallInv, CallAt, Locations, Waiting
<1>2. StaleInv'
    BY CpuFacts DEF ShootdownInv, TypeOK, StaleInv, ServiceInv, Unsent, Unanswered, Asking
<1>3. ServiceInv'
    BY DEF ShootdownInv, TypeOK, ServiceInv
<1>4. CallAt'
    BY CpuFacts DEF ShootdownInv, TypeOK, CallInv, CallAt
<1>5. CallPost'
    BY CpuFacts DEF ShootdownInv, TypeOK, CallInv, CallAt, CallPost, CallSlot
<1>6. CallOwed'
    BY CpuFacts DEF ShootdownInv, TypeOK, CallInv, CallAt, CallPost, CallOwed, CallSlot
<1>7. CallSlot'
    BY CpuFacts DEF ShootdownInv, TypeOK, CallInv, CallAt, CallPost, CallOwed, CallSlot
<1>8. CallNotLost'
    BY CpuFacts DEF ShootdownInv, TypeOK, CallInv, CallAt, CallNotLost
<1> QED BY <1>1, <1>2, <1>3, <1>4, <1>5, <1>6, <1>7, <1>8 DEF ShootdownInv, CallInv

\* ... taken
LEMMA AcquireStep ==
    ASSUME ShootdownInv, NEW e \in Cpus, Acquire(e)
    PROVE  ShootdownInv'
<1> USE DEF Acquire, At, Goto, tlbVars, callVars
<1>1. TypeOK'
    BY CpuFacts DEF ShootdownInv, TypeOK, CallInv, CallAt, Locations, Waiting
<1>2. StaleInv'
    BY CpuFacts DEF ShootdownInv, TypeOK, StaleInv, ServiceInv, Unsent, Unanswered, Asking
<1>3. ServiceInv'
    BY DEF ShootdownInv, TypeOK, ServiceInv
<1>4. CallAt'
    BY CpuFacts DEF ShootdownInv, TypeOK, CallInv, CallAt
<1>5. CallPost'
    BY CpuFacts DEF ShootdownInv, TypeOK, CallInv, CallAt, CallPost, CallSlot
<1>6. CallOwed'
    BY CpuFacts DEF ShootdownInv, TypeOK, CallInv, CallAt, CallPost, CallOwed, CallSlot
<1>7. CallSlot'
    BY CpuFacts DEF ShootdownInv, TypeOK, CallInv, CallAt, CallPost, CallOwed, CallSlot
<1>8. CallNotLost'
    BY CpuFacts DEF ShootdownInv, TypeOK, CallInv, CallAt, CallNotLost
<1> QED BY <1>1, <1>2, <1>3, <1>4, <1>5, <1>6, <1>7, <1>8 DEF ShootdownInv, CallInv

\* ... and released
LEMMA ReleaseStep ==
    ASSUME ShootdownInv, NEW e \in Cpus, Release(e)
    PROVE  ShootdownInv'
<1> USE DEF Release, At, Goto, tlbVars, callVars
<1>1. TypeOK'
    BY CpuFacts DEF ShootdownInv, TypeOK, CallInv, CallAt, Locations, Waiting
<1>2. StaleInv'
    BY CpuFacts DEF ShootdownInv, TypeOK, StaleInv, ServiceInv, Unsent, Unanswered, Asking
<1>3. ServiceInv'
    BY DEF ShootdownInv, TypeOK, ServiceInv
<1>4. CallAt'
    BY CpuFacts DEF ShootdownInv, TypeOK, CallInv, CallAt
<1>5. CallPost'
    BY CpuFacts DEF ShootdownInv, TypeOK, CallInv, CallAt, CallPost, CallSlot
<1>6. CallOwed'
    BY CpuFacts DEF ShootdownInv, TypeOK, CallInv, CallAt, CallPost, CallOwed, CallSlot
<1>7. CallSlot'
    BY CpuFacts DEF ShootdownInv, TypeOK, CallInv, CallAt, CallPost, CallOwed, CallSlot
<1>8. CallNotLost'
    BY CpuFacts DEF ShootdownInv, TypeOK, CallInv, CallAt, CallNotLost
<1> QED BY <1>1, <1>2, <1>3, <1>4, <1>5, <1>6, <1>7, <1>8 DEF ShootdownInv, CallInv

\* Memory is unmapped
LEMMA UnmapStep ==
    ASSUME ShootdownInv, NEW e \in Cpus, Unmap(e)
    PROVE  ShootdownInv'
<1> USE DEF Unmap, At, Goto, tlbVars, callVars
<1>1. TypeOK'
    BY CpuFacts DEF ShootdownInv, TypeOK, CallInv, CallAt, Locations, Waiting
<1>2. StaleInv'
    BY CpuFacts DEF ShootdownInv, TypeOK, StaleInv, ServiceInv, Unsent, Unanswered, Asking
<1>3. ServiceInv'
    BY DEF ShootdownInv, TypeOK, ServiceInv
<1>4. CallAt'
    BY CpuFacts DEF ShootdownInv, TypeOK, CallInv, CallAt
<1>5. CallPost'
    BY CpuFacts DEF ShootdownInv, TypeOK, CallInv, CallAt, CallPost, CallSlot
<1>6. CallOwed'
    BY CpuFacts DEF ShootdownInv, TypeOK, CallInv, CallAt, CallPost, CallOwed, CallSlot
<1>7. CallSlot'
    BY CpuFacts DEF ShootdownInv, TypeOK, CallInv, CallAt, CallPost, CallOwed, CallSlot
<1>8. CallNotLost'
    BY CpuFacts DEF ShootdownInv, TypeOK, CallInv, CallAt, CallNotLost
<1> QED BY <1>1, <1>2, <1>3, <1>4, <1>5, <1>6, <1>7, <1>8 DEF ShootdownInv, CallInv

\* Another CPU is told
LEMMA SendStep ==
    ASSUME ShootdownInv, NEW e \in Cpus, Send(e)
    PROVE  ShootdownInv'
<1> USE DEF Send, At, Goto, tlbVars, callVars
<1>1. TypeOK'
    BY CpuFacts DEF ShootdownInv, TypeOK, CallInv, CallAt, Locations, Waiting
<1>2. StaleInv'
    <2> SUFFICES ASSUME NEW c \in Cpus, NEW d \in Cpus, c \in stale[d]
                 PROVE  (/\ c # d
                         /\ \/ Unsent(c, d)
                            \/ tlb_flush_pending[d] /\ Unanswered(c, d)
                            \/ flushing[d])'
        BY DEF StaleInv
    <2>1. /\ c # d
          /\ \/ Unsent(c, d)
             \/ tlb_flush_pending[d] /\ Unanswered(c, d)
             \/ flushing[d]
        BY DEF ShootdownInv, StaleInv
    <2>2. at[e] \in Nat /\ d \in Nat /\ at[e] \in Cpus
        BY CpuFacts DEF ShootdownInv, TypeOK
    <2>3. CASE c # e
        <3>1. pc'[c] = pc[c] /\ at'[c] = at[c] /\ (tlb_flush_pending[d] => tlb_flush_pending'[d])
            BY <2>2, <2>3 DEF ShootdownInv, TypeOK
        <3> QED BY <2>1, <3>1 DEF Unsent, Unanswered, Asking
    <2>4. CASE c = e
        <3>1. pc'[c] = "send" /\ pc[c] = "send" /\ at'[c] = at[c] + 1
            BY <2>4 DEF ShootdownInv, TypeOK
        <3>2. CASE at[c] = d
            <4>1. tlb_flush_pending'[d]
                BY <2>1, <2>2, <2>4, <3>2 DEF ShootdownInv, TypeOK
            <4> QED BY <2>1, <3>1, <4>1 DEF Unanswered, Asking
        <3>3. CASE at[c] # d
            <4>1. at[c] <= d => at[c] + 1 <= d
                BY <2>2, <2>4, <3>3
            <4>2. tlb_flush_pending[d] => tlb_flush_pending'[d]
                BY <2>2 DEF ShootdownInv, TypeOK
            <4> QED BY <2>1, <3>1, <4>1, <4>2 DEF Unsent, Unanswered, Asking
        <3> QED BY <3>2, <3>3
    <2> QED BY <2>3, <2>4
<1>3. ServiceInv'
    BY DEF ShootdownInv, TypeOK, ServiceInv
<1>4. CallAt'
    BY CpuFacts DEF ShootdownInv, TypeOK, CallInv, CallAt
<1>5. CallPost'
    BY CpuFacts DEF ShootdownInv, TypeOK, CallInv, CallAt, CallPost, CallSlot
<1>6. CallOwed'
    BY CpuFacts DEF ShootdownInv, TypeOK, CallInv, CallAt, CallPost, CallOwed, CallSlot
<1>7. CallSlot'
    BY CpuFacts DEF ShootdownInv, TypeOK, CallInv, CallAt, CallPost, CallOwed, CallSlot
<1>8. CallNotLost'
    BY CpuFacts DEF ShootdownInv, TypeOK, CallInv, CallAt, CallNotLost
<1> QED BY <1>1, <1>2, <1>3, <1>4, <1>5, <1>6, <1>7, <1>8 DEF ShootdownInv, CallInv

\* All have been told
LEMMA SentStep ==
    ASSUME ShootdownInv, NEW e \in Cpus, Sent(e)
    PROVE  ShootdownInv'
<1> USE DEF Sent, At, Goto, tlbVars, callVars
<1>1. TypeOK'
    BY CpuFacts DEF ShootdownInv, TypeOK, CallInv, CallAt, Locations, Waiting
<1>2. StaleInv'
    BY CpuFacts DEF ShootdownInv, TypeOK, StaleInv, ServiceInv, Unsent, Unanswered, Asking
<1>3. ServiceInv'
    BY DEF ShootdownInv, TypeOK, ServiceInv
<1>4. CallAt'
    BY CpuFacts DEF ShootdownInv, TypeOK, CallInv, CallAt
<1>5. CallPost'
    BY CpuFacts DEF ShootdownInv, TypeOK, CallInv, CallAt, CallPost, CallSlot
<1>6. CallOwed'
    BY CpuFacts DEF ShootdownInv, TypeOK, CallInv, CallAt, CallPost, CallOwed, CallSlot
<1>7. CallSlot'
    BY CpuFacts DEF ShootdownInv, TypeOK, CallInv, CallAt, CallPost, CallOwed, CallSlot
<1>8. CallNotLost'
    BY CpuFacts DEF ShootdownInv, TypeOK, CallInv, CallAt, CallNotLost
<1> QED BY <1>1, <1>2, <1>3, <1>4, <1>5, <1>6, <1>7, <1>8 DEF ShootdownInv, CallInv

\* Another CPU has cleared its flag
LEMMA AnsweredStep ==
    ASSUME ShootdownInv, NEW e \in Cpus, Answered(e)
    PROVE  ShootdownInv'
<1> USE DEF Answered, At, Goto, tlbVars, callVars
<1>1. TypeOK'
    BY CpuFacts DEF ShootdownInv, TypeOK, CallInv, CallAt, Locations, Waiting
<1>2. StaleInv'
    <2> SUFFICES ASSUME NEW c \in Cpus, NEW d \in Cpus, c \in stale[d]
                 PROVE  (/\ c # d
                         /\ \/ Unsent(c, d)
                            \/ tlb_flush_pending[d] /\ Unanswered(c, d)
                            \/ flushing[d])'
        BY DEF StaleInv
    <2>1. /\ c # d
          /\ \/ Unsent(c, d)
             \/ tlb_flush_pending[d] /\ Unanswered(c, d)
             \/ flushing[d]
        BY DEF ShootdownInv, StaleInv
    <2>2. at[e] \in Nat /\ d \in Nat /\ at[e] \in Cpus
        BY CpuFacts DEF ShootdownInv, TypeOK
    <2>3. CASE c # e
        <3>1. pc'[c] = pc[c] /\ at'[c] = at[c]
            BY <2>3 DEF ShootdownInv, TypeOK
        <3> QED BY <2>1, <3>1 DEF Unsent, Unanswered, Asking
    <2>4. CASE c = e
        <3>1. pc'[c] = "wait" /\ pc[c] = "wait" /\ at'[c] = at[c] + 1
            BY <2>4 DEF ShootdownInv, TypeOK
        <3>2. CASE at[c] = d
            BY <2>1, <2>4, <3>1, <3>2 DEF Unsent
        <3>3. CASE at[c] # d
            <4>1. at[c] <= d => at[c] + 1 <= d
                BY <2>2, <2>4, <3>3
            <4> QED BY <2>1, <3>1, <4>1 DEF Unsent, Unanswered, Asking
        <3> QED BY <3>2, <3>3
    <2> QED BY <2>3, <2>4
<1>3. ServiceInv'
    BY DEF ShootdownInv, TypeOK, ServiceInv
<1>4. CallAt'
    BY CpuFacts DEF ShootdownInv, TypeOK, CallInv, CallAt
<1>5. CallPost'
    BY CpuFacts DEF ShootdownInv, TypeOK, CallInv, CallAt, CallPost, CallSlot
<1>6. CallOwed'
    BY CpuFacts DEF ShootdownInv, TypeOK, CallInv, CallAt, CallPost, CallOwed, CallSlot
<1>7. CallSlot'
    BY CpuFacts DEF ShootdownInv, TypeOK, CallInv, CallAt, CallPost, CallOwed, CallSlot
<1>8. CallNotLost'
    BY CpuFacts DEF ShootdownInv, TypeOK, CallInv, CallAt, CallNotLost
<1> QED BY <1>1, <1>2, <1>3, <1>4, <1>5, <1>6, <1>7, <1>8 DEF ShootdownInv, CallInv

\* All have
LEMMA ReturnStep ==
    ASSUME ShootdownInv, NEW e \in Cpus, Return(e)
    PROVE  ShootdownInv'
<1> USE DEF Return, At, Goto, tlbVars, callVars
<1>1. TypeOK'
    BY CpuFacts DEF ShootdownInv, TypeOK, CallInv, CallAt, Locations, Waiting
<1>2. StaleInv'
    BY CpuFacts DEF ShootdownInv, TypeOK, StaleInv, ServiceInv, Unsent, Unanswered, Asking
<1>3. ServiceInv'
    BY DEF ShootdownInv, TypeOK, ServiceInv
<1>4. CallAt'
    BY CpuFacts DEF ShootdownInv, TypeOK, CallInv, CallAt
<1>5. CallPost'
    BY CpuFacts DEF ShootdownInv, TypeOK, CallInv, CallAt, CallPost, CallSlot
<1>6. CallOwed'
    BY CpuFacts DEF ShootdownInv, TypeOK, CallInv, CallAt, CallPost, CallOwed, CallSlot
<1>7. CallSlot'
    BY CpuFacts DEF ShootdownInv, TypeOK, CallInv, CallAt, CallPost, CallOwed, CallSlot
<1>8. CallNotLost'
    BY CpuFacts DEF ShootdownInv, TypeOK, CallInv, CallAt, CallNotLost
<1> QED BY <1>1, <1>2, <1>3, <1>4, <1>5, <1>6, <1>7, <1>8 DEF ShootdownInv, CallInv

\* smp_call begins
LEMMA StartCallStep ==
    ASSUME ShootdownInv, NEW e \in Cpus, StartCall(e)
    PROVE  ShootdownInv'
<1> USE DEF StartCall, At, Goto, tlbVars, callVars
<1>1. TypeOK'
    BY CpuFacts DEF ShootdownInv, TypeOK, CallInv, CallAt, Locations, Waiting
<1>2. StaleInv'
    BY CpuFacts DEF ShootdownInv, TypeOK, StaleInv, ServiceInv, Unsent, Unanswered, Asking
<1>3. ServiceInv'
    BY DEF ShootdownInv, TypeOK, ServiceInv
<1>4. CallAt'
    BY CpuFacts DEF ShootdownInv, TypeOK, CallInv, CallAt
<1>5. CallPost'
    BY CpuFacts DEF ShootdownInv, TypeOK, CallInv, CallAt, CallPost, CallSlot
<1>6. CallOwed'
    <2>1. \A d \in Cpus : d # e => pc'[d] = pc[d]
        BY DEF ShootdownInv, TypeOK
    <2>2. \A c \in Cpus : c \in owed[e] => call_pending[e] # 2
        BY DEF ShootdownInv, CallInv, CallOwed
    <2> QED BY <2>1, <2>2 DEF ShootdownInv, CallInv, CallOwed
<1>7. CallSlot'
    <2>1. pc[e] = "run" /\ pc'[e] = "claim" /\ \A d \in Cpus : d # e => pc'[d] = pc[d]
        BY DEF ShootdownInv, TypeOK
    <2> QED BY <2>1 DEF ShootdownInv, CallInv, CallSlot
<1>8. CallNotLost'
    BY CpuFacts DEF ShootdownInv, TypeOK, CallInv, CallAt, CallNotLost
<1> QED BY <1>1, <1>2, <1>3, <1>4, <1>5, <1>6, <1>7, <1>8 DEF ShootdownInv, CallInv

\* ... claims the slot
LEMMA ClaimStep ==
    ASSUME ShootdownInv, NEW e \in Cpus, Claim(e)
    PROVE  ShootdownInv'
<1> USE DEF Claim, At, Goto, tlbVars, callVars
<1>1. TypeOK'
    <2>1. at[e] \in Cpus
        BY CpuFacts DEF ShootdownInv, CallInv, CallAt
    <2>2. pc' \in [Cpus -> Locations]
        BY DEF ShootdownInv, TypeOK, Locations, Waiting
    <2>3. call_pending' \in [Cpus -> 0 .. 3] /\ call_for' \in [Cpus -> Cpus]
        BY <2>1 DEF ShootdownInv, TypeOK
    <2>4. owed' \in [Cpus -> SUBSET Cpus]
        BY <2>1 DEF ShootdownInv, TypeOK
    <2> QED BY <2>2, <2>3, <2>4 DEF ShootdownInv, TypeOK
<1>2. StaleInv'
    BY CpuFacts DEF ShootdownInv, TypeOK, StaleInv, ServiceInv, Unsent, Unanswered, Asking
<1>3. ServiceInv'
    BY DEF ShootdownInv, TypeOK, ServiceInv
<1>4. CallAt'
    BY CpuFacts DEF ShootdownInv, TypeOK, CallInv, CallAt
<1>5. CallPost'
    <2> SUFFICES ASSUME NEW c \in Cpus, pc'[c] = "post"
                 PROVE  (call_pending[at[c]] = 3 /\ call_for[at[c]] = c /\ c \in owed[at[c]])'
        BY DEF CallPost
    <2>1. at[e] \in Cpus
        BY CpuFacts DEF ShootdownInv, CallInv, CallAt
    <2>2. CASE c = e
        BY <2>1, <2>2 DEF ShootdownInv, TypeOK
    <2>3. CASE c # e
        <3>1. pc[c] = "post"
            BY <2>3 DEF ShootdownInv, TypeOK
        <3>2. at[c] \in Cpus /\ call_pending[at[c]] = 3 /\ call_for[at[c]] = c /\ c \in owed[at[c]]
            BY <3>1, CpuFacts DEF ShootdownInv, CallInv, CallAt, CallPost
        <3>3. at[c] # at[e]
            BY <3>2
        <3> QED BY <2>1, <3>2, <3>3 DEF ShootdownInv, TypeOK
    <2> QED BY <2>2, <2>3
<1>6. CallOwed'
    BY CpuFacts DEF ShootdownInv, TypeOK, CallInv, CallAt, CallPost, CallOwed, CallSlot
<1>7. CallSlot'
    BY CpuFacts DEF ShootdownInv, TypeOK, CallInv, CallAt, CallPost, CallOwed, CallSlot
<1>8. CallNotLost'
    BY CpuFacts DEF ShootdownInv, TypeOK, CallInv, CallAt, CallNotLost
<1> QED BY <1>1, <1>2, <1>3, <1>4, <1>5, <1>6, <1>7, <1>8 DEF ShootdownInv, CallInv

\* ... publishes the request
LEMMA PostStep ==
    ASSUME ShootdownInv, NEW e \in Cpus, Post(e)
    PROVE  ShootdownInv'
<1> USE DEF Post, At, Goto, tlbVars, callVars
<1>1. TypeOK'
    <2>1. at[e] \in Cpus
        BY CpuFacts DEF ShootdownInv, CallInv, CallAt
    <2>2. pc' \in [Cpus -> Locations]
        BY DEF ShootdownInv, TypeOK, Locations, Waiting
    <2>3. call_pending' \in [Cpus -> 0 .. 3] /\ ipi' \in [Cpus -> BOOLEAN]
        BY <2>1 DEF ShootdownInv, TypeOK
    <2> QED BY <2>2, <2>3 DEF ShootdownInv, TypeOK
<1>2. StaleInv'
    BY CpuFacts DEF ShootdownInv, TypeOK, StaleInv, ServiceInv, Unsent, Unanswered, Asking
<1>3. ServiceInv'
    BY DEF ShootdownInv, TypeOK, ServiceInv
<1>4. CallAt'
    BY CpuFacts DEF ShootdownInv, TypeOK, CallInv, CallAt
<1>5. CallPost'
    BY CpuFacts DEF ShootdownInv, TypeOK, CallInv, CallAt, CallPost, CallSlot
<1>6. CallOwed'
    BY CpuFacts DEF ShootdownInv, TypeOK, CallInv, CallAt, CallPost, CallOwed, CallSlot
<1>7. CallSlot'
    BY CpuFacts DEF ShootdownInv, TypeOK, CallInv, CallAt, CallPost, CallOwed, CallSlot
<1>8. CallNotLost'
    BY CpuFacts DEF ShootdownInv, TypeOK, CallInv, CallAt, CallNotLost
<1> QED BY <1>1, <1>2, <1>3, <1>4, <1>5, <1>6, <1>7, <1>8 DEF ShootdownInv, CallInv

\* ... and returns
LEMMA CallReturnStep ==
    ASSUME ShootdownInv, NEW e \in Cpus, CallReturn(e)
    PROVE  ShootdownInv'
<1> USE DEF CallReturn, At, Goto, tlbVars, callVars
<1>1. TypeOK'
    BY CpuFacts DEF ShootdownInv, TypeOK, CallInv, CallAt, Locations, Waiting
<1>2. StaleInv'
    BY CpuFacts DEF ShootdownInv, TypeOK, StaleInv, ServiceInv, Unsent, Unanswered, Asking
<1>3. ServiceInv'
    BY DEF ShootdownInv, TypeOK, ServiceInv
<1>4. CallAt'
    BY CpuFacts DEF ShootdownInv, TypeOK, CallInv, CallAt
<1>5. CallPost'
    BY CpuFacts DEF ShootdownInv, TypeOK, CallInv, CallAt, CallPost, CallSlot
<1>6. CallOwed'
    BY CpuFacts DEF ShootdownInv, TypeOK, CallInv, CallAt, CallPost, CallOwed, CallSlot
<1>7. CallSlot'
    BY CpuFacts DEF ShootdownInv, TypeOK, CallInv, CallAt, CallPost, CallOwed, CallSlot
<1>8. CallNotLost'
    BY CpuFacts DEF ShootdownInv, TypeOK, CallInv, CallAt, CallNotLost
<1> QED BY <1>1, <1>2, <1>3, <1>4, <1>5, <1>6, <1>7, <1>8 DEF ShootdownInv, CallInv

\* The interrupt is taken
LEMMA InterruptStep ==
    ASSUME ShootdownInv, NEW e \in Cpus, Interrupt(e)
    PROVE  ShootdownInv'
<1> USE DEF Interrupt, At, Goto, tlbVars, callVars
<1>1. TypeOK'
    BY CpuFacts DEF ShootdownInv, TypeOK, CallInv, CallAt, Locations, Waiting
<1>2. StaleInv'
    BY CpuFacts DEF ShootdownInv, TypeOK, StaleInv, ServiceInv, Unsent, Unanswered, Asking
<1>3. ServiceInv'
    BY DEF ShootdownInv, TypeOK, ServiceInv
<1>4. CallAt'
    BY CpuFacts DEF ShootdownInv, TypeOK, CallInv, CallAt
<1>5. CallPost'
    BY CpuFacts DEF ShootdownInv, TypeOK, CallInv, CallAt, CallPost, CallSlot
<1>6. CallOwed'
    BY CpuFacts DEF ShootdownInv, TypeOK, CallInv, CallAt, CallPost, CallOwed, CallSlot
<1>7. CallSlot'
    BY CpuFacts DEF ShootdownInv, TypeOK, CallInv, CallAt, CallPost, CallOwed, CallSlot
<1>8. CallNotLost'
    BY CpuFacts DEF ShootdownInv, TypeOK, CallInv, CallAt, CallNotLost
<1> QED BY <1>1, <1>2, <1>3, <1>4, <1>5, <1>6, <1>7, <1>8 DEF ShootdownInv, CallInv

\* ... answers a request to flush
LEMMA IpiServiceStep ==
    ASSUME ShootdownInv, NEW e \in Cpus, IpiService(e)
    PROVE  ShootdownInv'
<1> USE DEF IpiService, Clear, At, Goto, tlbVars, callVars
<1>1. TypeOK'
    BY CpuFacts DEF ShootdownInv, TypeOK, CallInv, CallAt, Locations, Waiting
<1>2. StaleInv'
    BY CpuFacts DEF ShootdownInv, TypeOK, StaleInv, ServiceInv, Unsent, Unanswered, Asking
<1>3. ServiceInv'
    BY DEF ShootdownInv, TypeOK, ServiceInv
<1>4. CallAt'
    BY CpuFacts DEF ShootdownInv, TypeOK, CallInv, CallAt
<1>5. CallPost'
    BY CpuFacts DEF ShootdownInv, TypeOK, CallInv, CallAt, CallPost, CallSlot
<1>6. CallOwed'
    BY CpuFacts DEF ShootdownInv, TypeOK, CallInv, CallAt, CallPost, CallOwed, CallSlot
<1>7. CallSlot'
    BY CpuFacts DEF ShootdownInv, TypeOK, CallInv, CallAt, CallPost, CallOwed, CallSlot
<1>8. CallNotLost'
    BY CpuFacts DEF ShootdownInv, TypeOK, CallInv, CallAt, CallNotLost
<1> QED BY <1>1, <1>2, <1>3, <1>4, <1>5, <1>6, <1>7, <1>8 DEF ShootdownInv, CallInv

\* ... looks for a call
LEMMA LookStep ==
    ASSUME ShootdownInv, NEW e \in Cpus, Look(e)
    PROVE  ShootdownInv'
<1> USE DEF Look, At, Goto, tlbVars, callVars
<1>1. TypeOK'
    BY CpuFacts DEF ShootdownInv, TypeOK, CallInv, CallAt, Locations, Waiting
<1>2. StaleInv'
    BY CpuFacts DEF ShootdownInv, TypeOK, StaleInv, ServiceInv, Unsent, Unanswered, Asking
<1>3. ServiceInv'
    BY DEF ShootdownInv, TypeOK, ServiceInv
<1>4. CallAt'
    BY CpuFacts DEF ShootdownInv, TypeOK, CallInv, CallAt
<1>5. CallPost'
    BY CpuFacts DEF ShootdownInv, TypeOK, CallInv, CallAt, CallPost, CallSlot
<1>6. CallOwed'
    BY CpuFacts DEF ShootdownInv, TypeOK, CallInv, CallAt, CallPost, CallOwed, CallSlot
<1>7. CallSlot'
    BY CpuFacts DEF ShootdownInv, TypeOK, CallInv, CallAt, CallPost, CallOwed, CallSlot
<1>8. CallNotLost'
    BY CpuFacts DEF ShootdownInv, TypeOK, CallInv, CallAt, CallNotLost
<1> QED BY <1>1, <1>2, <1>3, <1>4, <1>5, <1>6, <1>7, <1>8 DEF ShootdownInv, CallInv

\* ... runs the function
LEMMA RunFnStep ==
    ASSUME ShootdownInv, NEW e \in Cpus, RunFn(e)
    PROVE  ShootdownInv'
<1> USE DEF RunFn, At, Goto, tlbVars, callVars
<1>1. TypeOK'
    BY CpuFacts DEF ShootdownInv, TypeOK, CallInv, CallAt, Locations, Waiting
<1>2. StaleInv'
    BY CpuFacts DEF ShootdownInv, TypeOK, StaleInv, ServiceInv, Unsent, Unanswered, Asking
<1>3. ServiceInv'
    BY DEF ShootdownInv, TypeOK, ServiceInv
<1>4. CallAt'
    BY CpuFacts DEF ShootdownInv, TypeOK, CallInv, CallAt
<1>5. CallPost'
    <2> SUFFICES ASSUME NEW c \in Cpus, pc'[c] = "post"
                 PROVE  (call_pending[at[c]] = 3 /\ call_for[at[c]] = c /\ c \in owed[at[c]])'
        BY DEF CallPost
    <2>1. c # e /\ pc[c] = "post"
        BY DEF ShootdownInv, TypeOK
    <2>2. at[c] \in Cpus /\ call_pending[at[c]] = 3 /\ call_for[at[c]] = c /\ c \in owed[at[c]]
        BY <2>1, CpuFacts DEF ShootdownInv, CallInv, CallAt, CallPost
    <2>3. at[c] # e
        BY <2>2 DEF ShootdownInv, CallInv, CallSlot
    <2> QED BY <2>2, <2>3 DEF ShootdownInv, TypeOK
<1>6. CallOwed'
    BY CpuFacts DEF ShootdownInv, TypeOK, CallInv, CallAt, CallPost, CallOwed, CallSlot
<1>7. CallSlot'
    <2> SUFFICES ASSUME NEW d \in Cpus
                 PROVE  (/\ pc[d] \in {"fn", "ret"} <=> call_pending[d] = 2
                         /\ pc[d] = "fn" \/ call_pending[d] \in {1, 3} => call_for[d] \in owed[d])'
        BY DEF CallSlot
    <2>1. /\ pc[d] \in {"fn", "ret"} <=> call_pending[d] = 2
          /\ pc[d] = "fn" \/ call_pending[d] \in {1, 3} => call_for[d] \in owed[d]
        BY DEF ShootdownInv, CallInv, CallSlot
    <2>2. CASE d = e
        BY <2>1, <2>2 DEF ShootdownInv, TypeOK
    <2>3. CASE d # e
        BY <2>1, <2>3 DEF ShootdownInv, TypeOK
    <2> QED BY <2>2, <2>3
<1>8. CallNotLost'
    BY CpuFacts DEF ShootdownInv, TypeOK, CallInv, CallAt, CallNotLost
<1> QED BY <1>1, <1>2, <1>3, <1>4, <1>5, <1>6, <1>7, <1>8 DEF ShootdownInv, CallInv

\* ... and gives the slot back
LEMMA FnDoneStep ==
    ASSUME ShootdownInv, NEW e \in Cpus, FnDone(e)
    PROVE  ShootdownInv'
<1> USE DEF FnDone, At, Goto, tlbVars, callVars
<1>1. TypeOK'
    BY CpuFacts DEF ShootdownInv, TypeOK, CallInv, CallAt, Locations, Waiting
<1>2. StaleInv'
    BY CpuFacts DEF ShootdownInv, TypeOK, StaleInv, ServiceInv, Unsent, Unanswered, Asking
<1>3. ServiceInv'
    BY DEF ShootdownInv, TypeOK, ServiceInv
<1>4. CallAt'
    BY CpuFacts DEF ShootdownInv, TypeOK, CallInv, CallAt
<1>5. CallPost'
    <2> SUFFICES ASSUME NEW c \in Cpus, pc'[c] = "post"
                 PROVE  (call_pending[at[c]] = 3 /\ call_for[at[c]] = c /\ c \in owed[at[c]])'
        BY DEF CallPost
    <2>1. c # e /\ pc[c] = "post"
        BY DEF ShootdownInv, TypeOK
    <2>2. at[c] \in Cpus /\ call_pending[at[c]] = 3 /\ call_for[at[c]] = c /\ c \in owed[at[c]]
        BY <2>1, CpuFacts DEF ShootdownInv, CallInv, CallAt, CallPost
    <2>3. at[c] # e
        BY <2>2 DEF ShootdownInv, CallInv, CallSlot
    <2> QED BY <2>2, <2>3 DEF ShootdownInv, TypeOK
<1>6. CallOwed'
    <2> SUFFICES ASSUME NEW c \in Cpus, NEW d \in Cpus, c \in owed[d]
                 PROVE  (/\ call_for[d] = c /\ call_pending[d] # 0
                         /\ call_pending[d] = 2 => pc[d] = "fn")'
        BY DEF CallOwed
    <2>1. call_for[d] = c /\ call_pending[d] # 0 /\ (call_pending[d] = 2 => pc[d] = "fn")
        BY DEF ShootdownInv, CallInv, CallOwed
    <2>2. d # e
        BY <2>1 DEF ShootdownInv, CallInv, CallSlot
    <2> QED BY <2>1, <2>2 DEF ShootdownInv, TypeOK
<1>7. CallSlot'
    BY CpuFacts DEF ShootdownInv, TypeOK, CallInv, CallAt, CallPost, CallOwed, CallSlot
<1>8. CallNotLost'
    BY CpuFacts DEF ShootdownInv, TypeOK, CallInv, CallAt, CallNotLost
<1> QED BY <1>1, <1>2, <1>3, <1>4, <1>5, <1>6, <1>7, <1>8 DEF ShootdownInv, CallInv

LEMMA NextInv == ShootdownInv /\ [Next]_vars => ShootdownInv'
<1> SUFFICES ASSUME ShootdownInv, [Next]_vars
             PROVE  ShootdownInv'
    OBVIOUS
<1>1. CASE UNCHANGED vars
    <2> USE <1>1 DEF vars
    <2>1. TypeOK'
        BY DEF ShootdownInv, TypeOK
    <2>2. StaleInv'
        BY DEF ShootdownInv, StaleInv, Unsent, Unanswered
    <2>3. ServiceInv'
        BY DEF ShootdownInv, ServiceInv
    <2>4. CallInv'
        BY DEF ShootdownInv, CallInv, CallAt, CallPost, CallOwed, CallSlot
    <2>5. CallNotLost'
        BY DEF ShootdownInv, CallNotLost
    <2> QED BY <2>1, <2>2, <2>3, <2>4, <2>5 DEF ShootdownInv
<1>2. CASE Next
    <2> PICK c \in Cpus : Work(c) \/ Begin(c) \/ Interrupt(c)
        BY <1>2 DEF Next
    <2> QED
        BY GoOnWaitingStep, ServiceStep, FlushStep, SpinStep, AcquireStep,
           ReleaseStep, UnmapStep, SendStep, SentStep, AnsweredStep,
           ReturnStep, StartCallStep, ClaimStep, PostStep, CallReturnStep,
           InterruptStep, IpiServiceStep, LookStep, RunFnStep, FnDoneStep
        DEF Work, Begin
<1> QED BY <1>1, <1>2

\* The inductive invariant holds for every number of CPUs
THEOREM ShootdownInvariance == Spec => []ShootdownInv
BY InitInv, NextInv, PTL DEF Spec

\* A CPU that smp_tlb_shootdown has gone past sees unmapped memory only while
\* it is about to flush
THEOREM NoRequestIsLost == Spec => []StaleOnlyInService
<1>1. ShootdownInv => StaleOnlyInService
    BY CpuFacts DEF ShootdownInv, TypeOK, StaleInv, StaleOnlyInService, Unsent, Unanswered, Asking
<1> QED BY <1>1, ShootdownInvariance, PTL

\* The function in a CPU's slot is the one asked for, and runs once
THEOREM CallsAreMine == Spec => []CallIsMine
<1>1. ShootdownInv => CallIsMine
    <2> SUFFICES ASSUME ShootdownInv, NEW d \in Cpus, pc[d] = "fn"
                 PROVE  /\ call_pending[d] = 2 /\ call_for[d] \in owed[d]
                        /\ \A c \in Cpus : pc[c] = "post" => at[c] # d
        BY DEF CallIsMine
    <2>1. call_pending[d] = 2 /\ call_for[d] \in owed[d]
        BY DEF ShootdownInv, CallInv, CallSlot
    <2>2. \A c \in Cpus : pc[c] = "post" => at[c] # d
        BY <2>1 DEF ShootdownInv, CallInv, CallPost
    <2> QED BY <2>1, <2>2
<1> QED BY <1>1, ShootdownInvariance, PTL

\* A published call always has an interrupt or a handler on its way to it
THEOREM NoCallIsLost == Spec => []CallNotLost
<1>1. ShootdownInv => CallNotLost
    BY DEF ShootdownInv
<1> QED BY <1>1, ShootdownInvariance, PTL

\* smp_call with wait returns only when the function has finished
THEOREM CallsAreOver == Spec => CallIsOver
<1>1. ASSUME ShootdownInv, [Next]_vars
      PROVE  [\A c \in Cpus : pc[c] = "callwait" /\ pc'[c] # "callwait" =>
                  c \notin owed[at[c]]]_vars
    <2> SUFFICES ASSUME Next, NEW c \in Cpus, pc[c] = "callwait", pc'[c] # "callwait"
                 PROVE  c \notin owed[at[c]]
        BY <1>1
    <2> PICK d \in Cpus : Work(d) \/ Begin(d) \/ Interrupt(d)
        BY DEF Next
    <2>1. CallReturn(c)
        BY <1>1 DEF Work, Begin, Interrupt, ShootdownInv, TypeOK, GoOnWaiting, Service, Clear,
           Flush, Acquire, Release, Send, Sent, Answered, Return, Claim, Post, CallReturn,
           IpiService, Look, RunFn, FnDone, Spin, Unmap, StartCall, At, Goto, tlbVars, callVars
    <2> QED BY <1>1, <2>1, CpuFacts DEF ShootdownInv, CallInv, CallAt, CallOwed, CallReturn, At
<1> QED BY <1>1, ShootdownInvariance, PTL DEF Spec, CallIsOver

\* smp_call's function runs, once, on the CPU it is asked of: the two parts
\* together, for any number of CPUs
THEOREM CallsAreSound == Spec => []CallsSound
BY CallsAreMine, NoCallIsLost, PTL DEF CallsSound

=============================================================================
