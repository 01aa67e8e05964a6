------------------------------ MODULE Shootdown ------------------------------
(***************************************************************************)
(* What CPUs ask of each other (arch/x86_64/smp.c): to drop the cached     *)
(* translations of memory that one of them has unmapped, and to run a      *)
(* function.  A CPU answers in the handler of IPI_VECTOR_WAKE, and the     *)
(* first kind also wherever it waits with interrupts off: for a spinlock,  *)
(* for others to answer its own request, for a function to finish.         *)
(*                                                                         *)
(* A step is one atomic access, or a stretch of code that only its CPU     *)
(* sees.  stale[c] holds the CPUs whose last unmapping CPU c may still not *)
(* know of: any translation may have been cached.                          *)
(*                                                                         *)
(* Abstracted: all the locks that a CPU may hold or wait for around a      *)
(* request are one; every CPU has been started; the kernel does not panic. *)
(***************************************************************************)
EXTENDS Naturals

CONSTANTS
    NumCpus,            \* cpu_total
    Unmappers,          \* whose unmappings are looked at
    Callers, Callees    \* who calls smp_call, and on which CPUs

Cpus == 0 .. NumCpus - 1

\* A caller waits with interrupts off and answers no call meanwhile: nobody
\* calls in a circle
ASSUME ShootdownAssumption ==
    /\ NumCpus \in Nat \ {0, 1}
    /\ Unmappers \subseteq Cpus /\ Callers \subseteq Cpus /\ Callees \subseteq Cpus
    /\ Callers \cap Callees = {}

VARIABLES
    tlb_flush_pending,  \* tlb_flush_pending[c]: it is asked to flush
    again,              \* again[c]: what it waits for had not come: it calls
                        \*           smp_tlb_service before it looks again
    flushing,           \* flushing[c]: it has cleared that and not flushed yet
    stale,              \* stale[c]: whose unmapped memory it may still see
    ipi,                \* ipi[c]: the interrupt is pending
    call_pending,       \* call_pending[c]: 0 none, 3 claimed, 1 asked, 2 running
    call_for,           \* call_for[c]: who asked (call_fn, call_arg)
    owed,               \* owed[d]: who has asked d for a function yet to run
    lock,               \* who holds the lock (NumCpus: nobody)
    pc,                 \* pc[c]: where it is
    at,                 \* at[c]: the CPU its loop has come to, or it calls
    back                \* back[c]: where smp_tlb_shootdown returns to

vars == <<tlb_flush_pending, again, flushing, stale, ipi, call_pending, call_for, owed,
          lock, pc, at, back>>
callVars == <<call_pending, call_for, owed>>
tlbVars == <<tlb_flush_pending, again, flushing, stale>>

-----------------------------------------------------------------------------
Places == 0 .. NumCpus  \* of a loop over the CPUs
Nobody == NumCpus

Waiting == {"spin", "wait", "claim", "callwait"}
Asking == {"send", "wait"}
Locations == {"run", "locked", "unlock", "send", "post",
              "ipi", "look", "fn", "ret"} \cup Waiting

TypeOK ==
    /\ tlb_flush_pending \in [Cpus -> BOOLEAN]
    /\ again \in [Cpus -> BOOLEAN] /\ flushing \in [Cpus -> BOOLEAN]
    /\ stale \in [Cpus -> SUBSET Cpus]
    /\ ipi \in [Cpus -> BOOLEAN]
    /\ call_pending \in [Cpus -> 0 .. 3]
    /\ call_for \in [Cpus -> Cpus]
    /\ owed \in [Cpus -> SUBSET Cpus]
    /\ lock \in Places
    /\ pc \in [Cpus -> Locations]
    /\ at \in [Cpus -> Places]
    /\ back \in [Cpus -> {"run", "unlock"}]

Init ==
    /\ tlb_flush_pending = [c \in Cpus |-> FALSE]
    /\ again = [c \in Cpus |-> FALSE] /\ flushing = [c \in Cpus |-> FALSE]
    /\ stale = [c \in Cpus |-> {}]
    /\ ipi = [c \in Cpus |-> FALSE]
    /\ call_pending = [c \in Cpus |-> 0]
    /\ call_for = [c \in Cpus |-> c]
    /\ owed = [c \in Cpus |-> {}]
    /\ lock = Nobody
    /\ pc = [c \in Cpus |-> "run"]
    /\ at = [c \in Cpus |-> 0]
    /\ back = [c \in Cpus |-> "run"]

Goto(c, l) == pc' = [pc EXCEPT ![c] = l]

\* c is at l, and not in smp_tlb_service
At(c, l) == pc[c] = l /\ ~again[c] /\ ~flushing[c]

-----------------------------------------------------------------------------
(* smp_tlb_service: "Clear, then flush".                                   *)

Clear(c) ==
    /\ tlb_flush_pending' = [tlb_flush_pending EXCEPT ![c] = FALSE]
    /\ flushing' = [flushing EXCEPT ![c] = tlb_flush_pending[c]]

\* A loop that waits finds that it has to go on waiting
Blocked(c) ==
    \/ pc[c] = "spin" /\ lock # Nobody
    \/ pc[c] = "wait" /\ at[c] \in Cpus \ {c} /\ tlb_flush_pending[at[c]]
    \/ pc[c] \in {"claim", "callwait"} /\ call_pending[at[c]] # 0

GoOnWaiting(c) ==
    /\ Blocked(c) /\ ~again[c] /\ ~flushing[c]
    /\ again' = [again EXCEPT ![c] = TRUE]
    /\ UNCHANGED <<tlb_flush_pending, flushing, stale, ipi, callVars, lock, pc, at, back>>

\* Mutant of Service: the loop only waits
ServiceNot(c) ==
    /\ again[c]
    /\ again' = [again EXCEPT ![c] = FALSE]
    /\ UNCHANGED <<tlb_flush_pending, flushing, stale, ipi, callVars, lock, pc, at, back>>

\* ... and answers meanwhile
Service(c) ==
    /\ again[c]
    /\ again' = [again EXCEPT ![c] = FALSE]
    /\ Clear(c)
    /\ UNCHANGED <<stale, ipi, callVars, lock, pc, at, back>>

\* flush_whole_tlb
Flush(c) ==
    /\ flushing[c]
    /\ stale' = [stale EXCEPT ![c] = {}]
    /\ flushing' = [flushing EXCEPT ![c] = FALSE]
    /\ UNCHANGED <<tlb_flush_pending, again, ipi, callVars, lock, pc, at, back>>

-----------------------------------------------------------------------------
(* Spinlocks.                                                              *)

Spin(c) ==
    /\ At(c, "run")
    /\ Goto(c, "spin")
    /\ UNCHANGED <<tlbVars, ipi, callVars, lock, at, back>>

Acquire(c) ==
    /\ At(c, "spin") /\ lock = Nobody
    /\ lock' = c
    /\ Goto(c, "locked")
    /\ UNCHANGED <<tlbVars, ipi, callVars, at, back>>

Release(c) ==
    /\ At(c, "locked") \/ At(c, "unlock")
    /\ lock' = Nobody
    /\ Goto(c, "run")
    /\ UNCHANGED <<tlbVars, ipi, callVars, at, back>>

-----------------------------------------------------------------------------
(* smp_tlb_shootdown, after a mapping has been taken away (vmm_unmap_page, *)
(* process_tlb_sync), with or without a lock held.                         *)

Unmap(c) ==
    /\ c \in Unmappers /\ (At(c, "run") \/ At(c, "locked"))
    /\ stale' = [d \in Cpus |-> IF d = c THEN stale[d] ELSE stale[d] \cup {c}]
    /\ back' = [back EXCEPT ![c] = IF pc[c] = "run" THEN "run" ELSE "unlock"]
    /\ at' = [at EXCEPT ![c] = 0]
    /\ Goto(c, "send")
    /\ UNCHANGED <<tlb_flush_pending, again, flushing, ipi, callVars, lock>>

\* The next CPU is told; the interrupt goes after the flag
Send(c) ==
    /\ At(c, "send") /\ at[c] < NumCpus
    /\ LET d == at[c] IN
       /\ tlb_flush_pending' = IF d = c THEN tlb_flush_pending
                               ELSE [tlb_flush_pending EXCEPT ![d] = TRUE]
       /\ ipi' = IF d = c THEN ipi ELSE [ipi EXCEPT ![d] = TRUE]
    /\ at' = [at EXCEPT ![c] = @ + 1]
    /\ UNCHANGED <<again, flushing, stale, callVars, lock, pc, back>>

Sent(c) ==
    /\ At(c, "send") /\ at[c] = NumCpus
    /\ at' = [at EXCEPT ![c] = 0]
    /\ Goto(c, "wait")
    /\ UNCHANGED <<tlbVars, ipi, callVars, lock, back>>

\* Mutant of Answered: looks at the flag, but does not wait
AnsweredOrNot(c) ==
    /\ At(c, "wait") /\ at[c] < NumCpus
    /\ at' = [at EXCEPT ![c] = @ + 1]
    /\ UNCHANGED <<tlbVars, ipi, callVars, lock, pc, back>>

\* The next CPU has cleared its flag
Answered(c) ==
    /\ At(c, "wait") /\ at[c] < NumCpus
    /\ at[c] = c \/ ~tlb_flush_pending[at[c]]
    /\ at' = [at EXCEPT ![c] = @ + 1]
    /\ UNCHANGED <<tlbVars, ipi, callVars, lock, pc, back>>

Return(c) ==
    /\ At(c, "wait") /\ at[c] = NumCpus
    /\ Goto(c, back[c])
    /\ UNCHANGED <<tlbVars, ipi, callVars, lock, at, back>>

-----------------------------------------------------------------------------
(* smp_call.                                                               *)

StartCall(c) ==
    /\ c \in Callers /\ At(c, "run")
    /\ \E d \in Callees : at' = [at EXCEPT ![c] = d]
    /\ Goto(c, "claim")
    /\ UNCHANGED <<tlbVars, ipi, callVars, lock, back>>

\* One request at a time per CPU; fn and arg are written
Claim(c) ==
    /\ At(c, "claim") /\ call_pending[at[c]] = 0
    /\ call_pending' = [call_pending EXCEPT ![at[c]] = 3]
    /\ call_for' = [call_for EXCEPT ![at[c]] = c]
    /\ owed' = [owed EXCEPT ![at[c]] = @ \cup {c}]
    /\ Goto(c, "post")
    /\ UNCHANGED <<tlbVars, ipi, lock, at, back>>

\* Mutant of Post: no interrupt
PostQuietly(c) ==
    /\ At(c, "post")
    /\ call_pending' = [call_pending EXCEPT ![at[c]] = 1]
    /\ \E wait \in BOOLEAN : Goto(c, IF wait THEN "callwait" ELSE "run")
    /\ UNCHANGED <<tlbVars, ipi, call_for, owed, lock, at, back>>

\* Published; the caller waits for the end, or does not
Post(c) ==
    /\ At(c, "post")
    /\ call_pending' = [call_pending EXCEPT ![at[c]] = 1]
    /\ ipi' = [ipi EXCEPT ![at[c]] = TRUE]
    /\ \E wait \in BOOLEAN : Goto(c, IF wait THEN "callwait" ELSE "run")
    /\ UNCHANGED <<tlbVars, call_for, owed, lock, at, back>>

\* Mutant of CallReturn: the function has been started
CallReturnEarly(c) ==
    /\ At(c, "callwait") /\ call_pending[at[c]] # 1
    /\ Goto(c, "run")
    /\ UNCHANGED <<tlbVars, ipi, callVars, lock, at, back>>

CallReturn(c) ==
    /\ At(c, "callwait") /\ call_pending[at[c]] = 0
    /\ Goto(c, "run")
    /\ UNCHANGED <<tlbVars, ipi, callVars, lock, at, back>>

-----------------------------------------------------------------------------
(* smp_handle_ipi, taken where interrupts are on.                          *)

Interrupt(c) ==
    /\ At(c, "run") /\ ipi[c]
    /\ ipi' = [ipi EXCEPT ![c] = FALSE]
    /\ Goto(c, "ipi")
    /\ UNCHANGED <<tlbVars, callVars, lock, at, back>>

IpiService(c) ==
    /\ At(c, "ipi")
    /\ Clear(c)
    /\ Goto(c, "look")
    /\ UNCHANGED <<again, stale, ipi, callVars, lock, at, back>>

Look(c) ==
    /\ At(c, "look")
    /\ call_pending' = IF call_pending[c] = 1 THEN [call_pending EXCEPT ![c] = 2]
                       ELSE call_pending
    /\ Goto(c, IF call_pending[c] = 1 THEN "fn" ELSE "run")
    /\ UNCHANGED <<tlbVars, ipi, call_for, owed, lock, at, back>>

RunFn(c) ==
    /\ At(c, "fn")
    /\ owed' = [owed EXCEPT ![c] = @ \ {call_for[c]}]
    /\ Goto(c, "ret")
    /\ UNCHANGED <<tlbVars, ipi, call_pending, call_for, lock, at, back>>

FnDone(c) ==
    /\ At(c, "ret")
    /\ call_pending' = [call_pending EXCEPT ![c] = 0]
    /\ Goto(c, "run")
    /\ UNCHANGED <<tlbVars, ipi, call_for, owed, lock, at, back>>

-----------------------------------------------------------------------------
\* What a CPU goes on with once it has begun
Work(c) ==
    \/ GoOnWaiting(c) \/ Service(c) \/ Flush(c) \/ Acquire(c) \/ Release(c)
    \/ Send(c) \/ Sent(c) \/ Answered(c) \/ Return(c)
    \/ Claim(c) \/ Post(c) \/ CallReturn(c)
    \/ IpiService(c) \/ Look(c) \/ RunFn(c) \/ FnDone(c)

Begin(c) == Spin(c) \/ Unmap(c) \/ StartCall(c)

Next == \E c \in Cpus : Work(c) \/ Begin(c) \/ Interrupt(c)

Spec == Init /\ [][Next]_vars

-----------------------------------------------------------------------------
(* What makes it correct.                                                  *)

\* The loops have not come to d yet
Unsent(c, d) == pc[c] = "send" /\ at[c] <= d
Unanswered(c, d) == pc[c] \in Asking /\ (pc[c] = "wait" => at[c] <= d)

\* Once smp_tlb_shootdown is past a CPU, that CPU can see the unmapped
\* memory only between clearing its flag and flushing, where it does nothing
\* else: no request that comes while it flushes is lost
StaleOnlyInService ==
    \A c, d \in Cpus : c \in stale[d] => Unanswered(c, d) \/ flushing[d]

\* wait: "Return only when the function has finished"
CallIsOver ==
    [][\A c \in Cpus : pc[c] = "callwait" /\ pc'[c] # "callwait" => c \notin owed[at[c]]]_vars

\* The slot of a CPU is its caller's from the claim to the end of the
\* function: the function that runs is the one that was asked for, once
CallIsMine ==
    \A d \in Cpus : pc[d] = "fn" =>
        /\ call_pending[d] = 2 /\ call_for[d] \in owed[d]
        /\ \A c \in Cpus : pc[c] = "post" => at[c] # d

\* A request that has been published is about to be seen
CallNotLost ==
    \A d \in Cpus : call_pending[d] = 1 => ipi[d] \/ pc[d] \in {"ipi", "look"}

\* The function smp_call asks for runs, once, on the CPU it is asked of
CallsSound == CallIsMine /\ CallNotLost

-----------------------------------------------------------------------------
(* Liveness.                                                               *)

\* A CPU goes on with what it does, and an interrupt that is pending is taken
\* if interrupts are on again and again.  Nothing is assumed of who gets a
\* lock, nor that a CPU that may begin something does
Fairness == \A c \in Cpus : WF_vars(Work(c)) /\ SF_vars(Interrupt(c))
FairSpec == Spec /\ Fairness

\* Nobody waits for ever for the others to flush, not even when they ask each
\* other or wait for a lock that it holds
ShootdownEnds == \A c \in Cpus : pc[c] \in Asking ~> pc[c] \notin Asking

=============================================================================
