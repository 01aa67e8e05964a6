------------------------------- MODULE Paging -------------------------------
(***************************************************************************)
(* Memory of processes with threads (mm/cow.c, vmm.c, swap.c, mmap.c, the  *)
(* anonymous half of region.c, kernel/ipc/shm.c, and the parts of          *)
(* process.c and isr.c that use them): frames shared copy-on-write after   *)
(* fork, pages on the swap disk, shared memory segments, what each thread  *)
(* may still have in its TLB, and the buffers a system call has checked    *)
(* and will use while holding locks, where it must not fault.              *)
(*                                                                         *)
(* A process has two pages: "heap" (promised by brk, given a frame when    *)
(* touched) and "shm" (where the one segment is attached).  A step is what *)
(* is done under vmm_lock, or under mem_lock with no sleep that lets the   *)
(* page tables change.  TLB entries matter, and are kept, for "heap".      *)
(*                                                                         *)
(* Bounds: PgCalls calls (brk, fork, swap, stores ...) in all.             *)
(***************************************************************************)
EXTENDS Naturals, FiniteSets

CONSTANTS PgThreads, PgProcs, PgProcOf, PgFrames, PgSlots, PgCalls

PgAssumption ==
    /\ PgThreads \subseteq Nat \ {0} /\ IsFiniteSet(PgThreads)
    /\ PgProcs \subseteq Nat \ {0} /\ IsFiniteSet(PgProcs) /\ PgProcs # {}
    /\ PgProcOf \in [PgThreads -> PgProcs]
    /\ PgFrames \subseteq Nat \ {0} /\ PgSlots \subseteq Nat \ {0}
    /\ PgCalls \in Nat

PgPages == {"heap", "shm"}
Absent == [k |-> "none", at |-> 0, w |-> FALSE]          \* no entry
In(f, w) == [k |-> "in", at |-> f, w |-> w]              \* present; not w: copy-on-write
Out(s, w) == [k |-> "out", at |-> s, w |-> w]            \* on the swap disk
NoTlb == [f |-> 0, w |-> FALSE]
NoJob == [at |-> "idle", frame |-> 0, slot |-> 0, todo |-> {}, child |-> 0]

VARIABLES
    tables,      \* process -> page -> entry
    owners,      \* frame -> owners (pmm_get_frame_ref; 0: free)
    bytes,       \* frame -> contents
    slotOwners,  \* slot -> entries that name it
    slotBytes,   \* slot -> contents on the swap disk
    heapOn,      \* process -> brk covers the page
    promised,    \* process -> promised_pages
    segment,     \* the segment's frame, or 0
    live,        \* processes that exist
    mapLock,     \* process -> thread holding map_mutex, or 0
    memLock,     \* process -> thread holding mem_lock over several steps, or 0
    swapLock,    \* the thread holding swap_mutex, or 0
    tlb,         \* thread -> the translation of "heap" its CPU may hold
    job,         \* thread -> what it is doing
    inCall,      \* thread -> "no", "checking" or "using" a buffer in "heap"
    pgCalls,     \* calls made
    holds        \* for the properties: process -> what its "heap" should hold

pgVars == <<tables, owners, bytes, slotOwners, slotBytes, heapOn, promised, segment, live,
            mapLock, memLock, swapLock, tlb, job, inCall, pgCalls, holds>>
frameVars == <<tables, owners, bytes>>
swapVars == <<slotOwners, slotBytes>>
lockVars == <<mapLock, memLock, swapLock>>
userVars == <<heapOn, promised, segment, live>>

First == CHOOSE p \in PgProcs : TRUE                  \* the process that forks

PgInit ==
    /\ tables = [p \in PgProcs |-> [v \in PgPages |-> Absent]]
    /\ owners = [f \in PgFrames |-> 0]
    /\ bytes = [f \in PgFrames |-> 0]
    /\ slotOwners = [s \in PgSlots |-> 0]
    /\ slotBytes = [s \in PgSlots |-> 0]
    /\ heapOn = [p \in PgProcs |-> FALSE]
    /\ promised = [p \in PgProcs |-> 0]
    /\ segment = 0
    /\ live = {First}
    /\ mapLock = [p \in PgProcs |-> 0]
    /\ memLock = [p \in PgProcs |-> 0]
    /\ swapLock = 0
    /\ tlb = [t \in PgThreads |-> NoTlb]
    /\ job = [t \in PgThreads |-> NoJob]
    /\ inCall = [t \in PgThreads |-> "no"]
    /\ pgCalls = 0
    /\ holds = [p \in PgProcs |-> 0]

-----------------------------------------------------------------------------

Space(t) == PgProcOf[t]
FreeNow == {f \in PgFrames : owners[f] = 0}
HasFrame == FreeNow # {}
NewFrame == CHOOSE f \in FreeNow : TRUE              \* pmm_alloc_frame

\* pmm_ref_frame, pmm_unref_frame (at 0 the frame is free), swap_slot_unref.
AddOwner(o, f) == [o EXCEPT ![f] = @ + 1]
DropOwner(o, f) == IF f = 0 THEN o ELSE [o EXCEPT ![f] = @ - 1]

\* What giving up entry e does to frames o and slots: free_table, and
\* user_unmap_range once the other CPUs have been told.
DropFrame(o, e) == IF e.k = "in" THEN DropOwner(o, e.at) ELSE o
DropSlot(o, e) == IF e.k = "out" THEN DropOwner(o, e.at) ELSE o

\* Mutant of process_tlb_sync: the other threads' CPUs are not told.
OnlyMine(t, all) == [tlb EXCEPT ![t] = NoTlb]

\* process_tlb_sync: no CPU running a thread of the process keeps an old
\* translation.
process_tlb_sync(t, all) == [u \in PgThreads |-> IF u \in all THEN NoTlb ELSE tlb[u]]
ThreadsOf(p) == {u \in PgThreads : Space(u) = p}


\* process_range_busy and process_keep_ranges: a call has checked "heap".
RangeBusy(p) == \E u \in ThreadsOf(p) : inCall[u] # "no"


\* vmm_handle_cow_fault: the last owner just takes the frame.
MayTake(f) == owners[f] = 1

Calling(t) == /\ job[t].at = "idle" /\ Space(t) \in live
              /\ pgCalls < PgCalls /\ pgCalls' = pgCalls + 1
Running(t) == /\ job[t].at = "idle" /\ Space(t) \in live /\ pgCalls' = pgCalls
Does(t, j) == job' = [job EXCEPT ![t] = j]

-----------------------------------------------------------------------------
(* Promises, faults and stores.                                            *)

\* brk up: set_brk_locked, which promises the page.
BrkUp(t) ==
    LET p == Space(t) IN
    /\ Calling(t) /\ inCall[t] = "no" /\ mapLock[p] = 0 /\ memLock[p] = 0 /\ ~heapOn[p]
    /\ heapOn' = [heapOn EXCEPT ![p] = TRUE]
    /\ promised' = [promised EXCEPT ![p] = @ + 1]
    /\ holds' = [holds EXCEPT ![p] = 0]
    /\ UNCHANGED <<frameVars, swapVars, segment, live, lockVars, tlb, job, inCall>>

\* brk down: refused while another thread's call uses the page; the promise of
\* an untouched page is withdrawn, a swapped page's slot is given back, and a
\* frame waits (under mem_lock) until the other CPUs have been told.
BrkDown(t) ==
    LET p == Space(t)
        e == tables[p]["heap"] IN
    /\ Calling(t) /\ inCall[t] = "no" /\ mapLock[p] = 0 /\ memLock[p] = 0
    /\ heapOn[p] /\ ~RangeBusy(p)
    /\ heapOn' = [heapOn EXCEPT ![p] = FALSE]
    /\ promised' = [promised EXCEPT ![p] = IF e.k = "none" /\ @ > 0 THEN @ - 1 ELSE @]
    /\ tables' = [tables EXCEPT ![p]["heap"] = Absent]
    /\ slotOwners' = DropSlot(slotOwners, e)
    /\ Does(t, IF e.k = "in" THEN [NoJob EXCEPT !.at = "freeing", !.frame = e.at] ELSE NoJob)
    /\ memLock' = IF e.k = "in" THEN [memLock EXCEPT ![p] = t] ELSE memLock
    /\ UNCHANGED <<owners, bytes, slotBytes, segment, live, mapLock, swapLock, tlb, inCall, holds>>

\* The end of user_unmap_range: every CPU told, then the frame given back.
FreeUnmapped(t) ==
    LET p == Space(t) IN
    /\ job[t].at = "freeing"
    /\ tlb' = process_tlb_sync(t, ThreadsOf(p))
    /\ owners' = DropOwner(owners, job[t].frame)
    /\ memLock' = [memLock EXCEPT ![p] = 0]
    /\ Does(t, NoJob)
    /\ UNCHANGED <<tables, bytes, swapVars, userVars, mapLock, swapLock, inCall, pgCalls, holds>>

\* region_fault on an untouched page: a zeroed frame (none free: the fault or
\* the call fails and is not modelled further).
TouchHeap(t) ==
    LET p == Space(t) IN
    /\ Running(t) /\ inCall[t] # "using" /\ memLock[p] = 0
    /\ heapOn[p] /\ tables[p]["heap"].k = "none" /\ HasFrame
    /\ owners' = AddOwner(owners, NewFrame)
    /\ bytes' = [bytes EXCEPT ![NewFrame] = 0]
    /\ tables' = [tables EXCEPT ![p]["heap"] = In(NewFrame, TRUE)]
    /\ promised' = [promised EXCEPT ![p] = IF @ > 0 THEN @ - 1 ELSE 0]   \* uncharge
    /\ UNCHANGED <<swapVars, heapOn, segment, live, lockVars, tlb, job, inCall, holds>>

\* A load or a store brings the translation into the CPU's TLB ...
Fill(t) ==
    LET e == tables[Space(t)]["heap"] IN
    /\ Running(t) /\ e.k = "in" /\ tlb[t] # [f |-> e.at, w |-> e.w]
    /\ tlb[t] = NoTlb \/ ~tlb[t].w                   \* (a fault drops the old one)
    /\ tlb' = [tlb EXCEPT ![t] = [f |-> e.at, w |-> e.w]]
    /\ UNCHANGED <<frameVars, swapVars, userVars, lockVars, job, inCall, holds>>

\* ... and a store, of the program or of a system call, goes through it.
StoreHeap(t) ==
    LET p == Space(t) IN
    /\ Calling(t) /\ tlb[t].w
    /\ bytes' = [bytes EXCEPT ![tlb[t].f] = pgCalls + 1]
    /\ holds' = [holds EXCEPT ![p] = pgCalls + 1]
    /\ UNCHANGED <<tables, owners, swapVars, userVars, lockVars, tlb, job, inCall>>

\* A store to a page that is present and copy-on-write: vmm_handle_cow_fault,
\* under vmm_lock alone.  The old frame is given back after the sync.
CowFault(t) ==
    LET p == Space(t)
        e == tables[p]["heap"] IN
    /\ Running(t) /\ inCall[t] # "using" /\ e.k = "in" /\ ~e.w
    /\ \/ /\ MayTake(e.at)
          /\ tables' = [tables EXCEPT ![p]["heap"] = In(e.at, TRUE)]
          /\ Does(t, [NoJob EXCEPT !.at = "copied"])
          /\ UNCHANGED <<owners, bytes>>
       \/ /\ ~MayTake(e.at) /\ HasFrame
          /\ tables' = [tables EXCEPT ![p]["heap"] = In(NewFrame, TRUE)]
          /\ owners' = AddOwner(owners, NewFrame)
          /\ bytes' = [bytes EXCEPT ![NewFrame] = bytes[e.at]]
          /\ Does(t, [NoJob EXCEPT !.at = "copied", !.frame = e.at])
    /\ UNCHANGED <<swapVars, userVars, lockVars, tlb, inCall, holds>>

CowDone(t) ==
    /\ job[t].at = "copied"
    /\ tlb' = process_tlb_sync(t, ThreadsOf(Space(t)))
    /\ owners' = DropOwner(owners, job[t].frame)
    /\ Does(t, NoJob)
    /\ UNCHANGED <<tables, bytes, swapVars, userVars, lockVars, inCall, pgCalls, holds>>

-----------------------------------------------------------------------------
(* System calls that use a buffer (process_populate, vmm_user_range_ok).   *)

CallBegin(t) ==
    /\ Calling(t) /\ inCall[t] = "no" /\ memLock[Space(t)] = 0
    /\ inCall' = [inCall EXCEPT ![t] = "checking"]
    /\ UNCHANGED <<frameVars, swapVars, userVars, lockVars, tlb, job, holds>>

\* The page is there and writable: from here the kernel uses it, perhaps
\* holding a lock.
CallChecked(t) ==
    LET e == tables[Space(t)]["heap"] IN
    /\ Running(t) /\ inCall[t] = "checking" /\ e.k = "in" /\ e.w
    /\ inCall' = [inCall EXCEPT ![t] = "using"]
    /\ UNCHANGED <<frameVars, swapVars, userVars, lockVars, tlb, job, holds>>

CallEnd(t) ==
    /\ Running(t) /\ inCall[t] # "no" /\ memLock[Space(t)] = 0
    /\ inCall' = [inCall EXCEPT ![t] = "no"]
    /\ UNCHANGED <<frameVars, swapVars, userVars, lockVars, tlb, job, holds>>

-----------------------------------------------------------------------------
(* Swap.                                                                   *)

\* slot_alloc: a slot no entry names.
FreeSlot(s) == slotOwners[s] = 0

\* vmm_swap_pick: only a page this address space has to itself (not one still
\* shared after a fork), and no buffer of a call in progress.
MayLeave(p, e) == e.k = "in" /\ owners[e.at] = 1 /\ ~RangeBusy(p)

\* give_up, swap_out_keeping: a free slot, and a page this process alone owns
\* that no call has checked; its entry now names the slot.
SwapOut(t, s) ==
    LET p == Space(t)
        e == tables[p]["heap"] IN
    /\ Calling(t) /\ memLock[p] = 0 /\ swapLock = 0 /\ FreeSlot(s) /\ MayLeave(p, e)
    /\ tables' = [tables EXCEPT ![p]["heap"] = Out(s, e.w)]
    /\ slotOwners' = AddOwner(slotOwners, s)
    /\ memLock' = [memLock EXCEPT ![p] = t]
    /\ swapLock' = t
    /\ Does(t, [NoJob EXCEPT !.at = "leaving", !.frame = e.at, !.slot = s])
    /\ UNCHANGED <<owners, bytes, slotBytes, userVars, mapLock, tlb, inCall, holds>>

\* Nobody writes the page any more; then it is written to the disk.
SwapSync(t) ==
    /\ job[t].at = "leaving"
    /\ tlb' = process_tlb_sync(t, ThreadsOf(Space(t)))
    /\ Does(t, [job[t] EXCEPT !.at = "saving"])
    /\ UNCHANGED <<frameVars, swapVars, userVars, lockVars, inCall, pgCalls, holds>>

\* The write fails: the page is put back as it was.
SwapSave(t, ok) ==
    LET p == Space(t)
        s == job[t].slot
        f == job[t].frame IN
    /\ job[t].at = "saving"
    /\ IF ok
       THEN /\ slotBytes' = [slotBytes EXCEPT ![s] = bytes[f]]
            /\ owners' = DropOwner(owners, f)
            /\ UNCHANGED <<tables, slotOwners>>
       ELSE /\ tables' = [tables EXCEPT ![p]["heap"] = In(f, @.w)]
            /\ slotOwners' = DropOwner(slotOwners, s)
            /\ UNCHANGED <<slotBytes, owners>>
    /\ memLock' = [memLock EXCEPT ![p] = 0]
    /\ swapLock' = 0
    /\ Does(t, NoJob)
    /\ UNCHANGED <<bytes, userVars, mapLock, tlb, inCall, pgCalls, holds>>

\* swap_in, under mem_lock and swap_mutex: a frame of its own (writable as it
\* was), and the slot has one owner less.
SwapIn(t) ==
    LET p == Space(t)
        e == tables[p]["heap"] IN
    /\ Running(t) /\ inCall[t] # "using" /\ memLock[p] = 0 /\ swapLock = 0
    /\ e.k = "out" /\ HasFrame
    /\ owners' = AddOwner(owners, NewFrame)
    /\ bytes' = [bytes EXCEPT ![NewFrame] = slotBytes[e.at]]
    /\ tables' = [tables EXCEPT ![p]["heap"] = In(NewFrame, e.w)]
    /\ slotOwners' = DropOwner(slotOwners, e.at)
    /\ UNCHANGED <<slotBytes, userVars, lockVars, tlb, job, inCall, holds>>

-----------------------------------------------------------------------------
(* fork and exit.                                                          *)

\* process_fork takes map_mutex and mem_lock.
ForkBegin(t) ==
    LET p == Space(t) IN
    /\ Calling(t) /\ inCall[t] = "no" /\ p = First /\ PgProcs # live
    /\ \A u \in PgThreads : job[u].at # "undoing"            \* (one child at a time: a bound)
    /\ mapLock[p] = 0 /\ memLock[p] = 0
    /\ mapLock' = [mapLock EXCEPT ![p] = t]
    /\ memLock' = [memLock EXCEPT ![p] = t]
    /\ Does(t, [NoJob EXCEPT !.at = "cloning", !.todo = PgPages,
                             !.child = CHOOSE q \in PgProcs : q \notin live])
    /\ UNCHANGED <<frameVars, swapVars, userVars, swapLock, tlb, inCall, holds>>

\* vmm_clone_user_space, one page under vmm_lock: a private writable page
\* becomes copy-on-write in both, shared memory stays as it is, a swapped page
\* shares its slot.
ClonePage(t, v) ==
    LET p == Space(t)
        c == job[t].child
        e == IF v = "heap" /\ tables[p][v].k = "in" THEN [tables[p][v] EXCEPT !.w = FALSE] ELSE tables[p][v] IN
    /\ job[t].at = "cloning" /\ v \in job[t].todo
    /\ tables' = [tables EXCEPT ![p][v] = e, ![c][v] = e]
    /\ owners' = IF e.k = "in" THEN AddOwner(owners, e.at) ELSE owners
    /\ slotOwners' = IF e.k = "out" THEN AddOwner(slotOwners, e.at) ELSE slotOwners
    /\ Does(t, [job[t] EXCEPT !.todo = @ \ {v}, !.at = IF job[t].todo = {v} THEN "cloned" ELSE "cloning"])
    /\ UNCHANGED <<bytes, slotBytes, userVars, lockVars, tlb, inCall, pgCalls, holds>>

\* The translations that still let the parent write go.
ForkSync(t) ==
    LET p == Space(t)
        c == job[t].child
        e == tables[c]["heap"] IN
    /\ job[t].at = "cloned"
    /\ tlb' = process_tlb_sync(t, ThreadsOf(p))
    /\ holds' = [holds EXCEPT ![c] = CASE e.k = "in" -> bytes[e.at]
                                       [] e.k = "out" -> slotBytes[e.at]
                                       [] OTHER -> 0]
    /\ Does(t, [job[t] EXCEPT !.at = "keeping"])
    /\ UNCHANGED <<frameVars, swapVars, userVars, lockVars, inCall, pgCalls>>

\* process_keep_private: a buffer in use gets its private copy again (with no
\* frame for it, the fork fails); then the fork may still be refused for lack
\* of the reserve.  Both locks are released before the child's space goes.
ForkKeep(t, enough) ==
    LET p == Space(t)
        e == tables[p]["heap"]
        keep == RangeBusy(p) /\ e.k = "in" /\ ~e.w
        copy == keep /\ ~MayTake(e.at)
        goes == enough /\ (copy => HasFrame) IN
    /\ job[t].at = "keeping"
    /\ tables' = CASE copy /\ HasFrame -> [tables EXCEPT ![p]["heap"] = In(NewFrame, TRUE)]
                   [] keep /\ ~copy -> [tables EXCEPT ![p]["heap"] = In(e.at, TRUE)]
                   [] OTHER -> tables
    /\ bytes' = IF copy /\ HasFrame THEN [bytes EXCEPT ![NewFrame] = bytes[e.at]] ELSE bytes
    /\ owners' = IF copy /\ HasFrame THEN DropOwner(AddOwner(owners, NewFrame), e.at) ELSE owners
    /\ tlb' = IF keep THEN process_tlb_sync(t, ThreadsOf(p)) ELSE tlb
    /\ Does(t, [job[t] EXCEPT !.at = IF goes THEN "charging" ELSE "undoing"])
    /\ mapLock' = IF goes THEN mapLock ELSE [mapLock EXCEPT ![p] = 0]
    /\ memLock' = [memLock EXCEPT ![p] = 0]
    /\ UNCHANGED <<swapVars, userVars, swapLock, inCall, pgCalls, holds>>

\* vmm_destroy_address_space of a child that is not to be.
ForkUndo(t) ==
    LET c == job[t].child IN
    /\ job[t].at = "undoing"
    /\ owners' = DropFrame(DropFrame(owners, tables[c]["heap"]), tables[c]["shm"])
    /\ slotOwners' = DropSlot(slotOwners, tables[c]["heap"])
    /\ tables' = [tables EXCEPT ![c] = [v \in PgPages |-> Absent]]
    /\ Does(t, NoJob)
    /\ UNCHANGED <<bytes, slotBytes, userVars, lockVars, tlb, inCall, pgCalls, holds>>

\* region_fork, with mem_lock already released: the same promises once more.
ForkCharge(t) ==
    LET p == Space(t)
        c == job[t].child IN
    /\ job[t].at = "charging"
    /\ heapOn' = [heapOn EXCEPT ![c] = heapOn[p]]
    /\ promised' = [promised EXCEPT ![c] = promised[p]]
    /\ live' = live \cup {c}
    /\ mapLock' = [mapLock EXCEPT ![p] = 0]
    /\ Does(t, NoJob)
    /\ UNCHANGED <<frameVars, swapVars, segment, memLock, swapLock, tlb, inCall, pgCalls, holds>>

\* exit (the last thread): vmm_destroy_address_space, region_release_all.
Exit(t) ==
    LET p == Space(t) IN
    /\ Calling(t) /\ p # First
    /\ \A u \in ThreadsOf(p) : job[u].at = "idle" /\ inCall[u] = "no"
    /\ owners' = DropFrame(DropFrame(owners, tables[p]["heap"]), tables[p]["shm"])
    /\ slotOwners' = DropSlot(slotOwners, tables[p]["heap"])
    /\ tables' = [tables EXCEPT ![p] = [v \in PgPages |-> Absent]]
    /\ tlb' = [u \in PgThreads |-> IF Space(u) = p THEN NoTlb ELSE tlb[u]]
    /\ heapOn' = [heapOn EXCEPT ![p] = FALSE]
    /\ promised' = [promised EXCEPT ![p] = 0]
    /\ live' = live \ {p}
    /\ UNCHANGED <<bytes, slotBytes, segment, lockVars, job, inCall, holds>>

-----------------------------------------------------------------------------
(* Shared memory segments.                                                 *)

\* shm_get: the segment is made with the table's reference.
ShmGet(t) ==
    /\ Calling(t) /\ inCall[t] = "no" /\ segment = 0 /\ HasFrame
    /\ owners' = AddOwner(owners, NewFrame)
    /\ bytes' = [bytes EXCEPT ![NewFrame] = 0]
    /\ segment' = NewFrame
    /\ UNCHANGED <<tables, swapVars, heapOn, promised, live, lockVars, tlb, job, inCall, holds>>


\* shm_attach: references of its own first, so that a removal does no harm ...
shm_take(o, f) == AddOwner(o, f)
ShmAttach(t) ==
    LET p == Space(t) IN
    /\ Calling(t) /\ inCall[t] = "no" /\ segment # 0
    /\ mapLock[p] = 0 /\ memLock[p] = 0 /\ tables[p]["shm"].k = "none"
    /\ owners' = shm_take(owners, segment)
    /\ mapLock' = [mapLock EXCEPT ![p] = t] /\ memLock' = [memLock EXCEPT ![p] = t]
    /\ Does(t, [NoJob EXCEPT !.at = "attaching", !.frame = segment])
    /\ UNCHANGED <<tables, bytes, swapVars, userVars, swapLock, tlb, inCall, holds>>

\* ... then the page is mapped, or (no page table) the reference given back.
ShmMap(t, ok) ==
    LET p == Space(t)
        f == job[t].frame IN
    /\ job[t].at = "attaching"
    /\ tables' = IF ok THEN [tables EXCEPT ![p]["shm"] = In(f, TRUE)] ELSE tables
    /\ owners' = IF ok THEN owners ELSE DropOwner(owners, f)
    /\ mapLock' = [mapLock EXCEPT ![p] = 0] /\ memLock' = [memLock EXCEPT ![p] = 0]
    /\ Does(t, NoJob)
    /\ UNCHANGED <<bytes, swapVars, userVars, swapLock, tlb, inCall, pgCalls, holds>>

\* shm_remove: the table's reference goes; mappings live on.
ShmRemove(t) ==
    /\ Calling(t) /\ inCall[t] = "no" /\ segment # 0
    /\ segment' = 0
    /\ owners' = DropOwner(owners, segment)
    /\ UNCHANGED <<tables, bytes, swapVars, heapOn, promised, live, lockVars, tlb, job, inCall, holds>>

-----------------------------------------------------------------------------

PgNext == \E t \in PgThreads :
    \/ BrkUp(t) \/ BrkDown(t) \/ FreeUnmapped(t) \/ TouchHeap(t)
    \/ Fill(t) \/ StoreHeap(t) \/ CowFault(t) \/ CowDone(t)
    \/ CallBegin(t) \/ CallChecked(t) \/ CallEnd(t)
    \/ \E s \in PgSlots : SwapOut(t, s)
    \/ SwapSync(t) \/ SwapIn(t)
    \/ \E ok \in BOOLEAN : SwapSave(t, ok) \/ ShmMap(t, ok) \/ ForkKeep(t, ok)
    \/ ForkBegin(t) \/ ForkSync(t) \/ ForkUndo(t) \/ ForkCharge(t) \/ Exit(t)
    \/ \E v \in PgPages : ClonePage(t, v)
    \/ ShmGet(t) \/ ShmAttach(t) \/ ShmRemove(t)

PgSpec == PgInit /\ [][PgNext]_pgVars

-----------------------------------------------------------------------------
(* Properties.                                                             *)

Maps(v, k, n) == Cardinality({p \in PgProcs : tables[p][v].k = k /\ tables[p][v].at = n})

\* Every frame has as many owners as page tables that map it, tables of
\* segments and steps in progress that hold it, and every swap slot as many as
\* entries name it: nothing is freed that somebody still reaches, nothing is
\* leaked by a failed fork, a failed swap or a raced copy.  A process has no
\* more promised pages than untouched ones.
FramesOwned ==
    /\ \A f \in PgFrames :
         owners[f] = Maps("heap", "in", f) + Maps("shm", "in", f) + (IF segment = f THEN 1 ELSE 0)
                     + Cardinality({t \in PgThreads : job[t].frame = f})
    /\ \A s \in PgSlots : slotOwners[s] = Maps("heap", "out", s) + Maps("shm", "out", s)
    /\ \A p \in PgProcs : promised[p] <= (IF heapOn[p] /\ tables[p]["heap"].k = "none" THEN 1 ELSE 0)

Leaving(p) == \E t \in ThreadsOf(p) : job[t].at \in {"leaving", "saving"}

\* What a process finds in its page is what it stored there last, or what its
\* parent's page held at the fork, through copies, swapping out and in, and
\* other processes' stores.
Isolated ==
    \A p \in live :
        LET e == tables[p]["heap"] IN
        /\ e.k = "in" => bytes[e.at] = holds[p]
        /\ e.k = "out" /\ ~Leaving(p) => slotBytes[e.at] = holds[p]

\* No CPU keeps a translation to a frame its process no longer owns.
TranslationsOwned ==
    \A t \in PgThreads : tlb[t].f # 0 =>
        \/ tables[Space(t)]["heap"].k = "in" /\ tables[Space(t)]["heap"].at = tlb[t].f
        \/ \E u \in ThreadsOf(Space(t)) : job[u].frame = tlb[t].f

\* A buffer a system call has checked stays where it is, writable, until the
\* call is over, whatever the process's other threads do (brk, swap, fork: the
\* kernel may touch it holding a lock, where a fault could not be served).
\* While a fork is copying the page tables or undoing that, a store to it may
\* fault, and the fault needs only a frame; after a failed fork, not even that.
BufferStays ==
    \A t \in PgThreads : inCall[t] = "using" =>
        LET e == tables[Space(t)]["heap"] IN
        /\ e.k = "in"
        /\ \/ e.w \/ MayTake(e.at)
           \/ \E u \in ThreadsOf(Space(t)) : job[u].at \in {"cloning", "cloned", "keeping", "undoing"}
=============================================================================
