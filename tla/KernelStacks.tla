---------------------------- MODULE KernelStacks ----------------------------
(***************************************************************************)
(* The kernel stacks of kstack.c: slots of a fixed region, each a guard    *)
(* page that is never mapped followed by the pages of one stack.  A slot   *)
(* is taken and given back under kstack_lock; its pages are mapped and     *)
(* unmapped outside it, one by one, by callers that run at the same time.  *)
(* Frames are few, so an allocation may fail half way and is undone.       *)
(***************************************************************************)
EXTENDS Naturals, FiniteSets

CONSTANTS
    KsCallers,   \* CPUs that create and free tasks
    KsSlots,     \* KSTACK_MAX_SLOTS
    KsPages,     \* KSTACK_PAGES
    KsFrames,    \* physical frames
    KsMax        \* bound: stacks a caller keeps

\* Frame 0 is never handed out: an entry of 0 is one that maps nothing.
KsAssumption ==
    /\ KsSlots \in Nat /\ KsPages \in Nat \ {0}
    /\ KsFrames \subseteq Nat \ {0} /\ KsMax \in Nat

VARIABLES
    slot_used,   \* the slots taken
    ktable,      \* the kernel's page table for the region: page -> frame, 0 for none
    kfree,       \* free frames
    kcall,       \* the call each caller is in
    kstacks      \* the stacks each caller has been given, by slot

ksVars == <<slot_used, ktable, kfree, kcall, kstacks>>

KSlots == 0 .. KsSlots - 1
RegionPages == 0 .. KsSlots * (KsPages + 1) - 1

\* slot_stack_base, in pages: the stack begins after the slot's guard page.
slot_stack_base(slot) == slot * (KsPages + 1) + 1
PagesOf(slot) == {slot_stack_base(slot) + p : p \in 0 .. KsPages - 1}

\* kstack_is_guard_page
kstack_is_guard_page(page) == page % (KsPages + 1) = 0

CallAt(at, slot) == [at |-> at, slot |-> slot, page |-> 0]
NoCall == CallAt("idle", 0)

\* The loops over a stack's pages: on to the next one, or out after the last.
NextPage(c) ==
    IF kcall[c].page = KsPages - 1 THEN NoCall ELSE [kcall[c] EXCEPT !.page = kcall[c].page + 1]

KsInit ==
    /\ slot_used = {}
    /\ ktable = [v \in RegionPages |-> 0]
    /\ kfree = KsFrames
    /\ kcall = [c \in KsCallers |-> NoCall]
    /\ kstacks = [c \in KsCallers |-> {}]

-----------------------------------------------------------------------------
\* The scan of slot_used from the start.
FirstOf(left) == CHOOSE s \in left : \A o \in left : s <= o

\* kstack_alloc takes the first free slot; without one it returns NULL.
alloc_slot(c) ==
    /\ kcall[c].at = "idle" /\ Cardinality(kstacks[c]) < KsMax
    /\ LET left == KSlots \ slot_used
       IN /\ left # {}
          /\ LET slot == FirstOf(left)
             IN /\ slot_used' = slot_used \cup {slot}
                /\ kcall' = [kcall EXCEPT ![c] = CallAt("map", slot)]
    /\ UNCHANGED <<ktable, kfree, kstacks>>

\* A page of it gets a frame; after the last the stack is the caller's.
map_stack_page(c) ==
    LET slot == kcall[c].slot
        last == kcall[c].page = KsPages - 1
    IN /\ kcall[c].at = "map"
       /\ \E f \in kfree :
             /\ kfree' = kfree \ {f}
             /\ ktable' = [ktable EXCEPT ![slot_stack_base(slot) + kcall[c].page] = f]
       /\ kcall' = [kcall EXCEPT ![c] = NextPage(c)]
       /\ kstacks' = [kstacks EXCEPT ![c] = IF last THEN @ \cup {slot} ELSE @]
       /\ UNCHANGED slot_used

\* No frame, or none for the page tables: the pages mapped so far are freed as a stack would be.
map_fails(c) ==
    /\ kcall[c].at = "map"
    /\ kcall' = [kcall EXCEPT ![c] = CallAt("unmap", kcall[c].slot)]
    /\ UNCHANGED <<slot_used, ktable, kfree, kstacks>>

\* kstack_free of a stack the caller has (task_free).
free_stack(c, slot) ==
    /\ kcall[c].at = "idle" /\ slot \in kstacks[c]
    /\ kstacks' = [kstacks EXCEPT ![c] = @ \ {slot}]
    /\ kcall' = [kcall EXCEPT ![c] = CallAt("unmap", slot)]
    /\ UNCHANGED <<slot_used, ktable, kfree>>

\* A stack made by one may be freed by another: the task has moved.
hand_over(c, d, slot) ==
    /\ c # d /\ kcall[c].at = "idle" /\ slot \in kstacks[c]
    /\ kstacks' = [kstacks EXCEPT ![c] = @ \ {slot}, ![d] = @ \cup {slot}]
    /\ UNCHANGED <<slot_used, ktable, kfree, kcall>>

\* Mutant of SlotAfter: the slot is given back before its pages are unmapped.
SlotBefore(c) == kcall[c].page = 0

\* When a slot is given back: with its last page.
SlotAfter(c) == kcall[c].page = KsPages - 1

\* A page that is mapped is unmapped and its frame freed; then the slot is given back.
unmap_stack_page(c) ==
    LET slot == kcall[c].slot
        page == slot_stack_base(slot) + kcall[c].page
    IN /\ kcall[c].at = "unmap"
       /\ kfree' = kfree \cup ({ktable[page]} \ {0})
       /\ ktable' = [ktable EXCEPT ![page] = 0]
       /\ slot_used' = IF SlotAfter(c) THEN slot_used \ {slot} ELSE slot_used
       /\ kcall' = [kcall EXCEPT ![c] = NextPage(c)]
       /\ UNCHANGED kstacks

KsNext ==
    \E c \in KsCallers :
        \/ alloc_slot(c) \/ map_stack_page(c) \/ map_fails(c) \/ unmap_stack_page(c)
        \/ \E slot \in kstacks[c] : free_stack(c, slot) \/ \E d \in KsCallers : hand_over(c, d, slot)

KsSpec == KsInit /\ [][KsNext]_ksVars

-----------------------------------------------------------------------------
(* Properties. *)

\* Whoever has been given a stack has all its pages, on frames nobody else has, until it is freed; a
\* guard page is never mapped; and no frame is lost by calls that failed or met.
StacksAreWhole ==
    /\ \A c \in KsCallers : \A slot \in kstacks[c] :
          /\ slot \in slot_used
          /\ \A page \in PagesOf(slot) : ktable[page] # 0
          /\ \A d \in KsCallers \ {c} : slot \notin kstacks[d]
    /\ \A v, w \in RegionPages : v # w /\ ktable[v] # 0 => ktable[v] # ktable[w] /\ ktable[v] \notin kfree
    /\ \A v \in RegionPages : kstack_is_guard_page(v) => ktable[v] = 0
    /\ \A f \in KsFrames : f \in kfree \/ \E v \in RegionPages : ktable[v] = f
    /\ (\A c \in KsCallers : kcall[c].at = "idle") =>
          \A v \in RegionPages : ktable[v] # 0 => \E c \in KsCallers : \E slot \in kstacks[c] : v \in PagesOf(slot)
=============================================================================
