---------------------------- MODULE MemoryProofs ----------------------------
(***************************************************************************)
(* Proofs about the kernel's memory, for every number of callers, slots,   *)
(* pages and frames: its stacks (KernelStacks), and the page cache         *)
(* (PageCache), for every number of threads, processes, frames and calls.  *)
(*                                                                         *)
(* The page cache's argument is in two halves.  The books (PcBooks): every *)
(* owner of a frame, every pin of the file and every fault under way is    *)
(* counted, so nobody but the cache and a write-back have the page it      *)
(* cleans, and the file is there for who uses it.  The values (PcValues):  *)
(* what the file, the page and the threads hold of each cell, for as long  *)
(* as no write-back or truncation races another change (CalmPage).         *)
(***************************************************************************)
EXTENDS KernelStacks, PageCache, Integers, TLAPS, WellFoundedInduction, FiniteSetTheorems

-----------------------------------------------------------------------------
(* Where the pages of the stacks lie.                                      *)

StackPage == 0 .. KsPages - 1
PageOf(slot, p) == slot_stack_base(slot) + p

\* Slots do not overlap, in any unit of m > 1 pages
LEMMA Apart ==
    ASSUME NEW m \in Nat, NEW s \in Nat, NEW t \in Nat, s < t
    PROVE  s * m + m <= t * m
<1>1. PICK k \in Nat : t = s + 1 + k
    <2>1. t - s - 1 \in Nat /\ t = s + 1 + (t - s - 1)
        OBVIOUS
    <2> QED BY <2>1
<1>2. t * m = s * m + m + k * m /\ k * m \in Nat /\ s * m \in Nat
    BY <1>1
<1> QED BY <1>2

\* A page of a slot's stack lies in the region
LEMMA InRegion ==
    ASSUME KsAssumption, NEW s \in KSlots, NEW p \in StackPage
    PROVE  PageOf(s, p) \in RegionPages
<1> DEFINE m == KsPages + 1
<1>1. m \in Nat /\ s \in Nat /\ KsSlots \in Nat /\ s < KsSlots /\ p \in Nat /\ p + 1 < m
    BY DEF KsAssumption, KSlots, StackPage
<1>2. s * m + m <= KsSlots * m
    BY <1>1, Apart
<1>3. s * m \in Nat /\ KsSlots * m \in Nat
    BY <1>1
<1> HIDE DEF m
<1>4. s * m + 1 + p \in 0 .. KsSlots * m - 1
    BY <1>1, <1>2, <1>3
<1> QED BY <1>4 DEF m, PageOf, slot_stack_base, RegionPages

\* and to that slot alone, at that place in it
LEMMA OneSlot ==
    ASSUME KsAssumption, NEW s \in KSlots, NEW t \in KSlots, NEW p \in StackPage, NEW q \in StackPage,
           PageOf(s, p) = PageOf(t, q)
    PROVE  s = t /\ p = q
<1> DEFINE m == KsPages + 1
<1>1. /\ m \in Nat /\ s \in Nat /\ t \in Nat /\ p \in Nat /\ q \in Nat
      /\ p + 1 < m /\ q + 1 < m
    BY DEF KsAssumption, KSlots, StackPage
<1>2. s * m \in Nat /\ t * m \in Nat /\ s * m + 1 + p = t * m + 1 + q
    BY <1>1 DEF PageOf, slot_stack_base
<1>3. s < t => s * m + m <= t * m
    BY <1>1, Apart
<1>4. t < s => t * m + m <= s * m
    BY <1>1, Apart
<1> HIDE DEF m
<1>5. ~(s < t) /\ ~(t < s)
    BY <1>1, <1>2, <1>3, <1>4
<1>6. s = t
    BY <1>1, <1>5
<1> QED BY <1>1, <1>2, <1>6

\* No page of a stack is a guard page
LEMMA Remainder ==
    ASSUME NEW m \in Nat, NEW s \in Nat, NEW p \in Nat, p + 1 < m
    PROVE  (s * m + 1 + p) % m = 1 + p
OBVIOUS

LEMMA NotAGuard ==
    ASSUME KsAssumption, NEW s \in KSlots, NEW p \in StackPage
    PROVE  ~kstack_is_guard_page(PageOf(s, p))
<1>1. KsPages + 1 \in Nat /\ s \in Nat /\ p \in Nat /\ p + 1 < KsPages + 1
    BY DEF KsAssumption, KSlots, StackPage
<1>2. (s * (KsPages + 1) + 1 + p) % (KsPages + 1) = 1 + p
    BY <1>1, Remainder
<1> QED BY <1>1, <1>2 DEF PageOf, slot_stack_base, kstack_is_guard_page

-----------------------------------------------------------------------------
(* The kernel's stacks.                                                    *)

KsCall == [at : {"idle", "map", "unmap"}, slot : Nat, page : StackPage]

KsTypeOK ==
    /\ slot_used \subseteq KSlots
    /\ ktable \in [RegionPages -> KsFrames \cup {0}]
    /\ kfree \subseteq KsFrames
    /\ kcall \in [KsCallers -> KsCall]
    /\ kstacks \in [KsCallers -> SUBSET KSlots]

Busy(c) == kcall[c].at # "idle"

\* A slot that is taken is one caller's stack or the business of one call
SlotsOwned ==
    /\ \A c \in KsCallers : kstacks[c] \subseteq slot_used
    /\ \A c, d \in KsCallers : c # d => kstacks[c] \cap kstacks[d] = {}
    /\ \A c \in KsCallers : Busy(c) => kcall[c].slot \in slot_used
    /\ \A c, d \in KsCallers : Busy(c) => kcall[c].slot \notin kstacks[d]
    /\ \A c, d \in KsCallers : Busy(c) /\ Busy(d) /\ c # d => kcall[c].slot # kcall[d].slot

\* Page p of the slot may be mapped: it is a stack's, or a call has got so far
MayBeMapped(slot, p) ==
    \E c \in KsCallers :
        \/ slot \in kstacks[c]
        \/ kcall[c].at = "map" /\ kcall[c].slot = slot /\ p < kcall[c].page
        \/ kcall[c].at = "unmap" /\ kcall[c].slot = slot /\ p >= kcall[c].page

\* What is mapped is a page of a stack that is there, being made or being freed
MappedIsOwned ==
    \A v \in RegionPages : ktable[v] # 0 =>
        \E slot \in slot_used, p \in StackPage : v = PageOf(slot, p) /\ MayBeMapped(slot, p)

\* and what a call has mapped stays so until the stack is complete
MappedSoFar ==
    /\ \A c \in KsCallers : \A slot \in kstacks[c], p \in StackPage : ktable[PageOf(slot, p)] # 0
    /\ \A c \in KsCallers, p \in StackPage :
          kcall[c].at = "map" /\ p < kcall[c].page => ktable[PageOf(kcall[c].slot, p)] # 0

\* Every frame is free or in one place
FramesKept ==
    /\ \A v, w \in RegionPages : v # w /\ ktable[v] # 0 => ktable[v] # ktable[w]
    /\ \A v \in RegionPages : ktable[v] \notin kfree
    /\ \A f \in KsFrames : f \in kfree \/ \E v \in RegionPages : ktable[v] = f

KsInv == KsTypeOK /\ SlotsOwned /\ MappedIsOwned /\ MappedSoFar /\ FramesKept

\* The least of the free slots is one of them
LEMMA FirstFree ==
    ASSUME KsAssumption, NEW left \in SUBSET KSlots, left # {}
    PROVE  FirstOf(left) \in left
<1> DEFINE R == {ss \in Nat \X Nat : ss[1] < ss[2]}
<1>1. IsWellFoundedOn(R, Nat)
    BY NatLessThanWellFounded, Zenon DEF OpToRel
<1>2. left \subseteq Nat
    BY DEF KSlots, KsAssumption
<1>3. PICK s \in left : \A o \in left : ~ (<<o, s>> \in R)
    <2> HIDE DEF R
    <2> QED BY <1>1, <1>2, WFMin
<1>4. ASSUME NEW o \in left PROVE s <= o
    <2>1. o \in Nat /\ s \in Nat /\ (o < s => <<o, s>> \in R)
        BY <1>2
    <2> QED BY <1>3, <2>1
<1> QED BY <1>4 DEF FirstOf

\* kstack_alloc takes a slot nobody has, none of whose pages is mapped
LEMMA KsAllocStep ==
    ASSUME KsAssumption, KsInv, NEW c \in KsCallers, alloc_slot(c)
    PROVE  KsInv'
<1> DEFINE left == KSlots \ slot_used
           slot == FirstOf(left)
<1>1. slot \in KSlots /\ slot \notin slot_used /\ slot \in Nat
    <2>1. left \in SUBSET KSlots /\ left # {}
        BY DEF alloc_slot
    <2>2. slot \in left
        BY <2>1, FirstFree
    <2> QED BY <2>2 DEF KSlots, KsAssumption
<1> HIDE DEF slot
<1>2. /\ slot_used' = slot_used \cup {slot}
      /\ kcall[c].at = "idle"
      /\ kcall' = [kcall EXCEPT ![c] = [at |-> "map", slot |-> slot, page |-> 0]]
      /\ ktable' = ktable /\ kfree' = kfree /\ kstacks' = kstacks
    BY DEF alloc_slot, CallAt, slot
<1>3. KsTypeOK'
    <2>1. 0 \in StackPage
        BY DEF StackPage, KsAssumption
    <2> QED BY <1>1, <1>2, <2>1 DEF KsInv, KsTypeOK, KsCall
<1>4. /\ kcall'[c] = [at |-> "map", slot |-> slot, page |-> 0]
      /\ \A d \in KsCallers \ {c} : kcall'[d] = kcall[d]
    BY <1>2 DEF KsInv, KsTypeOK
<1>5. SlotsOwned'
    BY <1>1, <1>2, <1>4 DEF KsInv, KsTypeOK, SlotsOwned, Busy
<1>6. MappedIsOwned'
    <2>1. ASSUME NEW s, NEW p, MayBeMapped(s, p) PROVE MayBeMapped(s, p)'
        BY <1>2, <1>4, <2>1 DEF MayBeMapped
    <2> QED BY <1>2, <2>1 DEF KsInv, MappedIsOwned, PageOf, slot_stack_base
<1>7. MappedSoFar'
    BY <1>2, <1>4 DEF KsInv, MappedSoFar, PageOf, slot_stack_base, StackPage
<1>8. FramesKept'
    BY <1>2 DEF KsInv, FramesKept
<1> QED BY <1>3, <1>5, <1>6, <1>7, <1>8 DEF KsInv

\* A page of the slot gets a frame: the last one makes the stack
LEMMA KsMapStep ==
    ASSUME KsAssumption, KsInv, NEW c \in KsCallers, map_stack_page(c)
    PROVE  KsInv'
<1>0. PICK slot, page : kcall[c].slot = slot /\ kcall[c].page = page
    OBVIOUS
<1> DEFINE ends == page = KsPages - 1
           v == PageOf(slot, page)
<1>1. PICK f \in kfree : kfree' = kfree \ {f} /\ ktable' = [ktable EXCEPT ![v] = f]
    BY <1>0 DEF map_stack_page, PageOf
<1>2. /\ kcall[c].at = "map" /\ slot_used' = slot_used
      /\ kcall' = [kcall EXCEPT ![c] = NextPage(c)]
      /\ kstacks' = [kstacks EXCEPT ![c] = IF ends THEN @ \cup {slot} ELSE @]
    BY <1>0 DEF map_stack_page
<1>3. /\ slot \in slot_used /\ slot \in KSlots /\ page \in StackPage /\ f \in KsFrames /\ f # 0
      /\ kcall[c] \in KsCall
    BY <1>0, <1>1, <1>2 DEF KsInv, KsTypeOK, SlotsOwned, Busy, KsCall, KsAssumption
<1>4. v \in RegionPages /\ ktable'[v] = f /\ \A w \in RegionPages \ {v} : ktable'[w] = ktable[w]
    BY <1>1, <1>3, InRegion DEF KsInv, KsTypeOK
<1>5. /\ \A d \in KsCallers \ {c} : kcall'[d] = kcall[d] /\ kstacks'[d] = kstacks[d]
      /\ ends => kcall'[c] = NoCall /\ kstacks'[c] = kstacks[c] \cup {slot}
      /\ ~ends => /\ kcall'[c].at = "map" /\ kcall'[c].slot = slot /\ kcall'[c].page = page + 1
                  /\ page + 1 \in StackPage /\ kcall'[c] \in KsCall
                  /\ kstacks'[c] = kstacks[c]
    BY <1>0, <1>2, <1>3 DEF KsInv, KsTypeOK, KsCall, StackPage, KsAssumption, NextPage
<1>6. NoCall \in KsCall
    BY DEF NoCall, CallAt, KsCall, StackPage, KsAssumption
<1>7. \A w \in RegionPages, s \in KSlots, p \in StackPage : v = PageOf(s, p) => s = slot /\ p = page
    BY <1>3, OneSlot
<1>8. ktable[v] = 0
    <2> SUFFICES ASSUME ktable[v] # 0 PROVE FALSE
        OBVIOUS
    <2>1. PICK s \in slot_used, p \in StackPage : v = PageOf(s, p) /\ MayBeMapped(s, p)
        BY <1>4 DEF KsInv, MappedIsOwned
    <2>2. MayBeMapped(slot, page)
        BY <1>4, <1>7, <2>1 DEF KsInv, KsTypeOK
    <2>3. ~(page < page)
        BY <1>3 DEF StackPage
    <2> QED BY <1>0, <1>2, <2>2, <2>3 DEF KsInv, SlotsOwned, MayBeMapped, Busy
<1> HIDE DEF v, ends
<1>9. KsTypeOK'
    <2>1. ktable' \in [RegionPages -> KsFrames \cup {0}] /\ kfree' \subseteq KsFrames
        BY <1>1, <1>3 DEF KsInv, KsTypeOK
    <2>2. kcall' \in [KsCallers -> KsCall]
        BY <1>2, <1>5, <1>6 DEF KsInv, KsTypeOK
    <2>3. kstacks' \in [KsCallers -> SUBSET KSlots]
        BY <1>2, <1>3 DEF KsInv, KsTypeOK
    <2> QED BY <1>2, <2>1, <2>2, <2>3 DEF KsInv, KsTypeOK
<1>10. NoCall.at = "idle"
    BY DEF NoCall, CallAt
<1>12. SlotsOwned'
    BY <1>2, <1>3, <1>5, <1>10, <1>0 DEF KsInv, KsTypeOK, SlotsOwned, Busy
<1>13. MappedIsOwned'
    <2>1. ASSUME NEW s, NEW p \in StackPage, MayBeMapped(s, p) PROVE MayBeMapped(s, p)'
        <3>1. PICK d \in KsCallers :
                 \/ s \in kstacks[d]
                 \/ kcall[d].at = "map" /\ kcall[d].slot = s /\ p < kcall[d].page
                 \/ kcall[d].at = "unmap" /\ kcall[d].slot = s /\ p >= kcall[d].page
            BY <2>1 DEF MayBeMapped
        <3>2. CASE d # c
            BY <1>5, <3>1, <3>2 DEF MayBeMapped
        <3>3. CASE d = c
            BY <1>2, <1>3, <1>5, <1>0, <3>1, <3>3 DEF MayBeMapped, StackPage
        <3> QED BY <3>2, <3>3
    <2>2. MayBeMapped(slot, page)'
        BY <1>3, <1>5 DEF MayBeMapped, StackPage, ends
    <2>3. ASSUME NEW w \in RegionPages, ktable'[w] # 0
          PROVE  \E s \in slot_used, p \in StackPage : w = PageOf(s, p) /\ MayBeMapped(s, p)'
        <3>1. CASE w = v
            BY <1>3, <2>2, <3>1 DEF v
        <3>2. CASE w # v
            BY <1>4, <2>1, <2>3, <3>2 DEF KsInv, MappedIsOwned
        <3> QED BY <3>1, <3>2
    <2> QED BY <1>2, <2>3 DEF MappedIsOwned, PageOf, slot_stack_base
<1>14. MappedSoFar'
    <2>1. ASSUME NEW s \in KSlots, NEW p \in StackPage, ktable[PageOf(s, p)] # 0
          PROVE  ktable'[PageOf(s, p)] # 0
        BY <1>3, <1>4, <2>1, InRegion
    <2>2. ASSUME NEW p \in StackPage, p < page PROVE ktable'[PageOf(slot, p)] # 0
        BY <1>2, <1>3, <1>0, <2>1, <2>2 DEF KsInv, MappedSoFar
    <2>3. ktable'[PageOf(slot, page)] # 0
        BY <1>3, <1>4 DEF v
    <2>4. ends => \A p \in StackPage : p < page \/ p = page
        BY <1>3 DEF ends, StackPage, KsAssumption
    <2>5. \A p \in StackPage : p < page + 1 => p < page \/ p = page
        BY <1>3 DEF StackPage
    <2>6. ASSUME NEW d \in KsCallers, NEW s \in kstacks'[d], NEW p \in StackPage
          PROVE  ktable'[PageOf(s, p)] # 0
        BY <1>3, <1>5, <2>1, <2>2, <2>3, <2>4 DEF KsInv, KsTypeOK, MappedSoFar
    <2>7. ASSUME NEW d \in KsCallers, NEW p \in StackPage, kcall'[d].at = "map", p < kcall'[d].page
          PROVE  ktable'[PageOf(kcall'[d].slot, p)] # 0
        <3>1. CASE d = c
            BY <1>5, <1>10, <2>2, <2>3, <2>5, <2>7, <3>1
        <3>2. CASE d # c
            <4>1. kcall[d].slot \in KSlots
                BY <1>5, <2>7, <3>2 DEF KsInv, KsTypeOK, SlotsOwned, Busy
            <4> QED BY <1>5, <2>1, <2>7, <3>2, <4>1 DEF KsInv, MappedSoFar
        <3> QED BY <3>1, <3>2
    <2> QED BY <2>6, <2>7 DEF MappedSoFar, PageOf, slot_stack_base
<1>15. FramesKept'
    <2>1. \A w \in RegionPages : ktable[w] # f
        BY <1>1 DEF KsInv, FramesKept
    <2>2. ASSUME NEW x \in RegionPages, NEW y \in RegionPages, x # y, ktable'[x] # 0
          PROVE  ktable'[x] # ktable'[y]
        BY <1>3, <1>4, <2>1, <2>2 DEF KsInv, FramesKept
    <2>3. ASSUME NEW x \in RegionPages PROVE ktable'[x] \notin kfree'
        BY <1>1, <1>4 DEF KsInv, FramesKept
    <2>4. ASSUME NEW g \in KsFrames PROVE g \in kfree' \/ \E x \in RegionPages : ktable'[x] = g
        <3>1. CASE g = f
            BY <1>4, <3>1
        <3>2. CASE g # f /\ g \in kfree
            BY <1>1, <3>2
        <3>3. CASE g \notin kfree
            <4>1. PICK x \in RegionPages : ktable[x] = g
                BY <3>3 DEF KsInv, FramesKept
            <4>2. x # v /\ ktable'[x] = g
                BY <1>4, <1>8, <4>1 DEF KsAssumption
            <4> QED BY <4>2
        <3> QED BY <3>1, <3>2, <3>3
    <2> QED BY <2>2, <2>3, <2>4 DEF FramesKept
<1> QED BY <1>9, <1>12, <1>13, <1>14, <1>15 DEF KsInv

\* A stack is freed, or one half made is: the call has it from there
LEMMA KsGiveUpStep ==
    ASSUME KsAssumption, KsInv, NEW c \in KsCallers, NEW slot,
           \/ map_fails(c) /\ slot = kcall[c].slot
           \/ free_stack(c, slot)
    PROVE  KsInv'
<1>1. /\ slot_used' = slot_used /\ ktable' = ktable /\ kfree' = kfree
      /\ kcall' = [kcall EXCEPT ![c] = [at |-> "unmap", slot |-> slot, page |-> 0]]
      /\ kstacks' = [kstacks EXCEPT ![c] = @ \ {slot}]
    <2>1. CASE map_fails(c) /\ slot = kcall[c].slot
        <3>1. kstacks' = kstacks /\ slot \notin kstacks[c]
            BY <2>1 DEF map_fails, KsInv, SlotsOwned, Busy
        <3>2. [kstacks EXCEPT ![c] = @ \ {slot}] = kstacks
            BY <3>1 DEF KsInv, KsTypeOK
        <3> QED BY <2>1, <3>1, <3>2 DEF map_fails, CallAt
    <2>2. CASE free_stack(c, slot)
        BY <2>2 DEF free_stack, CallAt
    <2> QED BY <2>1, <2>2
<1>2. /\ slot \in slot_used /\ slot \in KSlots /\ slot \in Nat
      /\ \A d \in KsCallers : d # c => slot \notin kstacks[d] /\ (Busy(d) => kcall[d].slot # slot)
      /\ (kcall[c].at = "map" /\ kcall[c].slot = slot) \/ (slot \in kstacks[c] /\ kcall[c].at = "idle")
    <2>1. (kcall[c].at = "map" /\ kcall[c].slot = slot) \/ (slot \in kstacks[c] /\ kcall[c].at = "idle")
        BY DEF map_fails, free_stack
    <2>2. slot \in slot_used
        BY <2>1 DEF KsInv, SlotsOwned, Busy
    <2>3. slot \in KSlots /\ slot \in Nat
        BY <2>2 DEF KsInv, KsTypeOK, KSlots, KsAssumption
    <2>4. ASSUME NEW d \in KsCallers, d # c
          PROVE  slot \notin kstacks[d] /\ (Busy(d) => kcall[d].slot # slot)
        BY <2>1, <2>4 DEF KsInv, SlotsOwned, Busy
    <2> QED BY <2>1, <2>2, <2>3, <2>4
<1>3. /\ kcall'[c] = [at |-> "unmap", slot |-> slot, page |-> 0]
      /\ kstacks'[c] = kstacks[c] \ {slot}
      /\ \A d \in KsCallers \ {c} : kcall'[d] = kcall[d] /\ kstacks'[d] = kstacks[d]
    BY <1>1 DEF KsInv, KsTypeOK
<1>4. KsTypeOK'
    <2>1. 0 \in StackPage
        BY DEF StackPage, KsAssumption
    <2> QED BY <1>1, <1>2, <2>1 DEF KsInv, KsTypeOK, KsCall
<1>5. SlotsOwned'
    BY <1>1, <1>2, <1>3 DEF KsInv, KsTypeOK, SlotsOwned, Busy
<1>6. MappedIsOwned'
    <2>1. ASSUME NEW s, NEW p \in StackPage, MayBeMapped(s, p) PROVE MayBeMapped(s, p)'
        <3>1. PICK d \in KsCallers :
                 \/ s \in kstacks[d]
                 \/ kcall[d].at = "map" /\ kcall[d].slot = s /\ p < kcall[d].page
                 \/ kcall[d].at = "unmap" /\ kcall[d].slot = s /\ p >= kcall[d].page
            BY <2>1 DEF MayBeMapped
        <3>2. CASE d # c
            BY <1>3, <3>1, <3>2 DEF MayBeMapped
        <3>3. CASE d = c
            BY <1>2, <1>3, <3>1, <3>3 DEF MayBeMapped, StackPage
        <3> QED BY <3>2, <3>3
    <2> QED BY <1>1, <2>1 DEF KsInv, MappedIsOwned, PageOf, slot_stack_base
<1>7. MappedSoFar'
    <2>1. ASSUME NEW d \in KsCallers, NEW s \in kstacks'[d], NEW p \in StackPage
          PROVE  ktable'[PageOf(s, p)] # 0
        BY <1>1, <1>3 DEF KsInv, MappedSoFar
    <2>2. ASSUME NEW d \in KsCallers, NEW p \in StackPage, kcall'[d].at = "map", p < kcall'[d].page
          PROVE  ktable'[PageOf(kcall'[d].slot, p)] # 0
        BY <1>1, <1>3, <2>2 DEF KsInv, MappedSoFar
    <2> QED BY <2>1, <2>2 DEF MappedSoFar, PageOf, slot_stack_base
<1>8. FramesKept'
    BY <1>1 DEF KsInv, FramesKept
<1> QED BY <1>4, <1>5, <1>6, <1>7, <1>8 DEF KsInv

\* A stack goes to another CPU with its task
LEMMA KsHandOverStep ==
    ASSUME KsAssumption, KsInv, NEW c \in KsCallers, NEW d \in KsCallers, NEW slot,
           hand_over(c, d, slot)
    PROVE  KsInv'
<1>1. /\ c # d /\ slot \in kstacks[c] /\ slot \in KSlots
      /\ slot_used' = slot_used /\ ktable' = ktable /\ kfree' = kfree /\ kcall' = kcall
      /\ kstacks' \in [KsCallers -> SUBSET KSlots]
      /\ kstacks'[c] = kstacks[c] \ {slot} /\ kstacks'[d] = kstacks[d] \cup {slot}
      /\ \A e \in KsCallers \ {c, d} : kstacks'[e] = kstacks[e]
    BY DEF hand_over, KsInv, KsTypeOK
<1>2. KsTypeOK'
    BY <1>1 DEF KsInv, KsTypeOK
<1>3. SlotsOwned'
    BY <1>1 DEF KsInv, KsTypeOK, SlotsOwned, Busy
<1>4. MappedIsOwned'
    <2>1. ASSUME NEW s, NEW p \in StackPage, MayBeMapped(s, p) PROVE MayBeMapped(s, p)'
        BY <1>1, <2>1 DEF MayBeMapped
    <2> QED BY <1>1, <2>1 DEF KsInv, MappedIsOwned, PageOf, slot_stack_base
<1>5. MappedSoFar'
    <2>1. ASSUME NEW e \in KsCallers, NEW s \in kstacks'[e], NEW p \in StackPage
          PROVE  ktable'[PageOf(s, p)] # 0
        BY <1>1 DEF KsInv, MappedSoFar
    <2> QED BY <1>1, <2>1 DEF KsInv, MappedSoFar, PageOf, slot_stack_base
<1>6. FramesKept'
    BY <1>1 DEF KsInv, FramesKept
<1> QED BY <1>2, <1>3, <1>4, <1>5, <1>6 DEF KsInv

\* A page is unmapped; with the last one the slot is given back
LEMMA KsUnmapStep ==
    ASSUME KsAssumption, KsInv, NEW c \in KsCallers, unmap_stack_page(c)
    PROVE  KsInv'
<1>1. PICK slot, page : kcall[c].slot = slot /\ kcall[c].page = page
    OBVIOUS
<1> DEFINE ends == page = KsPages - 1
           v == PageOf(slot, page)
<1>2. PICK f : f = ktable[v]
    OBVIOUS
<1>3. /\ kcall[c].at = "unmap" /\ kstacks' = kstacks
      /\ kfree' = kfree \cup ({f} \ {0}) /\ ktable' = [ktable EXCEPT ![v] = 0]
      /\ slot_used' = IF ends THEN slot_used \ {slot} ELSE slot_used
      /\ kcall' = [kcall EXCEPT ![c] = NextPage(c)]
    BY <1>1, <1>2 DEF unmap_stack_page, SlotAfter, PageOf
<1>4. /\ slot \in slot_used /\ slot \in KSlots /\ page \in StackPage /\ kcall[c] \in KsCall
      /\ \A d \in KsCallers : slot \notin kstacks[d]
      /\ \A d \in KsCallers \ {c} : Busy(d) => kcall[d].slot # slot
    BY <1>1, <1>3 DEF KsInv, KsTypeOK, SlotsOwned, Busy, KsCall
<1>5. v \in RegionPages /\ ktable'[v] = 0 /\ \A w \in RegionPages \ {v} : ktable'[w] = ktable[w]
    BY <1>3, <1>4, InRegion DEF KsInv, KsTypeOK
<1>6. f \in KsFrames \cup {0}
    BY <1>2, <1>5 DEF KsInv, KsTypeOK
<1>7. /\ \A d \in KsCallers \ {c} : kcall'[d] = kcall[d]
      /\ ends => kcall'[c] = NoCall
      /\ ~ends => /\ kcall'[c].at = "unmap" /\ kcall'[c].slot = slot /\ kcall'[c].page = page + 1
                  /\ page + 1 \in StackPage /\ kcall'[c] \in KsCall
    <2>1. /\ kcall'[c] = NextPage(c)
          /\ \A d \in KsCallers \ {c} : kcall'[d] = kcall[d]
        BY <1>3 DEF KsInv, KsTypeOK
    <2>2. page + 1 # KsPages => page + 1 \in StackPage
        BY <1>4 DEF StackPage, KsAssumption
    <2>3. ends => NextPage(c) = NoCall
        BY <1>1 DEF NextPage
    <2>4. ~ends => /\ page + 1 \in StackPage
                   /\ NextPage(c) = [at |-> "unmap", slot |-> slot, page |-> page + 1]
        BY <1>1, <1>3, <1>4, <2>2 DEF NextPage, KsCall, StackPage, KsAssumption
    <2>5. ~ends => NextPage(c) \in KsCall
        BY <1>1, <1>4, <2>4 DEF KsCall
    <2> QED BY <2>1, <2>3, <2>4, <2>5
<1>8. NoCall \in KsCall /\ NoCall.at = "idle"
    BY DEF NoCall, CallAt, KsCall, StackPage, KsAssumption
<1>9. \A s \in KSlots, p \in StackPage : v = PageOf(s, p) => s = slot /\ p = page
    BY <1>4, OneSlot
<1> HIDE DEF v, ends
<1>10. KsTypeOK'
    <2>1. kcall' \in [KsCallers -> KsCall]
        BY <1>3, <1>7, <1>8 DEF KsInv, KsTypeOK
    <2>2. ktable' \in [RegionPages -> KsFrames \cup {0}] /\ kfree' \subseteq KsFrames
        BY <1>3, <1>6 DEF KsInv, KsTypeOK
    <2> QED BY <1>3, <2>1, <2>2 DEF KsInv, KsTypeOK
<1>11. SlotsOwned'
    BY <1>1, <1>3, <1>4, <1>7, <1>8 DEF KsInv, KsTypeOK, SlotsOwned, Busy
<1>12. MappedIsOwned'
    <2>1. ASSUME NEW w \in RegionPages, ktable'[w] # 0
          PROVE  \E s \in slot_used', p \in StackPage : w = PageOf(s, p) /\ MayBeMapped(s, p)'
        <3>1. w # v /\ ktable[w] # 0
            BY <1>5, <2>1
        <3>2. PICK s \in slot_used, p \in StackPage : w = PageOf(s, p) /\ MayBeMapped(s, p)
            BY <3>1 DEF KsInv, MappedIsOwned
        <3>3. s = slot => p # page
            BY <3>1, <3>2 DEF v
        <3>4. PICK d \in KsCallers :
                 \/ s \in kstacks[d]
                 \/ kcall[d].at = "map" /\ kcall[d].slot = s /\ p < kcall[d].page
                 \/ kcall[d].at = "unmap" /\ kcall[d].slot = s /\ p >= kcall[d].page
            BY <3>2 DEF MayBeMapped
        <3>5. CASE s # slot
            <4>1. s \in slot_used'
                BY <1>3, <3>5
            <4>2. MayBeMapped(s, p)'
                BY <1>1, <1>3, <1>7, <3>4, <3>5 DEF MayBeMapped
            <4> QED BY <3>2, <4>1, <4>2
        <3>6. CASE s = slot
            <4>1. d = c /\ p >= page
                BY <1>1, <1>3, <1>4, <3>4, <3>6 DEF Busy
            <4>2. ~ends /\ p >= page + 1
                BY <1>4, <3>3, <3>6, <4>1 DEF ends, StackPage, KsAssumption
            <4>3. s \in slot_used' /\ MayBeMapped(s, p)'
                BY <1>3, <1>7, <3>6, <4>2 DEF MayBeMapped
            <4> QED BY <3>2, <4>3
        <3> QED BY <3>5, <3>6
    <2> QED BY <2>1 DEF MappedIsOwned, PageOf, slot_stack_base
<1>13. MappedSoFar'
    <2>1. ASSUME NEW s \in KSlots, s # slot, NEW p \in StackPage, ktable[PageOf(s, p)] # 0
          PROVE  ktable'[PageOf(s, p)] # 0
        BY <1>5, <1>9, <2>1, InRegion
    <2>2. ASSUME NEW d \in KsCallers, NEW s \in kstacks'[d], NEW p \in StackPage
          PROVE  ktable'[PageOf(s, p)] # 0
        BY <1>3, <1>4, <2>1 DEF KsInv, KsTypeOK, MappedSoFar
    <2>3. ASSUME NEW d \in KsCallers, NEW p \in StackPage, kcall'[d].at = "map", p < kcall'[d].page
          PROVE  ktable'[PageOf(kcall'[d].slot, p)] # 0
        <3>1. d # c /\ kcall'[d] = kcall[d]
            BY <1>7, <1>8, <2>3
        <3>2. kcall[d].slot # slot /\ kcall[d].slot \in KSlots
            BY <1>4, <2>3, <3>1 DEF KsInv, KsTypeOK, SlotsOwned, Busy
        <3> QED BY <2>1, <2>3, <3>1, <3>2 DEF KsInv, MappedSoFar
    <2> QED BY <2>2, <2>3 DEF MappedSoFar, PageOf, slot_stack_base
<1>14. FramesKept'
    <2>1. ASSUME NEW x \in RegionPages, NEW y \in RegionPages, x # y, ktable'[x] # 0
          PROVE  ktable'[x] # ktable'[y]
        BY <1>5, <2>1 DEF KsInv, FramesKept
    <2>2. ASSUME NEW x \in RegionPages PROVE ktable'[x] \notin kfree'
        <3>1. CASE x = v
            BY <1>3, <1>5, <3>1 DEF KsInv, KsTypeOK, KsAssumption
        <3>2. CASE x # v
            <4>1. ktable'[x] = ktable[x] /\ ktable[x] \notin kfree
                BY <1>5, <3>2 DEF KsInv, FramesKept
            <4>2. f # 0 => ktable[x] # f
                BY <1>2, <1>5, <3>2 DEF KsInv, FramesKept
            <4> QED BY <1>3, <4>1, <4>2
        <3> QED BY <3>1, <3>2
    <2>3. ASSUME NEW g \in KsFrames PROVE g \in kfree' \/ \E x \in RegionPages : ktable'[x] = g
        <3>1. CASE g \in kfree \/ g = f
            BY <1>3, <3>1 DEF KsAssumption
        <3>2. CASE g \notin kfree /\ g # f
            <4>1. PICK x \in RegionPages : ktable[x] = g
                BY <3>2 DEF KsInv, FramesKept
            <4>2. ktable'[x] = g
                BY <1>2, <1>5, <3>2, <4>1
            <4> QED BY <4>2
        <3> QED BY <3>1, <3>2
    <2> QED BY <2>1, <2>2, <2>3 DEF FramesKept
<1> QED BY <1>10, <1>11, <1>12, <1>13, <1>14 DEF KsInv

\* However callers meet, and wherever an allocation fails: whoever has been
\* given a kernel stack has all its pages, on frames of its own, guard pages
\* stay unmapped and no frame is lost (kstack_alloc, kstack_free)
THEOREM KernelStacksAreWhole ==
    ASSUME KsAssumption
    PROVE  KsSpec => []StacksAreWhole
<1>1. KsInit => KsInv
    <2> SUFFICES ASSUME KsInit PROVE KsInv
        OBVIOUS
    <2>1. NoCall \in KsCall /\ NoCall.at = "idle"
        BY DEF NoCall, CallAt, KsCall, StackPage, KsAssumption
    <2>2. \A c \in KsCallers : ~Busy(c) /\ kstacks[c] = {} /\ kcall[c].at = "idle"
        BY <2>1 DEF KsInit, Busy
    <2>3. KsTypeOK
        BY <2>1 DEF KsInit, KsTypeOK
    <2>4. SlotsOwned /\ MappedSoFar
        BY <2>2 DEF SlotsOwned, MappedSoFar
    <2>5. MappedIsOwned /\ FramesKept
        BY DEF KsInit, MappedIsOwned, FramesKept, KsAssumption
    <2> QED BY <2>3, <2>4, <2>5 DEF KsInv
<1>2. KsInv /\ [KsNext]_ksVars => KsInv'
    <2> SUFFICES ASSUME KsInv, [KsNext]_ksVars PROVE KsInv'
        OBVIOUS
    <2>1. CASE UNCHANGED ksVars
        BY <2>1 DEF ksVars, KsInv, KsTypeOK, SlotsOwned, MappedIsOwned, MappedSoFar, FramesKept,
                    MayBeMapped, Busy, PageOf, slot_stack_base
    <2>2. CASE KsNext
        <3>1. PICK c \in KsCallers :
                 \/ alloc_slot(c) \/ map_stack_page(c) \/ map_fails(c) \/ unmap_stack_page(c)
                 \/ \E slot \in kstacks[c] : free_stack(c, slot) \/ \E d \in KsCallers : hand_over(c, d, slot)
            BY <2>2 DEF KsNext
        <3> QED BY <3>1, KsAllocStep, KsMapStep, KsGiveUpStep, KsHandOverStep, KsUnmapStep
    <2> QED BY <2>1, <2>2
<1>3. KsInv => StacksAreWhole
    <2> SUFFICES ASSUME KsInv PROVE StacksAreWhole
        OBVIOUS
    <2>1. ASSUME NEW c \in KsCallers, NEW slot \in kstacks[c]
          PROVE  /\ slot \in slot_used
                 /\ \A page \in PagesOf(slot) : ktable[page] # 0
                 /\ \A d \in KsCallers \ {c} : slot \notin kstacks[d]
        BY DEF KsInv, SlotsOwned, MappedSoFar, PagesOf, PageOf, StackPage
    <2>2. ASSUME NEW x \in RegionPages, kstack_is_guard_page(x) PROVE ktable[x] = 0
        BY <2>2, NotAGuard DEF KsInv, KsTypeOK, MappedIsOwned
    <2>3. ASSUME \A c \in KsCallers : kcall[c].at = "idle", NEW x \in RegionPages, ktable[x] # 0
          PROVE  \E c \in KsCallers : \E slot \in kstacks[c] : x \in PagesOf(slot)
        BY <2>3 DEF KsInv, MappedIsOwned, MayBeMapped, PagesOf, PageOf, StackPage
    <2> QED BY <2>1, <2>2, <2>3 DEF StacksAreWhole, KsInv, FramesKept
<1> QED BY <1>1, <1>2, <1>3, PTL DEF KsSpec

-----------------------------------------------------------------------------
(* The page cache.                                                         *)

Backing == {"collect", "measure", "save", "saved", "clean", "done"}
PcPlaces == {"idle"} \cup Faulting \cup {"wait"} \cup Backing \cup {"written", "cut"}

PcThread ==
    [at : PcPlaces, frame : PcFrames \cup {0}, gen : Nat, tries : Nat,
     kind : {"none", "private", "shared", "sync"}, len : Nat, ok : BOOLEAN,
     cell : Cells \cup {PageEnd}, val : Nat, older : SUBSET Nat]

PcFile == [size : Nat, data : [Cells -> Nat], gen : Nat, pins : Nat, removed : BOOLEAN]
PcEntry == [frame : PcFrames \cup {0}, shared : BOOLEAN, dirty : BOOLEAN]

PcTypeOK ==
    /\ pcFile \in PcFile
    /\ entry \in PcEntry
    /\ mem \in [PcFrames -> [Cells -> Nat]]
    /\ ref \in [PcFrames -> Nat]
    /\ region \in [PcProcs -> {"none", "private", "shared"}]
    /\ pte \in [PcProcs -> PcFrames \cup {0}]
    /\ users \in [PcProcs -> Nat]
    /\ mapper \in [PcProcs -> PcThreads \cup {0}]
    /\ seen \in [PcProcs -> Nat]
    /\ truncs \in Nat
    /\ th \in [PcThreads -> PcThread]
    /\ calls \in Nat
    /\ last \in [Cells -> SUBSET Nat]
    /\ raced \in BOOLEAN

\* Who has what: the page tables that map a frame and the threads that have it
\* in hand, the processes that map the file, the threads that let it go, and
\* the faults of a process
MappedBy(f) == {p \in PcProcs : pte[p] = f}
Holding(f) == {t \in PcThreads : th[t].frame = f}
Mapping == {p \in PcProcs : region[p] # "none"}
LetsGo(r) == r.at = "wait" \/ (r.at \in Backing /\ r.kind = "shared")
LettingGo == {t \in PcThreads : LetsGo(th[t])}
FaultsOf(p) == {t \in PcThreads : PcProcOf[t] = p /\ th[t].at \in Faulting}

\* Every owner of a frame is counted
RefsCounted == \A f \in PcFrames : ref[f] = Owners(f)

\* What a thread has in hand where it is; a page being read is its reader's
\* alone
FramesInHand ==
    /\ entry.frame = 0 => entry = NoEntry
    /\ entry.dirty => entry.shared
    /\ \A p \in PcProcs : region[p] = "none" => pte[p] = 0
    /\ \A t \in PcThreads :
         /\ th[t].at \in {"idle", "find", "wait", "collect", "done", "written", "cut"} => th[t].frame = 0
         /\ th[t].at \in {"read", "insert"} \cup Saving => th[t].frame # 0
         /\ th[t].at \in {"read", "insert"} =>
              /\ entry.frame # th[t].frame
              /\ \A p \in PcProcs : pte[p] # th[t].frame
              /\ \A u \in PcThreads : u # t => th[u].frame # th[t].frame

\* A cached page that is, or is about to be, mapped to be written is known to be
SharedIsDirty ==
    entry.frame # 0 =>
      /\ \A p \in PcProcs : region[p] = "shared" /\ pte[p] = entry.frame => entry.shared /\ entry.dirty
      /\ \A t \in PcThreads : th[t].at = "install" /\ th[t].kind = "shared" /\ th[t].frame = entry.frame
            => entry.shared /\ entry.dirty

\* Who holds map_mutex, and what is mapped meanwhile
MapperHolds ==
    \A t \in PcThreads : th[t].at \in Backing \cup {"wait"} =>
       /\ mapper[PcProcOf[t]] = t
       /\ th[t].at = "wait" \/ th[t].kind = "shared" => region[PcProcOf[t]] = "none"
       /\ th[t].at \in Backing => th[t].kind \in {"shared", "sync"}
       /\ th[t].kind = "sync" => region[PcProcOf[t]] = "shared"
       /\ th[t].at = "wait" => th[t].kind # "sync"

\* Who pins the file: its mappings, and who has just given one up
PinsCounted ==
    /\ pcFile.pins = Cardinality(Mapping) + Cardinality(LettingGo)
    /\ pcFile.removed => pcFile.pins = 0

\* Who uses the file in a fault: the mapping is there or its end waits for it
UsersCounted ==
    /\ \A p \in PcProcs : users[p] = Cardinality(FaultsOf(p))
    /\ \A t \in PcThreads : th[t].at \in Faulting =>
         /\ th[t].kind \in {"private", "shared"}
         /\ \/ region[PcProcOf[t]] = th[t].kind
            \/ \E u \in PcThreads : PcProcOf[u] = PcProcOf[t] /\ th[u].at = "wait"

\* Nobody has seen a generation that is still to come
GenSeen == \A t \in PcThreads : th[t].gen <= pcFile.gen

PcBooks == /\ PcTypeOK /\ RefsCounted /\ FramesInHand /\ SharedIsDirty /\ MapperHolds /\ PinsCounted
           /\ UsersCounted /\ GenSeen

One(b) == IF b THEN 1 ELSE 0

\* Two sets that differ in one member at most
LEMMA CountChange ==
    ASSUME NEW S, IsFiniteSet(S), NEW A \in SUBSET S, NEW B \in SUBSET S, NEW x, A \ {x} = B \ {x}
    PROVE  /\ Cardinality(A) \in Nat /\ Cardinality(B) \in Nat
           /\ Cardinality(B) + One(x \in A) = Cardinality(A) + One(x \in B)
<1>1. IsFiniteSet(A) /\ IsFiniteSet(B)
    BY FS_Subset
<1>2. Cardinality(A) \in Nat /\ Cardinality(B) \in Nat
    BY <1>1, FS_CardinalityType
<1>3. Cardinality(A \ {x}) = IF x \in A THEN Cardinality(A) - 1 ELSE Cardinality(A)
    BY <1>1, FS_RemoveElement
<1>4. Cardinality(B \ {x}) = IF x \in B THEN Cardinality(B) - 1 ELSE Cardinality(B)
    BY <1>1, FS_RemoveElement
<1> QED BY <1>2, <1>3, <1>4 DEF One

\* A set with a member is not counted as none
LEMMA CountsOne ==
    ASSUME NEW S, IsFiniteSet(S), NEW A \in SUBSET S
    PROVE  Cardinality(A) \in Nat /\ (Cardinality(A) = 0 <=> A = {})
BY FS_Subset, FS_CardinalityType, FS_EmptySet

\* A least free frame
LEMMA LeastOf ==
    ASSUME NEW S \in SUBSET Nat, S # {}
    PROVE  Min(S) \in S /\ \A x \in S : Min(S) <= x
<1> DEFINE R == {ss \in Nat \X Nat : ss[1] < ss[2]}
<1>1. IsWellFoundedOn(R, Nat)
    BY NatLessThanWellFounded, Zenon DEF OpToRel
<1>2. PICK m \in S : \A y \in S : ~ (<<y, m>> \in R)
    <2> HIDE DEF R
    <2> QED BY <1>1, WFMin
<1>3. ASSUME NEW y \in S PROVE m <= y
    <2>1. y \in Nat /\ m \in Nat /\ (y < m => <<y, m>> \in R)
        OBVIOUS
    <2> QED BY <1>2, <2>1
<1> QED BY <1>3 DEF Min

\* The counts are numbers, and who is there counts
LEMMA CountFacts ==
    ASSUME PcAssumption
    PROVE  /\ \A f : Cardinality(MappedBy(f)) \in Nat /\ Cardinality(Holding(f)) \in Nat
           /\ \A f : \A p \in PcProcs : pte[p] = f => Cardinality(MappedBy(f)) > 0
           /\ \A f : \A t \in PcThreads : th[t].frame = f => Cardinality(Holding(f)) > 0
           /\ Cardinality(Mapping) \in Nat /\ Cardinality(LettingGo) \in Nat
           /\ \A p \in PcProcs : region[p] # "none" => Cardinality(Mapping) > 0
           /\ \A t \in PcThreads : LetsGo(th[t]) => Cardinality(LettingGo) > 0
           /\ \A p : Cardinality(FaultsOf(p)) \in Nat
           /\ \A t \in PcThreads : th[t].at \in Faulting => Cardinality(FaultsOf(PcProcOf[t])) > 0
<1>1. IsFiniteSet(PcProcs) /\ IsFiniteSet(PcThreads)
    BY DEF PcAssumption
<1>2. ASSUME NEW f
      PROVE  /\ Cardinality(MappedBy(f)) \in Nat /\ (Cardinality(MappedBy(f)) = 0 <=> MappedBy(f) = {})
             /\ Cardinality(Holding(f)) \in Nat /\ (Cardinality(Holding(f)) = 0 <=> Holding(f) = {})
             /\ Cardinality(FaultsOf(f)) \in Nat /\ (Cardinality(FaultsOf(f)) = 0 <=> FaultsOf(f) = {})
    <2>1. MappedBy(f) \in SUBSET PcProcs /\ Holding(f) \in SUBSET PcThreads /\ FaultsOf(f) \in SUBSET PcThreads
        BY DEF MappedBy, Holding, FaultsOf
    <2> QED BY <1>1, <2>1, CountsOne
<1>3. /\ Cardinality(Mapping) \in Nat /\ (Cardinality(Mapping) = 0 <=> Mapping = {})
      /\ Cardinality(LettingGo) \in Nat /\ (Cardinality(LettingGo) = 0 <=> LettingGo = {})
    <2>1. Mapping \in SUBSET PcProcs /\ LettingGo \in SUBSET PcThreads
        BY DEF Mapping, LettingGo
    <2> QED BY <1>1, <2>1, CountsOne
<1>4. ASSUME NEW f, NEW p \in PcProcs, pte[p] = f PROVE Cardinality(MappedBy(f)) > 0
    <2>1. MappedBy(f) # {}
        BY <1>4 DEF MappedBy
    <2> QED BY <1>2, <2>1
<1>5. ASSUME NEW f, NEW t \in PcThreads, th[t].frame = f PROVE Cardinality(Holding(f)) > 0
    <2>1. Holding(f) # {}
        BY <1>5 DEF Holding
    <2> QED BY <1>2, <2>1
<1>6. \A p \in PcProcs : region[p] # "none" => Cardinality(Mapping) > 0
    BY <1>3 DEF Mapping
<1>7. \A t \in PcThreads : LetsGo(th[t]) => Cardinality(LettingGo) > 0
    BY <1>3 DEF LettingGo
<1>8. ASSUME NEW t \in PcThreads, th[t].at \in Faulting PROVE Cardinality(FaultsOf(PcProcOf[t])) > 0
    <2>1. FaultsOf(PcProcOf[t]) # {}
        BY <1>8 DEF FaultsOf
    <2> QED BY <1>2, <2>1
<1> QED BY <1>2, <1>3, <1>4, <1>5, <1>6, <1>7, <1>8

\* What is counted follows a step of thread t in process p
Follows(t, p) ==
    /\ \A f : Cardinality(Holding(f))' \in Nat /\ Cardinality(MappedBy(f))' \in Nat /\ Cardinality(FaultsOf(f))' \in Nat
    /\ Cardinality(Mapping)' \in Nat /\ Cardinality(LettingGo)' \in Nat
    /\ \A f : Cardinality(Holding(f))' + One(th[t].frame = f) = Cardinality(Holding(f)) + One(th'[t].frame = f)
    /\ \A f : Cardinality(MappedBy(f))' + One(pte[p] = f) = Cardinality(MappedBy(f)) + One(pte'[p] = f)
    /\ Cardinality(Mapping)' + One(region[p] # "none") = Cardinality(Mapping) + One(region'[p] # "none")
    /\ Cardinality(LettingGo)' + One(LetsGo(th[t])) = Cardinality(LettingGo) + One(LetsGo(th'[t]))
    /\ \A q : Cardinality(FaultsOf(q))' + One(PcProcOf[t] = q /\ th[t].at \in Faulting)
              = Cardinality(FaultsOf(q)) + One(PcProcOf[t] = q /\ th'[t].at \in Faulting)

\* The other threads and processes are where they were
OthersStay(t, p) ==
    /\ \A u \in PcThreads : u # t => /\ th'[u].at = th[u].at /\ th'[u].frame = th[u].frame
                                     /\ th'[u].kind = th[u].kind /\ th'[u].gen = th[u].gen
    /\ \A q \in PcProcs : q # p => pte'[q] = pte[q] /\ region'[q] = region[q]

LEMMA CountsFollow ==
    ASSUME PcAssumption, NEW t \in PcThreads, NEW p \in PcProcs, OthersStay(t, p)
    PROVE  Follows(t, p)
<1>1. IsFiniteSet(PcThreads) /\ IsFiniteSet(PcProcs)
    BY DEF PcAssumption
<1>2. ASSUME NEW f
      PROVE  /\ Cardinality(Holding(f))' \in Nat
             /\ Cardinality(Holding(f))' + One(th[t].frame = f) = Cardinality(Holding(f)) + One(th'[t].frame = f)
    <2>1. /\ Holding(f) \in SUBSET PcThreads /\ Holding(f)' \in SUBSET PcThreads
          /\ Holding(f) \ {t} = Holding(f)' \ {t}
          /\ (t \in Holding(f)) = (th[t].frame = f) /\ (t \in Holding(f)') = (th'[t].frame = f)
        BY DEF Holding, OthersStay
    <2> QED BY <1>1, <2>1, CountChange
<1>3. ASSUME NEW f
      PROVE  /\ Cardinality(MappedBy(f))' \in Nat
             /\ Cardinality(MappedBy(f))' + One(pte[p] = f) = Cardinality(MappedBy(f)) + One(pte'[p] = f)
    <2>1. /\ MappedBy(f) \in SUBSET PcProcs /\ MappedBy(f)' \in SUBSET PcProcs
          /\ MappedBy(f) \ {p} = MappedBy(f)' \ {p}
          /\ (p \in MappedBy(f)) = (pte[p] = f) /\ (p \in MappedBy(f)') = (pte'[p] = f)
        BY DEF MappedBy, OthersStay
    <2> QED BY <1>1, <2>1, CountChange
<1>4. /\ Cardinality(Mapping)' \in Nat
      /\ Cardinality(Mapping)' + One(region[p] # "none") = Cardinality(Mapping) + One(region'[p] # "none")
    <2>1. /\ Mapping \in SUBSET PcProcs /\ Mapping' \in SUBSET PcProcs
          /\ Mapping \ {p} = Mapping' \ {p}
          /\ (p \in Mapping) = (region[p] # "none") /\ (p \in Mapping') = (region'[p] # "none")
        BY DEF Mapping, OthersStay
    <2> QED BY <1>1, <2>1, CountChange
<1>5. /\ Cardinality(LettingGo)' \in Nat
      /\ Cardinality(LettingGo)' + One(LetsGo(th[t])) = Cardinality(LettingGo) + One(LetsGo(th'[t]))
    <2>1. /\ LettingGo \in SUBSET PcThreads /\ LettingGo' \in SUBSET PcThreads
          /\ LettingGo \ {t} = LettingGo' \ {t}
          /\ (t \in LettingGo) = LetsGo(th[t]) /\ (t \in LettingGo') = LetsGo(th'[t])
        BY DEF LettingGo, LetsGo, OthersStay
    <2> QED BY <1>1, <2>1, CountChange
<1>6. ASSUME NEW q
      PROVE  /\ Cardinality(FaultsOf(q))' \in Nat
             /\ Cardinality(FaultsOf(q))' + One(PcProcOf[t] = q /\ th[t].at \in Faulting)
                = Cardinality(FaultsOf(q)) + One(PcProcOf[t] = q /\ th'[t].at \in Faulting)
    <2>1. /\ FaultsOf(q) \in SUBSET PcThreads /\ FaultsOf(q)' \in SUBSET PcThreads
          /\ FaultsOf(q) \ {t} = FaultsOf(q)' \ {t}
          /\ (t \in FaultsOf(q)) = (PcProcOf[t] = q /\ th[t].at \in Faulting)
          /\ (t \in FaultsOf(q)') = (PcProcOf[t] = q /\ th'[t].at \in Faulting)
        BY DEF FaultsOf, OthersStay
    <2> QED BY <1>1, <2>1, CountChange
<1> QED BY <1>2, <1>3, <1>4, <1>5, <1>6 DEF Follows

\* A frame's owners are counted after a step that counts what it does
LEMMA RefsFollow ==
    ASSUME PcAssumption, PcTypeOK, RefsCounted, NEW t, NEW p, Follows(t, p), ref' \in [PcFrames -> Int],
           \A f \in PcFrames :
              ref'[f] + One(entry.frame = f) + One(pte[p] = f) + One(th[t].frame = f)
              = ref[f] + One(entry'.frame = f) + One(pte'[p] = f) + One(th'[t].frame = f)
    PROVE  RefsCounted' /\ ref' \in [PcFrames -> Nat]
<1>1. ASSUME NEW f \in PcFrames
      PROVE  ref'[f] = Owners(f)' /\ ref'[f] \in Nat
    <2>1. /\ Cardinality(MappedBy(f)) \in Nat /\ Cardinality(Holding(f)) \in Nat
          /\ Cardinality(MappedBy(f))' \in Nat /\ Cardinality(Holding(f))' \in Nat
        BY CountFacts DEF Follows
    <2>2. ref[f] = One(entry.frame = f) + Cardinality(MappedBy(f)) + Cardinality(Holding(f))
        BY DEF RefsCounted, Owners, MappedBy, Holding, One
    <2>3. Owners(f)' = One(entry'.frame = f) + Cardinality(MappedBy(f))' + Cardinality(Holding(f))'
        BY DEF Owners, MappedBy, Holding, One
    <2>4. /\ One(entry.frame = f) \in Nat /\ One(pte[p] = f) \in Nat /\ One(th[t].frame = f) \in Nat
          /\ One(entry'.frame = f) \in Nat /\ One(pte'[p] = f) \in Nat /\ One(th'[t].frame = f) \in Nat
          /\ ref'[f] \in Int
        BY DEF One
    <2>5. ref'[f] + One(entry.frame = f) + One(pte[p] = f) + One(th[t].frame = f)
          = ref[f] + One(entry'.frame = f) + One(pte'[p] = f) + One(th'[t].frame = f)
        OBVIOUS
    <2>6. /\ Cardinality(Holding(f))' + One(th[t].frame = f) = Cardinality(Holding(f)) + One(th'[t].frame = f)
          /\ Cardinality(MappedBy(f))' + One(pte[p] = f) = Cardinality(MappedBy(f)) + One(pte'[p] = f)
        BY DEF Follows
    <2> DEFINE a == One(entry.frame = f)   b == One(pte[p] = f)   c == One(th[t].frame = f)
               d == One(entry'.frame = f)  e == One(pte'[p] = f)  g == One(th'[t].frame = f)
               m == Cardinality(MappedBy(f))  n == Cardinality(MappedBy(f))'
               h == Cardinality(Holding(f))   k == Cardinality(Holding(f))'
               o == Owners(f)'                r == ref'[f]        s == ref[f]
    <2>7. /\ a \in Nat /\ b \in Nat /\ c \in Nat /\ d \in Nat /\ e \in Nat /\ g \in Nat
          /\ m \in Nat /\ n \in Nat /\ h \in Nat /\ k \in Nat /\ r \in Int
          /\ s = a + m + h /\ o = d + n + k
          /\ r + a + b + c = s + d + e + g /\ k + c = h + g /\ n + b = m + e
        BY <2>1, <2>2, <2>3, <2>4, <2>5, <2>6
    <2> HIDE DEF a, b, c, d, e, g, m, n, h, k, o, r, s
    <2>8. r = o /\ r \in Nat
        BY <2>7
    <2> QED BY <2>8 DEF o, r
<1> QED BY <1>1 DEF RefsCounted

-----------------------------------------------------------------------------
(* What a step leaves as it was.                                           *)

LEMMA MapperKept ==
    ASSUME MapperHolds, NEW t \in PcThreads, NEW p \in PcProcs, OthersStay(t, p), UNCHANGED <<mapper, region>>,
           th'[t].at \notin Backing \cup {"wait"}
    PROVE  MapperHolds'
BY DEF MapperHolds, OthersStay

LEMMA PinsKept ==
    ASSUME PcAssumption, PinsCounted, NEW t \in PcThreads, NEW p \in PcProcs, Follows(t, p),
           region'[p] = region[p], pcFile'.pins = pcFile.pins, pcFile'.removed = pcFile.removed,
           LetsGo(th'[t]) <=> LetsGo(th[t])
    PROVE  PinsCounted'
<1>1. Cardinality(Mapping)' = Cardinality(Mapping)
    BY CountFacts DEF Follows, One
<1>2. Cardinality(LettingGo)' = Cardinality(LettingGo)
    BY CountFacts DEF Follows, One
<1> QED BY <1>1, <1>2 DEF PinsCounted

LEMMA UsersKept ==
    ASSUME PcAssumption, UsersCounted, NEW t \in PcThreads, NEW p \in PcProcs, Follows(t, p), OthersStay(t, p),
           UNCHANGED <<users, region>>, th[t].at # "wait", th'[t].at \in Faulting <=> th[t].at \in Faulting,
           th[t].at \in Faulting => th'[t].kind = th[t].kind
    PROVE  UsersCounted'
<1>1. ASSUME NEW q \in PcProcs PROVE users'[q] = Cardinality(FaultsOf(q))'
    <2>1. /\ Cardinality(FaultsOf(q))' \in Nat /\ Cardinality(FaultsOf(q)) \in Nat
          /\ Cardinality(FaultsOf(q))' + One(PcProcOf[t] = q /\ th[t].at \in Faulting)
             = Cardinality(FaultsOf(q)) + One(PcProcOf[t] = q /\ th'[t].at \in Faulting)
        BY CountFacts DEF Follows
    <2>2. Cardinality(FaultsOf(q))' = Cardinality(FaultsOf(q))
        BY <2>1 DEF One
    <2> QED BY <2>2 DEF UsersCounted
<1>2. ASSUME NEW u \in PcThreads, th'[u].at \in Faulting
      PROVE  /\ th'[u].kind \in {"private", "shared"}
             /\ \/ region'[PcProcOf[u]] = th'[u].kind
                \/ \E w \in PcThreads : PcProcOf[w] = PcProcOf[u] /\ th'[w].at = "wait"
    <2>1. th[u].at \in Faulting /\ th'[u].kind = th[u].kind
        BY <1>2 DEF OthersStay
    <2>2. \A w \in PcThreads : th[w].at = "wait" => th'[w].at = "wait"
        BY DEF OthersStay
    <2> QED BY <2>1, <2>2 DEF UsersCounted
<1> QED BY <1>1, <1>2 DEF UsersCounted

LEMMA GenKept ==
    ASSUME PcTypeOK, GenSeen, NEW t \in PcThreads, NEW p \in PcProcs, OthersStay(t, p), th'[t].gen \in Nat,
           pcFile'.gen \in Nat, pcFile'.gen >= pcFile.gen, th'[t].gen <= pcFile'.gen
    PROVE  GenSeen'
<1>1. ASSUME NEW u \in PcThreads PROVE th'[u].gen <= pcFile'.gen
    <2>1. th[u].gen \in Nat /\ pcFile.gen \in Nat /\ th[u].gen <= pcFile.gen
        BY DEF PcTypeOK, PcThread, PcFile, GenSeen
    <2> QED BY <2>1 DEF OthersStay
<1> QED BY <1>1 DEF GenSeen

\* The frames in hand after a step of thread t that leaves the mappings alone
LEMMA HandsKept ==
    ASSUME FramesInHand, NEW t \in PcThreads, NEW p \in PcProcs, OthersStay(t, p), UNCHANGED <<pte, region>>,
           entry'.frame = 0 => entry' = NoEntry, entry'.dirty => entry'.shared,
           entry'.frame \in {entry.frame, 0, th[t].frame},
           th'[t].frame \in {entry.frame, 0, th[t].frame},
           th'[t].at \in {"idle", "find", "wait", "collect", "done", "written", "cut"} => th'[t].frame = 0,
           th'[t].at \in {"read", "insert"} \cup Saving => th'[t].frame # 0,
           th'[t].at \in {"read", "insert"} =>
                th'[t].frame = th[t].frame /\ th[t].at \in {"read", "insert"} /\ entry'.frame = entry.frame
    PROVE  FramesInHand'
<1>1. ASSUME NEW u \in PcThreads, u # t, th[u].at \in {"read", "insert"}
      PROVE  /\ entry'.frame # th[u].frame /\ th'[t].frame # th[u].frame
             /\ \A w \in PcThreads : w # u => th'[w].frame # th[u].frame
    BY <1>1 DEF FramesInHand, OthersStay
<1>2. ASSUME NEW u \in PcThreads
      PROVE  /\ th'[u].at \in {"idle", "find", "wait", "collect", "done", "written", "cut"} => th'[u].frame = 0
             /\ th'[u].at \in {"read", "insert"} \cup Saving => th'[u].frame # 0
             /\ th'[u].at \in {"read", "insert"} =>
                  /\ entry'.frame # th'[u].frame
                  /\ \A q \in PcProcs : pte'[q] # th'[u].frame
                  /\ \A w \in PcThreads : w # u => th'[w].frame # th'[u].frame
    <2>1. CASE u # t
        BY <2>1, <1>1 DEF FramesInHand, OthersStay
    <2>2. CASE u = t
        BY <2>2 DEF FramesInHand, OthersStay
    <2> QED BY <2>1, <2>2
<1> QED BY <1>2 DEF FramesInHand

LEMMA DirtyKept ==
    ASSUME SharedIsDirty, NEW t \in PcThreads, NEW p \in PcProcs, OthersStay(t, p), UNCHANGED <<pte, region>>,
           entry'.frame \in {entry.frame, 0},
           entry.shared /\ entry.dirty /\ entry'.frame # 0 => entry'.shared /\ entry'.dirty,
           th'[t].at = "install" /\ th'[t].kind = "shared" /\ entry'.frame # 0 /\ th'[t].frame = entry'.frame
              => entry'.shared /\ entry'.dirty
    PROVE  SharedIsDirty'
BY DEF SharedIsDirty, OthersStay

\* The reference counts after a step that changes no mapping
LEMMA RefsKept ==
    ASSUME PcAssumption, PcTypeOK, RefsCounted, NEW t \in PcThreads, NEW p \in PcProcs, Follows(t, p),
           UNCHANGED <<ref, pte>>, entry'.frame = entry.frame, th'[t].frame = th[t].frame
    PROVE  RefsCounted' /\ ref' \in [PcFrames -> Nat]
<1>1. ref' \in [PcFrames -> Int]
    BY DEF PcTypeOK
<1>2. ASSUME NEW f \in PcFrames
      PROVE  ref'[f] + One(entry.frame = f) + One(pte[p] = f) + One(th[t].frame = f)
             = ref[f] + One(entry'.frame = f) + One(pte'[p] = f) + One(th'[t].frame = f)
    OBVIOUS
<1> QED BY <1>1, <1>2, RefsFollow

\* What the assumptions and the invariant say of a thread, its process and the page
LEMMA PcFacts ==
    ASSUME PcAssumption, PcTypeOK, NEW t \in PcThreads
    PROVE  /\ PcProcOf[t] \in PcProcs /\ 0 \notin PcFrames /\ PcFrames \subseteq Nat
           /\ th[t] \in PcThread /\ th[t].frame \in PcFrames \cup {0} /\ th[t].gen \in Nat
           /\ pcFile \in PcFile /\ pcFile.gen \in Nat /\ pcFile.pins \in Nat
           /\ entry \in PcEntry /\ entry.frame \in PcFrames \cup {0}
           /\ ref \in [PcFrames -> Nat] /\ \A f \in PcFrames : ref[f] \in Nat
BY DEF PcAssumption, PcTypeOK, PcThread, PcFile, PcEntry

\* A thread moves on
LEMMA ThMoves ==
    ASSUME PcTypeOK, NEW t \in PcThreads, NEW p \in PcProcs, NEW r \in PcThread, PcGoes(t, r),
           \A q \in PcProcs : q # p => pte'[q] = pte[q] /\ region'[q] = region[q]
    PROVE  /\ th' \in [PcThreads -> PcThread] /\ th'[t] = r /\ OthersStay(t, p)
           /\ \A u \in PcThreads : u # t => th'[u] = th[u]
BY DEF PcTypeOK, PcGoes, OthersStay

\* The types after a step that leaves the processes alone
PageTypes ==
    /\ th' \in [PcThreads -> PcThread] /\ pcFile' \in PcFile /\ entry' \in PcEntry
    /\ mem' \in [PcFrames -> [Cells -> Nat]] /\ last' \in [Cells -> SUBSET Nat]
    /\ calls' \in Nat /\ truncs' \in Nat /\ raced' \in BOOLEAN

\* A step of thread t that leaves the processes alone: what it owes the books
LEMMA PageStep ==
    ASSUME PcAssumption, PcBooks, NEW t \in PcThreads, OthersStay(t, PcProcOf[t]),
           UNCHANGED procVars, PageTypes,
           pcFile'.pins = pcFile.pins, pcFile'.removed = pcFile.removed, pcFile'.gen >= pcFile.gen,
           th'[t].gen <= pcFile'.gen,
           th[t].at # "wait", th'[t].at # "wait",
           th'[t].at \in Faulting <=> th[t].at \in Faulting,
           th'[t].at \in Backing <=> th[t].at \in Backing,
           th[t].at \in Faulting \cup Backing => th'[t].kind = th[t].kind,
           ref' \in [PcFrames -> Int],
           \A f \in PcFrames : ref'[f] + One(entry.frame = f) + One(th[t].frame = f)
                             = ref[f] + One(entry'.frame = f) + One(th'[t].frame = f),
           FramesInHand', SharedIsDirty'
    PROVE  PcBooks'
<1> DEFINE p == PcProcOf[t]
<1>0. /\ PcTypeOK /\ RefsCounted /\ MapperHolds /\ PinsCounted /\ UsersCounted /\ GenSeen
      /\ UNCHANGED <<region, pte, users, mapper, seen>>
    BY DEF PcBooks, procVars
<1>1. p \in PcProcs /\ ref \in [PcFrames -> Nat]
    BY <1>0, PcFacts
<1>2. Follows(t, p)
    BY <1>1, CountsFollow
<1>3. RefsCounted' /\ ref' \in [PcFrames -> Nat]
    <2>1. ASSUME NEW f \in PcFrames
          PROVE  ref'[f] + One(entry.frame = f) + One(pte[p] = f) + One(th[t].frame = f)
                 = ref[f] + One(entry'.frame = f) + One(pte'[p] = f) + One(th'[t].frame = f)
        <3>1. /\ ref'[f] \in Int /\ ref[f] \in Int /\ pte'[p] = pte[p]
              /\ ref'[f] + One(entry.frame = f) + One(th[t].frame = f)
                             = ref[f] + One(entry'.frame = f) + One(th'[t].frame = f)
            BY <1>0, <1>1
        <3> QED BY <3>1 DEF One
    <2> QED BY <1>0, <1>2, <2>1, RefsFollow
<1>4. PcTypeOK'
    BY <1>0, <1>3 DEF PcTypeOK, PageTypes
<1>5. MapperHolds'
    <2>1. CASE th'[t].at \in Backing
        BY <1>0, <2>1 DEF MapperHolds, OthersStay, Backing
    <2>2. CASE th'[t].at \notin Backing
        BY <1>0, <1>1, <2>2, MapperKept
    <2> QED BY <2>1, <2>2
<1>6. PinsCounted'
    BY <1>0, <1>1, <1>2, PinsKept DEF LetsGo
<1>7. UsersCounted'
    BY <1>0, <1>1, <1>2, UsersKept
<1>8. GenSeen'
    BY <1>0, <1>1, <1>4, GenKept DEF PcTypeOK, PcThread, PcFile
<1> QED BY <1>3, <1>4, <1>5, <1>6, <1>7, <1>8 DEF PcBooks

-----------------------------------------------------------------------------
(* The steps, one by one.                                                  *)

\* What the proofs below begin with
LEMMA BooksFacts ==
    ASSUME PcAssumption, PcBooks, NEW t \in PcThreads
    PROVE  /\ PcTypeOK /\ RefsCounted /\ FramesInHand /\ SharedIsDirty /\ MapperHolds /\ PinsCounted
           /\ UsersCounted /\ GenSeen
           /\ PcProcOf[t] \in PcProcs /\ 0 \notin PcFrames /\ PcFrames \subseteq Nat
           /\ th[t] \in PcThread /\ th[t].frame \in PcFrames \cup {0} /\ th[t].gen \in Nat
           /\ pcFile \in PcFile /\ pcFile.gen \in Nat /\ pcFile.pins \in Nat
           /\ entry \in PcEntry /\ entry.frame \in PcFrames \cup {0}
           /\ ref \in [PcFrames -> Nat] /\ \A f \in PcFrames : ref[f] \in Nat
BY PcFacts DEF PcBooks

\* Marking the entry for a shared mapping
LEMMA MarkFacts ==
    ASSUME NEW e \in PcEntry, NEW kind, e.dirty => e.shared, e.frame # 0
    PROVE  LET n == mark_shared(e, kind) IN
           /\ n \in PcEntry /\ n.frame = e.frame
           /\ n.dirty => n.shared
           /\ e.shared => n.shared
           /\ e.dirty => n.dirty
           /\ kind = "shared" => n.shared /\ n.dirty
           /\ kind # "shared" => n = e
BY DEF PcEntry, mark_shared

\* One owner more, one owner less
LEMMA RefFacts ==
    ASSUME NEW r \in [PcFrames -> Int], NEW f \in PcFrames
    PROVE  Ref(r, f) \in [PcFrames -> Int] /\ \A g \in PcFrames : Ref(r, f)[g] = r[g] + One(f = g)
BY DEF Ref, One

LEMMA UnrefFacts ==
    ASSUME NEW r \in [PcFrames -> Int], NEW f \in PcFrames \cup {0}, 0 \notin PcFrames
    PROVE  Unref(r, f) \in [PcFrames -> Int] /\ \A g \in PcFrames : Unref(r, f)[g] = r[g] - One(f = g)
BY DEF Unref, One

\* A frame nobody owns
LEMMA FreeFacts ==
    ASSUME PcAssumption, PcBooks, NEW f \in PcFrames, ref[f] = 0
    PROVE  /\ entry.frame # f /\ \A p \in PcProcs : pte[p] # f
           /\ \A t \in PcThreads : th[t].frame # f
<1>1. ref[f] = (IF entry.frame = f THEN 1 ELSE 0) + Cardinality(MappedBy(f)) + Cardinality(Holding(f))
    BY DEF PcBooks, RefsCounted, Owners, MappedBy, Holding
<1>2. Cardinality(MappedBy(f)) \in Nat /\ Cardinality(Holding(f)) \in Nat
    BY CountFacts
<1>3. entry.frame # f /\ Cardinality(MappedBy(f)) = 0 /\ Cardinality(Holding(f)) = 0
    <2> DEFINE m == Cardinality(MappedBy(f))
               h == Cardinality(Holding(f))
    <2>1. /\ m \in Nat /\ h \in Nat
          /\ entry.frame = f => 0 = 1 + m + h
          /\ entry.frame # f => 0 = 0 + m + h
        BY <1>1, <1>2
    <2> HIDE DEF m, h
    <2>2. entry.frame # f /\ m = 0 /\ h = 0
        BY <2>1
    <2> QED BY <2>2 DEF m, h
<1> QED BY <1>3, CountFacts

\* get, the first look
LEMMA FindBooks ==
    ASSUME PcAssumption, PcBooks, NEW t \in PcThreads, Find(t), raced' \in BOOLEAN
    PROVE  PcBooks'
<1> DEFINE p == PcProcOf[t]
<1>0. /\ PcTypeOK /\ FramesInHand /\ SharedIsDirty /\ GenSeen
      /\ p \in PcProcs /\ 0 \notin PcFrames /\ PcFrames \subseteq Nat
      /\ th[t] \in PcThread /\ pcFile.gen \in Nat
      /\ entry \in PcEntry /\ entry.frame \in PcFrames \cup {0}
      /\ ref \in [PcFrames -> Nat] /\ \A f \in PcFrames : ref[f] \in Nat
    BY BooksFacts
<1>1. /\ th[t].at = "find" /\ th[t].frame = 0
      /\ UNCHANGED procVars /\ UNCHANGED <<pcFile, mem, last, region, pte, users, mapper, seen, truncs, calls>>
    BY <1>0 DEF FramesInHand, Find, procVars, Alone
<1>2. ASSUME NEW r \in PcThread, PcGoes(t, r), r.kind = th[t].kind, r.gen <= pcFile.gen,
             \/ r.at = "install" /\ r.frame = entry.frame
             \/ r.at = "read" /\ r.frame \in PcFrames /\ ref[r.frame] = 0 /\ entry.frame = 0,
             ref' \in [PcFrames -> Int], \A f \in PcFrames : ref'[f] = ref[f] + One(r.frame = f),
             entry' = IF entry.frame # 0 THEN mark_shared(entry, th[t].kind) ELSE entry
      PROVE  PcBooks'
    <2>1. th' \in [PcThreads -> PcThread] /\ th'[t] = r /\ OthersStay(t, p)
        BY <1>0, <1>1, <1>2, ThMoves
    <2>2. /\ entry' \in PcEntry /\ entry'.frame = entry.frame
          /\ (entry'.dirty => entry'.shared) /\ (entry.shared => entry'.shared) /\ (entry.dirty => entry'.dirty)
          /\ (th[t].kind = "shared" /\ entry.frame # 0 => entry'.shared /\ entry'.dirty)
          /\ (entry'.frame = 0 => entry' = NoEntry)
        BY <1>0, <1>2, MarkFacts DEF FramesInHand
    <2>3. /\ ref' \in [PcFrames -> Int]
          /\ \A f \in PcFrames : ref'[f] + One(entry.frame = f) + One(th[t].frame = f)
                             = ref[f] + One(entry'.frame = f) + One(th'[t].frame = f)
        BY <1>0, <1>1, <1>2, <2>1, <2>2 DEF One
    <2>4. FramesInHand'
        <3>1. CASE r.at = "install"
            BY <1>0, <1>1, <1>2, <2>1, <2>2, <3>1, HandsKept DEF Saving
        <3>2. CASE r.at = "read"
            <4>1. /\ entry.frame # r.frame /\ \A q \in PcProcs : pte[q] # r.frame
                  /\ \A u \in PcThreads : th[u].frame # r.frame
                BY <1>2, <3>2, FreeFacts
            <4>2. ASSUME NEW u \in PcThreads, u # t, th'[u].at \in {"read", "insert"}
                  PROVE  \A w \in PcThreads : w # u => th'[w].frame # th'[u].frame
                BY <1>0, <2>1, <4>1, <4>2 DEF FramesInHand, OthersStay
            <4> QED BY <1>0, <1>1, <1>2, <2>1, <2>2, <3>2, <4>1, <4>2 DEF FramesInHand, OthersStay, Saving
        <3> QED BY <1>2, <3>1, <3>2
    <2>5. SharedIsDirty'
        BY <1>0, <1>1, <1>2, <2>1, <2>2, DirtyKept
    <2>6. PageTypes
        BY <1>0, <1>1, <2>1, <2>2 DEF PcTypeOK, PageTypes
    <2>7. /\ pcFile'.gen >= pcFile.gen /\ th[t].at \in Faulting /\ r.at \in Faulting
          /\ th[t].at \notin Backing /\ r.at \notin Backing
        BY <1>0, <1>1, <1>2 DEF Faulting, Backing
    <2> QED BY <1>0, <1>1, <1>2, <2>1, <2>3, <2>4, <2>5, <2>6, <2>7, PageStep
<1>3. CASE entry.frame # 0
    <2> DEFINE r == [th[t] EXCEPT !.at = "install", !.frame = entry.frame]
    <2>1. PcGoes(t, r) /\ entry' = mark_shared(entry, th[t].kind) /\ ref' = Ref(ref, entry.frame)
        BY <1>3 DEF Find
    <2>2. /\ r \in PcThread /\ r.kind = th[t].kind /\ r.gen = th[t].gen
          /\ r.at = "install" /\ r.frame = entry.frame
        BY <1>0 DEF PcThread, PcPlaces, Faulting
    <2>3. th[t].gen <= pcFile.gen
        BY <1>0 DEF GenSeen
    <2>4. ref' \in [PcFrames -> Int] /\ \A f \in PcFrames : ref'[f] = ref[f] + One(r.frame = f)
        BY <1>0, <1>3, <2>1, <2>2, RefFacts
    <2> HIDE DEF r
    <2> QED BY <1>2, <1>3, <2>1, <2>2, <2>3, <2>4
<1>4. CASE entry.frame = 0 /\ FreeFrames(ref) = {}
    <2> DEFINE r == [th[t] EXCEPT !.at = "install", !.frame = 0]
    <2>1. PcGoes(t, r) /\ entry' = entry /\ ref' = ref
        BY <1>4 DEF Find
    <2>2. /\ r \in PcThread /\ r.kind = th[t].kind /\ r.gen = th[t].gen
          /\ r.at = "install" /\ r.frame = 0
        BY <1>0 DEF PcThread, PcPlaces, Faulting
    <2>3. th[t].gen <= pcFile.gen
        BY <1>0 DEF GenSeen
    <2>4. ref' \in [PcFrames -> Int] /\ \A f \in PcFrames : ref'[f] = ref[f] + One(r.frame = f)
        BY <1>0, <2>1, <2>2 DEF One
    <2> HIDE DEF r
    <2> QED BY <1>2, <1>4, <2>1, <2>2, <2>3, <2>4
<1>5. CASE entry.frame = 0 /\ FreeFrames(ref) # {}
    <2> DEFINE g == Min(FreeFrames(ref))
               r == [th[t] EXCEPT !.at = "read", !.frame = g, !.gen = pcFile.gen]
    <2>1. PcGoes(t, r) /\ entry' = entry /\ ref' = Ref(ref, g)
        BY <1>5 DEF Find
    <2>2. g \in PcFrames /\ ref[g] = 0
        <3>1. FreeFrames(ref) \in SUBSET Nat
            BY <1>0 DEF FreeFrames
        <3>2. g \in FreeFrames(ref)
            BY <1>5, <3>1, LeastOf
        <3> QED BY <1>0, <3>2 DEF FreeFrames
    <2> HIDE DEF g
    <2>3. /\ r \in PcThread /\ r.kind = th[t].kind /\ r.gen = pcFile.gen
          /\ r.at = "read" /\ r.frame = g
        BY <1>0, <2>2 DEF PcThread, PcPlaces, Faulting
    <2>4. ref' \in [PcFrames -> Int] /\ \A f \in PcFrames : ref'[f] = ref[f] + One(r.frame = f)
        BY <1>0, <2>1, <2>2, <2>3, RefFacts
    <2> HIDE DEF r
    <2> QED BY <1>0, <1>2, <1>5, <2>1, <2>2, <2>3, <2>4
<1> QED BY <1>3, <1>4, <1>5
\* A step that leaves the entry, the counts and what thread t has in hand alone
LEMMA StillStep ==
    ASSUME PcAssumption, PcBooks, NEW t \in PcThreads, OthersStay(t, PcProcOf[t]),
           UNCHANGED <<procVars, entry, ref>>, PageTypes,
           pcFile'.pins = pcFile.pins, pcFile'.removed = pcFile.removed, pcFile'.gen >= pcFile.gen,
           th'[t].gen <= pcFile'.gen, th'[t].frame = th[t].frame,
           th[t].at # "wait", th'[t].at # "wait", th'[t].at # "install",
           th'[t].at \in Faulting <=> th[t].at \in Faulting,
           th'[t].at \in Backing <=> th[t].at \in Backing,
           th[t].at \in Faulting \cup Backing => th'[t].kind = th[t].kind,
           th'[t].at \in {"idle", "find", "wait", "collect", "done", "written", "cut"} => th'[t].frame = 0,
           th'[t].at \in {"read", "insert"} \cup Saving => th'[t].frame # 0,
           th'[t].at \in {"read", "insert"} => th[t].at \in {"read", "insert"}
    PROVE  PcBooks'
<1>0. /\ PcTypeOK /\ FramesInHand /\ SharedIsDirty /\ PcProcOf[t] \in PcProcs
      /\ ref \in [PcFrames -> Nat] /\ \A f \in PcFrames : ref[f] \in Nat
      /\ UNCHANGED <<region, pte, users, mapper, seen>> /\ UNCHANGED procVars /\ UNCHANGED <<entry, ref>>
    BY BooksFacts DEF procVars
<1>1. FramesInHand'
    BY <1>0, HandsKept DEF FramesInHand
<1>2. SharedIsDirty'
    BY <1>0, DirtyKept
<1>3. /\ ref' \in [PcFrames -> Int]
      /\ \A f \in PcFrames : ref'[f] + One(entry.frame = f) + One(th[t].frame = f)
                           = ref[f] + One(entry'.frame = f) + One(th'[t].frame = f)
    BY <1>0
<1> QED BY <1>0, <1>1, <1>2, <1>3, PageStep

\* Contents of pages
LEMMA CellFacts ==
    ASSUME PcTypeOK
    PROVE  /\ FileCells(pcFile) \in [Cells -> Nat]
           /\ pcFile.data \in [Cells -> Nat] /\ pcFile.size \in Nat
           /\ \A f \in PcFrames : mem[f] \in [Cells -> Nat] /\ \A c \in Cells : mem[f][c] \in Nat
           /\ \A c \in Cells : pcFile.data[c] \in Nat /\ c \in {0, 1}
BY DEF PcTypeOK, PcFile, FileCells, Cells

LEMMA ReadInBooks ==
    ASSUME PcAssumption, PcBooks, NEW t \in PcThreads, ReadIn(t), raced' \in BOOLEAN
    PROVE  PcBooks'
<1> DEFINE r == [th[t] EXCEPT !.at = "insert"]
<1>0. /\ PcTypeOK /\ FramesInHand /\ GenSeen /\ PcProcOf[t] \in PcProcs /\ th[t] \in PcThread /\ pcFile.gen \in Nat
      /\ th[t].frame \in PcFrames \cup {0}
    BY BooksFacts
<1>1. /\ th[t].at = "read" /\ th[t].frame # 0 /\ th[t].gen <= pcFile.gen /\ PcGoes(t, r)
      /\ mem' = [mem EXCEPT ![th[t].frame] = FileCells(pcFile)]
      /\ UNCHANGED <<procVars, entry, ref>> /\ UNCHANGED <<pcFile, last, region, pte, truncs, calls>>
    BY <1>0 DEF ReadIn, Moves, FramesInHand, GenSeen, Alone, procVars
<1>2. /\ r \in PcThread /\ r.at = "insert" /\ r.frame = th[t].frame /\ r.kind = th[t].kind /\ r.gen = th[t].gen
    BY <1>0 DEF PcThread, PcPlaces, Faulting
<1> HIDE DEF r
<1>3. th' \in [PcThreads -> PcThread] /\ th'[t] = r /\ OthersStay(t, PcProcOf[t])
    BY <1>0, <1>1, <1>2, ThMoves
<1>4. mem' \in [PcFrames -> [Cells -> Nat]]
    BY <1>0, <1>1, CellFacts DEF PcTypeOK
<1>5. PageTypes
    BY <1>0, <1>1, <1>3, <1>4 DEF PcTypeOK, PageTypes
<1> QED BY <1>0, <1>1, <1>2, <1>3, <1>5, StillStep DEF Faulting, Backing, Saving

LEMMA MeasureBooks ==
    ASSUME PcAssumption, PcBooks, NEW t \in PcThreads, Measure(t), raced' \in BOOLEAN
    PROVE  PcBooks'
<1> DEFINE n == Min({pcFile.size, PageEnd})
           r == [th[t] EXCEPT !.len = n, !.at = IF pcFile.size = 0 THEN "clean" ELSE "save"]
<1>0. /\ PcTypeOK /\ FramesInHand /\ GenSeen /\ PcProcOf[t] \in PcProcs /\ th[t] \in PcThread /\ pcFile.gen \in Nat
      /\ pcFile.size \in Nat
    BY BooksFacts, CellFacts
<1>1. /\ th[t].at = "measure" /\ th[t].frame # 0 /\ th[t].gen <= pcFile.gen /\ PcGoes(t, r)
      /\ UNCHANGED <<procVars, entry, ref>> /\ UNCHANGED <<pcFile, mem, last, region, pte, truncs, calls>>
    BY <1>0 DEF Measure, FramesInHand, GenSeen, Alone, procVars, pageVars, Saving
<1>2. n \in Nat
    BY <1>0, LeastOf DEF PageEnd
<1> HIDE DEF n
<1>3. /\ r \in PcThread /\ r.at \in {"clean", "save"} /\ r.frame = th[t].frame /\ r.kind = th[t].kind
      /\ r.gen = th[t].gen
    BY <1>0, <1>2 DEF PcThread, PcPlaces, Backing
<1> HIDE DEF r
<1>4. th' \in [PcThreads -> PcThread] /\ th'[t] = r /\ OthersStay(t, PcProcOf[t])
    BY <1>0, <1>1, <1>3, ThMoves
<1>5. PageTypes
    BY <1>0, <1>1, <1>4 DEF PcTypeOK, PageTypes
<1> QED BY <1>0, <1>1, <1>3, <1>4, <1>5, StillStep DEF Faulting, Backing, Saving

LEMMA StoreBooks ==
    ASSUME PcAssumption, PcBooks, NEW t \in PcThreads, NEW c \in Cells, Store(t, c), raced' \in BOOLEAN
    PROVE  PcBooks'
<1> DEFINE p == PcProcOf[t]
<1>0. /\ PcTypeOK /\ FramesInHand /\ GenSeen /\ p \in PcProcs /\ th[t] \in PcThread /\ pcFile.gen \in Nat
      /\ pte[p] \in PcFrames \cup {0} /\ calls \in Nat
    BY BooksFacts DEF PcTypeOK
<1>1. /\ th[t].at = "idle" /\ th[t].frame = 0 /\ th[t].gen <= pcFile.gen /\ pte[p] # 0 /\ calls' = calls + 1
      /\ mem' = [mem EXCEPT ![pte[p]][c] = calls + 1]
      /\ \/ last' = last
         \/ last' = [last EXCEPT ![c] = {calls + 1}]
      /\ UNCHANGED <<procVars, entry, ref>> /\ UNCHANGED <<pcFile, region, pte, truncs, th>>
    BY <1>0 DEF Store, Calls, FramesInHand, GenSeen, procVars
<1>2. mem' \in [PcFrames -> [Cells -> Nat]] /\ last' \in [Cells -> SUBSET Nat]
    BY <1>0, <1>1, CellFacts DEF PcTypeOK
<1>3. PageTypes
    BY <1>0, <1>1, <1>2 DEF PcTypeOK, PageTypes
<1>4. OthersStay(t, PcProcOf[t])
    BY <1>1 DEF OthersStay
<1> QED BY <1>0, <1>1, <1>3, <1>4, StillStep DEF Faulting, Backing, Saving

LEMMA SaveBooks ==
    ASSUME PcAssumption, PcBooks, NEW t \in PcThreads, NEW ok \in BOOLEAN, Save(t, ok), raced' \in BOOLEAN
    PROVE  PcBooks'
<1> DEFINE n == th[t].len
           m == mem[th[t].frame]
           r == [th[t] EXCEPT !.ok = ok, !.at = IF ok THEN "saved" ELSE "clean"]
           w == [pcFile EXCEPT !.size = Max({pcFile.size, n}),
                               !.data = [c \in Cells |-> IF c < n THEN m[c] ELSE pcFile.data[c]]]
<1>0. /\ PcTypeOK /\ FramesInHand /\ GenSeen /\ PcProcOf[t] \in PcProcs /\ th[t] \in PcThread /\ pcFile \in PcFile
      /\ th[t].frame \in PcFrames \cup {0} /\ pcFile.size \in Nat /\ n \in Nat /\ pcFile.gen \in Nat
    BY BooksFacts, CellFacts DEF PcThread
<1>1. /\ th[t].at = "save" /\ th[t].frame # 0 /\ th[t].gen <= pcFile.gen /\ PcGoes(t, r)
      /\ pcFile' = (IF ok THEN w ELSE pcFile)
      /\ UNCHANGED <<procVars, entry, ref>> /\ UNCHANGED <<mem, last, region, pte, truncs, calls>>
    BY <1>0 DEF Save, FramesInHand, GenSeen, Alone, procVars, Saving
<1>2. /\ r \in PcThread /\ r.at \in {"clean", "saved"} /\ r.frame = th[t].frame /\ r.kind = th[t].kind
      /\ r.gen = th[t].gen
    BY <1>0 DEF PcThread, PcPlaces, Backing
<1>3. m \in [Cells -> Nat] /\ \A c \in Cells : m[c] \in Nat /\ pcFile.data[c] \in Nat
    BY <1>0, <1>1, CellFacts
<1>4. Max({pcFile.size, n}) \in Nat
    BY <1>0 DEF Max
<1>5. pcFile' \in PcFile /\ pcFile'.pins = pcFile.pins /\ pcFile'.removed = pcFile.removed /\ pcFile'.gen = pcFile.gen
    BY <1>0, <1>1, <1>3, <1>4 DEF PcFile
<1> HIDE DEF r, n, m, w
<1>6. th' \in [PcThreads -> PcThread] /\ th'[t] = r /\ OthersStay(t, PcProcOf[t])
    BY <1>0, <1>1, <1>2, ThMoves
<1>7. PageTypes
    BY <1>0, <1>1, <1>5, <1>6 DEF PcTypeOK, PageTypes
<1> QED BY <1>0, <1>1, <1>2, <1>5, <1>6, <1>7, StillStep DEF Faulting, Backing, Saving

LEMMA TruncateBooks ==
    ASSUME PcAssumption, PcBooks, NEW t \in PcThreads, NEW n \in 0 .. 1, Truncate(t, n), raced' \in BOOLEAN
    PROVE  PcBooks'
<1> DEFINE r == [AtRest EXCEPT !.at = "cut"]
<1>0. /\ PcTypeOK /\ FramesInHand /\ GenSeen /\ PcProcOf[t] \in PcProcs /\ th[t] \in PcThread /\ pcFile \in PcFile
      /\ pcFile.gen \in Nat /\ calls \in Nat
    BY BooksFacts DEF PcTypeOK
<1>1. /\ th[t].at = "idle" /\ th[t].frame = 0 /\ PcGoes(t, r) /\ calls' = calls + 1
      /\ pcFile' = [pcFile EXCEPT !.size = n, !.data = [c \in Cells |-> IF c < n THEN pcFile.data[c] ELSE 0]]
      /\ UNCHANGED <<procVars, entry, ref>> /\ UNCHANGED <<mem, last, region, pte, truncs>>
    BY <1>0 DEF Truncate, Calls, FramesInHand, procVars
<1>2. /\ r \in PcThread /\ r.at = "cut" /\ r.frame = 0 /\ r.gen = 0
    BY DEF PcThread, PcPlaces, AtRest, Cells
<1>3. n \in Nat /\ [c \in Cells |-> IF c < n THEN pcFile.data[c] ELSE 0] \in [Cells -> Nat]
    BY <1>0, CellFacts
<1>4. pcFile' \in PcFile /\ pcFile'.pins = pcFile.pins /\ pcFile'.removed = pcFile.removed /\ pcFile'.gen = pcFile.gen
    BY <1>0, <1>1, <1>3 DEF PcFile
<1> HIDE DEF r
<1>5. th' \in [PcThreads -> PcThread] /\ th'[t] = r /\ OthersStay(t, PcProcOf[t])
    BY <1>0, <1>1, <1>2, ThMoves
<1>6. PageTypes
    BY <1>0, <1>1, <1>4, <1>5 DEF PcTypeOK, PageTypes
<1> QED BY <1>0, <1>1, <1>2, <1>4, <1>5, <1>6, StillStep DEF Faulting, Backing, Saving

\* The page after a write past the file's end
LEMMA GapFacts ==
    ASSUME PcAssumption, PcTypeOK, FramesInHand, NEW old \in Nat, NEW c
    PROVE  /\ file_gap(old, c) \in [PcFrames -> [Cells -> Nat]]
           /\ \A f \in PcFrames : f # entry.frame \/ ~entry.shared => file_gap(old, c)[f] = mem[f]
<1>1. entry.shared => entry.frame \in PcFrames
    BY DEF PcTypeOK, PcEntry, FramesInHand, NoEntry
<1>2. /\ mem \in [PcFrames -> [Cells -> Nat]]
      /\ \A f \in PcFrames : mem[f] \in [Cells -> Nat] /\ \A d \in Cells : mem[f][d] \in Nat
    BY CellFacts DEF PcTypeOK
<1>3. CASE entry.shared /\ c > old /\ 0 < old /\ old < PageEnd
    <2> DEFINE z == [d \in Cells |-> IF d < old THEN mem[entry.frame][d] ELSE 0]
    <2>1. z \in [Cells -> Nat]
        BY <1>1, <1>2, <1>3
    <2>2. file_gap(old, c) = [mem EXCEPT ![entry.frame] = z]
        BY <1>3 DEF file_gap
    <2> HIDE DEF z
    <2> QED BY <1>1, <1>2, <1>3, <2>1, <2>2
<1>4. CASE ~(entry.shared /\ c > old /\ 0 < old /\ old < PageEnd)
    BY <1>2, <1>4 DEF file_gap
<1> QED BY <1>3, <1>4

\* What a write() leaves: the file, and the threads
LEMMA WriteFacts ==
    ASSUME PcAssumption, PcBooks, NEW t \in PcThreads, NEW c \in Cells \cup {PageEnd}, Write(t, c)
    PROVE  /\ th' \in [PcThreads -> PcThread]
           /\ th'[t].at = "written" /\ th'[t].cell = c /\ th'[t].val = calls + 1 /\ th'[t].frame = 0 /\ th'[t].gen = 0
           /\ th'[t].older = IF c \in Cells THEN last[c] ELSE {}
           /\ \A u \in PcThreads : u # t =>
                /\ th'[u].at = th[u].at /\ th'[u].frame = th[u].frame /\ th'[u].kind = th[u].kind
                /\ th'[u].gen = th[u].gen /\ th'[u].cell = th[u].cell /\ th'[u].val = th[u].val
                /\ th'[u].len = th[u].len /\ th'[u].ok = th[u].ok
                /\ th'[u].older \subseteq th[u].older
                /\ th[u].at = "written" /\ pcFile.size <= th[u].cell /\ th[u].cell < c => th'[u].older = {}
                /\ ~(th[u].at = "written" /\ pcFile.size <= th[u].cell /\ th[u].cell < c)
                     => th'[u].older = th[u].older
           /\ pcFile' \in PcFile /\ pcFile'.pins = pcFile.pins /\ pcFile'.removed = pcFile.removed
           /\ pcFile'.gen = pcFile.gen
           /\ pcFile'.size = IF pcFile.size < c + 1 THEN c + 1 ELSE pcFile.size
           /\ \A d \in Cells : pcFile'.data[d] = IF d = c THEN calls + 1
                                                 ELSE IF pcFile.size <= d /\ d < c THEN 0 ELSE pcFile.data[d]
           /\ \A d \in Cells : last'[d] = IF pcFile.size <= d /\ d < c THEN {0} ELSE last[d]
           /\ last' \in [Cells -> SUBSET Nat]
<1> DEFINE gap == {d \in Cells : pcFile.size <= d /\ d < c}
           o == IF c \in Cells THEN last[c] ELSE {}
           r == [AtRest EXCEPT !.at = "written", !.cell = c, !.val = calls + 1, !.older = o]
<1>0. /\ PcTypeOK /\ pcFile \in PcFile /\ calls \in Nat /\ pcFile.size \in Nat /\ last \in [Cells -> SUBSET Nat]
      /\ \A u \in PcThreads : th[u] \in PcThread /\ th[u].cell \in Cells \cup {PageEnd}
      /\ \A d \in Cells : pcFile.data[d] \in Nat /\ d \in {0, 1}
      /\ c \in Nat /\ o \in SUBSET Nat
    BY BooksFacts, CellFacts DEF PcTypeOK, PcThread, Cells, PageEnd
<1>1. /\ th' = [u \in PcThreads |-> IF u = t THEN r
                                    ELSE IF th[u].at = "written" /\ th[u].cell \in gap THEN [th[u] EXCEPT !.older = {}]
                                    ELSE th[u]]
      /\ pcFile' = [pcFile EXCEPT !.size = Max({pcFile.size, c + 1}),
                  !.data = [d \in Cells |-> IF d = c THEN calls + 1 ELSE IF d \in gap THEN 0 ELSE pcFile.data[d]]]
      /\ last' = [d \in Cells |-> IF d \in gap THEN {0} ELSE last[d]]
    BY DEF Write
<1> HIDE DEF o
<1>2. /\ r \in PcThread /\ r.at = "written" /\ r.frame = 0 /\ r.gen = 0 /\ r.cell = c /\ r.val = calls + 1
      /\ r.older = o
    <2>1. "written" \in PcPlaces /\ calls + 1 \in Nat
        BY <1>0 DEF PcPlaces
    <2>2. r \in PcThread
        BY <1>0, <2>1 DEF PcThread, AtRest
    <2>3. r.at = "written" /\ r.frame = 0 /\ r.gen = 0 /\ r.cell = c /\ r.val = calls + 1 /\ r.older = o
        BY DEF AtRest
    <2> QED BY <2>2, <2>3
<1>3. ASSUME NEW d PROVE d \in gap <=> d \in Cells /\ pcFile.size <= d /\ d < c
    OBVIOUS
<1>4. Max({pcFile.size, c + 1}) = IF pcFile.size < c + 1 THEN c + 1 ELSE pcFile.size
    BY <1>0 DEF Max
<1> HIDE DEF r, gap
<1>5. th'[t] = r
    BY <1>1
<1>6. ASSUME NEW u \in PcThreads, u # t
      PROVE  /\ th'[u] \in PcThread
             /\ th'[u].at = th[u].at /\ th'[u].frame = th[u].frame /\ th'[u].kind = th[u].kind
             /\ th'[u].gen = th[u].gen /\ th'[u].cell = th[u].cell /\ th'[u].val = th[u].val
             /\ th'[u].len = th[u].len /\ th'[u].ok = th[u].ok
             /\ th'[u].older \subseteq th[u].older
             /\ th[u].at = "written" /\ pcFile.size <= th[u].cell /\ th[u].cell < c => th'[u].older = {}
             /\ ~(th[u].at = "written" /\ pcFile.size <= th[u].cell /\ th[u].cell < c) => th'[u].older = th[u].older
    <2>1. CASE th[u].at = "written" /\ th[u].cell \in gap
        <3>1. th'[u] = [th[u] EXCEPT !.older = {}]
            BY <1>1, <1>6, <2>1
        <3>2. pcFile.size <= th[u].cell /\ th[u].cell < c
            BY <1>3, <2>1
        <3> QED BY <1>0, <2>1, <3>1, <3>2 DEF PcThread
    <2>2. CASE ~(th[u].at = "written" /\ th[u].cell \in gap)
        <3>1. th'[u] = th[u]
            BY <1>1, <1>6, <2>2
        <3>2. ~(th[u].at = "written" /\ pcFile.size <= th[u].cell /\ th[u].cell < c)
            BY <1>0, <1>3, <2>2 DEF Cells, PageEnd
        <3> QED BY <1>0, <3>1, <3>2 DEF PcThread
    <2> QED BY <2>1, <2>2
<1>7. th' \in [PcThreads -> PcThread]
    <2>1. \A u \in PcThreads : th'[u] \in PcThread
        BY <1>2, <1>5, <1>6
    <2> QED BY <1>1, <2>1
<1>8. /\ pcFile' \in PcFile /\ pcFile'.pins = pcFile.pins /\ pcFile'.removed = pcFile.removed
      /\ pcFile'.gen = pcFile.gen
      /\ pcFile'.size = IF pcFile.size < c + 1 THEN c + 1 ELSE pcFile.size
      /\ pcFile'.data = [d \in Cells |-> IF d = c THEN calls + 1 ELSE IF d \in gap THEN 0 ELSE pcFile.data[d]]
    <2>1. [d \in Cells |-> IF d = c THEN calls + 1 ELSE IF d \in gap THEN 0 ELSE pcFile.data[d]] \in [Cells -> Nat]
        BY <1>0
    <2>2. Max({pcFile.size, c + 1}) \in Nat
        BY <1>0, <1>4
    <2> QED BY <1>0, <1>1, <1>4, <2>1, <2>2 DEF PcFile
<1>9. \A d \in Cells : pcFile'.data[d] = IF d = c THEN calls + 1
                                         ELSE IF pcFile.size <= d /\ d < c THEN 0 ELSE pcFile.data[d]
    BY <1>3, <1>8
<1>10. /\ \A d \in Cells : last'[d] = IF pcFile.size <= d /\ d < c THEN {0} ELSE last[d]
       /\ last' \in [Cells -> SUBSET Nat]
    BY <1>0, <1>1, <1>3
<1> QED BY <1>2, <1>5, <1>6, <1>7, <1>8, <1>9, <1>10 DEF o

LEMMA WriteBooks ==
    ASSUME PcAssumption, PcBooks, NEW t \in PcThreads, NEW c \in Cells \cup {PageEnd}, Write(t, c), raced' \in BOOLEAN
    PROVE  PcBooks'
<1>0. /\ PcTypeOK /\ FramesInHand /\ GenSeen /\ PcProcOf[t] \in PcProcs /\ th[t] \in PcThread /\ pcFile \in PcFile
      /\ pcFile.gen \in Nat /\ calls \in Nat /\ pcFile.size \in Nat
    BY BooksFacts, CellFacts DEF PcTypeOK
<1>1. /\ th[t].at = "idle" /\ th[t].frame = 0 /\ calls' = calls + 1
      /\ mem' = file_gap(pcFile.size, c)
      /\ UNCHANGED <<procVars, entry, ref>> /\ UNCHANGED <<region, pte, truncs>>
    BY <1>0 DEF Write, Calls, FramesInHand, procVars
<1>2. /\ th' \in [PcThreads -> PcThread] /\ th'[t].at = "written" /\ th'[t].frame = 0 /\ th'[t].gen = 0
      /\ pcFile' \in PcFile /\ pcFile'.pins = pcFile.pins /\ pcFile'.removed = pcFile.removed
      /\ pcFile'.gen = pcFile.gen /\ last' \in [Cells -> SUBSET Nat]
    BY WriteFacts
<1>3. OthersStay(t, PcProcOf[t])
    BY <1>1, WriteFacts DEF OthersStay
<1>4. mem' \in [PcFrames -> [Cells -> Nat]]
    BY <1>0, <1>1, GapFacts
<1>5. PageTypes
    BY <1>0, <1>1, <1>2, <1>4 DEF PcTypeOK, PageTypes
<1> QED BY <1>0, <1>1, <1>2, <1>3, <1>5, StillStep DEF Faulting, Backing, Saving

\* An entry that is kept or dropped, its reference with it
LEMMA EntryDrops ==
    ASSUME PcAssumption, PcBooks, NEW goes \in BOOLEAN,
           entry' = (IF goes THEN NoEntry ELSE entry), ref' = (IF goes THEN Unref(ref, entry.frame) ELSE ref)
    PROVE  /\ entry' \in PcEntry /\ entry'.frame \in {entry.frame, 0}
           /\ (entry'.frame = 0 => entry' = NoEntry) /\ (entry'.frame # 0 => entry' = entry)
           /\ (entry'.dirty => entry'.shared)
           /\ ref' \in [PcFrames -> Int]
           /\ \A f \in PcFrames : ref'[f] + One(entry.frame = f) = ref[f] + One(entry'.frame = f)
<1>0. /\ entry \in PcEntry /\ entry.frame \in PcFrames \cup {0} /\ ref \in [PcFrames -> Nat] /\ 0 \notin PcFrames
      /\ (entry.frame = 0 => entry = NoEntry) /\ (entry.dirty => entry.shared) /\ ref \in [PcFrames -> Int]
      /\ \A f \in PcFrames : ref[f] \in Int
    BY DEF PcAssumption, PcBooks, PcTypeOK, PcEntry, FramesInHand
<1>1. NoEntry \in PcEntry /\ NoEntry.frame = 0 /\ ~NoEntry.dirty
    BY DEF NoEntry, PcEntry
<1>2. /\ Unref(ref, entry.frame) \in [PcFrames -> Int]
      /\ \A g \in PcFrames : Unref(ref, entry.frame)[g] = ref[g] - One(entry.frame = g)
    BY <1>0, UnrefFacts
<1>3. CASE goes
    <2>1. entry' = NoEntry /\ ref' = Unref(ref, entry.frame)
        BY <1>3
    <2>2. \A f \in PcFrames : ref'[f] + One(entry.frame = f) = ref[f] + One(entry'.frame = f)
        <3>1. ASSUME NEW f \in PcFrames PROVE ref'[f] + One(entry.frame = f) = ref[f] + One(entry'.frame = f)
            <4>1. ref'[f] = ref[f] - One(entry.frame = f) /\ entry'.frame # f /\ ref[f] \in Int
                BY <1>0, <1>1, <1>2, <2>1
            <4> QED BY <4>1 DEF One
        <3> QED BY <3>1
    <2> QED BY <1>0, <1>1, <1>2, <2>1, <2>2
<1>4. CASE ~goes
    BY <1>0, <1>1, <1>4
<1> QED BY <1>3, <1>4

\* A step that may drop the entry and leaves nothing in thread t's hands
LEMMA DropStep ==
    ASSUME PcAssumption, PcBooks, NEW t \in PcThreads, OthersStay(t, PcProcOf[t]), UNCHANGED procVars,
           PageTypes, NEW goes \in BOOLEAN,
           entry' = (IF goes THEN NoEntry ELSE entry), ref' = (IF goes THEN Unref(ref, entry.frame) ELSE ref),
           pcFile'.pins = pcFile.pins, pcFile'.removed = pcFile.removed, pcFile'.gen >= pcFile.gen,
           th'[t].gen <= pcFile'.gen, th'[t].frame = th[t].frame,
           \/ th[t].at \in {"written", "cut"} /\ th'[t].at = "idle"
           \/ th[t].at = "saved" /\ th'[t].at = "clean" /\ th'[t].kind = th[t].kind
    PROVE  PcBooks'
<1>0. /\ PcTypeOK /\ FramesInHand /\ SharedIsDirty /\ PcProcOf[t] \in PcProcs
      /\ ref \in [PcFrames -> Nat] /\ \A f \in PcFrames : ref[f] \in Nat
      /\ UNCHANGED <<region, pte, users, mapper, seen>> /\ UNCHANGED procVars
    BY BooksFacts DEF procVars
<1>1. /\ entry'.frame \in {entry.frame, 0} /\ (entry'.frame = 0 => entry' = NoEntry) /\ (entry'.frame # 0 => entry' = entry)
      /\ (entry'.dirty => entry'.shared) /\ ref' \in [PcFrames -> Int]
      /\ \A f \in PcFrames : ref'[f] + One(entry.frame = f) = ref[f] + One(entry'.frame = f)
    BY EntryDrops
<1>2. FramesInHand'
    <2>1. th'[t].at \in {"idle", "clean"} /\ (th'[t].at = "idle" => th'[t].frame = 0) /\ (th'[t].at = "clean" => th'[t].frame # 0)
        BY <1>0 DEF FramesInHand, Saving
    <2> QED BY <1>0, <1>1, <2>1, HandsKept DEF Saving
<1>3. SharedIsDirty'
    BY <1>0, <1>1, DirtyKept
<1>4. \A f \in PcFrames : ref'[f] + One(entry.frame = f) + One(th[t].frame = f)
                       = ref[f] + One(entry'.frame = f) + One(th'[t].frame = f)
    BY <1>1
<1>5. /\ th[t].at # "wait" /\ th'[t].at # "wait" /\ th[t].at \notin Faulting /\ th'[t].at \notin Faulting
      /\ th'[t].at \in Backing <=> th[t].at \in Backing
      /\ th[t].at \in Faulting \cup Backing => th'[t].kind = th[t].kind
    BY DEF Faulting, Backing
<1> QED BY <1>0, <1>1, <1>2, <1>3, <1>4, <1>5, PageStep

\* The file's generation goes up
LEMMA GenerationUp ==
    ASSUME PcTypeOK, pcFile' = [pcFile EXCEPT !.gen = pcFile.gen + 1]
    PROVE  /\ pcFile' \in PcFile /\ pcFile'.pins = pcFile.pins /\ pcFile'.removed = pcFile.removed
           /\ pcFile'.gen = pcFile.gen + 1 /\ pcFile'.size = pcFile.size /\ pcFile'.data = pcFile.data
           /\ pcFile.gen \in Nat
BY DEF PcTypeOK, PcFile

LEMMA RestFacts == AtRest \in PcThread /\ AtRest.at = "idle" /\ AtRest.frame = 0 /\ AtRest.gen = 0
<1>1. "idle" \in PcPlaces /\ 0 \in Cells \cup {PageEnd}
    BY DEF PcPlaces, Cells
<1> QED BY <1>1 DEF AtRest, PcThread

LEMMA SavedBooks ==
    ASSUME PcAssumption, PcBooks, NEW t \in PcThreads, Saved(t), raced' \in BOOLEAN
    PROVE  PcBooks'
<1> DEFINE r == [th[t] EXCEPT !.at = "clean"]
<1>0. /\ PcTypeOK /\ GenSeen /\ PcProcOf[t] \in PcProcs /\ th[t] \in PcThread /\ entry \in PcEntry
      /\ th[t].gen \in Nat /\ (~entry.shared) \in BOOLEAN
    BY BooksFacts DEF PcEntry
<1>1. /\ th[t].at = "saved" /\ PcGoes(t, r) /\ th[t].gen <= pcFile.gen
      /\ pcFile' = [pcFile EXCEPT !.gen = pcFile.gen + 1]
      /\ entry' = (IF ~entry.shared THEN NoEntry ELSE entry)
      /\ ref' = (IF ~entry.shared THEN Unref(ref, entry.frame) ELSE ref)
      /\ UNCHANGED procVars /\ UNCHANGED <<mem, last, region, pte, truncs, calls>>
    BY <1>0 DEF Saved, Moves, GenSeen, Alone, procVars
<1>2. r \in PcThread /\ r.at = "clean" /\ r.frame = th[t].frame /\ r.kind = th[t].kind /\ r.gen = th[t].gen
    BY <1>0 DEF PcThread, PcPlaces, Backing
<1> HIDE DEF r
<1>3. th' \in [PcThreads -> PcThread] /\ th'[t] = r /\ OthersStay(t, PcProcOf[t])
    BY <1>0, <1>1, <1>2, ThMoves
<1>4. /\ pcFile' \in PcFile /\ pcFile'.pins = pcFile.pins /\ pcFile'.removed = pcFile.removed
      /\ pcFile'.gen = pcFile.gen + 1 /\ pcFile.gen \in Nat
    BY <1>0, <1>1, GenerationUp
<1>5. entry' \in PcEntry
    BY <1>0, <1>1, EntryDrops
<1>6. PageTypes
    BY <1>0, <1>1, <1>3, <1>4, <1>5 DEF PcTypeOK, PageTypes
<1>7. pcFile'.gen >= pcFile.gen /\ th'[t].gen <= pcFile'.gen
    BY <1>0, <1>1, <1>2, <1>3, <1>4
<1> QED BY <1>0, <1>1, <1>2, <1>3, <1>4, <1>6, <1>7, DropStep

LEMMA WrittenBooks ==
    ASSUME PcAssumption, PcBooks, NEW t \in PcThreads, Written(t), raced' \in BOOLEAN
    PROVE  PcBooks'
<1> DEFINE c == th[t].cell
<1>0. /\ PcTypeOK /\ FramesInHand /\ PcProcOf[t] \in PcProcs /\ th[t] \in PcThread /\ entry \in PcEntry
      /\ (~entry.shared) \in BOOLEAN /\ th[t].val \in Nat /\ th[t].older \in SUBSET Nat
      /\ (entry.shared => entry.frame \in PcFrames)
    BY BooksFacts DEF PcEntry, PcThread, FramesInHand, NoEntry
<1>1. /\ th[t].at = "written" /\ PcGoes(t, AtRest) /\ th[t].frame = 0
      /\ pcFile' = [pcFile EXCEPT !.gen = pcFile.gen + 1]
      /\ entry' = (IF ~entry.shared THEN NoEntry ELSE entry)
      /\ ref' = (IF ~entry.shared THEN Unref(ref, entry.frame) ELSE ref)
      /\ mem' = (IF entry.shared /\ c \in Cells THEN [mem EXCEPT ![entry.frame][c] = th[t].val] ELSE mem)
      /\ last' = (IF c \in Cells THEN [last EXCEPT ![c] = (last[c] \ th[t].older) \cup {th[t].val}] ELSE last)
      /\ UNCHANGED procVars /\ UNCHANGED <<region, pte, truncs, calls>>
    BY <1>0 DEF Written, FramesInHand, Alone, procVars
<1>2. th' \in [PcThreads -> PcThread] /\ th'[t] = AtRest /\ OthersStay(t, PcProcOf[t])
    BY <1>0, <1>1, RestFacts, ThMoves
<1>3. /\ pcFile' \in PcFile /\ pcFile'.pins = pcFile.pins /\ pcFile'.removed = pcFile.removed
      /\ pcFile'.gen = pcFile.gen + 1 /\ pcFile.gen \in Nat
    BY <1>0, <1>1, GenerationUp
<1>4. entry' \in PcEntry
    BY <1>0, <1>1, EntryDrops
<1>5. mem' \in [PcFrames -> [Cells -> Nat]]
    BY <1>0, <1>1 DEF PcTypeOK
<1>6. last' \in [Cells -> SUBSET Nat]
    BY <1>0, <1>1 DEF PcTypeOK
<1>7. PageTypes
    BY <1>0, <1>1, <1>2, <1>3, <1>4, <1>5, <1>6 DEF PcTypeOK, PageTypes
<1>8. pcFile'.gen >= pcFile.gen /\ th'[t].gen <= pcFile'.gen /\ th'[t].frame = th[t].frame /\ th'[t].at = "idle"
    BY <1>1, <1>2, <1>3, RestFacts
<1> QED BY <1>0, <1>1, <1>2, <1>3, <1>7, <1>8, DropStep

LEMMA CutBooks ==
    ASSUME PcAssumption, PcBooks, NEW t \in PcThreads, Cut(t), raced' \in BOOLEAN
    PROVE  PcBooks'
<1> DEFINE n == pcFile.size
           goes == ~entry.shared \/ n = 0
           z == [c \in Cells |-> IF c < n THEN mem[entry.frame][c] ELSE 0]
<1>0. /\ PcTypeOK /\ FramesInHand /\ PcProcOf[t] \in PcProcs /\ th[t] \in PcThread /\ entry \in PcEntry
      /\ goes \in BOOLEAN /\ truncs \in Nat
      /\ (~goes => entry.frame \in PcFrames)
    BY BooksFacts DEF PcEntry, PcTypeOK, FramesInHand, NoEntry
<1>1. /\ th[t].at = "cut" /\ PcGoes(t, AtRest) /\ th[t].frame = 0
      /\ pcFile' = [pcFile EXCEPT !.gen = pcFile.gen + 1]
      /\ entry' = (IF goes THEN NoEntry ELSE entry)
      /\ ref' = (IF goes THEN Unref(ref, entry.frame) ELSE ref)
      /\ mem' = (IF goes THEN mem ELSE [mem EXCEPT ![entry.frame] = z])
      /\ truncs' \in Nat
      /\ UNCHANGED procVars /\ UNCHANGED <<last, region, pte, calls>>
    BY <1>0 DEF Cut, FramesInHand, procVars
<1>2. th' \in [PcThreads -> PcThread] /\ th'[t] = AtRest /\ OthersStay(t, PcProcOf[t])
    BY <1>0, <1>1, RestFacts, ThMoves
<1>3. /\ pcFile' \in PcFile /\ pcFile'.pins = pcFile.pins /\ pcFile'.removed = pcFile.removed
      /\ pcFile'.gen = pcFile.gen + 1 /\ pcFile.gen \in Nat
    BY <1>0, <1>1, GenerationUp
<1>4. entry' \in PcEntry
    BY <1>0, <1>1, EntryDrops
<1>5. ~goes => z \in [Cells -> Nat]
    BY <1>0, CellFacts
<1> HIDE DEF goes, z
<1>6. mem' \in [PcFrames -> [Cells -> Nat]]
    BY <1>0, <1>1, <1>5 DEF PcTypeOK
<1>7. PageTypes
    BY <1>0, <1>1, <1>2, <1>3, <1>4, <1>6 DEF PcTypeOK, PageTypes
<1>8. pcFile'.gen >= pcFile.gen /\ th'[t].gen <= pcFile'.gen /\ th'[t].frame = th[t].frame /\ th'[t].at = "idle"
    BY <1>1, <1>2, <1>3, RestFacts
<1> QED BY <1>0, <1>1, <1>2, <1>3, <1>7, <1>8, DropStep

\* With two owners, the cache and thread t, nobody else has the page
LEMMA TwoOwners ==
    ASSUME PcAssumption, PcBooks, NEW t \in PcThreads, th[t].frame # 0, entry.frame = th[t].frame, ref[th[t].frame] = 2
    PROVE  /\ \A p \in PcProcs : pte[p] # th[t].frame
           /\ \A u \in PcThreads : u # t => th[u].frame # th[t].frame
<1> DEFINE f == th[t].frame
           m == Cardinality(MappedBy(f))
           h == Cardinality(Holding(f))
<1>1. f \in PcFrames
    BY BooksFacts
<1>2. ref[f] = 1 + m + h
    BY <1>1 DEF PcBooks, RefsCounted, Owners, MappedBy, Holding
<1>3. m \in Nat /\ h \in Nat /\ h > 0
    BY CountFacts
<1>4. m = 0 /\ h = 1
    <2> HIDE DEF m, h, f
    <2>1. ref[f] = 2
        BY DEF f
    <2> QED BY <1>2, <1>3, <2>1
<1>5. IsFiniteSet(Holding(f)) /\ t \in Holding(f)
    <2>1. Holding(f) \in SUBSET PcThreads /\ t \in Holding(f)
        BY DEF Holding
    <2> QED BY <2>1, FS_Subset DEF PcAssumption
<1>6. PICK x : Holding(f) = {x}
    BY <1>4, <1>5, FS_Singleton
<1>7. \A u \in PcThreads : u # t => th[u].frame # f
    BY <1>5, <1>6 DEF Holding
<1>8. \A p \in PcProcs : pte[p] # f
    BY <1>4, CountFacts
<1> QED BY <1>7, <1>8

LEMMA CollectBooks ==
    ASSUME PcAssumption, PcBooks, NEW t \in PcThreads, Collect(t), raced' \in BOOLEAN
    PROVE  PcBooks'
<1>0. /\ PcTypeOK /\ FramesInHand /\ SharedIsDirty /\ GenSeen /\ PcProcOf[t] \in PcProcs /\ th[t] \in PcThread
      /\ entry \in PcEntry /\ pcFile.gen \in Nat /\ ref \in [PcFrames -> Nat] /\ 0 \notin PcFrames
      /\ (entry.dirty => entry.frame \in PcFrames) /\ ref \in [PcFrames -> Int] /\ \A f \in PcFrames : ref[f] \in Int
    BY BooksFacts DEF FramesInHand, NoEntry
<1>1. /\ th[t].at = "collect" /\ th[t].frame = 0 /\ th[t].gen <= pcFile.gen
      /\ UNCHANGED procVars /\ UNCHANGED <<pcFile, entry, mem, last, region, pte, truncs, calls>>
    BY <1>0 DEF Collect, FramesInHand, GenSeen, Alone, procVars
<1>2. CASE entry.dirty
    <2> DEFINE r == [th[t] EXCEPT !.at = "measure", !.frame = entry.frame]
    <2>1. PcGoes(t, r) /\ ref' = Ref(ref, entry.frame)
        BY <1>2 DEF Collect
    <2>2. r \in PcThread /\ r.at = "measure" /\ r.frame = entry.frame /\ r.kind = th[t].kind /\ r.gen = th[t].gen
        BY <1>0, <1>2 DEF PcThread, PcPlaces, Backing
    <2> HIDE DEF r
    <2>3. th' \in [PcThreads -> PcThread] /\ th'[t] = r /\ OthersStay(t, PcProcOf[t])
        BY <1>0, <1>1, <2>1, <2>2, ThMoves
    <2>4. PageTypes
        BY <1>0, <1>1, <2>3 DEF PcTypeOK, PageTypes
    <2>5. ref' \in [PcFrames -> Int] /\ \A f \in PcFrames : ref'[f] = ref[f] + One(entry.frame = f)
        BY <1>0, <1>2, <2>1, RefFacts
    <2>6. \A f \in PcFrames : ref'[f] + One(entry.frame = f) + One(th[t].frame = f)
                           = ref[f] + One(entry'.frame = f) + One(th'[t].frame = f)
        BY <1>0, <1>1, <2>2, <2>3, <2>5 DEF One
    <2>7. FramesInHand'
        BY <1>0, <1>1, <1>2, <2>2, <2>3, HandsKept DEF Saving, FramesInHand
    <2>8. SharedIsDirty'
        BY <1>0, <1>1, <2>2, <2>3, DirtyKept
    <2> QED BY <1>0, <1>1, <2>2, <2>3, <2>4, <2>5, <2>6, <2>7, <2>8, PageStep DEF Faulting, Backing
<1>3. CASE ~entry.dirty
    <2> DEFINE r == [th[t] EXCEPT !.at = "done"]
    <2>1. PcGoes(t, r) /\ ref' = ref
        BY <1>3 DEF Collect, Moves
    <2>2. r \in PcThread /\ r.at = "done" /\ r.frame = 0 /\ r.kind = th[t].kind /\ r.gen = th[t].gen
        BY <1>0, <1>1 DEF PcThread, PcPlaces, Backing
    <2> HIDE DEF r
    <2>3. th' \in [PcThreads -> PcThread] /\ th'[t] = r /\ OthersStay(t, PcProcOf[t])
        BY <1>0, <1>1, <2>1, <2>2, ThMoves
    <2>4. PageTypes
        BY <1>0, <1>1, <2>3 DEF PcTypeOK, PageTypes
    <2> QED BY <1>0, <1>1, <2>1, <2>2, <2>3, <2>4, StillStep DEF Faulting, Backing, Saving
<1> QED BY <1>2, <1>3

LEMMA CleanBooks ==
    ASSUME PcAssumption, PcBooks, NEW t \in PcThreads, Clean(t), raced' \in BOOLEAN
    PROVE  PcBooks'
<1> DEFINE r == [th[t] EXCEPT !.at = "done", !.frame = 0]
           cleans == entry.frame = th[t].frame /\ CleanAfter(t)
<1>0. /\ PcTypeOK /\ FramesInHand /\ SharedIsDirty /\ GenSeen /\ PcProcOf[t] \in PcProcs /\ th[t] \in PcThread
      /\ entry \in PcEntry /\ pcFile.gen \in Nat /\ 0 \notin PcFrames /\ th[t].frame \in PcFrames \cup {0}
      /\ ref \in [PcFrames -> Int] /\ \A f \in PcFrames : ref[f] \in Int
    BY BooksFacts
<1>1. /\ th[t].at = "clean" /\ th[t].frame # 0 /\ th[t].gen <= pcFile.gen /\ PcGoes(t, r)
      /\ ref' = Unref(ref, th[t].frame)
      /\ entry' = (IF cleans THEN [entry EXCEPT !.dirty = FALSE] ELSE entry)
      /\ UNCHANGED procVars /\ UNCHANGED <<pcFile, mem, last, region, pte, truncs, calls>>
    BY <1>0 DEF Clean, FramesInHand, GenSeen, Alone, procVars, Saving
<1>2. r \in PcThread /\ r.at = "done" /\ r.frame = 0 /\ r.kind = th[t].kind /\ r.gen = th[t].gen
    BY <1>0 DEF PcThread, PcPlaces, Backing
<1>3. /\ entry' \in PcEntry /\ entry'.frame = entry.frame /\ entry'.shared = entry.shared
      /\ (~cleans => entry' = entry) /\ (entry'.dirty => entry.dirty) /\ (entry'.frame = 0 => entry' = NoEntry)
    <2>1. cleans => entry.frame # 0
        BY <1>1
    <2> HIDE DEF cleans
    <2> QED BY <1>0, <1>1, <2>1 DEF PcEntry, FramesInHand
<1>4. cleans => /\ \A p \in PcProcs : pte[p] # entry.frame
                /\ \A u \in PcThreads : u # t => th[u].frame # entry.frame
    BY <1>1, TwoOwners DEF CleanAfter
<1> HIDE DEF r, cleans
<1>5. th' \in [PcThreads -> PcThread] /\ th'[t] = r /\ OthersStay(t, PcProcOf[t])
    BY <1>0, <1>1, <1>2, ThMoves
<1>6. PageTypes
    BY <1>0, <1>1, <1>3, <1>5 DEF PcTypeOK, PageTypes
<1>7. ref' \in [PcFrames -> Int] /\ \A f \in PcFrames : ref'[f] = ref[f] - One(th[t].frame = f)
    BY <1>0, <1>1, UnrefFacts
<1>8. \A f \in PcFrames : ref'[f] + One(entry.frame = f) + One(th[t].frame = f)
                       = ref[f] + One(entry'.frame = f) + One(th'[t].frame = f)
    BY <1>0, <1>1, <1>2, <1>3, <1>5, <1>7 DEF One
<1>9. FramesInHand'
    BY <1>0, <1>1, <1>2, <1>3, <1>5, HandsKept DEF Saving, FramesInHand
<1>10. SharedIsDirty'
    <2>1. CASE cleans
        BY <1>0, <1>1, <1>2, <1>3, <1>4, <1>5, <2>1 DEF SharedIsDirty, OthersStay
    <2>2. CASE ~cleans
        BY <1>0, <1>1, <1>2, <1>3, <1>5, <2>2, DirtyKept
    <2> QED BY <2>1, <2>2
<1> QED BY <1>0, <1>1, <1>2, <1>5, <1>6, <1>7, <1>8, <1>9, <1>10, PageStep DEF Faulting, Backing

LEMMA InsertBooks ==
    ASSUME PcAssumption, PcBooks, NEW t \in PcThreads, Insert(t), raced' \in BOOLEAN
    PROVE  PcBooks'
<1> DEFINE p == PcProcOf[t]
           f == th[t].frame
<1>0. /\ PcTypeOK /\ FramesInHand /\ SharedIsDirty /\ GenSeen /\ p \in PcProcs /\ th[t] \in PcThread
      /\ entry \in PcEntry /\ entry.frame \in PcFrames \cup {0} /\ pcFile.gen \in Nat /\ 0 \notin PcFrames
      /\ ref \in [PcFrames -> Int] /\ \A g \in PcFrames : ref[g] \in Int
    BY BooksFacts
<1>1. /\ th[t].at = "insert" /\ f # 0 /\ f \in PcFrames /\ th[t].gen <= pcFile.gen /\ entry.frame # f
      /\ \A q \in PcProcs : pte[q] # f
      /\ \A u \in PcThreads : u # t => th[u].frame # f
      /\ UNCHANGED procVars /\ UNCHANGED <<pcFile, mem, last, region, pte, truncs, calls>>
    BY <1>0, BooksFacts DEF Insert, FramesInHand, GenSeen, Alone, procVars
<1>2. ASSUME NEW r \in PcThread, PcGoes(t, r), r.kind = th[t].kind, r.gen = th[t].gen, r.at \in {"find", "install"},
             r.frame \in {0, f, entry.frame}, r.at = "find" => r.frame = 0,
             entry' \in PcEntry, entry'.frame \in {entry.frame, f}, entry'.frame = 0 => entry' = NoEntry,
             entry'.dirty => entry'.shared,
             entry'.frame # 0 /\ th[t].kind = "shared" /\ r.frame = entry'.frame => entry'.shared /\ entry'.dirty,
             entry'.frame = entry.frame /\ entry.shared /\ entry.dirty => entry'.shared /\ entry'.dirty,
             ref' \in [PcFrames -> Int],
             \A g \in PcFrames : ref'[g] + One(entry.frame = g) + One(f = g)
                             = ref[g] + One(entry'.frame = g) + One(r.frame = g)
      PROVE  PcBooks'
    <2>1. th' \in [PcThreads -> PcThread] /\ th'[t] = r /\ OthersStay(t, p)
        BY <1>0, <1>1, <1>2, ThMoves
    <2>2. PageTypes
        BY <1>0, <1>1, <1>2, <2>1 DEF PcTypeOK, PageTypes
    <2>3. FramesInHand'
        BY <1>0, <1>1, <1>2, <2>1, HandsKept DEF Saving
    <2>4. SharedIsDirty'
        <3>1. CASE entry'.frame = entry.frame
            BY <1>0, <1>1, <1>2, <2>1, <3>1, DirtyKept
        <3>2. CASE entry'.frame = f
            BY <1>0, <1>1, <1>2, <2>1, <3>2 DEF SharedIsDirty, OthersStay
        <3> QED BY <1>2, <3>1, <3>2
    <2>5. /\ pcFile'.gen >= pcFile.gen /\ th[t].at \in Faulting /\ r.at \in Faulting
          /\ th[t].at \notin Backing /\ r.at \notin Backing
        BY <1>0, <1>1, <1>2 DEF Faulting, Backing
    <2>6. /\ th'[t].gen <= pcFile'.gen /\ th[t].at # "wait" /\ th'[t].at # "wait" /\ th'[t].kind = th[t].kind
          /\ th'[t].at \in Faulting /\ th'[t].at \notin Backing
          /\ \A g \in PcFrames : ref'[g] + One(entry.frame = g) + One(th[t].frame = g)
                             = ref[g] + One(entry'.frame = g) + One(th'[t].frame = g)
        BY <1>1, <1>2, <2>1, <2>5
    <2>7. pcFile'.pins = pcFile.pins /\ pcFile'.removed = pcFile.removed /\ ref' \in [PcFrames -> Int]
        BY <1>1, <1>2
    <2> QED BY <1>1, <2>1, <2>2, <2>3, <2>4, <2>5, <2>6, <2>7, PageStep
<1>3. \A x \in PcThread : /\ [x EXCEPT !.at = "install"] \in PcThread
                          /\ \A g \in PcFrames \cup {0} : [x EXCEPT !.at = "install", !.frame = g] \in PcThread
    BY DEF PcThread, PcPlaces, Faulting
<1>4. CASE entry.frame # 0
    <2> DEFINE r == [th[t] EXCEPT !.at = "install", !.frame = entry.frame]
    <2>1. /\ PcGoes(t, r) /\ ref' = Ref(Unref(ref, f), entry.frame) /\ entry' = mark_shared(entry, th[t].kind)
        BY <1>4 DEF Insert
    <2>2. r \in PcThread /\ r.at = "install" /\ r.frame = entry.frame /\ r.kind = th[t].kind /\ r.gen = th[t].gen
        BY <1>0, <1>3 DEF PcThread
    <2>3. /\ Unref(ref, f) \in [PcFrames -> Int] /\ \A g \in PcFrames : Unref(ref, f)[g] = ref[g] - One(f = g)
        BY <1>0, <1>1, UnrefFacts
    <2>4. ref' \in [PcFrames -> Int] /\ \A g \in PcFrames : ref'[g] = Unref(ref, f)[g] + One(entry.frame = g)
        BY <1>0, <1>4, <2>1, <2>3, RefFacts
    <2>5. /\ entry' \in PcEntry /\ entry'.frame = entry.frame
          /\ (entry'.dirty => entry'.shared) /\ (entry.shared => entry'.shared) /\ (entry.dirty => entry'.dirty)
          /\ (th[t].kind = "shared" => entry'.shared /\ entry'.dirty)
        BY <1>0, <1>4, <2>1, MarkFacts DEF FramesInHand
    <2> HIDE DEF r
    <2>6. ASSUME NEW g \in PcFrames
          PROVE  ref'[g] + One(entry.frame = g) + One(f = g) = ref[g] + One(entry'.frame = g) + One(r.frame = g)
        <3>1. ref[g] \in Int /\ ref'[g] = ref[g] - One(f = g) + One(entry.frame = g)
              /\ r.frame = entry.frame /\ entry'.frame = entry.frame
            BY <1>0, <2>2, <2>3, <2>4, <2>5
        <3> QED BY <3>1 DEF One
    <2> QED BY <1>2, <1>4, <2>1, <2>2, <2>4, <2>5, <2>6
<1>5. CASE entry.frame = 0 /\ Current(t)
    <2> DEFINE r == [th[t] EXCEPT !.at = "install"]
               e == [NoEntry EXCEPT !.frame = f]
    <2>1. /\ PcGoes(t, r) /\ ref' = Ref(ref, f) /\ entry' = mark_shared(e, th[t].kind)
        BY <1>5 DEF Insert, Moves
    <2>2. r \in PcThread /\ r.at = "install" /\ r.frame = f /\ r.kind = th[t].kind /\ r.gen = th[t].gen
        BY <1>0, <1>3 DEF PcThread
    <2>3. ref' \in [PcFrames -> Int] /\ \A g \in PcFrames : ref'[g] = ref[g] + One(f = g)
        BY <1>0, <1>1, <2>1, RefFacts
    <2>4. e \in PcEntry /\ e.frame = f /\ ~e.dirty
        BY <1>1 DEF PcEntry, NoEntry
    <2> HIDE DEF e
    <2>5. /\ entry' \in PcEntry /\ entry'.frame = f
          /\ (entry'.dirty => entry'.shared) /\ (th[t].kind = "shared" => entry'.shared /\ entry'.dirty)
        BY <1>1, <2>1, <2>4, MarkFacts
    <2> HIDE DEF r
    <2>6. ASSUME NEW g \in PcFrames
          PROVE  ref'[g] + One(entry.frame = g) + One(f = g) = ref[g] + One(entry'.frame = g) + One(r.frame = g)
        <3>1. ref[g] \in Int /\ ref'[g] = ref[g] + One(f = g) /\ r.frame = f /\ entry'.frame = f /\ entry.frame # g
            BY <1>0, <1>5, <2>2, <2>3, <2>5
        <3> QED BY <3>1 DEF One
    <2> QED BY <1>1, <1>2, <1>5, <2>1, <2>2, <2>3, <2>5, <2>6
<1>6. CASE entry.frame = 0 /\ ~Current(t) /\ th[t].kind = "private"
    <2> DEFINE r == [th[t] EXCEPT !.at = "install"]
    <2>1. PcGoes(t, r) /\ ref' = ref /\ entry' = entry
        BY <1>6 DEF Insert, Moves
    <2>2. r \in PcThread /\ r.at = "install" /\ r.frame = f /\ r.kind = th[t].kind /\ r.gen = th[t].gen
        BY <1>0, <1>3 DEF PcThread
    <2> HIDE DEF r
    <2>3. \A g \in PcFrames : ref'[g] + One(entry.frame = g) + One(f = g) = ref[g] + One(entry'.frame = g) + One(r.frame = g)
        BY <2>1, <2>2
    <2> QED BY <1>0, <1>2, <1>6, <2>1, <2>2, <2>3 DEF FramesInHand
<1>7. CASE entry.frame = 0 /\ ~Current(t) /\ th[t].kind # "private"
    <2> DEFINE again == th[t].tries + 1
               r == [th[t] EXCEPT !.at = IF again < PcTries THEN "find" ELSE "install", !.frame = 0, !.tries = again]
    <2>1. PcGoes(t, r) /\ ref' = Unref(ref, f) /\ entry' = entry
        BY <1>7 DEF Insert
    <2>2. /\ r \in PcThread /\ r.at \in {"find", "install"} /\ r.frame = 0 /\ r.kind = th[t].kind /\ r.gen = th[t].gen
        <3> DEFINE a == IF again < PcTries THEN "find" ELSE "install"
        <3>1. a \in PcPlaces /\ a \in {"find", "install"}
            BY DEF PcPlaces, Faulting
        <3>2. again \in Nat
            BY <1>0 DEF PcThread
        <3> HIDE DEF a, again
        <3>3. [th[t] EXCEPT !.at = a, !.frame = 0, !.tries = again] \in PcThread
            BY <1>0, <3>1, <3>2 DEF PcThread
        <3>4. /\ [th[t] EXCEPT !.at = a, !.frame = 0, !.tries = again].at = a
              /\ [th[t] EXCEPT !.at = a, !.frame = 0, !.tries = again].frame = 0
              /\ [th[t] EXCEPT !.at = a, !.frame = 0, !.tries = again].kind = th[t].kind
              /\ [th[t] EXCEPT !.at = a, !.frame = 0, !.tries = again].gen = th[t].gen
            BY <1>0 DEF PcThread
        <3> QED BY <3>1, <3>3, <3>4 DEF a
    <2> HIDE DEF r
    <2>3. ref' \in [PcFrames -> Int] /\ \A g \in PcFrames : ref'[g] = ref[g] - One(f = g)
        BY <1>0, <1>1, <2>1, UnrefFacts
    <2>4. ASSUME NEW g \in PcFrames
          PROVE  ref'[g] + One(entry.frame = g) + One(f = g) = ref[g] + One(entry'.frame = g) + One(r.frame = g)
        <3>1. ref[g] \in Int /\ ref'[g] = ref[g] - One(f = g) /\ r.frame # g /\ entry'.frame = entry.frame
            BY <1>0, <2>1, <2>2, <2>3
        <3> QED BY <3>1 DEF One
    <2> QED BY <1>0, <1>2, <1>7, <2>1, <2>2, <2>3, <2>4 DEF FramesInHand
<1> QED BY <1>4, <1>5, <1>6, <1>7

\* mmap
LEMMA MapBooks ==
    ASSUME PcAssumption, PcBooks, NEW t \in PcThreads, NEW kind \in {"private", "shared"}, Map(t, kind), raced' \in BOOLEAN
    PROVE  PcBooks'
<1> DEFINE p == PcProcOf[t]
<1>0. /\ PcTypeOK /\ RefsCounted /\ FramesInHand /\ SharedIsDirty /\ MapperHolds /\ PinsCounted /\ UsersCounted /\ GenSeen
      /\ p \in PcProcs /\ pcFile \in PcFile /\ pcFile.pins \in Nat /\ calls \in Nat /\ 0 \notin PcThreads
      /\ region \in [PcProcs -> {"none", "private", "shared"}]
    BY BooksFacts DEF PcTypeOK, PcAssumption
<1>1. /\ th[t].at = "idle" /\ mapper[p] = 0 /\ region[p] = "none" /\ ~pcFile.removed /\ calls' = calls + 1
      /\ region' = [region EXCEPT ![p] = kind]
      /\ pcFile' = [pcFile EXCEPT !.pins = pcFile.pins + 1]
      /\ UNCHANGED <<entry, mem, ref, last, pte, users, mapper, seen, truncs, th>>
    BY DEF Map, Calls
<1>2. /\ pcFile' \in PcFile /\ pcFile'.pins = pcFile.pins + 1 /\ pcFile'.removed = pcFile.removed
      /\ pcFile'.gen = pcFile.gen
    BY <1>0, <1>1 DEF PcFile
<1>3. /\ region' \in [PcProcs -> {"none", "private", "shared"}] /\ region'[p] = kind
      /\ \A q \in PcProcs : q # p => region'[q] = region[q]
    BY <1>0, <1>1
<1>4. OthersStay(t, p) /\ Follows(t, p)
    BY <1>0, <1>1, <1>3, CountsFollow DEF OthersStay
<1>5. RefsCounted' /\ ref' \in [PcFrames -> Nat]
    BY <1>0, <1>1, <1>4, RefsKept
<1>6. PcTypeOK'
    BY <1>0, <1>1, <1>2, <1>3 DEF PcTypeOK
<1>7. FramesInHand'
    BY <1>0, <1>1, <1>3 DEF FramesInHand
<1>8. SharedIsDirty'
    BY <1>0, <1>1, <1>3 DEF SharedIsDirty, FramesInHand
<1>9. \A u \in PcThreads : PcProcOf[u] = p => th[u].at \notin Backing \cup {"wait"}
    BY <1>0, <1>1 DEF MapperHolds
<1>10. \A u \in PcThreads : PcProcOf[u] \in PcProcs
    BY DEF PcAssumption
<1>11. MapperHolds'
    BY <1>0, <1>1, <1>3, <1>9, <1>10 DEF MapperHolds
<1>12. PinsCounted'
    <2>1. Cardinality(Mapping)' = Cardinality(Mapping) + 1
        BY <1>1, <1>3, <1>4, CountFacts DEF Follows, One
    <2>2. Cardinality(LettingGo)' = Cardinality(LettingGo)
        BY <1>1 DEF LettingGo
    <2>3. Cardinality(Mapping) \in Nat /\ Cardinality(LettingGo) \in Nat
        BY CountFacts
    <2> QED BY <1>0, <1>1, <1>2, <2>1, <2>2, <2>3 DEF PinsCounted
<1>13. UsersCounted'
    <2>1. ASSUME NEW q PROVE FaultsOf(q)' = FaultsOf(q)
        BY <1>1 DEF FaultsOf
    <2>2. ASSUME NEW u \in PcThreads, th[u].at \in Faulting PROVE PcProcOf[u] # p
        <3>1. /\ th[u].kind \in {"private", "shared"}
              /\ \/ region[PcProcOf[u]] = th[u].kind
                 \/ \E w \in PcThreads : PcProcOf[w] = PcProcOf[u] /\ th[w].at = "wait"
            BY <1>0, <2>2 DEF UsersCounted
        <3> QED BY <1>1, <1>9, <3>1
    <2> QED BY <1>0, <1>1, <1>3, <1>10, <2>1, <2>2 DEF UsersCounted
<1>14. GenSeen'
    BY <1>0, <1>1, <1>2 DEF GenSeen
<1> QED BY <1>5, <1>6, <1>7, <1>8, <1>11, <1>12, <1>13, <1>14 DEF PcBooks

\* A touch of a page that is not there
LEMMA TouchBooks ==
    ASSUME PcAssumption, PcBooks, NEW t \in PcThreads, Touch(t), raced' \in BOOLEAN
    PROVE  PcBooks'
<1> DEFINE p == PcProcOf[t]
           r == [AtRest EXCEPT !.at = "find", !.kind = region[p]]
<1>0. /\ PcTypeOK /\ RefsCounted /\ FramesInHand /\ SharedIsDirty /\ MapperHolds /\ PinsCounted /\ UsersCounted /\ GenSeen
      /\ p \in PcProcs /\ pcFile.gen \in Nat /\ users \in [PcProcs -> Nat] /\ region[p] \in {"none", "private", "shared"}
    BY BooksFacts DEF PcTypeOK
<1>1. /\ th[t].at = "idle" /\ th[t].frame = 0 /\ region[p] # "none"
      /\ users' = [users EXCEPT ![p] = users[p] + 1] /\ PcGoes(t, r)
      /\ UNCHANGED <<pcFile, entry, mem, ref, last, region, pte, mapper, seen, truncs, calls>>
    BY <1>0 DEF Touch, pageVars, Alone, FramesInHand
<1>2. r \in PcThread /\ r.at = "find" /\ r.frame = 0 /\ r.kind = region[p] /\ r.gen = 0
    <2>1. "find" \in PcPlaces /\ 0 \in Cells \cup {PageEnd} /\ region[p] \in {"none", "private", "shared", "sync"}
        BY <1>0 DEF PcPlaces, Cells, Faulting
    <2> QED BY <2>1 DEF PcThread, AtRest
<1> HIDE DEF r
<1>3. th' \in [PcThreads -> PcThread] /\ th'[t] = r /\ OthersStay(t, p)
    BY <1>0, <1>1, <1>2, ThMoves
<1>4. Follows(t, p)
    BY <1>0, <1>3, CountsFollow
<1>5. RefsCounted' /\ ref' \in [PcFrames -> Nat]
    BY <1>0, <1>1, <1>2, <1>3, <1>4, RefsKept
<1>6. PcTypeOK'
    BY <1>0, <1>1, <1>3 DEF PcTypeOK
<1>7. FramesInHand'
    BY <1>0, <1>1, <1>2, <1>3, HandsKept DEF FramesInHand, Saving
<1>8. SharedIsDirty'
    BY <1>0, <1>1, <1>2, <1>3, DirtyKept
<1>9. MapperHolds'
    BY <1>0, <1>1, <1>2, <1>3, MapperKept DEF Backing
<1>10. PinsCounted'
    BY <1>0, <1>1, <1>2, <1>3, <1>4, PinsKept DEF LetsGo, Backing
<1>11. UsersCounted'
    <2>1. ASSUME NEW q \in PcProcs PROVE users'[q] = Cardinality(FaultsOf(q))'
        <3>1. /\ Cardinality(FaultsOf(q))' \in Nat /\ Cardinality(FaultsOf(q)) \in Nat
              /\ Cardinality(FaultsOf(q))' + One(p = q /\ th[t].at \in Faulting)
                 = Cardinality(FaultsOf(q)) + One(p = q /\ th'[t].at \in Faulting)
            BY <1>4, CountFacts DEF Follows
        <3>2. th[t].at \notin Faulting /\ th'[t].at \in Faulting
            BY <1>1, <1>2, <1>3 DEF Faulting
        <3>3. users[q] = Cardinality(FaultsOf(q)) /\ users'[q] = IF p = q THEN users[q] + 1 ELSE users[q]
            BY <1>0, <1>1 DEF UsersCounted
        <3> QED BY <3>1, <3>2, <3>3 DEF One
    <2>2. ASSUME NEW u \in PcThreads, th'[u].at \in Faulting
          PROVE  /\ th'[u].kind \in {"private", "shared"}
                 /\ \/ region'[PcProcOf[u]] = th'[u].kind
                    \/ \E w \in PcThreads : PcProcOf[w] = PcProcOf[u] /\ th'[w].at = "wait"
        <3>1. CASE u = t
            BY <1>0, <1>1, <1>2, <1>3, <3>1
        <3>2. CASE u # t
            <4>1. th[u].at \in Faulting /\ th'[u].kind = th[u].kind
                BY <1>3, <2>2, <3>2 DEF OthersStay
            <4>2. \A w \in PcThreads : th[w].at = "wait" => th'[w].at = "wait"
                BY <1>1, <1>3 DEF OthersStay
            <4> QED BY <1>0, <1>1, <4>1, <4>2 DEF UsersCounted
        <3> QED BY <3>1, <3>2
    <2> QED BY <2>1, <2>2 DEF UsersCounted
<1>12. GenSeen'
    BY <1>0, <1>1, <1>2, <1>3, GenKept
<1> QED BY <1>5, <1>6, <1>7, <1>8, <1>9, <1>10, <1>11, <1>12 DEF PcBooks

\* The kind of a fault is that of the mapping, while that is there
LEMMA FaultKind ==
    ASSUME PcAssumption, PcBooks, NEW t \in PcThreads, th[t].at \in Faulting, region[PcProcOf[t]] # "none"
    PROVE  region[PcProcOf[t]] = th[t].kind
BY DEF PcBooks, UsersCounted, MapperHolds

\* A fault's end
LEMMA InstallBooks ==
    ASSUME PcAssumption, PcBooks, NEW t \in PcThreads, Install(t), raced' \in BOOLEAN
    PROVE  PcBooks'
<1> DEFINE p == PcProcOf[t]
           fits == th[t].frame # 0 /\ region[p] # "none" /\ pte[p] = 0
<1>0. /\ PcTypeOK /\ RefsCounted /\ FramesInHand /\ SharedIsDirty /\ MapperHolds /\ PinsCounted /\ UsersCounted /\ GenSeen
      /\ p \in PcProcs /\ pcFile.gen \in Nat /\ users \in [PcProcs -> Nat] /\ pte \in [PcProcs -> PcFrames \cup {0}]
      /\ th[t].frame \in PcFrames \cup {0} /\ 0 \notin PcFrames /\ entry.frame \in PcFrames \cup {0}
      /\ ref \in [PcFrames -> Int] /\ \A f \in PcFrames : ref[f] \in Int
    BY BooksFacts DEF PcTypeOK
<1>1. /\ th[t].at = "install" /\ PcGoes(t, AtRest)
      /\ users' = [users EXCEPT ![p] = users[p] - 1]
      /\ pte' = (IF fits THEN [pte EXCEPT ![p] = th[t].frame] ELSE pte)
      /\ ref' = (IF fits THEN ref ELSE Unref(ref, th[t].frame))
      /\ UNCHANGED <<pcFile, entry, mem, last, region, mapper, seen, truncs, calls>>
    BY DEF Install, Alone
<1>2. /\ pte' \in [PcProcs -> PcFrames \cup {0}]
      /\ pte'[p] = IF fits THEN th[t].frame ELSE pte[p]
      /\ \A q \in PcProcs : q # p => pte'[q] = pte[q]
    BY <1>0, <1>1
<1>3. th' \in [PcThreads -> PcThread] /\ th'[t] = AtRest /\ OthersStay(t, p)
    BY <1>0, <1>1, <1>2, RestFacts, ThMoves
<1>4. Follows(t, p)
    BY <1>0, <1>3, CountsFollow
<1>5. RefsCounted' /\ ref' \in [PcFrames -> Nat]
    <2>1. /\ Unref(ref, th[t].frame) \in [PcFrames -> Int]
          /\ \A g \in PcFrames : Unref(ref, th[t].frame)[g] = ref[g] - One(th[t].frame = g)
        BY <1>0, UnrefFacts
    <2>2. ref' \in [PcFrames -> Int]
        BY <1>0, <1>1, <2>1
    <2>3. ASSUME NEW f \in PcFrames
          PROVE  ref'[f] + One(entry.frame = f) + One(pte[p] = f) + One(th[t].frame = f)
                 = ref[f] + One(entry'.frame = f) + One(pte'[p] = f) + One(th'[t].frame = f)
        <3>1. th'[t].frame # f /\ entry'.frame = entry.frame /\ ref[f] \in Int
            BY <1>0, <1>1, <1>3, RestFacts
        <3>2. CASE fits
            <4>1. ref'[f] = ref[f] /\ pte[p] # f /\ pte'[p] = th[t].frame
                BY <1>0, <1>1, <1>2, <3>2
            <4> QED BY <3>1, <4>1 DEF One
        <3>3. CASE ~fits
            <4>1. ref'[f] = ref[f] - One(th[t].frame = f) /\ pte'[p] = pte[p]
                BY <1>1, <1>2, <2>1, <3>3
            <4> QED BY <3>1, <4>1 DEF One
        <3> QED BY <3>2, <3>3
    <2> QED BY <1>0, <1>4, <2>2, <2>3, RefsFollow
<1>6. UsersCounted' /\ users' \in [PcProcs -> Nat]
    <2>1. ASSUME NEW q \in PcProcs PROVE users'[q] = Cardinality(FaultsOf(q))' /\ users'[q] \in Nat
        <3>1. /\ Cardinality(FaultsOf(q))' \in Nat /\ Cardinality(FaultsOf(q)) \in Nat
              /\ Cardinality(FaultsOf(q))' + One(p = q /\ th[t].at \in Faulting)
                 = Cardinality(FaultsOf(q)) + One(p = q /\ th'[t].at \in Faulting)
            BY <1>4, CountFacts DEF Follows
        <3>2. th[t].at \in Faulting /\ th'[t].at \notin Faulting
            BY <1>1, <1>3, RestFacts DEF Faulting
        <3>3. users[q] = Cardinality(FaultsOf(q)) /\ users'[q] = IF p = q THEN users[q] - 1 ELSE users[q]
            BY <1>0, <1>1 DEF UsersCounted
        <3> QED BY <3>1, <3>2, <3>3 DEF One
    <2>2. ASSUME NEW u \in PcThreads, th'[u].at \in Faulting
          PROVE  /\ th'[u].kind \in {"private", "shared"}
                 /\ \/ region'[PcProcOf[u]] = th'[u].kind
                    \/ \E w \in PcThreads : PcProcOf[w] = PcProcOf[u] /\ th'[w].at = "wait"
        <3>1. u # t
            BY <1>3, <2>2, RestFacts DEF Faulting
        <3>2. th[u].at \in Faulting /\ th'[u].kind = th[u].kind
            BY <1>3, <2>2, <3>1 DEF OthersStay
        <3>3. \A w \in PcThreads : th[w].at = "wait" => th'[w].at = "wait"
            BY <1>1, <1>3 DEF OthersStay
        <3> QED BY <1>0, <1>1, <3>2, <3>3 DEF UsersCounted
    <2>3. users' \in [PcProcs -> Nat]
        BY <1>0, <1>1, <2>1
    <2> QED BY <2>1, <2>2, <2>3 DEF UsersCounted
<1>7. PcTypeOK'
    BY <1>0, <1>1, <1>2, <1>3, <1>5, <1>6 DEF PcTypeOK
<1>8. FramesInHand'
    <2>1. ASSUME NEW u \in PcThreads, u # t
          PROVE  /\ th[u].at \in {"read", "insert"} => th[u].frame # th[t].frame /\ th[u].frame # 0
                 /\ th'[u].at = th[u].at /\ th'[u].frame = th[u].frame
        BY <1>0, <1>3, <2>1 DEF FramesInHand, OthersStay
    <2>2. th'[t].at = "idle" /\ th'[t].frame = 0
        BY <1>3, RestFacts
    <2>3. ASSUME NEW u \in PcThreads
          PROVE  /\ th'[u].at \in {"idle", "find", "wait", "collect", "done", "written", "cut"} => th'[u].frame = 0
                 /\ th'[u].at \in {"read", "insert"} \cup Saving => th'[u].frame # 0
                 /\ th'[u].at \in {"read", "insert"} =>
                      /\ entry'.frame # th'[u].frame
                      /\ \A q \in PcProcs : pte'[q] # th'[u].frame
                      /\ \A w \in PcThreads : w # u => th'[w].frame # th'[u].frame
        <3>1. CASE u = t
            BY <2>2, <3>1 DEF Saving
        <3>2. CASE u # t
            BY <1>0, <1>1, <1>2, <2>1, <2>2, <3>2 DEF FramesInHand
        <3> QED BY <3>1, <3>2
    <2>4. \A q \in PcProcs : region'[q] = "none" => pte'[q] = 0
        BY <1>0, <1>1, <1>2 DEF FramesInHand
    <2> QED BY <1>0, <1>1, <2>3, <2>4 DEF FramesInHand
<1>9. SharedIsDirty'
    <2>1. fits => region[p] = th[t].kind
        BY <1>1, FaultKind DEF Faulting
    <2>2. th'[t].at = "idle"
        BY <1>3, RestFacts
    <2> QED BY <1>0, <1>1, <1>2, <1>3, <2>1, <2>2 DEF SharedIsDirty, OthersStay
<1>10. MapperHolds'
    BY <1>0, <1>1, <1>3, RestFacts, MapperKept DEF Backing
<1>11. PinsCounted'
    BY <1>0, <1>1, <1>3, <1>4, RestFacts, PinsKept DEF LetsGo, Backing
<1>12. GenSeen'
    BY <1>0, <1>1, <1>3, RestFacts, GenKept
<1> QED BY <1>5, <1>6, <1>7, <1>8, <1>9, <1>10, <1>11, <1>12 DEF PcBooks

\* A page table lets go of its page: the frames and the marks after it
LEMMA LetGoFacts ==
    ASSUME PcAssumption, PcBooks, NEW t \in PcThreads, OthersStay(t, PcProcOf[t]), UNCHANGED entry,
           pte' = [pte EXCEPT ![PcProcOf[t]] = 0], ref' = Unref(ref, pte[PcProcOf[t]]),
           region'[PcProcOf[t]] \in {"none", region[PcProcOf[t]]},
           th[t].frame = 0, th'[t].frame = 0, th'[t].at \notin {"read", "insert", "install"} \cup Saving
    PROVE  /\ RefsCounted' /\ ref' \in [PcFrames -> Nat] /\ FramesInHand' /\ SharedIsDirty'
           /\ pte' \in [PcProcs -> PcFrames \cup {0}] /\ Follows(t, PcProcOf[t])
<1> DEFINE p == PcProcOf[t]
<1>0. /\ PcTypeOK /\ RefsCounted /\ FramesInHand /\ SharedIsDirty
      /\ p \in PcProcs /\ pte \in [PcProcs -> PcFrames \cup {0}] /\ 0 \notin PcFrames
      /\ ref \in [PcFrames -> Int] /\ \A f \in PcFrames : ref[f] \in Int
    BY BooksFacts DEF PcTypeOK
<1>1. /\ pte' \in [PcProcs -> PcFrames \cup {0}] /\ pte'[p] = 0 /\ pte[p] \in PcFrames \cup {0}
      /\ \A q \in PcProcs : q # p => pte'[q] = pte[q]
    BY <1>0
<1>2. Follows(t, p)
    BY <1>0, CountsFollow
<1>3. RefsCounted' /\ ref' \in [PcFrames -> Nat]
    <2>1. ref' \in [PcFrames -> Int] /\ \A g \in PcFrames : ref'[g] = ref[g] - One(pte[p] = g)
        BY <1>0, <1>1, UnrefFacts
    <2>2. ASSUME NEW f \in PcFrames
          PROVE  ref'[f] + One(entry.frame = f) + One(pte[p] = f) + One(th[t].frame = f)
                 = ref[f] + One(entry'.frame = f) + One(pte'[p] = f) + One(th'[t].frame = f)
        <3>1. /\ ref'[f] = ref[f] - One(pte[p] = f) /\ ref[f] \in Int /\ entry'.frame = entry.frame /\ pte'[p] # f
              /\ th'[t].frame = th[t].frame
            BY <1>0, <1>1, <2>1
        <3> QED BY <3>1 DEF One
    <2> QED BY <1>0, <1>2, <2>1, <2>2, RefsFollow
<1>4. FramesInHand'
    <2>1. ASSUME NEW u \in PcThreads
          PROVE  /\ th'[u].at \in {"idle", "find", "wait", "collect", "done", "written", "cut"} => th'[u].frame = 0
                 /\ th'[u].at \in {"read", "insert"} \cup Saving => th'[u].frame # 0
                 /\ th'[u].at \in {"read", "insert"} =>
                      /\ entry'.frame # th'[u].frame
                      /\ \A q \in PcProcs : pte'[q] # th'[u].frame
                      /\ \A w \in PcThreads : w # u => th'[w].frame # th'[u].frame
        <3>1. CASE u = t
            BY <3>1
        <3>2. CASE u # t
            BY <1>0, <1>1, <3>2 DEF FramesInHand, OthersStay
        <3> QED BY <3>1, <3>2
    <2>2. \A q \in PcProcs : region'[q] = "none" => pte'[q] = 0
        BY <1>0, <1>1 DEF FramesInHand, OthersStay
    <2> QED BY <1>0, <2>1, <2>2 DEF FramesInHand
<1>5. SharedIsDirty'
    BY <1>0, <1>1 DEF SharedIsDirty, OthersStay
<1> QED BY <1>1, <1>2, <1>3, <1>4, <1>5

\* munmap
LEMMA UnmapBooks ==
    ASSUME PcAssumption, PcBooks, NEW t \in PcThreads, Unmap(t), raced' \in BOOLEAN
    PROVE  PcBooks'
<1> DEFINE p == PcProcOf[t]
           r == [AtRest EXCEPT !.at = "wait", !.kind = region[p]]
<1>0. /\ PcTypeOK /\ FramesInHand /\ MapperHolds /\ PinsCounted /\ UsersCounted /\ GenSeen
      /\ p \in PcProcs /\ pcFile.gen \in Nat /\ calls \in Nat /\ 0 \notin PcThreads
      /\ region \in [PcProcs -> {"none", "private", "shared"}] /\ mapper \in [PcProcs -> PcThreads \cup {0}]
      /\ region[p] \in {"none", "private", "shared"}
    BY BooksFacts DEF PcTypeOK, PcAssumption
<1>1. /\ th[t].at = "idle" /\ th[t].frame = 0 /\ mapper[p] = 0 /\ region[p] # "none" /\ calls' = calls + 1
      /\ mapper' = [mapper EXCEPT ![p] = t] /\ region' = [region EXCEPT ![p] = "none"]
      /\ pte' = [pte EXCEPT ![p] = 0] /\ ref' = Unref(ref, pte[p]) /\ PcGoes(t, r)
      /\ UNCHANGED <<pcFile, entry, mem, last, users, seen, truncs>>
    BY <1>0 DEF Unmap, Calls, FramesInHand
<1>2. r \in PcThread /\ r.at = "wait" /\ r.frame = 0 /\ r.kind = region[p] /\ r.gen = 0
    <2>1. "wait" \in PcPlaces /\ 0 \in Cells \cup {PageEnd} /\ region[p] \in {"none", "private", "shared", "sync"}
        BY <1>0 DEF PcPlaces, Cells
    <2> QED BY <2>1 DEF PcThread, AtRest
<1> HIDE DEF r
<1>3. /\ region' \in [PcProcs -> {"none", "private", "shared"}] /\ region'[p] = "none"
      /\ \A q \in PcProcs : q # p => region'[q] = region[q]
      /\ mapper' \in [PcProcs -> PcThreads \cup {0}] /\ mapper'[p] = t
      /\ \A q \in PcProcs : q # p => mapper'[q] = mapper[q]
    BY <1>0, <1>1
<1>4. th' \in [PcThreads -> PcThread] /\ th'[t] = r /\ OthersStay(t, p)
    <2>1. \A q \in PcProcs : q # p => pte'[q] = pte[q] /\ region'[q] = region[q]
        BY <1>0, <1>1, <1>3 DEF PcTypeOK
    <2> QED BY <1>0, <1>1, <1>2, <2>1, ThMoves
<1>5. /\ RefsCounted' /\ ref' \in [PcFrames -> Nat] /\ FramesInHand' /\ SharedIsDirty'
      /\ pte' \in [PcProcs -> PcFrames \cup {0}] /\ Follows(t, p)
    BY <1>1, <1>2, <1>3, <1>4, LetGoFacts DEF Saving
<1>6. PcTypeOK'
    BY <1>0, <1>1, <1>3, <1>4, <1>5 DEF PcTypeOK
<1>7. \A u \in PcThreads : PcProcOf[u] \in PcProcs /\ (PcProcOf[u] = p => th[u].at \notin Backing \cup {"wait"})
    BY <1>0, <1>1 DEF MapperHolds, PcAssumption
<1>8. MapperHolds'
    <2>1. ASSUME NEW u \in PcThreads, th'[u].at \in Backing \cup {"wait"}
          PROVE  /\ mapper'[PcProcOf[u]] = u
                 /\ th'[u].at = "wait" \/ th'[u].kind = "shared" => region'[PcProcOf[u]] = "none"
                 /\ th'[u].at \in Backing => th'[u].kind \in {"shared", "sync"}
                 /\ th'[u].kind = "sync" => region'[PcProcOf[u]] = "shared"
                 /\ th'[u].at = "wait" => th'[u].kind # "sync"
        <3>1. CASE u = t
            BY <1>0, <1>2, <1>3, <1>4, <3>1 DEF Backing
        <3>2. CASE u # t
            BY <1>0, <1>3, <1>4, <1>7, <2>1, <3>2 DEF MapperHolds, OthersStay
        <3> QED BY <3>1, <3>2
    <2> QED BY <2>1 DEF MapperHolds
<1>9. PinsCounted'
    <2>1. ~LetsGo(th[t]) /\ LetsGo(th'[t])
        BY <1>1, <1>2, <1>4 DEF LetsGo, Backing
    <2>2. Cardinality(Mapping)' + 1 = Cardinality(Mapping)
        BY <1>1, <1>3, <1>5, CountFacts DEF Follows, One
    <2>3. Cardinality(LettingGo)' = Cardinality(LettingGo) + 1
        BY <1>5, <2>1, CountFacts DEF Follows, One
    <2>4. Cardinality(Mapping) \in Nat /\ Cardinality(LettingGo) \in Nat /\ Cardinality(Mapping)' \in Nat
        BY <1>5, CountFacts DEF Follows
    <2> QED BY <1>0, <1>1, <2>2, <2>3, <2>4 DEF PinsCounted
<1>10. UsersCounted'
    <2>1. ASSUME NEW q \in PcProcs PROVE users'[q] = Cardinality(FaultsOf(q))'
        <3>1. /\ Cardinality(FaultsOf(q))' \in Nat /\ Cardinality(FaultsOf(q)) \in Nat
              /\ Cardinality(FaultsOf(q))' + One(p = q /\ th[t].at \in Faulting)
                 = Cardinality(FaultsOf(q)) + One(p = q /\ th'[t].at \in Faulting)
            BY <1>5, CountFacts DEF Follows
        <3>2. th[t].at \notin Faulting /\ th'[t].at \notin Faulting
            BY <1>1, <1>2, <1>4 DEF Faulting
        <3>3. users[q] = Cardinality(FaultsOf(q)) /\ users'[q] = users[q]
            BY <1>0, <1>1 DEF UsersCounted
        <3> QED BY <3>1, <3>2, <3>3 DEF One
    <2>2. ASSUME NEW u \in PcThreads, th'[u].at \in Faulting
          PROVE  /\ th'[u].kind \in {"private", "shared"}
                 /\ \/ region'[PcProcOf[u]] = th'[u].kind
                    \/ \E w \in PcThreads : PcProcOf[w] = PcProcOf[u] /\ th'[w].at = "wait"
        <3>1. u # t
            BY <1>2, <1>4, <2>2 DEF Faulting
        <3>2. th[u].at \in Faulting /\ th'[u].kind = th[u].kind
            BY <1>4, <2>2, <3>1 DEF OthersStay
        <3>3. CASE PcProcOf[u] = p
            BY <1>0, <1>2, <1>4, <3>2, <3>3 DEF UsersCounted
        <3>4. CASE PcProcOf[u] # p
            <4>1. \A w \in PcThreads : th[w].at = "wait" => th'[w].at = "wait"
                BY <1>1, <1>4 DEF OthersStay
            <4>2. region'[PcProcOf[u]] = region[PcProcOf[u]]
                BY <1>3, <1>7, <3>4
            <4> QED BY <1>0, <3>2, <4>1, <4>2 DEF UsersCounted
        <3> QED BY <3>3, <3>4
    <2> QED BY <2>1, <2>2 DEF UsersCounted
<1>11. GenSeen'
    BY <1>0, <1>1, <1>2, <1>4, GenKept
<1> QED BY <1>5, <1>6, <1>8, <1>9, <1>10, <1>11 DEF PcBooks

\* region_revalidate
LEMMA RevalidateBooks ==
    ASSUME PcAssumption, PcBooks, NEW t \in PcThreads, Revalidate(t), raced' \in BOOLEAN
    PROVE  PcBooks'
<1> DEFINE p == PcProcOf[t]
           past == region[p] = "shared" /\ pcFile.size = 0
<1>0. /\ PcTypeOK /\ RefsCounted /\ FramesInHand /\ SharedIsDirty /\ MapperHolds /\ PinsCounted /\ UsersCounted /\ GenSeen
      /\ p \in PcProcs
    BY BooksFacts
<1>1. /\ th[t].at = "idle" /\ th[t].frame = 0
      /\ seen' = [seen EXCEPT ![p] = truncs]
      /\ pte' = (IF past THEN [pte EXCEPT ![p] = 0] ELSE pte)
      /\ ref' = (IF past THEN Unref(ref, pte[p]) ELSE ref)
      /\ UNCHANGED <<pcFile, entry, mem, last, region, users, mapper, th, truncs, calls>>
    BY <1>0 DEF Revalidate, FramesInHand, Alone
<1>2. OthersStay(t, p)
    BY <1>0, <1>1 DEF OthersStay, PcTypeOK
<1>3. /\ RefsCounted' /\ ref' \in [PcFrames -> Nat] /\ FramesInHand' /\ SharedIsDirty'
      /\ pte' \in [PcProcs -> PcFrames \cup {0}]
    <2>1. CASE past
        BY <1>1, <1>2, <2>1, LetGoFacts DEF Saving
    <2>2. CASE ~past
        <3>1. UNCHANGED <<pte, ref, entry, region, th>>
            BY <1>1, <2>2
        <3>2. RefsCounted' = RefsCounted /\ FramesInHand' = FramesInHand /\ SharedIsDirty' = SharedIsDirty
            BY <3>1 DEF RefsCounted, Owners, FramesInHand, SharedIsDirty
        <3> QED BY <1>0, <3>1, <3>2 DEF PcTypeOK
    <2> QED BY <2>1, <2>2
<1>4. seen' \in [PcProcs -> Nat]
    BY <1>0, <1>1 DEF PcTypeOK
<1>5. PcTypeOK'
    BY <1>0, <1>1, <1>3, <1>4 DEF PcTypeOK
<1>6. MapperHolds' /\ PinsCounted' /\ UsersCounted' /\ GenSeen'
    BY <1>0, <1>1 DEF MapperHolds, PinsCounted, UsersCounted, GenSeen, Mapping, LettingGo, FaultsOf
<1> QED BY <1>3, <1>5, <1>6 DEF PcBooks

\* What the entry's end leaves, when no thread moves
LEMMA EntryGone ==
    ASSUME PcAssumption, PcBooks, entry' = NoEntry, ref' = Unref(ref, entry.frame), UNCHANGED <<th, procVars>>,
           pcFile' \in PcFile, pcFile'.pins = pcFile.pins, pcFile'.removed => pcFile.pins = 0, pcFile'.gen >= pcFile.gen,
           UNCHANGED <<mem, last, truncs, calls>>, raced' \in BOOLEAN
    PROVE  PcBooks'
<1>0. /\ PcTypeOK /\ RefsCounted /\ FramesInHand /\ SharedIsDirty /\ MapperHolds /\ PinsCounted /\ UsersCounted /\ GenSeen
      /\ UNCHANGED <<region, pte, users, mapper, seen>> /\ entry' = NoEntry /\ UNCHANGED th
    BY DEF PcBooks, procVars
<1>1. /\ entry' \in PcEntry /\ ref' \in [PcFrames -> Int]
      /\ \A f \in PcFrames : ref'[f] + One(entry.frame = f) = ref[f] + One(entry'.frame = f)
    BY EntryDrops
<1>2. NoEntry.frame = 0 /\ ~NoEntry.dirty
    BY DEF NoEntry
<1>3. ASSUME NEW f \in PcFrames PROVE ref'[f] = Owners(f)' /\ ref'[f] \in Nat
    <2> DEFINE m == Cardinality(MappedBy(f))
               h == Cardinality(Holding(f))
    <2>1. ref[f] = One(entry.frame = f) + m + h
        BY <1>0 DEF RefsCounted, Owners, MappedBy, Holding, One
    <2>2. Owners(f)' = One(entry'.frame = f) + m + h
        BY <1>0 DEF Owners, MappedBy, Holding, One
    <2>3. m \in Nat /\ h \in Nat /\ ref'[f] \in Int /\ entry'.frame # f
        BY <1>0, <1>1, <1>2, CountFacts DEF PcAssumption
    <2> HIDE DEF m, h
    <2>4. ref'[f] + One(entry.frame = f) = ref[f] + One(entry'.frame = f)
        BY <1>1
    <2> QED BY <2>1, <2>2, <2>3, <2>4 DEF One
<1>4. RefsCounted' /\ ref' \in [PcFrames -> Nat]
    BY <1>1, <1>3 DEF RefsCounted
<1>5. PcTypeOK'
    BY <1>0, <1>1, <1>4 DEF PcTypeOK
<1>6. FramesInHand'
    BY <1>0, <1>2 DEF FramesInHand, Saving
<1>7. SharedIsDirty'
    BY <1>0, <1>2 DEF SharedIsDirty
<1>8. MapperHolds' /\ UsersCounted'
    BY <1>0 DEF MapperHolds, UsersCounted, FaultsOf
<1>9. PinsCounted'
    <2>1. Mapping' = Mapping /\ LettingGo' = LettingGo
        BY <1>0 DEF Mapping, LettingGo
    <2> QED BY <1>0, <2>1 DEF PinsCounted
<1>10. GenSeen'
    <2>1. ASSUME NEW u \in PcThreads PROVE th'[u].gen <= pcFile'.gen
        <3>1. th[u].gen \in Nat /\ pcFile.gen \in Nat /\ pcFile'.gen \in Nat /\ th[u].gen <= pcFile.gen
            BY <1>0 DEF PcTypeOK, PcThread, PcFile, GenSeen
        <3> QED BY <1>0, <3>1
    <2> QED BY <2>1 DEF GenSeen
<1> QED BY <1>4, <1>5, <1>6, <1>7, <1>8, <1>9, <1>10 DEF PcBooks

LEMMA ReclaimBooks ==
    ASSUME PcAssumption, PcBooks, Reclaim, raced' \in BOOLEAN
    PROVE  PcBooks'
<1>1. pcFile \in PcFile /\ (pcFile.removed => pcFile.pins = 0) /\ pcFile.gen >= pcFile.gen
    BY DEF PcBooks, PcTypeOK, PinsCounted, PcFile
<1> QED BY <1>1, EntryGone DEF Reclaim, Alone

LEMMA RemoveBooks ==
    ASSUME PcAssumption, PcBooks, Remove, raced' \in BOOLEAN
    PROVE  PcBooks'
<1>0. pcFile \in PcFile /\ pcFile.gen \in Nat
    BY DEF PcBooks, PcTypeOK, PcFile
<1>1. /\ pcFile' \in PcFile /\ pcFile'.pins = pcFile.pins /\ pcFile.pins = 0 /\ pcFile'.gen = pcFile.gen + 1
    <2> DEFINE q == [pcFile EXCEPT !.removed = TRUE]
    <2>1. pcFile' = [q EXCEPT !.gen = pcFile.gen + 1] /\ pcFile.pins = 0
        BY DEF Remove
    <2>2. q \in PcFile /\ q.pins = pcFile.pins
        BY <1>0 DEF PcFile
    <2> HIDE DEF q
    <2> QED BY <1>0, <2>1, <2>2 DEF PcFile
<1>2. pcFile'.gen >= pcFile.gen
    BY <1>0, <1>1
<1> QED BY <1>1, <1>2, EntryGone DEF Remove, Alone

\* The steps of a thread that lets the file go or takes map_mutex
LEMMA MutexStep ==
    ASSUME PcAssumption, PcBooks, NEW t \in PcThreads, NEW r \in PcThread, PcGoes(t, r), raced' \in BOOLEAN,
           UNCHANGED <<entry, mem, ref, last, region, pte, users, seen, truncs>>, calls' \in Nat,
           pcFile' \in PcFile, pcFile'.gen = pcFile.gen, pcFile'.removed = pcFile.removed,
           th[t].frame = 0, r.frame = 0, r.gen <= pcFile.gen,
           th[t].at \in {"idle", "wait", "done"}, r.at \in {"idle", "collect"},
           pcFile'.pins + One(LetsGo(th[t])) = pcFile.pins + One(LetsGo(r)),
           LetsGo(r) => LetsGo(th[t]),
           th[t].at = "wait" => FaultsOf(PcProcOf[t]) = {},
           mapper' = [mapper EXCEPT ![PcProcOf[t]] = IF r.at = "idle" THEN 0 ELSE t],
           mapper[PcProcOf[t]] \in {0, t},
           r.at = "collect" => \/ r.kind = "shared" /\ region[PcProcOf[t]] = "none"
                               \/ r.kind = "sync" /\ region[PcProcOf[t]] = "shared"
    PROVE  PcBooks'
<1> DEFINE p == PcProcOf[t]
<1>0. /\ PcTypeOK /\ RefsCounted /\ FramesInHand /\ SharedIsDirty /\ MapperHolds /\ PinsCounted /\ UsersCounted /\ GenSeen
      /\ p \in PcProcs /\ pcFile.gen \in Nat /\ pcFile.pins \in Nat /\ mapper \in [PcProcs -> PcThreads \cup {0}]
      /\ 0 \notin PcThreads /\ \A u \in PcThreads : PcProcOf[u] \in PcProcs
    BY BooksFacts DEF PcTypeOK, PcAssumption
<1>1. th' \in [PcThreads -> PcThread] /\ th'[t] = r /\ OthersStay(t, p)
    BY <1>0, ThMoves
<1>2. Follows(t, p)
    BY <1>0, <1>1, CountsFollow
<1>3. RefsCounted' /\ ref' \in [PcFrames -> Nat]
    BY <1>0, <1>1, <1>2, RefsKept
<1>4. /\ mapper' \in [PcProcs -> PcThreads \cup {0}] /\ mapper'[p] = (IF r.at = "idle" THEN 0 ELSE t)
      /\ \A q \in PcProcs : q # p => mapper'[q] = mapper[q]
    BY <1>0
<1>5. PcTypeOK'
    BY <1>0, <1>1, <1>3, <1>4 DEF PcTypeOK
<1>6. FramesInHand'
    BY <1>0, <1>1, HandsKept DEF FramesInHand, Saving
<1>7. SharedIsDirty'
    BY <1>0, <1>1, DirtyKept
<1>8. MapperHolds'
    <2>1. ASSUME NEW u \in PcThreads, th'[u].at \in Backing \cup {"wait"}
          PROVE  /\ mapper'[PcProcOf[u]] = u
                 /\ th'[u].at = "wait" \/ th'[u].kind = "shared" => region'[PcProcOf[u]] = "none"
                 /\ th'[u].at \in Backing => th'[u].kind \in {"shared", "sync"}
                 /\ th'[u].kind = "sync" => region'[PcProcOf[u]] = "shared"
                 /\ th'[u].at = "wait" => th'[u].kind # "sync"
        <3>1. CASE u = t
            <4>1. th'[u] = r /\ r.at = "collect" /\ mapper'[PcProcOf[u]] = u
                BY <1>1, <1>4, <2>1, <3>1 DEF Backing
            <4> QED BY <3>1, <4>1
        <3>2. CASE u # t
            <4>1. /\ th[u].at \in Backing \cup {"wait"} /\ th'[u].at = th[u].at /\ th'[u].kind = th[u].kind
                BY <1>1, <2>1, <3>2 DEF OthersStay
            <4>2. mapper[PcProcOf[u]] = u
                BY <1>0, <4>1 DEF MapperHolds
            <4>3. PcProcOf[u] # p
                BY <1>0, <3>2, <4>2
            <4> QED BY <1>0, <1>4, <4>1, <4>3 DEF MapperHolds
        <3> QED BY <3>1, <3>2
    <2> QED BY <2>1 DEF MapperHolds
<1>9. PinsCounted'
    <2>1. Cardinality(Mapping)' = Cardinality(Mapping)
        BY DEF Mapping
    <2>2. /\ Cardinality(LettingGo)' + One(LetsGo(th[t])) = Cardinality(LettingGo) + One(LetsGo(r))
          /\ Cardinality(LettingGo)' \in Nat
        BY <1>1, <1>2 DEF Follows
    <2>3. Cardinality(Mapping) \in Nat /\ Cardinality(LettingGo) \in Nat
        BY CountFacts
    <2>4. pcFile.pins = Cardinality(Mapping) + Cardinality(LettingGo) /\ pcFile'.pins \in Nat
        BY <1>0 DEF PinsCounted, PcFile
    <2> DEFINE m == Cardinality(Mapping)    l == Cardinality(LettingGo)    k == Cardinality(LettingGo)'
               a == One(LetsGo(th[t]))      b == One(LetsGo(r))
    <2>5. a \in {0, 1} /\ b \in {0, 1}
        BY DEF One
    <2>6. pcFile'.pins + a = pcFile.pins + b
        OBVIOUS
    <2> HIDE DEF m, l, k, a, b
    <2>7. pcFile'.pins = m + k
        <3>1. /\ m \in Nat /\ l \in Nat /\ k \in Nat /\ pcFile.pins = m + l /\ k + a = l + b /\ pcFile'.pins \in Nat
            BY <2>2, <2>3, <2>4 DEF m, l, k, a, b
        <3> QED BY <2>5, <2>6, <3>1
    <2>8. pcFile'.removed => pcFile'.pins = 0
        <3>1. b <= a
            BY DEF a, b, One
        <3>2. pcFile'.removed => pcFile.pins = 0
            BY <1>0 DEF PinsCounted
        <3> QED BY <2>4, <2>5, <2>6, <3>1, <3>2
    <2> QED BY <2>1, <2>7, <2>8 DEF PinsCounted, m, k
<1>10. UsersCounted'
    <2>1. th[t].at \notin Faulting /\ r.at \notin Faulting
        BY DEF Faulting
    <2>2. ASSUME NEW q \in PcProcs PROVE users'[q] = Cardinality(FaultsOf(q))'
        <3>1. FaultsOf(q)' = FaultsOf(q)
            BY <1>1, <2>1 DEF FaultsOf, OthersStay
        <3> QED BY <1>0, <3>1 DEF UsersCounted
    <2>3. ASSUME NEW u \in PcThreads, th'[u].at \in Faulting
          PROVE  /\ th'[u].kind \in {"private", "shared"}
                 /\ \/ region'[PcProcOf[u]] = th'[u].kind
                    \/ \E w \in PcThreads : PcProcOf[w] = PcProcOf[u] /\ th'[w].at = "wait"
        <3>1. u # t /\ th[u].at \in Faulting /\ th'[u].kind = th[u].kind
            BY <1>1, <2>1, <2>3 DEF OthersStay
        <3>2. u \in FaultsOf(PcProcOf[u])
            BY <3>1 DEF FaultsOf
        <3>3. \A w \in PcThreads : PcProcOf[w] = PcProcOf[u] /\ th[w].at = "wait" => w # t
            BY <3>2
        <3>4. \A w \in PcThreads : w # t => th'[w].at = th[w].at
            BY <1>1 DEF OthersStay
        <3> QED BY <1>0, <3>1, <3>3, <3>4 DEF UsersCounted
    <2> QED BY <2>2, <2>3 DEF UsersCounted
<1>11. GenSeen'
    BY <1>0, <1>1, GenKept DEF PcThread
<1> QED BY <1>3, <1>5, <1>6, <1>7, <1>8, <1>9, <1>10, <1>11 DEF PcBooks

\* msync takes map_mutex
LEMMA SyncBooks ==
    ASSUME PcAssumption, PcBooks, NEW t \in PcThreads, Sync(t), raced' \in BOOLEAN
    PROVE  PcBooks'
<1> DEFINE p == PcProcOf[t]
           r == [AtRest EXCEPT !.at = "collect", !.kind = "sync"]
<1>0. PcTypeOK /\ FramesInHand /\ pcFile \in PcFile /\ pcFile.gen \in Nat /\ pcFile.pins \in Nat /\ calls \in Nat
    BY BooksFacts DEF PcTypeOK
<1>1. /\ th[t].at = "idle" /\ th[t].frame = 0 /\ mapper[p] = 0 /\ region[p] = "shared" /\ calls' = calls + 1
      /\ mapper' = [mapper EXCEPT ![p] = t] /\ PcGoes(t, r)
      /\ UNCHANGED <<pcFile, entry, mem, ref, last, region, pte, users, seen, truncs>>
    BY <1>0 DEF Sync, Calls, FramesInHand, pageVars
<1>2. r \in PcThread /\ r.at = "collect" /\ r.frame = 0 /\ r.kind = "sync" /\ r.gen = 0
    <2>1. "collect" \in PcPlaces /\ 0 \in Cells \cup {PageEnd}
        BY DEF PcPlaces, Backing, Cells
    <2> QED BY <2>1 DEF PcThread, AtRest
<1> HIDE DEF r
<1>3. ~LetsGo(th[t]) /\ ~LetsGo(r)
    BY <1>1, <1>2 DEF LetsGo, Backing
<1>4. pcFile'.pins + One(LetsGo(th[t])) = pcFile.pins + One(LetsGo(r))
    BY <1>1, <1>3 DEF One
<1>5. mapper' = [mapper EXCEPT ![p] = IF r.at = "idle" THEN 0 ELSE t]
    BY <1>1, <1>2
<1>6. calls' \in Nat /\ r.gen <= pcFile.gen
    BY <1>0, <1>1, <1>2
<1> QED BY <1>0, <1>1, <1>2, <1>3, <1>4, <1>5, <1>6, MutexStep

\* wait_for_file_users is over
LEMMA WaitedBooks ==
    ASSUME PcAssumption, PcBooks, NEW t \in PcThreads, Waited(t), raced' \in BOOLEAN
    PROVE  PcBooks'
<1> DEFINE p == PcProcOf[t]
<1>0. /\ PcTypeOK /\ FramesInHand /\ MapperHolds /\ GenSeen /\ PinsCounted /\ UsersCounted /\ p \in PcProcs
      /\ th[t] \in PcThread /\ pcFile \in PcFile /\ pcFile.gen \in Nat /\ pcFile.pins \in Nat /\ calls \in Nat
      /\ mapper \in [PcProcs -> PcThreads \cup {0}]
    BY BooksFacts DEF PcTypeOK
<1>1. /\ th[t].at = "wait" /\ th[t].frame = 0 /\ mapper[p] = t /\ region[p] = "none" /\ th[t].gen <= pcFile.gen
      /\ users[p] = 0
      /\ UNCHANGED <<entry, mem, ref, last, region, pte, users, seen, truncs, calls>>
    BY <1>0 DEF Waited, NoFileUsers, FramesInHand, MapperHolds, GenSeen, Alone
<1>2. FaultsOf(p) = {}
    <2>1. IsFiniteSet(PcThreads) /\ FaultsOf(p) \in SUBSET PcThreads /\ Cardinality(FaultsOf(p)) = 0
        BY <1>0, <1>1 DEF PcAssumption, FaultsOf, UsersCounted
    <2> QED BY <2>1, CountsOne
<1>3. LetsGo(th[t])
    BY <1>1 DEF LetsGo
<1>4. CASE th[t].kind = "shared"
    <2> DEFINE r == [th[t] EXCEPT !.at = "collect"]
    <2>1. PcGoes(t, r) /\ UNCHANGED <<pcFile, mapper>>
        BY <1>4 DEF Waited, Moves
    <2>2. r \in PcThread /\ r.at = "collect" /\ r.frame = 0 /\ r.kind = "shared" /\ r.gen = th[t].gen
        BY <1>0, <1>1, <1>4 DEF PcThread, PcPlaces, Backing
    <2> HIDE DEF r
    <2>3. LetsGo(r)
        BY <2>2 DEF LetsGo, Backing
    <2>4. pcFile'.pins + One(LetsGo(th[t])) = pcFile.pins + One(LetsGo(r))
        BY <1>3, <2>1, <2>3 DEF One
    <2>5. mapper' = [mapper EXCEPT ![p] = IF r.at = "idle" THEN 0 ELSE t]
        BY <1>0, <1>1, <2>1, <2>2
    <2> QED BY <1>0, <1>1, <1>2, <1>3, <2>1, <2>2, <2>4, <2>5, MutexStep
<1>5. CASE th[t].kind # "shared"
    <2>1. /\ PcGoes(t, AtRest) /\ pcFile' = [pcFile EXCEPT !.pins = pcFile.pins - 1]
          /\ mapper' = [mapper EXCEPT ![p] = 0]
        BY <1>5 DEF Waited
    <2>2. pcFile.pins > 0
        <3>1. Cardinality(LettingGo) > 0 /\ Cardinality(LettingGo) \in Nat /\ Cardinality(Mapping) \in Nat
            BY <1>3, CountFacts
        <3> QED BY <1>0, <3>1 DEF PinsCounted
    <2>3. /\ pcFile' \in PcFile /\ pcFile'.pins = pcFile.pins - 1 /\ pcFile'.gen = pcFile.gen
          /\ pcFile'.removed = pcFile.removed
        BY <1>0, <2>1, <2>2 DEF PcFile
    <2>4. ~LetsGo(AtRest)
        BY RestFacts DEF LetsGo, Backing
    <2>5. pcFile'.pins + One(LetsGo(th[t])) = pcFile.pins + One(LetsGo(AtRest))
        BY <1>0, <1>3, <2>3, <2>4 DEF One
    <2>6. mapper' = [mapper EXCEPT ![p] = IF AtRest.at = "idle" THEN 0 ELSE t]
        BY <2>1, RestFacts
    <2>7. /\ AtRest \in PcThread /\ AtRest.frame = 0 /\ AtRest.gen <= pcFile.gen /\ AtRest.at \in {"idle", "collect"}
          /\ AtRest.at # "collect"
        BY <1>0, RestFacts
    <2> QED BY <1>0, <1>1, <1>2, <2>1, <2>3, <2>4, <2>5, <2>6, <2>7, MutexStep
<1> QED BY <1>4, <1>5

\* The end of a write-back
LEMMA DoneBooks ==
    ASSUME PcAssumption, PcBooks, NEW t \in PcThreads, Done(t), raced' \in BOOLEAN
    PROVE  PcBooks'
<1> DEFINE p == PcProcOf[t]
<1>0. /\ PcTypeOK /\ FramesInHand /\ MapperHolds /\ PinsCounted /\ p \in PcProcs
      /\ th[t] \in PcThread /\ pcFile \in PcFile /\ pcFile.gen \in Nat /\ pcFile.pins \in Nat /\ calls \in Nat
    BY BooksFacts DEF PcTypeOK
<1>1. /\ th[t].at = "done" /\ th[t].frame = 0 /\ mapper[p] = t /\ PcGoes(t, AtRest)
      /\ mapper' = [mapper EXCEPT ![p] = 0]
      /\ pcFile' = (IF th[t].kind = "shared" THEN [pcFile EXCEPT !.pins = pcFile.pins - 1] ELSE pcFile)
      /\ UNCHANGED <<entry, mem, ref, last, region, pte, users, seen, truncs, calls>>
    BY <1>0 DEF Done, FramesInHand, MapperHolds, Alone, Backing
<1>2. LetsGo(th[t]) <=> th[t].kind = "shared"
    BY <1>1 DEF LetsGo, Backing
<1>3. th[t].kind = "shared" => pcFile.pins > 0
    <2>1. /\ Cardinality(LettingGo) \in Nat /\ Cardinality(Mapping) \in Nat
          /\ th[t].kind = "shared" => Cardinality(LettingGo) > 0
        BY <1>2, CountFacts
    <2> QED BY <1>0, <2>1 DEF PinsCounted
<1>4. /\ pcFile' \in PcFile /\ pcFile'.pins = pcFile.pins - One(th[t].kind = "shared") /\ pcFile'.gen = pcFile.gen
      /\ pcFile'.removed = pcFile.removed
    <2>1. CASE th[t].kind = "shared"
        BY <1>0, <1>1, <1>3, <2>1 DEF PcFile, One
    <2>2. CASE th[t].kind # "shared"
        BY <1>0, <1>1, <2>2 DEF One
    <2> QED BY <2>1, <2>2
<1>5. ~LetsGo(AtRest)
    BY RestFacts DEF LetsGo, Backing
<1>6. pcFile'.pins + One(LetsGo(th[t])) = pcFile.pins + One(LetsGo(AtRest))
    BY <1>0, <1>2, <1>4, <1>5 DEF One
<1>7. mapper' = [mapper EXCEPT ![p] = IF AtRest.at = "idle" THEN 0 ELSE t]
    BY <1>1, RestFacts
<1>8. /\ AtRest \in PcThread /\ AtRest.frame = 0 /\ AtRest.gen <= pcFile.gen /\ AtRest.at \in {"idle", "collect"}
      /\ AtRest.at # "collect"
    BY <1>0, RestFacts
<1> QED BY <1>0, <1>1, <1>4, <1>5, <1>6, <1>7, <1>8, MutexStep

\* Every step keeps the books
LEMMA BooksStep ==
    ASSUME PcAssumption, PcBooks, [PcNext]_pcVars
    PROVE  PcBooks'
<1>1. CASE UNCHANGED pcVars
    <2>1. /\ pcFile' = pcFile /\ entry' = entry /\ mem' = mem /\ ref' = ref /\ region' = region /\ pte' = pte
          /\ users' = users /\ mapper' = mapper /\ seen' = seen /\ truncs' = truncs /\ th' = th /\ calls' = calls
          /\ last' = last /\ raced' = raced
        BY <1>1 DEF pcVars
    <2>2. PcTypeOK' = PcTypeOK
        BY <2>1 DEF PcTypeOK
    <2>3. RefsCounted' = RefsCounted
        <3>1. \A f \in PcFrames : Owners(f)' = Owners(f)
            BY <2>1 DEF Owners
        <3> QED BY <2>1, <3>1 DEF RefsCounted
    <2>4. FramesInHand' = FramesInHand
        BY <2>1 DEF FramesInHand
    <2>5. SharedIsDirty' = SharedIsDirty
        BY <2>1 DEF SharedIsDirty
    <2>6. MapperHolds' = MapperHolds
        BY <2>1 DEF MapperHolds
    <2>7. PinsCounted' = PinsCounted
        BY <2>1 DEF PinsCounted, Mapping, LettingGo
    <2>8. UsersCounted' = UsersCounted
        BY <2>1 DEF UsersCounted, FaultsOf
    <2>9. GenSeen' = GenSeen
        BY <2>1 DEF GenSeen
    <2> QED BY <2>2, <2>3, <2>4, <2>5, <2>6, <2>7, <2>8, <2>9 DEF PcBooks
<1>2. CASE PcNext
    <2>1. raced' \in BOOLEAN
        BY <1>2 DEF PcNext, PcBooks, PcTypeOK
    <2>2. ASSUME NEW t \in PcThreads, NEW kind \in {"private", "shared"}, Map(t, kind) PROVE PcBooks'
        BY <2>1, <2>2, MapBooks
    <2>3. ASSUME NEW t \in PcThreads, Touch(t) \/ Find(t) \/ ReadIn(t) \/ Insert(t) \/ Install(t) PROVE PcBooks'
        BY <2>1, <2>3, TouchBooks, FindBooks, ReadInBooks, InsertBooks, InstallBooks
    <2>4. ASSUME NEW t \in PcThreads, NEW c \in Cells, Store(t, c) PROVE PcBooks'
        BY <2>1, <2>4, StoreBooks
    <2>5. ASSUME NEW t \in PcThreads, Unmap(t) \/ Waited(t) \/ Sync(t) \/ Collect(t) \/ Measure(t) PROVE PcBooks'
        BY <2>1, <2>5, UnmapBooks, WaitedBooks, SyncBooks, CollectBooks, MeasureBooks
    <2>6. ASSUME NEW t \in PcThreads, NEW ok \in BOOLEAN, Save(t, ok) PROVE PcBooks'
        BY <2>1, <2>6, SaveBooks
    <2>7. ASSUME NEW t \in PcThreads, Saved(t) \/ Clean(t) \/ Done(t) \/ Written(t) \/ Cut(t) \/ Revalidate(t) PROVE PcBooks'
        BY <2>1, <2>7, SavedBooks, CleanBooks, DoneBooks, WrittenBooks, CutBooks, RevalidateBooks
    <2>8. ASSUME NEW t \in PcThreads, NEW c \in Cells \cup {PageEnd}, Write(t, c) PROVE PcBooks'
        BY <2>1, <2>8, WriteBooks
    <2>9. ASSUME NEW t \in PcThreads, NEW n \in 0 .. 1, Truncate(t, n) PROVE PcBooks'
        BY <2>1, <2>9, TruncateBooks
    <2>10. ASSUME Reclaim \/ Remove PROVE PcBooks'
        BY <2>1, <2>10, ReclaimBooks, RemoveBooks
    <2> QED BY <1>2, <2>2, <2>3, <2>4, <2>5, <2>6, <2>7, <2>8, <2>9, <2>10 DEF PcNext, PcStep
<1> QED BY <1>1, <1>2

LEMMA BooksAtFirst ==
    ASSUME PcAssumption, PcInit
    PROVE  PcBooks
<1>0. 0 \notin PcFrames /\ IsFiniteSet(PcThreads) /\ IsFiniteSet(PcProcs)
    BY DEF PcAssumption
<1>1. /\ \A t \in PcThreads : th[t] = AtRest /\ th[t].at = "idle" /\ th[t].frame = 0 /\ th[t].gen = 0
      /\ \A p \in PcProcs : pte[p] = 0 /\ region[p] = "none" /\ users[p] = 0
      /\ \A f \in PcFrames : ref[f] = 0
      /\ entry = NoEntry /\ entry.frame = 0 /\ ~entry.dirty
      /\ pcFile.pins = 0 /\ pcFile.gen = 0 /\ pcFile \in PcFile /\ entry \in PcEntry
    <2>1. Blank \in [Cells -> Nat]
        BY DEF Blank
    <2>2. pcFile \in PcFile /\ pcFile.pins = 0 /\ pcFile.gen = 0
        BY <2>1 DEF PcInit, PcFile
    <2>3. entry = NoEntry /\ entry.frame = 0 /\ ~entry.dirty /\ entry \in PcEntry
        BY DEF PcInit, PcEntry, NoEntry
    <2>4. \A t \in PcThreads : th[t] = AtRest /\ th[t].at = "idle" /\ th[t].frame = 0 /\ th[t].gen = 0
        BY RestFacts DEF PcInit
    <2> QED BY <2>2, <2>3, <2>4 DEF PcInit
<1>2. PcTypeOK
    <2>1. th \in [PcThreads -> PcThread]
        BY RestFacts DEF PcInit
    <2>2. Blank \in [Cells -> Nat]
        BY DEF Blank
    <2>3. last \in [Cells -> SUBSET Nat] /\ mem \in [PcFrames -> [Cells -> Nat]] /\ ref \in [PcFrames -> Nat]
        BY <2>2 DEF PcInit
    <2>4. /\ region \in [PcProcs -> {"none", "private", "shared"}] /\ pte \in [PcProcs -> PcFrames \cup {0}]
          /\ users \in [PcProcs -> Nat] /\ mapper \in [PcProcs -> PcThreads \cup {0}] /\ seen \in [PcProcs -> Nat]
          /\ truncs \in Nat /\ calls \in Nat /\ raced \in BOOLEAN
        BY DEF PcInit
    <2> QED BY <1>1, <2>1, <2>3, <2>4 DEF PcTypeOK
<1>3. RefsCounted
    <2>1. ASSUME NEW f \in PcFrames PROVE ref[f] = Owners(f)
        <3>1. {p \in PcProcs : pte[p] = f} = {} /\ {t \in PcThreads : th[t].frame = f} = {}
            BY <1>0, <1>1
        <3>2. Cardinality({p \in PcProcs : pte[p] = f}) = 0 /\ Cardinality({t \in PcThreads : th[t].frame = f}) = 0
            BY <3>1, FS_EmptySet
        <3>3. entry.frame # f /\ ref[f] = 0
            BY <1>0, <1>1
        <3>4. Owners(f) = 0 + Cardinality({p \in PcProcs : pte[p] = f}) + Cardinality({t \in PcThreads : th[t].frame = f})
            BY <3>3 DEF Owners
        <3> QED BY <3>2, <3>3, <3>4
    <2> QED BY <2>1 DEF RefsCounted
<1>4. FramesInHand /\ SharedIsDirty /\ MapperHolds /\ GenSeen
    BY <1>1 DEF FramesInHand, SharedIsDirty, MapperHolds, GenSeen, Saving, Backing
<1>5. PinsCounted
    <2>1. Mapping = {} /\ LettingGo = {}
        BY <1>1 DEF Mapping, LettingGo, LetsGo, Backing
    <2> QED BY <1>1, <2>1, FS_EmptySet DEF PinsCounted
<1>6. UsersCounted
    <2>1. \A p \in PcProcs : FaultsOf(p) = {}
        BY <1>1 DEF FaultsOf, Faulting
    <2> QED BY <1>1, <2>1, FS_EmptySet DEF UsersCounted, Faulting
<1> QED BY <1>2, <1>3, <1>4, <1>5, <1>6 DEF PcBooks

\* Who keeps the file pinned
LEMMA BooksSay ==
    ASSUME PcAssumption, PcBooks
    PROVE  PageCacheSound
<1>1. ASSUME NEW t \in PcThreads, th[t].at \in {"find", "read", "insert", "collect", "measure", "save", "saved"}
      PROVE  pcFile.pins > 0 /\ ~pcFile.removed
    <2>1. Cardinality(Mapping) > 0 \/ Cardinality(LettingGo) > 0
        <3>1. CASE th[t].at \in Faulting
            <4>1. CASE region[PcProcOf[t]] = th[t].kind
                <5>1. region[PcProcOf[t]] # "none" /\ PcProcOf[t] \in PcProcs
                    BY <3>1, <4>1, BooksFacts DEF UsersCounted
                <5> QED BY <5>1, CountFacts
            <4>2. CASE region[PcProcOf[t]] # th[t].kind
                <5>1. PICK w \in PcThreads : th[w].at = "wait"
                    BY <3>1, <4>2 DEF PcBooks, UsersCounted
                <5> QED BY <5>1, CountFacts DEF LetsGo
            <4> QED BY <4>1, <4>2
        <3>2. CASE th[t].at \in Backing
            <4>1. th[t].kind = "shared" \/ region[PcProcOf[t]] # "none"
                BY <3>2 DEF PcBooks, MapperHolds
            <4>2. th[t].kind = "shared" => LetsGo(th[t])
                BY <3>2 DEF LetsGo
            <4>3. PcProcOf[t] \in PcProcs
                BY DEF PcAssumption
            <4> QED BY <4>1, <4>2, <4>3, CountFacts
        <3> QED BY <1>1, <3>1, <3>2 DEF Faulting, Backing
    <2>2. Cardinality(Mapping) \in Nat /\ Cardinality(LettingGo) \in Nat
        BY CountFacts
    <2> QED BY <2>1, <2>2 DEF PcBooks, PinsCounted
<1> QED BY <1>1 DEF PcBooks, RefsCounted, PageCacheSound

\* Every owner of a cached page's frame is counted, and nobody else, and the
\* file stays while a fault or a write-back uses it (pcache.c, region.c)
THEOREM CachedPagesAreCounted ==
    ASSUME PcAssumption
    PROVE  PcSpec => []PageCacheSound
<1>1. PcInit => PcBooks
    BY BooksAtFirst
<1>2. PcBooks /\ [PcNext]_pcVars => PcBooks'
    BY BooksStep
<1>3. PcBooks => PageCacheSound
    BY BooksSay
<1> QED BY <1>1, <1>2, <1>3, PTL DEF PcSpec

-----------------------------------------------------------------------------
(* What the page holds.                                                    *)

\* The write()s of cell c that the cache has not been told of
Writers(c) == {t \in PcThreads : th[t].at = "written" /\ th[t].cell = c}

\* A value is written once, and is not yet, or no longer, what was last written
\* while its write() is under way
ValuesApart ==
    /\ \A c \in Cells : \A v \in last[c] : v <= calls
    /\ \A t \in PcThreads : th[t].at = "written" =>
         /\ 0 < th[t].val /\ th[t].val <= calls
         /\ \A v \in th[t].older : v <= calls
         /\ th[t].cell \in Cells => th[t].val \notin last[th[t].cell]
         /\ \A u \in PcThreads : th[u].at = "written" /\ u # t =>
              /\ th[u].val # th[t].val
              /\ th[u].cell = th[t].cell => th[t].val \notin th[u].older

\* Frame f holds what the file does, but for what is about to be told
SameAsFile(f) ==
    \/ \E u \in PcThreads : th[u].at \in {"cut", "saved"}
    \/ \A c \in Cells : Writers(c) = {} => mem[f][c] = FileCells(pcFile)[c]

\* A page cached for private mappings, or about to be cached, is the file's
PrivateIsFile ==
    /\ entry.frame # 0 /\ ~entry.shared => SameAsFile(entry.frame)
    /\ \A t \in PcThreads : th[t].at = "insert" /\ th[t].gen = pcFile.gen => SameAsFile(th[t].frame)

\* What the file holds in cell c is, or is about to be, the last written
Settled(c) ==
    \/ \E u \in Writers(c) : pcFile.data[c] = th[u].val
    \/ pcFile.data[c] \in last[c] /\ \A u \in Writers(c) : pcFile.data[c] \notin th[u].older

\* A page just saved is the file's, unless somebody can still write it
SavedHolds ==
    \/ \E p \in PcProcs : region[p] = "shared" /\ pte[p] = entry.frame
    \/ \A c \in Cells : c < pcFile.size => mem[entry.frame][c] = pcFile.data[c]

\* Where no writer races: what the file and the shared page hold ...
PageCalm ==
    /\ ~entry.shared \/ ~entry.dirty => \A c \in Cells : c < pcFile.size => Settled(c)
    /\ entry.shared => /\ \A c \in Cells : c < pcFile.size /\ Writers(c) = {} => mem[entry.frame][c] \in last[c]
                       /\ pcFile.size > 0 \/ \E u \in PcThreads : th[u].at = "cut"

\* ... and what a fault or a write-back relies on
ThreadCalm(r) ==
    /\ r.at \in Faulting /\ r.kind = "shared" => pcFile.size > 0
    /\ r.at \in Saving => entry.frame = r.frame /\ entry.shared /\ entry.dirty
    /\ r.at = "save" => r.len <= pcFile.size /\ \A c \in Cells : c < pcFile.size => c < r.len
    /\ r.at = "saved" => r.ok
    /\ r.at \in {"saved", "clean"} /\ r.ok => SavedHolds

CalmPage == PageCalm /\ \A t \in PcThreads : ThreadCalm(th[t])

PcValues ==
    /\ PcBooks /\ ValuesApart /\ PrivateIsFile
    /\ ~raced => ~Racing
    /\ ~raced /\ ~pcFile.removed => CalmPage

\* A step of thread t alone
LEMMA GoesFacts ==
    ASSUME PcTypeOK, NEW t \in PcThreads, NEW r, PcGoes(t, r)
    PROVE  th'[t] = r /\ \A u \in PcThreads : u # t => th'[u] = th[u]
BY DEF PcGoes, PcTypeOK

\* The write()s under way stay as they are
WritesStay ==
    \A u \in PcThreads :
        /\ th'[u].at = "written" <=> th[u].at = "written"
        /\ th[u].at = "written" => th'[u].cell = th[u].cell /\ th'[u].val = th[u].val /\ th'[u].older = th[u].older

\* The file's contents stay
FileStays == pcFile'.size = pcFile.size /\ pcFile'.data = pcFile.data

LEMMA WritersStay ==
    ASSUME WritesStay, NEW c
    PROVE  Writers(c)' = Writers(c)
BY DEF WritesStay, Writers

LEMMA SettledStays ==
    ASSUME WritesStay, FileStays, last' = last, NEW c
    PROVE  Settled(c)' = Settled(c)
<1>1. Writers(c)' = Writers(c)
    BY WritersStay
<1>2. \A u \in Writers(c) : th'[u].val = th[u].val /\ th'[u].older = th[u].older
    BY DEF Writers, WritesStay
<1>3. pcFile'.data[c] = pcFile.data[c] /\ last'[c] = last[c]
    BY DEF FileStays
<1>4. (\E u \in Writers(c) : pcFile.data[c] = th[u].val)' = (\E u \in Writers(c) : pcFile.data[c] = th[u].val)
    BY <1>1, <1>2, <1>3
<1>5. (\A u \in Writers(c) : pcFile.data[c] \notin th[u].older)' = (\A u \in Writers(c) : pcFile.data[c] \notin th[u].older)
    BY <1>1, <1>2, <1>3
<1> QED BY <1>3, <1>4, <1>5 DEF Settled

\* Values stay apart in a step that writes none
LEMMA ApartStays ==
    ASSUME PcTypeOK, ValuesApart, WritesStay, last' = last, calls' \in {calls, calls + 1}
    PROVE  ValuesApart'
<1>1. calls \in Nat /\ calls' \in Nat /\ calls <= calls'
    BY DEF PcTypeOK
<1>2. ASSUME NEW c \in Cells, NEW v \in last[c] PROVE v <= calls'
    <2>1. v <= calls /\ v \in Nat
        BY <1>2 DEF ValuesApart, PcTypeOK
    <2> QED BY <1>1, <2>1
<1>3. ASSUME NEW t \in PcThreads, th'[t].at = "written"
      PROVE  /\ 0 < th'[t].val /\ th'[t].val <= calls'
             /\ \A v \in th'[t].older : v <= calls'
             /\ th'[t].cell \in Cells => th'[t].val \notin last'[th'[t].cell]
    <2>1. th[t].at = "written" /\ th'[t].cell = th[t].cell /\ th'[t].val = th[t].val /\ th'[t].older = th[t].older
        BY <1>3 DEF WritesStay
    <2>2. th[t].val \in Nat /\ th[t].older \subseteq Nat
        BY DEF PcTypeOK, PcThread
    <2>3. 0 < th[t].val /\ th[t].val <= calls /\ \A v \in th[t].older : v <= calls
        BY <2>1 DEF ValuesApart
    <2>4. th[t].cell \in Cells => th[t].val \notin last[th[t].cell]
        BY <2>1 DEF ValuesApart
    <2> QED BY <1>1, <2>1, <2>2, <2>3, <2>4
<1>4. ASSUME NEW t \in PcThreads, NEW u \in PcThreads, th'[t].at = "written", th'[u].at = "written", u # t
      PROVE  /\ th'[u].val # th'[t].val
             /\ th'[u].cell = th'[t].cell => th'[t].val \notin th'[u].older
    <2>1. /\ th[t].at = "written" /\ th'[t].cell = th[t].cell /\ th'[t].val = th[t].val
          /\ th[u].at = "written" /\ th'[u].cell = th[u].cell /\ th'[u].val = th[u].val /\ th'[u].older = th[u].older
        BY <1>4 DEF WritesStay
    <2> QED BY <1>4, <2>1 DEF ValuesApart
<1> QED BY <1>2, <1>3, <1>4 DEF ValuesApart

\* A frame stays the file's while its contents and the file's do
LEMMA SameStays ==
    ASSUME WritesStay, FileStays, NEW f, NEW g, mem'[g] = mem[f], SameAsFile(f),
           (\E u \in PcThreads : th[u].at \in {"cut", "saved"}) => (\E u \in PcThreads : th'[u].at \in {"cut", "saved"})
    PROVE  SameAsFile(g)'
<1>1. FileCells(pcFile)' = FileCells(pcFile)
    BY DEF FileCells, FileStays
<1>2. \A c \in Cells : Writers(c)' = Writers(c)
    BY WritersStay
<1> QED BY <1>1, <1>2 DEF SameAsFile

\* A private page stays the file's: the entry is the same or one put in by a
\* thread that had it to put in, and who has one has read it now or had it
LEMMA PrivateStays ==
    ASSUME PrivateIsFile, WritesStay, FileStays, pcFile'.gen = pcFile.gen,
           (\E u \in PcThreads : th[u].at \in {"cut", "saved"}) => (\E u \in PcThreads : th'[u].at \in {"cut", "saved"}),
           entry'.frame # 0 /\ ~entry'.shared =>
               /\ mem'[entry'.frame] = mem[entry'.frame]
               /\ \/ entry'.frame = entry.frame /\ ~entry.shared
                  \/ \E u \in PcThreads : th[u].at = "insert" /\ th[u].gen = pcFile.gen /\ th[u].frame = entry'.frame,
           \A u \in PcThreads : th'[u].at = "insert" =>
               /\ th'[u].frame = th[u].frame /\ th'[u].gen = th[u].gen
               /\ \/ th[u].at = "insert" /\ mem'[th[u].frame] = mem[th[u].frame]
                  \/ mem'[th[u].frame] = FileCells(pcFile)
    PROVE  PrivateIsFile'
<1>1. ASSUME entry'.frame # 0, ~entry'.shared PROVE SameAsFile(entry.frame)'
    <2>1. SameAsFile(entry'.frame)
        BY <1>1 DEF PrivateIsFile
    <2>2. mem'[entry'.frame] = mem[entry'.frame]
        BY <1>1
    <2> DEFINE g == entry'.frame
    <2>3. SameAsFile(g) /\ mem'[g] = mem[g]
        BY <2>1, <2>2
    <2> HIDE DEF g
    <2>4. \A f : f = g => SameAsFile(f)'
        BY <2>3, SameStays
    <2> QED BY <2>4 DEF SameAsFile, g
<1>2. ASSUME NEW u \in PcThreads, th'[u].at = "insert", th'[u].gen = pcFile'.gen PROVE SameAsFile(th[u].frame)'
    <2> DEFINE g == th[u].frame
    <2>1. CASE th[u].at = "insert" /\ mem'[g] = mem[g]
        <3>1. SameAsFile(g)
            BY <1>2, <2>1 DEF PrivateIsFile
        <3> HIDE DEF g
        <3>2. \A f : f = g => SameAsFile(f)'
            BY <2>1, <3>1, SameStays
        <3>3. th'[u].frame = g
            BY <1>2 DEF g
        <3> QED BY <3>2, <3>3 DEF SameAsFile
    <2>2. CASE mem'[g] = FileCells(pcFile)
        <3>1. FileCells(pcFile)' = FileCells(pcFile)
            BY DEF FileCells, FileStays
        <3> QED BY <1>2, <2>2, <3>1 DEF SameAsFile
    <2> QED BY <1>2, <2>1, <2>2
<1> QED BY <1>1, <1>2 DEF PrivateIsFile

\* What stays calm in a step that leaves the entry and its contents alone
LEMMA CalmStays ==
    ASSUME CalmPage, WritesStay, FileStays, last' = last,
           entry'.frame = entry.frame, entry'.shared = entry.shared, entry'.dirty = entry.dirty,
           entry.shared => mem'[entry.frame] = mem[entry.frame],
           \A u \in PcThreads : th[u].at = "cut" => th'[u].at = "cut",
           \A u \in PcThreads : th'[u].at \in {"saved", "clean"} /\ pcFile.size # 0 =>
              \A p \in PcProcs : region[p] = "shared" /\ pte[p] = entry.frame => region'[p] = "shared" /\ pte'[p] = pte[p],
           \A u \in PcThreads : th'[u] # th[u] =>
              /\ th'[u].at \in Faulting /\ th'[u].kind = "shared" => pcFile.size > 0
              /\ th'[u].at \in Saving => entry.frame = th'[u].frame /\ entry.shared /\ entry.dirty
              /\ th'[u].at = "save" => th'[u].len <= pcFile.size /\ \A c \in Cells : c < pcFile.size => c < th'[u].len
              /\ th'[u].at = "saved" => th'[u].ok
              /\ th'[u].at \in {"saved", "clean"} /\ th'[u].ok =>
                    pcFile.size = 0 \/ (th[u].at \in {"saved", "clean"} /\ th[u].ok),
           PcTypeOK
    PROVE  CalmPage'
<1>1. PageCalm'
    <2>1. \A c \in Cells : Settled(c)' = Settled(c) /\ Writers(c)' = Writers(c)
        BY SettledStays, WritersStay
    <2>2. ~entry'.shared \/ ~entry'.dirty => \A c \in Cells : c < pcFile'.size => Settled(c)'
        BY <2>1 DEF CalmPage, PageCalm, FileStays
    <2>3. entry'.shared => \A c \in Cells : c < pcFile'.size /\ Writers(c)' = {} => mem'[entry'.frame][c] \in last'[c]
        BY <2>1 DEF CalmPage, PageCalm, FileStays
    <2>4. entry'.shared => pcFile'.size > 0 \/ \E u \in PcThreads : th'[u].at = "cut"
        BY DEF CalmPage, PageCalm, FileStays
    <2> QED BY <2>2, <2>3, <2>4 DEF PageCalm
<1>2. ASSUME NEW u \in PcThreads PROVE ThreadCalm(th[u])'
    <2>1. ThreadCalm(th[u])
        BY DEF CalmPage
    <2>2. /\ th'[u].at \in Faulting /\ th'[u].kind = "shared" => pcFile.size > 0
          /\ th'[u].at \in Saving => entry.frame = th'[u].frame /\ entry.shared /\ entry.dirty
          /\ th'[u].at = "save" => th'[u].len <= pcFile.size /\ \A c \in Cells : c < pcFile.size => c < th'[u].len
          /\ th'[u].at = "saved" => th'[u].ok
          /\ th'[u].at \in {"saved", "clean"} /\ th'[u].ok => pcFile.size = 0 \/ SavedHolds
        <3>1. CASE th'[u] = th[u]
            BY <2>1, <3>1 DEF ThreadCalm
        <3>2. CASE th'[u] # th[u]
            <4>1. th[u].at \in {"saved", "clean"} /\ th[u].ok => SavedHolds
                BY <2>1 DEF ThreadCalm
            <4> QED BY <3>2, <4>1
        <3> QED BY <3>1, <3>2
    <2>3. ASSUME th'[u].at \in {"saved", "clean"}, th'[u].ok PROVE SavedHolds'
        <3>1. CASE pcFile.size = 0
            <4>1. \A c \in Cells : ~(c < pcFile'.size)
                BY <3>1 DEF Cells, FileStays
            <4> QED BY <4>1 DEF SavedHolds
        <3>2. CASE pcFile.size # 0
            <4>1. SavedHolds /\ entry.shared
                BY <2>2, <2>3, <3>2 DEF Saving
            <4>2. \A p \in PcProcs : region[p] = "shared" /\ pte[p] = entry.frame => region'[p] = "shared" /\ pte'[p] = pte[p]
                BY <2>3, <3>2
            <4> QED BY <4>1, <4>2 DEF SavedHolds, FileStays
        <3> QED BY <3>1, <3>2
    <2> QED BY <2>2, <2>3 DEF ThreadCalm, FileStays
<1> QED BY <1>1, <1>2 DEF CalmPage

\* What a step starts from and is to keep, once the books are kept
ValuesStep ==
    /\ ValuesApart' /\ PrivateIsFile'
    /\ CalmPage /\ ~Racing /\ ~Racing' /\ ~pcFile'.removed => CalmPage'

LEMMA ValuesKept ==
    ASSUME PcValues, PcBooks', pcFile.removed => pcFile'.removed, raced' = (raced \/ Racing'), ValuesStep
    PROVE  PcValues'
<1>1. ~raced' => ~raced /\ ~Racing' /\ ~Racing
    BY DEF PcValues
<1>2. ~raced' /\ ~pcFile'.removed => CalmPage'
    BY <1>1 DEF ValuesStep, PcValues
<1> QED BY <1>1, <1>2 DEF ValuesStep, PcValues

\* Who races
LEMMA RaceFacts ==
    ASSUME ~Racing, NEW t \in PcThreads, NEW u \in PcThreads
    PROVE  /\ t # u /\ th[t].at \in Saving \cup {"cut"} => th[u].at \notin Saving \cup Changing
           /\ th[t].at = "cut" => th[u].at \notin Faulting
BY DEF Racing

LEMMA NextRaceFacts ==
    ASSUME ~Racing', NEW t \in PcThreads, NEW u \in PcThreads
    PROVE  /\ t # u /\ th'[t].at \in Saving \cup {"cut"} => th'[u].at \notin Saving \cup Changing
           /\ th'[t].at = "cut" => th'[u].at \notin Faulting
BY DEF Racing

LEMMA MapValues ==
    ASSUME PcAssumption, PcValues, NEW t \in PcThreads, NEW kind \in {"private", "shared"}, Map(t, kind)
    PROVE  ValuesStep
<1>0. PcTypeOK /\ FramesInHand /\ pcFile \in PcFile /\ region \in [PcProcs -> {"none", "private", "shared"}] /\ ValuesApart /\ PrivateIsFile
    BY BooksFacts DEF PcValues, PcTypeOK
<1>1. /\ pcFile' = [pcFile EXCEPT !.pins = pcFile.pins + 1] /\ calls' = calls + 1 /\ region[PcProcOf[t]] = "none"
      /\ region' = [region EXCEPT ![PcProcOf[t]] = kind]
      /\ UNCHANGED <<entry, mem, last, pte, th>>
    BY DEF Map, Calls
<1>2. FileStays /\ pcFile'.gen = pcFile.gen
    BY <1>0, <1>1 DEF FileStays, PcFile
<1>3. WritesStay
    BY <1>1 DEF WritesStay
<1>4. ValuesApart'
    BY <1>0, <1>1, <1>3, ApartStays
<1>5. PrivateIsFile'
    BY <1>0, <1>1, <1>2, <1>3, PrivateStays
<1>6. \A p \in PcProcs : region[p] = "shared" => region'[p] = "shared"
    BY <1>0, <1>1
<1>7. CalmPage => CalmPage'
    BY <1>0, <1>1, <1>2, <1>3, <1>6, CalmStays
<1> QED BY <1>4, <1>5, <1>7 DEF ValuesStep

LEMMA TouchValues ==
    ASSUME PcAssumption, PcValues, NEW t \in PcThreads, Touch(t)
    PROVE  ValuesStep
<1> DEFINE r == [AtRest EXCEPT !.at = "find", !.kind = region[PcProcOf[t]]]
<1>0. PcTypeOK /\ pcFile.size \in Nat /\ ValuesApart /\ PrivateIsFile
    BY BooksFacts, CellFacts DEF PcValues
<1>1. /\ th[t].at = "idle" /\ (region[PcProcOf[t]] = "shared" => pcFile.size # 0) /\ PcGoes(t, r)
      /\ UNCHANGED <<pcFile, entry, mem, last, region, pte, calls>>
    BY DEF Touch, pageVars, Alone
<1>2. r.at = "find" /\ r.kind = region[PcProcOf[t]]
    BY DEF AtRest
<1> HIDE DEF r
<1>3. th'[t] = r /\ \A u \in PcThreads : u # t => th'[u] = th[u]
    BY <1>0, <1>1, GoesFacts
<1>4. WritesStay /\ FileStays
    BY <1>1, <1>2, <1>3 DEF WritesStay, FileStays
<1>5. ValuesApart'
    BY <1>0, <1>1, <1>4, ApartStays
<1>6. PrivateIsFile'
    BY <1>0, <1>1, <1>2, <1>3, <1>4, PrivateStays
<1>7. CalmPage => CalmPage'
    BY <1>0, <1>1, <1>2, <1>3, <1>4, CalmStays DEF Saving
<1> QED BY <1>5, <1>6, <1>7 DEF ValuesStep

\* A step of thread t that leaves the page alone
LEMMA PlainStep ==
    ASSUME PcTypeOK, ValuesApart, PrivateIsFile, NEW t \in PcThreads, NEW r, PcGoes(t, r),
           FileStays, pcFile'.gen = pcFile.gen, UNCHANGED <<entry, mem, last>>, calls' \in {calls, calls + 1},
           th[t].at \notin {"written", "cut", "saved"}, r.at \notin {"written", "insert"},
           ~Racing' => \A p \in PcProcs : \/ region[p] = "shared" /\ pte[p] = entry.frame => region'[p] = "shared" /\ pte'[p] = pte[p]
                                          \/ \A u \in PcThreads : th'[u].at \notin Saving
                                          \/ ~entry.shared,
           CalmPage => /\ r.at \in Faulting /\ r.kind = "shared" => pcFile.size > 0
                       /\ r.at \in Saving => entry.frame = r.frame /\ entry.shared /\ entry.dirty
                       /\ r.at = "save" => r.len <= pcFile.size /\ \A c \in Cells : c < pcFile.size => c < r.len
                       /\ r.at # "saved"
                       /\ r.at = "clean" => pcFile.size = 0
    PROVE  ValuesStep
<1>1. th'[t] = r /\ \A u \in PcThreads : u # t => th'[u] = th[u]
    BY GoesFacts
<1>2. WritesStay
    BY <1>1 DEF WritesStay
<1>3. ValuesApart'
    BY <1>2, ApartStays
<1>4. PrivateIsFile'
    BY <1>1, <1>2, PrivateStays
<1>5. ASSUME CalmPage, ~Racing' PROVE CalmPage'
    <2>1. ASSUME NEW u \in PcThreads, th'[u].at \in {"saved", "clean"}, pcFile.size # 0, NEW p \in PcProcs
          PROVE  region[p] = "shared" /\ pte[p] = entry.frame => region'[p] = "shared" /\ pte'[p] = pte[p]
        <3>1. th'[u].at \in Saving
            BY <2>1 DEF Saving
        <3>2. th'[u] = th[u]
            BY <1>1, <1>5, <2>1
        <3>3. entry.shared
            BY <1>5, <3>1, <3>2 DEF CalmPage, ThreadCalm
        <3> QED BY <1>5, <3>1, <3>3
    <2> QED BY <1>1, <1>2, <1>5, <2>1, CalmStays
<1> QED BY <1>3, <1>4, <1>5 DEF ValuesStep

LEMMA InstallValues ==
    ASSUME PcAssumption, PcValues, NEW t \in PcThreads, Install(t)
    PROVE  ValuesStep
<1>0. /\ PcTypeOK /\ FramesInHand /\ ValuesApart /\ PrivateIsFile /\ pte \in [PcProcs -> PcFrames \cup {0}]
    BY BooksFacts DEF PcValues, PcTypeOK
<1>1. /\ th[t].at = "install" /\ PcGoes(t, AtRest) /\ UNCHANGED <<pcFile, entry, mem, last, region, calls>>
      /\ pte' = (IF th[t].frame # 0 /\ region[PcProcOf[t]] # "none" /\ pte[PcProcOf[t]] = 0
                 THEN [pte EXCEPT ![PcProcOf[t]] = th[t].frame] ELSE pte)
    BY DEF Install, Alone
<1>2. \A p \in PcProcs : pte[p] # 0 => pte'[p] = pte[p]
    BY <1>0, <1>1
<1>3. entry.shared => entry.frame # 0
    BY <1>0 DEF FramesInHand, NoEntry
<1>4. FileStays
    BY <1>1 DEF FileStays
<1> QED BY <1>0, <1>1, <1>2, <1>3, <1>4, RestFacts, PlainStep DEF Saving, Faulting

LEMMA UnmapValues ==
    ASSUME PcAssumption, PcValues, NEW t \in PcThreads, Unmap(t)
    PROVE  ValuesStep
<1> DEFINE r == [AtRest EXCEPT !.at = "wait", !.kind = region[PcProcOf[t]]]
<1>0. PcTypeOK /\ ValuesApart /\ PrivateIsFile
    BY BooksFacts DEF PcValues
<1>1. th[t].at = "idle" /\ PcGoes(t, r) /\ UNCHANGED <<pcFile, entry, mem, last>> /\ calls' = calls + 1
    BY DEF Unmap, Calls
<1>2. r.at = "wait"
    BY DEF AtRest
<1> HIDE DEF r
<1>3. th'[t] = r
    BY <1>0, <1>1, GoesFacts
<1>4. ~Racing' => \A u \in PcThreads : th'[u].at \notin Saving
    <2>1. ASSUME ~Racing', NEW u \in PcThreads, th'[u].at \in Saving PROVE FALSE
        <3>1. u # t
            BY <1>2, <1>3, <2>1 DEF Saving
        <3> QED BY <1>2, <1>3, <2>1, <3>1, NextRaceFacts DEF Changing
    <2> QED BY <2>1
<1>5. FileStays
    BY <1>1 DEF FileStays
<1> QED BY <1>0, <1>1, <1>2, <1>4, <1>5, PlainStep DEF Saving, Faulting

LEMMA WaitedValues ==
    ASSUME PcAssumption, PcValues, NEW t \in PcThreads, Waited(t)
    PROVE  ValuesStep
<1> DEFINE r == IF th[t].kind = "shared" THEN [th[t] EXCEPT !.at = "collect"] ELSE AtRest
<1>0. PcTypeOK /\ ValuesApart /\ PrivateIsFile /\ pcFile \in PcFile /\ th[t] \in PcThread
    BY BooksFacts DEF PcValues
<1>1. th[t].at = "wait" /\ PcGoes(t, r) /\ UNCHANGED <<entry, mem, last, region, pte, calls>>
    BY DEF Waited, Alone, Moves
<1>2. r.at \in {"collect", "idle"}
    BY <1>0 DEF AtRest, PcThread
<1> HIDE DEF r
<1>3. FileStays /\ pcFile'.gen = pcFile.gen
    BY <1>0 DEF FileStays, Waited, PcFile
<1> QED BY <1>0, <1>1, <1>2, <1>3, PlainStep DEF Saving, Faulting

LEMMA SyncValues ==
    ASSUME PcAssumption, PcValues, NEW t \in PcThreads, Sync(t)
    PROVE  ValuesStep
<1> DEFINE r == [AtRest EXCEPT !.at = "collect", !.kind = "sync"]
<1>0. PcTypeOK /\ ValuesApart /\ PrivateIsFile
    BY BooksFacts DEF PcValues
<1>1. th[t].at = "idle" /\ PcGoes(t, r) /\ UNCHANGED <<pcFile, entry, mem, last, region, pte>> /\ calls' = calls + 1
    BY DEF Sync, Calls, pageVars
<1>2. r.at = "collect"
    BY DEF AtRest
<1> HIDE DEF r
<1>3. FileStays
    BY <1>1 DEF FileStays
<1> QED BY <1>0, <1>1, <1>2, <1>3, PlainStep DEF Saving, Faulting

LEMMA CollectValues ==
    ASSUME PcAssumption, PcValues, NEW t \in PcThreads, Collect(t)
    PROVE  ValuesStep
<1> DEFINE r == IF entry.dirty THEN [th[t] EXCEPT !.at = "measure", !.frame = entry.frame] ELSE [th[t] EXCEPT !.at = "done"]
<1>0. PcTypeOK /\ FramesInHand /\ ValuesApart /\ PrivateIsFile /\ th[t] \in PcThread
    BY BooksFacts DEF PcValues
<1>1. th[t].at = "collect" /\ PcGoes(t, r) /\ UNCHANGED <<pcFile, entry, mem, last, region, pte, calls>>
    BY DEF Collect, Alone, Moves, procVars
<1>2. (entry.dirty => r.at = "measure" /\ r.frame = entry.frame) /\ (~entry.dirty => r.at = "done")
    BY <1>0 DEF PcThread
<1> HIDE DEF r
<1>3. FileStays /\ (entry.dirty => entry.shared)
    BY <1>0, <1>1 DEF FileStays, FramesInHand
<1>4. r.at \in {"measure", "done"} /\ (r.at = "measure" => entry.frame = r.frame /\ entry.shared /\ entry.dirty)
    BY <1>2, <1>3
<1> QED BY <1>0, <1>1, <1>3, <1>4, PlainStep DEF Saving, Faulting

LEMMA MeasureValues ==
    ASSUME PcAssumption, PcValues, NEW t \in PcThreads, Measure(t)
    PROVE  ValuesStep
<1> DEFINE n == Min({pcFile.size, PageEnd})
           r == [th[t] EXCEPT !.len = n, !.at = IF pcFile.size = 0 THEN "clean" ELSE "save"]
<1>0. PcTypeOK /\ ValuesApart /\ PrivateIsFile /\ th[t] \in PcThread /\ pcFile.size \in Nat
    BY BooksFacts, CellFacts DEF PcValues
<1>1. th[t].at = "measure" /\ PcGoes(t, r) /\ UNCHANGED <<pcFile, entry, mem, last, region, pte, calls>>
    BY DEF Measure, Alone, procVars, pageVars
<1>2. n <= pcFile.size /\ \A c \in Cells : c < pcFile.size => c < n
    <2>1. {pcFile.size, PageEnd} \in SUBSET Nat /\ {pcFile.size, PageEnd} # {}
        BY <1>0 DEF PageEnd
    <2>2. n \in {pcFile.size, PageEnd} /\ \A x \in {pcFile.size, PageEnd} : n <= x
        BY <2>1, LeastOf
    <2> HIDE DEF n
    <2> QED BY <1>0, <2>2 DEF PageEnd, Cells
<1> HIDE DEF n
<1>3. r.len = n /\ r.at = (IF pcFile.size = 0 THEN "clean" ELSE "save") /\ r.frame = th[t].frame
    BY <1>0 DEF PcThread
<1> HIDE DEF r
<1>4. FileStays
    BY <1>1 DEF FileStays
<1>5. CalmPage => entry.frame = th[t].frame /\ entry.shared /\ entry.dirty
    BY <1>1 DEF CalmPage, ThreadCalm, Saving
<1>6. CASE pcFile.size = 0
    <2>1. r.at = "clean"
        BY <1>3, <1>6
    <2> QED BY <1>0, <1>1, <1>3, <1>4, <1>5, <1>6, <2>1, PlainStep DEF Faulting
<1>7. CASE pcFile.size # 0
    <2>1. r.at = "save"
        BY <1>3, <1>7
    <2> QED BY <1>0, <1>1, <1>2, <1>3, <1>4, <1>5, <2>1, PlainStep DEF Faulting
<1> QED BY <1>6, <1>7

LEMMA DoneValues ==
    ASSUME PcAssumption, PcValues, NEW t \in PcThreads, Done(t)
    PROVE  ValuesStep
<1>0. PcTypeOK /\ ValuesApart /\ PrivateIsFile /\ pcFile \in PcFile
    BY BooksFacts DEF PcValues
<1>1. th[t].at = "done" /\ PcGoes(t, AtRest) /\ UNCHANGED <<entry, mem, last, region, pte, calls>>
    BY DEF Done, Alone
<1>2. FileStays /\ pcFile'.gen = pcFile.gen
    BY <1>0 DEF FileStays, Done, PcFile
<1> QED BY <1>0, <1>1, <1>2, RestFacts, PlainStep DEF Saving, Faulting

LEMMA RevalidateValues ==
    ASSUME PcAssumption, PcValues, NEW t \in PcThreads, Revalidate(t)
    PROVE  ValuesStep
<1>0. PcTypeOK /\ ValuesApart /\ PrivateIsFile /\ pte \in [PcProcs -> PcFrames \cup {0}]
    BY BooksFacts DEF PcValues, PcTypeOK
<1>1. /\ UNCHANGED <<pcFile, entry, mem, last, region, calls, th>>
      /\ (pcFile.size # 0 => pte' = pte)
    BY DEF Revalidate, Alone
<1>2. FileStays /\ WritesStay
    BY <1>1 DEF FileStays, WritesStay
<1>3. ValuesApart'
    BY <1>0, <1>1, <1>2, ApartStays
<1>4. PrivateIsFile'
    BY <1>0, <1>1, <1>2, PrivateStays
<1>5. CalmPage => CalmPage'
    BY <1>0, <1>1, <1>2, CalmStays
<1> QED BY <1>3, <1>4, <1>5 DEF ValuesStep

LEMMA ReadInValues ==
    ASSUME PcAssumption, PcValues, NEW t \in PcThreads, ReadIn(t)
    PROVE  ValuesStep
<1> DEFINE r == [th[t] EXCEPT !.at = "insert"]
<1>0. /\ PcTypeOK /\ FramesInHand /\ ValuesApart /\ PrivateIsFile /\ th[t] \in PcThread
      /\ mem \in [PcFrames -> [Cells -> Nat]] /\ entry.frame \in PcFrames \cup {0} /\ 0 \notin PcFrames
      /\ \A u \in PcThreads : th[u].frame \in PcFrames \cup {0}
    BY BooksFacts DEF PcValues, PcTypeOK, PcThread
<1>1. /\ th[t].at = "read" /\ PcGoes(t, r) /\ mem' = [mem EXCEPT ![th[t].frame] = FileCells(pcFile)]
      /\ UNCHANGED <<pcFile, entry, last, region, pte, calls>>
    BY DEF ReadIn, Alone, procVars, Moves
<1>2. r.at = "insert" /\ r.frame = th[t].frame /\ r.gen = th[t].gen /\ r.kind = th[t].kind
    BY <1>0 DEF PcThread
<1> HIDE DEF r
<1>3. th'[t] = r /\ \A u \in PcThreads : u # t => th'[u] = th[u]
    BY <1>0, <1>1, GoesFacts
<1>4. /\ th[t].frame \in PcFrames /\ entry.frame # th[t].frame
      /\ \A u \in PcThreads : u # t => th[u].frame # th[t].frame
    BY <1>0, <1>1 DEF FramesInHand
<1>5. /\ mem'[th[t].frame] = FileCells(pcFile)
      /\ \A f \in PcFrames : f # th[t].frame => mem'[f] = mem[f]
    BY <1>0, <1>1, <1>4
<1>6. entry.shared => entry.frame # 0
    BY <1>0 DEF FramesInHand, NoEntry
<1>7. WritesStay /\ FileStays
    BY <1>1, <1>2, <1>3 DEF WritesStay, FileStays
<1>8. ValuesApart'
    BY <1>0, <1>1, <1>7, ApartStays
<1>9. PrivateIsFile'
    <2>1. entry'.frame # 0 => mem'[entry'.frame] = mem[entry'.frame]
        BY <1>0, <1>1, <1>4, <1>5
    <2>2. ASSUME NEW u \in PcThreads, th'[u].at = "insert"
          PROVE  /\ th'[u].frame = th[u].frame /\ th'[u].gen = th[u].gen
                 /\ \/ th[u].at = "insert" /\ mem'[th[u].frame] = mem[th[u].frame]
                    \/ mem'[th[u].frame] = FileCells(pcFile)
        <3>1. CASE u = t
            BY <1>2, <1>3, <1>5, <3>1
        <3>2. CASE u # t
            <4>1. th'[u] = th[u] /\ th[u].frame # 0
                BY <1>0, <1>3, <2>2, <3>2 DEF FramesInHand
            <4> QED BY <1>0, <1>4, <1>5, <2>2, <3>2, <4>1
        <3> QED BY <3>1, <3>2
    <2> QED BY <1>0, <1>1, <1>2, <1>3, <1>7, <2>1, <2>2, PrivateStays
<1>10. CalmPage => CalmPage'
    <2>1. CalmPage => (th[t].kind = "shared" => pcFile.size > 0)
        BY <1>1 DEF CalmPage, ThreadCalm, Faulting
    <2>2. entry.shared => mem'[entry.frame] = mem[entry.frame]
        BY <1>0, <1>4, <1>5, <1>6
    <2> QED BY <1>0, <1>1, <1>2, <1>3, <1>7, <2>1, <2>2, CalmStays DEF Saving
<1> QED BY <1>8, <1>9, <1>10 DEF ValuesStep

\* A fault that marks the page shared: what it held is the file's, or was
\* shared already
LEMMA MarkedCalm ==
    ASSUME PcAssumption, PcValues, CalmPage, ~Racing, NEW t \in PcThreads,
           th[t].at \in Faulting, th[t].kind = "shared", th'[t].at = "install",
           \A u \in PcThreads : u # t => th'[u] = th[u],
           WritesStay, FileStays, last' = last, mem' = mem, region' = region, pte' = pte,
           entry'.shared, entry'.dirty, entry.shared => entry'.frame = entry.frame,
           ~entry.shared => SameAsFile(entry'.frame)
    PROVE  CalmPage'
<1>0. pcFile.size > 0 /\ pcFile.size \in Nat /\ PcTypeOK
    BY BooksFacts, CellFacts DEF CalmPage, ThreadCalm, PcValues
<1>1. \A u \in PcThreads : th[u].at # "cut"
    BY RaceFacts
<1>2. \A u \in PcThreads : th[u].at \in Saving => entry.shared /\ entry.dirty /\ entry.frame = th[u].frame
    BY DEF CalmPage, ThreadCalm
<1>3. ASSUME NEW c \in Cells, c < pcFile'.size, Writers(c)' = {} PROVE mem'[entry'.frame][c] \in last'[c]
    <2>1. Writers(c) = {} /\ c < pcFile.size
        BY <1>3, WritersStay DEF FileStays
    <2>2. CASE entry.shared
        BY <2>1, <2>2 DEF CalmPage, PageCalm
    <2>3. CASE ~entry.shared
        <3>1. Settled(c)
            BY <2>1, <2>3 DEF CalmPage, PageCalm
        <3>2. pcFile.data[c] \in last[c]
            BY <2>1, <3>1 DEF Settled
        <3>3. \A u \in PcThreads : th[u].at \notin {"cut", "saved"}
            BY <1>1, <1>2, <2>3 DEF Saving
        <3>4. mem[entry'.frame][c] = FileCells(pcFile)[c]
            BY <2>1, <2>3, <3>3 DEF SameAsFile
        <3>5. FileCells(pcFile)[c] = pcFile.data[c]
            BY <2>1 DEF FileCells
        <3> QED BY <3>2, <3>4, <3>5
    <2> QED BY <2>2, <2>3
<1>4. PageCalm'
    BY <1>0, <1>3 DEF PageCalm, FileStays
<1>5. ASSUME NEW u \in PcThreads PROVE ThreadCalm(th[u])'
    <2>1. CASE u = t
        BY <1>0, <2>1 DEF ThreadCalm, FileStays, Saving
    <2>2. CASE u # t
        <3>1. th'[u] = th[u] /\ ThreadCalm(th[u])
            BY <2>2 DEF CalmPage
        <3>2. th[u].at \in Saving => entry.shared /\ entry'.frame = entry.frame
            BY <1>2
        <3>3. th[u].at \in {"saved", "clean"} /\ th[u].ok => SavedHolds'
            <4>1. th[u].at \in {"saved", "clean"} => th[u].at \in Saving
                BY DEF Saving
            <4>2. th[u].at \in {"saved", "clean"} /\ th[u].ok => SavedHolds /\ entry'.frame = entry.frame
                BY <3>1, <3>2, <4>1 DEF ThreadCalm
            <4> QED BY <4>2 DEF SavedHolds, FileStays
        <3> QED BY <3>1, <3>2, <3>3 DEF ThreadCalm, FileStays
    <2> QED BY <2>1, <2>2
<1> QED BY <1>4, <1>5 DEF CalmPage

LEMMA FindValues ==
    ASSUME PcAssumption, PcValues, NEW t \in PcThreads, Find(t)
    PROVE  ValuesStep
<1>0. /\ PcTypeOK /\ FramesInHand /\ ValuesApart /\ PrivateIsFile /\ th[t] \in PcThread /\ entry \in PcEntry
      /\ entry.frame \in PcFrames \cup {0} /\ 0 \notin PcFrames
    BY BooksFacts DEF PcValues
<1>1. th[t].at = "find" /\ UNCHANGED <<pcFile, mem, last, region, pte, calls>>
    BY DEF Find, Alone, procVars
<1>2. PICK r : /\ PcGoes(t, r) /\ r.at \in {"install", "read"} /\ r.kind = th[t].kind
               /\ entry' = (IF entry.frame # 0 THEN mark_shared(entry, th[t].kind) ELSE entry)
               /\ entry.frame # 0 => r.at = "install"
    <2>1. CASE entry.frame # 0
        <3> DEFINE r == [th[t] EXCEPT !.at = "install", !.frame = entry.frame]
        <3>1. PcGoes(t, r) /\ entry' = mark_shared(entry, th[t].kind)
            BY <2>1 DEF Find
        <3>2. r.at = "install" /\ r.kind = th[t].kind
            BY <1>0 DEF PcThread
        <3> QED BY <2>1, <3>1, <3>2
    <2>2. CASE entry.frame = 0 /\ FreeFrames(ref) = {}
        <3> DEFINE r == [th[t] EXCEPT !.at = "install", !.frame = 0]
        <3>1. PcGoes(t, r) /\ entry' = entry
            BY <2>2 DEF Find
        <3>2. r.at = "install" /\ r.kind = th[t].kind
            BY <1>0 DEF PcThread
        <3> QED BY <2>2, <3>1, <3>2
    <2>3. CASE entry.frame = 0 /\ FreeFrames(ref) # {}
        <3> DEFINE f == Min(FreeFrames(ref))
                   r == [th[t] EXCEPT !.at = "read", !.frame = f, !.gen = pcFile.gen]
        <3>1. PcGoes(t, r) /\ entry' = entry
            BY <2>3 DEF Find
        <3> HIDE DEF f
        <3>2. r.at = "read" /\ r.kind = th[t].kind
            BY <1>0 DEF PcThread
        <3> QED BY <2>3, <3>1, <3>2
    <2> QED BY <2>1, <2>2, <2>3
<1>3. th'[t] = r /\ \A u \in PcThreads : u # t => th'[u] = th[u]
    BY <1>0, <1>2, GoesFacts
<1>4. WritesStay /\ FileStays
    BY <1>1, <1>2, <1>3 DEF WritesStay, FileStays
<1>5. /\ entry'.frame = entry.frame /\ (~entry'.shared => ~entry.shared)
      /\ th[t].kind # "shared" \/ entry.frame = 0 => entry' = entry
      /\ th[t].kind = "shared" /\ entry.frame # 0 => entry'.shared /\ entry'.dirty
    BY <1>0, <1>2, MarkFacts DEF FramesInHand
<1>6. ValuesApart'
    BY <1>0, <1>1, <1>4, ApartStays
<1>7. PrivateIsFile'
    BY <1>0, <1>1, <1>2, <1>3, <1>4, <1>5, PrivateStays
<1>8. ASSUME CalmPage, ~Racing PROVE CalmPage'
    <2>1. CASE th[t].kind = "shared" /\ entry.frame # 0
        <3>1. th[t].at \in Faulting /\ th'[t].at = "install"
            BY <1>1, <1>2, <1>3, <2>1 DEF Faulting
        <3>2. ~entry.shared => SameAsFile(entry'.frame)
            BY <1>0, <1>5, <2>1 DEF PrivateIsFile
        <3> QED BY <1>1, <1>3, <1>4, <1>5, <1>8, <2>1, <3>1, <3>2, MarkedCalm
    <2>2. CASE ~(th[t].kind = "shared" /\ entry.frame # 0)
        <3>1. th[t].kind = "shared" => pcFile.size > 0
            BY <1>1, <1>8 DEF CalmPage, ThreadCalm, Faulting
        <3>2. entry' = entry
            BY <1>5, <2>2
        <3> QED BY <1>0, <1>1, <1>2, <1>3, <1>4, <1>8, <3>1, <3>2, CalmStays DEF Saving
    <2> QED BY <2>1, <2>2
<1> QED BY <1>6, <1>7, <1>8 DEF ValuesStep

LEMMA InsertValues ==
    ASSUME PcAssumption, PcValues, NEW t \in PcThreads, Insert(t)
    PROVE  ValuesStep
<1> DEFINE e == [NoEntry EXCEPT !.frame = th[t].frame]
<1>0. /\ PcTypeOK /\ FramesInHand /\ ValuesApart /\ PrivateIsFile /\ th[t] \in PcThread /\ entry \in PcEntry
      /\ entry.frame \in PcFrames \cup {0} /\ 0 \notin PcFrames
    BY BooksFacts DEF PcValues
<1>1. th[t].at = "insert" /\ th[t].frame \in PcFrames /\ UNCHANGED <<pcFile, mem, last, region, pte, calls>>
    BY <1>0, BooksFacts DEF Insert, Alone, procVars, FramesInHand, PcValues
<1>2. PICK r : /\ PcGoes(t, r) /\ r.at \in {"install", "find"} /\ r.kind = th[t].kind
               /\ \/ entry.frame # 0 /\ entry' = mark_shared(entry, th[t].kind) /\ r.at = "install"
                  \/ entry.frame = 0 /\ th[t].gen = pcFile.gen /\ entry' = mark_shared(e, th[t].kind) /\ r.at = "install"
                  \/ entry.frame = 0 /\ th[t].gen # pcFile.gen /\ entry' = entry
    <2>1. CASE entry.frame # 0
        <3> DEFINE r == [th[t] EXCEPT !.at = "install", !.frame = entry.frame]
        <3>1. PcGoes(t, r) /\ entry' = mark_shared(entry, th[t].kind)
            BY <2>1 DEF Insert
        <3>2. r.at = "install" /\ r.kind = th[t].kind
            BY <1>0 DEF PcThread
        <3> QED BY <2>1, <3>1, <3>2
    <2>2. CASE entry.frame = 0 /\ Current(t)
        <3> DEFINE r == [th[t] EXCEPT !.at = "install"]
        <3>1. PcGoes(t, r) /\ entry' = mark_shared(e, th[t].kind)
            BY <2>2 DEF Insert, Moves
        <3>2. r.at = "install" /\ r.kind = th[t].kind
            BY <1>0 DEF PcThread
        <3> QED BY <2>2, <3>1, <3>2 DEF Current
    <2>3. CASE entry.frame = 0 /\ ~Current(t) /\ th[t].kind = "private"
        <3> DEFINE r == [th[t] EXCEPT !.at = "install"]
        <3>1. PcGoes(t, r) /\ entry' = entry
            BY <2>3 DEF Insert, Moves
        <3>2. r.at = "install" /\ r.kind = th[t].kind
            BY <1>0 DEF PcThread
        <3> QED BY <2>3, <3>1, <3>2 DEF Current
    <2>4. CASE entry.frame = 0 /\ ~Current(t) /\ th[t].kind # "private"
        <3> DEFINE a == IF th[t].tries + 1 < PcTries THEN "find" ELSE "install"
                   r == [th[t] EXCEPT !.at = a, !.frame = 0, !.tries = th[t].tries + 1]
        <3>1. PcGoes(t, r) /\ entry' = entry
            BY <2>4 DEF Insert
        <3>2. a \in {"find", "install"}
            OBVIOUS
        <3> HIDE DEF a
        <3>3. r.at \in {"install", "find"} /\ r.kind = th[t].kind
            BY <1>0, <3>2 DEF PcThread
        <3> QED BY <2>4, <3>1, <3>3 DEF Current
    <2> QED BY <2>1, <2>2, <2>3, <2>4
<1>3. th'[t] = r /\ \A u \in PcThreads : u # t => th'[u] = th[u]
    BY <1>0, <1>2, GoesFacts
<1>4. WritesStay /\ FileStays
    BY <1>1, <1>2, <1>3 DEF WritesStay, FileStays
<1>5. e \in PcEntry /\ e.frame = th[t].frame /\ ~e.dirty /\ ~e.shared
    BY <1>1 DEF PcEntry, NoEntry
<1> HIDE DEF e
<1>6. CASE entry.frame # 0
    <2>1. /\ entry'.frame = entry.frame /\ (~entry'.shared => ~entry.shared)
          /\ (th[t].kind # "shared" => entry' = entry)
          /\ (th[t].kind = "shared" => entry'.shared /\ entry'.dirty)
        BY <1>0, <1>2, <1>6, MarkFacts DEF FramesInHand
    <2>2. ValuesApart'
        BY <1>0, <1>1, <1>4, ApartStays
    <2>3. PrivateIsFile'
        BY <1>0, <1>1, <1>2, <1>3, <1>4, <2>1, PrivateStays
    <2>4. ASSUME CalmPage, ~Racing PROVE CalmPage'
        <3>1. CASE th[t].kind = "shared"
            <4>1. th[t].at \in Faulting /\ th'[t].at = "install"
                BY <1>1, <1>2, <1>3, <1>6 DEF Faulting
            <4>2. ~entry.shared => SameAsFile(entry'.frame)
                BY <1>0, <1>6, <2>1 DEF PrivateIsFile
            <4> QED BY <1>1, <1>3, <1>4, <2>1, <2>4, <3>1, <4>1, <4>2, MarkedCalm
        <3>2. CASE th[t].kind # "shared"
            BY <1>0, <1>1, <1>2, <1>3, <1>4, <2>1, <2>4, <3>2, CalmStays DEF Saving
        <3> QED BY <3>1, <3>2
    <2> QED BY <2>2, <2>3, <2>4 DEF ValuesStep
<1>7. CASE entry.frame = 0 /\ th[t].gen = pcFile.gen
    <2>1. /\ entry'.frame = th[t].frame /\ (th[t].kind # "shared" => entry' = e)
          /\ (th[t].kind = "shared" => entry'.shared /\ entry'.dirty) /\ th'[t].at = "install"
        BY <1>0, <1>1, <1>2, <1>3, <1>5, <1>7, MarkFacts
    <2>2. ValuesApart'
        BY <1>0, <1>1, <1>4, ApartStays
    <2>3. PrivateIsFile'
        BY <1>0, <1>1, <1>2, <1>3, <1>4, <1>7, <2>1, PrivateStays
    <2>4. ~entry.shared /\ ~entry.dirty
        BY <1>0, <1>7 DEF FramesInHand, NoEntry
    <2>5. ASSUME CalmPage, ~Racing PROVE CalmPage'
        <3>1. CASE th[t].kind = "shared"
            <4>1. th[t].at \in Faulting
                BY <1>1 DEF Faulting
            <4>2. SameAsFile(entry'.frame)
                BY <1>0, <1>1, <1>7, <2>1 DEF PrivateIsFile
            <4> QED BY <1>1, <1>3, <1>4, <2>1, <2>4, <2>5, <3>1, <4>1, <4>2, MarkedCalm
        <3>2. CASE th[t].kind # "shared"
            <4>1. ~entry'.shared /\ ~entry'.dirty
                BY <1>5, <2>1, <3>2
            <4>2. PageCalm'
                BY <1>4, <2>4, <2>5, <4>1, SettledStays, <1>1 DEF PageCalm, CalmPage, FileStays
            <4>3. ASSUME NEW u \in PcThreads PROVE ThreadCalm(th[u])'
                <5>1. ThreadCalm(th[u]) /\ th[u].at \notin Saving
                    BY <2>4, <2>5 DEF CalmPage, ThreadCalm
                <5>2. CASE u = t
                    BY <1>2, <1>3, <2>1, <3>2, <5>2 DEF ThreadCalm, Saving
                <5>3. CASE u # t
                    BY <1>1, <1>3, <5>1, <5>3 DEF ThreadCalm, Saving
                <5> QED BY <5>2, <5>3
            <4> QED BY <4>2, <4>3 DEF CalmPage
        <3> QED BY <3>1, <3>2
    <2> QED BY <2>2, <2>3, <2>5 DEF ValuesStep
<1>8. CASE entry.frame = 0 /\ th[t].gen # pcFile.gen
    <2>1. entry' = entry
        BY <1>2, <1>8
    <2>2. CalmPage => (th[t].kind = "shared" => pcFile.size > 0)
        BY <1>1 DEF CalmPage, ThreadCalm, Faulting
    <2> QED BY <1>0, <1>1, <1>2, <1>4, <2>1, <2>2, PlainStep DEF Saving
<1> QED BY <1>6, <1>7, <1>8

\* Once the cache is told of a change, no private page is left, and none that
\* was read before it goes in
LEMMA TellFacts ==
    ASSUME PcTypeOK, GenSeen, pcFile'.gen = pcFile.gen + 1, entry'.frame # 0 => entry'.shared,
           \A u \in PcThreads : th'[u].at = "insert" => th'[u].gen = th[u].gen
    PROVE  PrivateIsFile'
<1>1. ASSUME NEW u \in PcThreads, th'[u].at = "insert" PROVE th'[u].gen # pcFile'.gen
    <2>1. th[u].gen \in Nat /\ pcFile.gen \in Nat /\ th[u].gen <= pcFile.gen
        BY DEF PcTypeOK, PcThread, PcFile, GenSeen
    <2> QED BY <1>1, <2>1
<1> QED BY <1>1 DEF PrivateIsFile

LEMMA StoreValues ==
    ASSUME PcAssumption, PcValues, NEW t \in PcThreads, NEW c \in Cells, Store(t, c)
    PROVE  ValuesStep
<1> DEFINE g == pte[PcProcOf[t]]
           z == [mem[g] EXCEPT ![c] = calls + 1]
<1>0. /\ PcTypeOK /\ FramesInHand /\ SharedIsDirty /\ ValuesApart /\ PrivateIsFile /\ PcProcOf[t] \in PcProcs
      /\ pte \in [PcProcs -> PcFrames \cup {0}] /\ mem \in [PcFrames -> [Cells -> Nat]] /\ calls \in Nat
      /\ last \in [Cells -> SUBSET Nat] /\ entry.frame \in PcFrames \cup {0} /\ 0 \notin PcFrames
      /\ \A u \in PcThreads : th[u].frame \in PcFrames \cup {0}
    BY BooksFacts DEF PcValues, PcTypeOK, PcThread
<1>1. /\ region[PcProcOf[t]] = "shared" /\ g # 0 /\ calls' = calls + 1 /\ mem' = [mem EXCEPT ![g] = z]
      /\ last' = (IF c < pcFile.size /\ g = entry.frame THEN [last EXCEPT ![c] = {calls + 1}] ELSE last)
      /\ UNCHANGED <<pcFile, entry, region, pte, th>>
    BY DEF Store, Calls, procVars
<1>2. /\ g \in PcFrames /\ mem'[g] = z /\ z[c] = calls + 1 /\ \A d \in Cells : d # c => z[d] = mem[g][d]
    BY <1>0, <1>1
<1>3. \A f \in PcFrames : f # g => mem'[f] = mem[f]
    BY <1>0, <1>1
<1>4. g = entry.frame => entry.shared /\ entry.dirty
    BY <1>0, <1>1 DEF SharedIsDirty
<1>5. WritesStay /\ FileStays
    BY <1>1 DEF WritesStay, FileStays
<1>6. \A d \in Cells : \/ last'[d] = last[d]
                       \/ d = c /\ g = entry.frame /\ last'[d] = {calls + 1}
    BY <1>0, <1>1
<1> HIDE DEF z
<1>7. ValuesApart'
    <2>1. ASSUME NEW d \in Cells, NEW v \in last'[d] PROVE v <= calls'
        <3>1. CASE v \in last[d]
            <4>1. v \in Nat /\ v <= calls
                BY <1>0, <3>1 DEF ValuesApart
            <4> QED BY <1>0, <1>1, <4>1
        <3>2. CASE v = calls + 1
            BY <1>0, <1>1, <3>2
        <3> QED BY <1>6, <2>1, <3>1, <3>2
    <2>2. ASSUME NEW u \in PcThreads, th'[u].at = "written"
          PROVE  /\ 0 < th'[u].val /\ th'[u].val <= calls'
                 /\ \A v \in th'[u].older : v <= calls'
                 /\ th'[u].cell \in Cells => th'[u].val \notin last'[th'[u].cell]
        <3>1. th[u].at = "written" /\ th'[u] = th[u] /\ th[u].val \in Nat /\ th[u].older \subseteq Nat
            BY <1>0, <1>1, <2>2 DEF PcTypeOK, PcThread
        <3>2. 0 < th[u].val /\ th[u].val <= calls /\ \A v \in th[u].older : v <= calls
            BY <1>0, <3>1 DEF ValuesApart
        <3>3. th[u].cell \in Cells => th[u].val \notin last[th[u].cell]
            BY <1>0, <3>1 DEF ValuesApart
        <3>4. th[u].val # calls + 1
            BY <1>0, <3>1, <3>2
        <3>5. th[u].cell \in Cells => th[u].val \notin last'[th[u].cell]
            BY <1>6, <3>3, <3>4
        <3> QED BY <1>0, <1>1, <3>1, <3>2, <3>5
    <2>3. ASSUME NEW u \in PcThreads, NEW w \in PcThreads, th'[u].at = "written", th'[w].at = "written", w # u
          PROVE  th'[w].val # th'[u].val /\ (th'[w].cell = th'[u].cell => th'[u].val \notin th'[w].older)
        BY <1>0, <1>1, <2>3 DEF ValuesApart
    <2> QED BY <2>1, <2>2, <2>3 DEF ValuesApart
<1>8. PrivateIsFile'
    <2>1. entry'.frame # 0 /\ ~entry'.shared => mem'[entry'.frame] = mem[entry'.frame]
        BY <1>0, <1>1, <1>3, <1>4
    <2>2. \A u \in PcThreads : th[u].at = "insert" => mem'[th[u].frame] = mem[th[u].frame]
        BY <1>0, <1>3 DEF FramesInHand
    <2> QED BY <1>0, <1>1, <1>5, <2>1, <2>2, PrivateStays
<1>9. ASSUME CalmPage PROVE CalmPage'
    <2>1. CASE g # entry.frame
        <3>1. last' = last
            BY <1>1, <2>1
        <3>2. entry.shared => mem'[entry.frame] = mem[entry.frame]
            BY <1>0, <1>3, <2>1 DEF FramesInHand, NoEntry
        <3> QED BY <1>0, <1>1, <1>5, <1>9, <3>1, <3>2, CalmStays
    <2>2. CASE g = entry.frame
        <3>1. PageCalm'
            <4>1. ASSUME NEW d \in Cells, d < pcFile'.size, Writers(d)' = {} PROVE mem'[entry'.frame][d] \in last'[d]
                <5>1. d < pcFile.size /\ Writers(d) = {} /\ entry'.frame = g
                    BY <1>1, <1>5, <2>2, <4>1, WritersStay
                <5>2. CASE d = c
                    <6>1. last'[d] = {calls + 1}
                        BY <1>0, <1>1, <2>2, <5>1, <5>2
                    <6> QED BY <1>2, <5>1, <5>2, <6>1
                <5>3. CASE d # c
                    <6>1. mem[g][d] \in last[d]
                        BY <1>4, <1>9, <2>2, <5>1 DEF CalmPage, PageCalm
                    <6>2. last'[d] = last[d] /\ mem'[g][d] = mem[g][d]
                        BY <1>2, <1>6, <5>3
                    <6> QED BY <5>1, <6>1, <6>2
                <5> QED BY <5>2, <5>3
            <4>2. pcFile'.size > 0 \/ \E u \in PcThreads : th'[u].at = "cut"
                BY <1>1, <1>4, <1>9, <2>2 DEF CalmPage, PageCalm
            <4> QED BY <1>1, <1>4, <2>2, <4>1, <4>2 DEF PageCalm
        <3>2. SavedHolds'
            BY <1>0, <1>1, <2>2 DEF SavedHolds
        <3>3. ASSUME NEW u \in PcThreads PROVE ThreadCalm(th[u])'
            BY <1>1, <1>9, <3>2 DEF CalmPage, ThreadCalm
        <3> QED BY <3>1, <3>3 DEF CalmPage
    <2> QED BY <2>1, <2>2
<1> QED BY <1>7, <1>8, <1>9 DEF ValuesStep

LEMMA SaveValues ==
    ASSUME PcAssumption, PcValues, NEW t \in PcThreads, NEW ok \in BOOLEAN, Save(t, ok)
    PROVE  ValuesStep
<1> DEFINE n == th[t].len
           m == mem[th[t].frame]
           r == [th[t] EXCEPT !.ok = ok, !.at = IF ok THEN "saved" ELSE "clean"]
           y == Max({pcFile.size, n})
           z == [c \in Cells |-> IF c < n THEN m[c] ELSE pcFile.data[c]]
           w == [pcFile EXCEPT !.size = y, !.data = z]
<1>0. /\ PcTypeOK /\ ValuesApart /\ PrivateIsFile /\ th[t] \in PcThread /\ pcFile \in PcFile
      /\ pcFile.size \in Nat /\ n \in Nat
    BY BooksFacts, CellFacts DEF PcValues, PcThread
<1>1. /\ th[t].at = "save" /\ PcGoes(t, r) /\ pcFile' = (IF ok THEN w ELSE pcFile)
      /\ UNCHANGED <<entry, mem, last, region, pte, calls>>
    BY DEF Save, Alone, procVars
<1>2. r.ok = ok /\ r.at = (IF ok THEN "saved" ELSE "clean") /\ r.frame = th[t].frame
    BY <1>0 DEF PcThread
<1>3. n <= pcFile.size => y = pcFile.size
    BY <1>0 DEF Max
<1>4. \A c \in Cells : z[c] = IF c < n THEN m[c] ELSE pcFile.data[c]
    OBVIOUS
<1> HIDE DEF y, z, r
<1>5. w.size = y /\ w.data = z
    BY <1>0 DEF PcFile
<1> HIDE DEF w, n, m
<1>6. th'[t] = r /\ \A u \in PcThreads : u # t => th'[u] = th[u]
    BY <1>0, <1>1, GoesFacts
<1>7. WritesStay
    BY <1>1, <1>2, <1>6 DEF WritesStay
<1>8. ValuesApart'
    BY <1>0, <1>1, <1>7, ApartStays
<1>9. PrivateIsFile'
    <2>1. CASE ok
        <3>1. th'[t].at = "saved"
            BY <1>2, <1>6, <2>1
        <3> QED BY <3>1 DEF PrivateIsFile, SameAsFile
    <2>2. CASE ~ok
        <3>1. FileStays /\ pcFile' = pcFile /\ r.at = "clean"
            BY <1>1, <1>2, <2>2 DEF FileStays
        <3> QED BY <1>0, <1>1, <1>6, <1>7, <3>1, PrivateStays
    <2> QED BY <2>1, <2>2
<1>10. ASSUME CalmPage, ~Racing PROVE CalmPage'
    <2>1. /\ entry.frame = th[t].frame /\ entry.shared /\ entry.dirty
          /\ n <= pcFile.size /\ \A c \in Cells : c < pcFile.size => c < n
        BY <1>1, <1>10 DEF CalmPage, ThreadCalm, Saving, n
    <2>2. pcFile'.size = pcFile.size
        BY <1>1, <1>3, <1>5, <2>1
    <2>3. PageCalm'
        <3>1. \A c \in Cells : Writers(c)' = Writers(c)
            BY <1>7, WritersStay
        <3>2. \A u \in PcThreads : th[u].at = "cut" => th'[u].at = "cut"
            BY <1>1, <1>6
        <3>3. /\ \A c \in Cells : c < pcFile.size /\ Writers(c) = {} => mem[entry.frame][c] \in last[c]
              /\ pcFile.size > 0 \/ \E u \in PcThreads : th[u].at = "cut"
            BY <1>10, <2>1 DEF CalmPage, PageCalm
        <3> QED BY <1>1, <2>1, <2>2, <3>1, <3>2, <3>3 DEF PageCalm
    <2>4. ASSUME ok PROVE SavedHolds'
        <3>1. ASSUME NEW c \in Cells, c < pcFile'.size PROVE mem'[entry'.frame][c] = pcFile'.data[c]
            BY <1>1, <1>4, <1>5, <2>1, <2>2, <2>4, <3>1 DEF m
        <3> QED BY <3>1 DEF SavedHolds
    <2>5. ASSUME NEW u \in PcThreads PROVE ThreadCalm(th[u])'
        <3>1. CASE u = t
            <4>1. CASE ok
                <5>1. th'[u].at = "saved" /\ th'[u].frame = th[t].frame /\ th'[u].ok
                    BY <1>2, <1>6, <3>1, <4>1
                <5> QED BY <1>1, <2>1, <2>4, <4>1, <5>1 DEF ThreadCalm, Faulting
            <4>2. CASE ~ok
                <5>1. th'[u].at = "clean" /\ th'[u].frame = th[t].frame /\ ~th'[u].ok
                    BY <1>2, <1>6, <3>1, <4>2
                <5> QED BY <1>1, <2>1, <5>1 DEF ThreadCalm, Faulting
            <4> QED BY <4>1, <4>2
        <3>2. CASE u # t
            <4>1. th'[u] = th[u] /\ th[u].at \notin Saving /\ ThreadCalm(th[u])
                BY <1>1, <1>6, <1>10, <3>2, RaceFacts DEF CalmPage, Saving
            <4> QED BY <2>2, <4>1 DEF ThreadCalm, Saving
        <3> QED BY <3>1, <3>2
    <2> QED BY <2>3, <2>5 DEF CalmPage
<1> QED BY <1>8, <1>9, <1>10 DEF ValuesStep

LEMMA SavedValues ==
    ASSUME PcAssumption, PcValues, NEW t \in PcThreads, Saved(t)
    PROVE  ValuesStep
<1> DEFINE r == [th[t] EXCEPT !.at = "clean"]
<1>0. /\ PcTypeOK /\ GenSeen /\ ValuesApart /\ th[t] \in PcThread
    BY BooksFacts DEF PcValues
<1>1. /\ th[t].at = "saved" /\ PcGoes(t, r) /\ pcFile' = [pcFile EXCEPT !.gen = pcFile.gen + 1]
      /\ entry' = (IF entry.shared THEN entry ELSE NoEntry)
      /\ UNCHANGED <<mem, last, region, pte, calls>>
    BY DEF Saved, Alone, procVars, Moves
<1>2. r.ok = th[t].ok /\ r.at = "clean" /\ r.frame = th[t].frame /\ r.gen = th[t].gen
    BY <1>0 DEF PcThread
<1> HIDE DEF r
<1>3. th'[t] = r /\ \A u \in PcThreads : u # t => th'[u] = th[u]
    BY <1>0, <1>1, GoesFacts
<1>4. FileStays /\ pcFile'.gen = pcFile.gen + 1
    BY <1>0, <1>1, GenerationUp DEF FileStays
<1>5. WritesStay
    BY <1>1, <1>2, <1>3 DEF WritesStay
<1>6. ValuesApart'
    BY <1>0, <1>1, <1>5, ApartStays
<1>7. PrivateIsFile'
    <2>1. entry'.frame # 0 => entry'.shared
        BY <1>1 DEF NoEntry
    <2> QED BY <1>0, <1>2, <1>3, <1>4, <2>1, TellFacts
<1>8. ASSUME CalmPage PROVE CalmPage'
    <2>1. entry.frame = th[t].frame /\ entry.shared /\ entry.dirty /\ th[t].ok
        BY <1>1, <1>8 DEF CalmPage, ThreadCalm, Saving
    <2>2. entry' = entry
        BY <1>1, <2>1
    <2> QED BY <1>0, <1>1, <1>2, <1>3, <1>4, <1>5, <1>8, <2>1, <2>2, CalmStays DEF Faulting
<1> QED BY <1>6, <1>7, <1>8 DEF ValuesStep

LEMMA CleanValues ==
    ASSUME PcAssumption, PcValues, NEW t \in PcThreads, Clean(t)
    PROVE  ValuesStep
<1> DEFINE r == [th[t] EXCEPT !.at = "done", !.frame = 0]
           cleans == entry.frame = th[t].frame /\ CleanAfter(t)
<1>0. /\ PcBooks /\ PcTypeOK /\ FramesInHand /\ ValuesApart /\ PrivateIsFile /\ th[t] \in PcThread /\ entry \in PcEntry
    BY BooksFacts DEF PcValues
<1>1. /\ th[t].at = "clean" /\ PcGoes(t, r) /\ entry' = (IF cleans THEN [entry EXCEPT !.dirty = FALSE] ELSE entry)
      /\ UNCHANGED <<pcFile, mem, last, region, pte, calls>>
    BY DEF Clean, Alone, procVars
<1>2. r.at = "done"
    BY <1>0 DEF PcThread
<1>3. /\ entry'.frame = entry.frame /\ entry'.shared = entry.shared
      /\ (~cleans => entry' = entry) /\ (cleans => ~entry'.dirty)
    BY <1>0, <1>1 DEF PcEntry
<1>4. cleans => /\ th[t].ok /\ ref[th[t].frame] = 2 /\ entry.frame = th[t].frame
    BY DEF CleanAfter
<1>5. th[t].frame # 0
    BY <1>0, <1>1 DEF FramesInHand, Saving
<1> HIDE DEF r, cleans
<1>6. th'[t] = r /\ \A u \in PcThreads : u # t => th'[u] = th[u]
    BY <1>0, <1>1, GoesFacts
<1>7. FileStays /\ WritesStay
    BY <1>1, <1>2, <1>6 DEF FileStays, WritesStay
<1>8. ValuesApart'
    BY <1>0, <1>1, <1>7, ApartStays
<1>9. PrivateIsFile'
    BY <1>0, <1>1, <1>2, <1>3, <1>6, <1>7, PrivateStays
<1>10. ASSUME CalmPage, ~Racing PROVE CalmPage'
    <2>1. CASE ~cleans
        <3>1. entry' = entry
            BY <1>3, <2>1
        <3> QED BY <1>0, <1>1, <1>2, <1>6, <1>7, <1>10, <3>1, CalmStays DEF Faulting, Saving
    <2>2. CASE cleans
        <3>1. \A p \in PcProcs : pte[p] # entry.frame
            BY <1>0, <1>4, <1>5, <2>2, TwoOwners
        <3>2. entry.shared /\ SavedHolds
            BY <1>1, <1>4, <1>10, <2>2 DEF CalmPage, ThreadCalm, Saving
        <3>3. \A c \in Cells : c < pcFile.size => mem[entry.frame][c] = pcFile.data[c]
            BY <3>1, <3>2 DEF SavedHolds
        <3>4. \A u \in PcThreads : u # t => th[u].at \notin Saving \cup Changing
            BY <1>1, <1>10, RaceFacts DEF Saving
        <3>5. \A c \in Cells : Writers(c) = {}
            BY <1>1, <3>4 DEF Writers, Changing
        <3>6. \A c \in Cells : c < pcFile.size => Settled(c)
            BY <1>10, <3>2, <3>3, <3>5 DEF CalmPage, PageCalm, Settled
        <3>7. PageCalm'
            <4>1. \A c \in Cells : Settled(c)' = Settled(c) /\ Writers(c)' = Writers(c)
                BY <1>1, <1>7, SettledStays, WritersStay
            <4>2. \A u \in PcThreads : th[u].at = "cut" => th'[u].at = "cut"
                BY <1>1, <1>6
            <4> QED BY <1>1, <1>3, <1>10, <3>2, <3>6, <4>1, <4>2 DEF CalmPage, PageCalm
        <3>8. ASSUME NEW u \in PcThreads PROVE ThreadCalm(th[u])'
            <4>1. CASE u = t
                BY <1>2, <1>6, <4>1 DEF ThreadCalm, Saving, Faulting
            <4>2. CASE u # t
                <5>1. th'[u] = th[u] /\ th[u].at \notin Saving /\ ThreadCalm(th[u])
                    BY <1>6, <1>10, <3>4, <4>2 DEF CalmPage
                <5> QED BY <1>1, <5>1 DEF ThreadCalm, Saving
            <4> QED BY <4>1, <4>2
        <3> QED BY <3>7, <3>8 DEF CalmPage
    <2> QED BY <2>1, <2>2
<1> QED BY <1>8, <1>9, <1>10 DEF ValuesStep

LEMMA ReclaimValues ==
    ASSUME PcAssumption, PcValues, Reclaim
    PROVE  ValuesStep
<1>0. PcTypeOK /\ ValuesApart /\ PrivateIsFile
    BY DEF PcValues, PcBooks
<1>1. ~entry.dirty /\ entry' = NoEntry /\ UNCHANGED <<pcFile, mem, last, region, pte, calls, th>>
    BY DEF Reclaim, Alone, procVars, Unmapped
<1>2. ~entry'.shared /\ ~entry'.dirty /\ entry'.frame = 0
    BY <1>1 DEF NoEntry
<1>3. FileStays /\ WritesStay
    BY <1>1 DEF FileStays, WritesStay
<1>4. ValuesApart'
    BY <1>0, <1>1, <1>3, ApartStays
<1>5. PrivateIsFile'
    BY <1>0, <1>1, <1>2, <1>3, PrivateStays
<1>6. ASSUME CalmPage PROVE CalmPage'
    <2>1. PageCalm'
        BY <1>1, <1>2, <1>3, <1>6, SettledStays DEF CalmPage, PageCalm
    <2>2. ASSUME NEW u \in PcThreads PROVE ThreadCalm(th[u])'
        <3>1. ThreadCalm(th[u]) /\ th[u].at \notin Saving
            BY <1>1, <1>6 DEF CalmPage, ThreadCalm
        <3> QED BY <1>1, <3>1 DEF ThreadCalm, Saving
    <2> QED BY <2>1, <2>2 DEF CalmPage
<1> QED BY <1>4, <1>5, <1>6 DEF ValuesStep

LEMMA RemoveValues ==
    ASSUME PcAssumption, PcValues, Remove
    PROVE  ValuesStep
<1>0. PcTypeOK /\ GenSeen /\ ValuesApart /\ pcFile \in PcFile
    BY DEF PcValues, PcBooks, PcTypeOK
<1>1. /\ pcFile' = [pcFile EXCEPT !.removed = TRUE, !.gen = pcFile.gen + 1] /\ entry' = NoEntry
      /\ UNCHANGED <<last, calls, th>>
    BY DEF Remove, Alone
<1>2. pcFile'.removed /\ pcFile'.gen = pcFile.gen + 1 /\ entry'.frame = 0
    BY <1>0, <1>1 DEF PcFile, NoEntry
<1>3. WritesStay
    BY <1>1 DEF WritesStay
<1>4. ValuesApart'
    BY <1>0, <1>1, <1>3, ApartStays
<1>5. PrivateIsFile'
    BY <1>0, <1>1, <1>2, TellFacts
<1> QED BY <1>2, <1>4, <1>5 DEF ValuesStep

LEMMA TruncateValues ==
    ASSUME PcAssumption, PcValues, NEW t \in PcThreads, NEW n \in 0 .. 1, Truncate(t, n)
    PROVE  ValuesStep
<1> DEFINE r == [AtRest EXCEPT !.at = "cut"]
           z == [c \in Cells |-> IF c < n THEN pcFile.data[c] ELSE 0]
<1>0. PcTypeOK /\ ValuesApart /\ pcFile \in PcFile /\ pcFile.size \in Nat /\ n \in Nat
    BY BooksFacts, CellFacts DEF PcValues
<1>1. /\ th[t].at = "idle" /\ n < pcFile.size /\ calls' = calls + 1 /\ PcGoes(t, r)
      /\ pcFile' = [pcFile EXCEPT !.size = n, !.data = z]
      /\ UNCHANGED <<entry, mem, last, region, pte>>
    BY DEF Truncate, Calls, procVars
<1>2. r.at = "cut"
    BY DEF AtRest
<1>3. \A c \in Cells : c < n => z[c] = pcFile.data[c]
    OBVIOUS
<1> HIDE DEF r, z
<1>4. pcFile'.size = n /\ pcFile'.data = z
    BY <1>0, <1>1 DEF PcFile
<1>5. th'[t] = r /\ \A u \in PcThreads : u # t => th'[u] = th[u]
    BY <1>0, <1>1, GoesFacts
<1>6. WritesStay
    BY <1>1, <1>2, <1>5 DEF WritesStay
<1>7. ValuesApart'
    BY <1>0, <1>1, <1>6, ApartStays
<1>8. PrivateIsFile'
    BY <1>2, <1>5 DEF PrivateIsFile, SameAsFile
<1>9. ASSUME CalmPage, ~Racing' PROVE CalmPage'
    <2>1. \A u \in PcThreads : u # t => th'[u].at \notin Saving \cup Changing \cup Faulting
        BY <1>2, <1>5, <1>9, NextRaceFacts
    <2>2. \A c \in Cells : Writers(c)' = {} /\ Writers(c) = {}
        BY <1>2, <1>5, <1>6, <2>1, WritersStay DEF Writers, Changing
    <2>3. ASSUME NEW c \in Cells, c < pcFile'.size PROVE c < pcFile.size /\ (Settled(c) => Settled(c)')
        <3>1. c < n /\ c < pcFile.size
            BY <1>0, <1>1, <1>4, <2>3 DEF Cells
        <3>2. pcFile'.data[c] = pcFile.data[c] /\ last'[c] = last[c]
            BY <1>1, <1>3, <1>4, <3>1
        <3> QED BY <2>2, <3>1, <3>2 DEF Settled
    <2>4. PageCalm'
        <3>1. \E u \in PcThreads : th'[u].at = "cut"
            BY <1>2, <1>5
        <3> QED BY <1>1, <1>9, <2>2, <2>3, <3>1 DEF CalmPage, PageCalm
    <2>5. ASSUME NEW u \in PcThreads PROVE ThreadCalm(th[u])'
        <3>1. th'[u].at \notin Saving \cup Faulting
            BY <1>2, <1>5, <2>1 DEF Saving, Faulting
        <3> QED BY <3>1 DEF ThreadCalm, Saving
    <2> QED BY <2>4, <2>5 DEF CalmPage
<1> QED BY <1>7, <1>8, <1>9 DEF ValuesStep

LEMMA CutValues ==
    ASSUME PcAssumption, PcValues, NEW t \in PcThreads, Cut(t)
    PROVE  ValuesStep
<1> DEFINE n == pcFile.size
           goes == ~entry.shared \/ n = 0
           z == [c \in Cells |-> IF c < n THEN mem[entry.frame][c] ELSE 0]
<1>0. /\ PcTypeOK /\ GenSeen /\ FramesInHand /\ ValuesApart /\ n \in Nat /\ mem \in [PcFrames -> [Cells -> Nat]]
      /\ entry.frame \in PcFrames \cup {0}
    BY BooksFacts, CellFacts DEF PcValues, PcTypeOK
<1>1. /\ th[t].at = "cut" /\ PcGoes(t, AtRest) /\ pcFile' = [pcFile EXCEPT !.gen = pcFile.gen + 1]
      /\ entry' = (IF goes THEN NoEntry ELSE entry)
      /\ mem' = (IF goes THEN mem ELSE [mem EXCEPT ![entry.frame] = z])
      /\ UNCHANGED <<last, region, pte, calls>>
    BY DEF Cut, procVars
<1>2. FileStays /\ pcFile'.gen = pcFile.gen + 1
    BY <1>0, <1>1, GenerationUp DEF FileStays
<1>3. th'[t].at = "idle" /\ th'[t] = AtRest /\ \A u \in PcThreads : u # t => th'[u] = th[u]
    BY <1>0, <1>1, GoesFacts, RestFacts
<1>4. WritesStay
    BY <1>1, <1>3 DEF WritesStay
<1>5. ValuesApart'
    BY <1>0, <1>1, <1>4, ApartStays
<1>6. PrivateIsFile'
    <2>1. entry'.frame # 0 => entry'.shared
        BY <1>1 DEF NoEntry
    <2> QED BY <1>0, <1>2, <1>3, <2>1, TellFacts
<1>7. ASSUME CalmPage, ~Racing PROVE CalmPage'
    <2>1. \A u \in PcThreads : th'[u].at \notin Saving \cup Changing \cup Faulting
        <3>1. \A u \in PcThreads : u # t => th[u].at \notin Saving \cup Changing \cup Faulting
            BY <1>1, <1>7, RaceFacts
        <3>2. th'[t].at \notin Saving \cup Changing \cup Faulting
            BY <1>3 DEF Saving, Changing, Faulting
        <3> QED BY <1>3, <3>1, <3>2
    <2>2. \A c \in Cells : Settled(c)' = Settled(c) /\ Writers(c)' = Writers(c)
        BY <1>1, <1>2, <1>4, SettledStays, WritersStay
    <2>3. PageCalm'
        <3>1. CASE goes
            <4>1. ~entry'.shared
                BY <1>1, <3>1 DEF NoEntry
            <4>2. ASSUME NEW c \in Cells, c < pcFile'.size PROVE Settled(c)'
                <5>1. c < n /\ n # 0
                    BY <1>0, <1>2, <4>2 DEF Cells, FileStays
                <5>2. Settled(c)
                    BY <1>7, <3>1, <5>1 DEF CalmPage, PageCalm
                <5> QED BY <2>2, <5>2
            <4> QED BY <4>1, <4>2 DEF PageCalm
        <3>2. CASE ~goes
            <4>1. entry' = entry /\ entry.shared /\ n # 0 /\ entry.frame \in PcFrames
                BY <1>0, <1>1, <3>2 DEF FramesInHand, NoEntry
            <4>2. \A c \in Cells : c < n => mem'[entry.frame][c] = mem[entry.frame][c]
                BY <1>0, <1>1, <3>2, <4>1
            <4>3. pcFile'.size > 0 /\ pcFile'.size = n
                BY <1>0, <1>2, <4>1 DEF FileStays
            <4> QED BY <1>1, <1>7, <2>2, <4>1, <4>2, <4>3 DEF CalmPage, PageCalm
        <3> QED BY <3>1, <3>2
    <2>4. ASSUME NEW u \in PcThreads PROVE ThreadCalm(th[u])'
        BY <2>1 DEF ThreadCalm, Saving
    <2> QED BY <2>3, <2>4 DEF CalmPage
<1> QED BY <1>5, <1>6, <1>7 DEF ValuesStep

LEMMA WriteValues ==
    ASSUME PcAssumption, PcValues, NEW t \in PcThreads, NEW c \in Cells \cup {PageEnd}, Write(t, c)
    PROVE  ValuesStep
<1> DEFINE n == pcFile.size
           gap(d) == n <= d /\ d < c
<1>0. /\ PcBooks /\ PcTypeOK /\ FramesInHand /\ ValuesApart /\ PrivateIsFile /\ n \in Nat /\ calls \in Nat
      /\ last \in [Cells -> SUBSET Nat] /\ c \in Nat /\ \A d \in Cells : d \in Nat /\ d < PageEnd
      /\ 0 \notin PcFrames /\ entry.frame \in PcFrames \cup {0}
      /\ mem \in [PcFrames -> [Cells -> Nat]] /\ \A u \in PcThreads : th[u].frame \in PcFrames \cup {0}
    BY BooksFacts, CellFacts DEF PcValues, PcTypeOK, PcThread, Cells, PageEnd
<1>1. /\ th[t].at = "idle" /\ calls' = calls + 1 /\ mem' = file_gap(n, c) /\ UNCHANGED <<entry, region, pte>>
    BY DEF Write, Calls, procVars
<1>2. /\ th'[t].at = "written" /\ th'[t].cell = c /\ th'[t].val = calls + 1
      /\ th'[t].older = (IF c \in Cells THEN last[c] ELSE {})
      /\ pcFile'.gen = pcFile.gen
      /\ pcFile'.size = (IF n < c + 1 THEN c + 1 ELSE n)
      /\ \A d \in Cells : pcFile'.data[d] = IF d = c THEN calls + 1 ELSE IF gap(d) THEN 0 ELSE pcFile.data[d]
      /\ \A d \in Cells : last'[d] = IF gap(d) THEN {0} ELSE last[d]
    BY <1>0, WriteFacts
<1>3. \A u \in PcThreads : u # t =>
        /\ th'[u].at = th[u].at /\ th'[u].frame = th[u].frame /\ th'[u].kind = th[u].kind
        /\ th'[u].gen = th[u].gen /\ th'[u].cell = th[u].cell /\ th'[u].val = th[u].val
        /\ th'[u].older \subseteq th[u].older
        /\ th[u].at = "written" /\ gap(th[u].cell) => th'[u].older = {}
        /\ ~(th[u].at = "written" /\ gap(th[u].cell)) => th'[u].older = th[u].older
    BY <1>0, WriteFacts
<1>4. \A d \in Cells : ~gap(d) /\ d # c /\ d < pcFile'.size => d < n
    <2>1. ASSUME NEW d \in Cells, ~gap(d), d # c, d < pcFile'.size PROVE d < n
        <3>1. d \in Nat /\ c \in Nat /\ n \in Nat /\ ~(n <= d /\ d < c)
            BY <1>0, <2>1
        <3>2. d < n \/ d < c + 1
            BY <1>2, <2>1
        <3> HIDE DEF n
        <3> QED BY <2>1, <3>1, <3>2
    <2> QED BY <2>1
<1>5. c < pcFile'.size /\ n <= pcFile'.size /\ pcFile'.size > 0 /\ ~gap(c) /\ pcFile'.size \in Nat
    BY <1>0, <1>2
<1>6. \A d \in Cells : d # c => Writers(d)' = Writers(d)
    <2>1. ASSUME NEW d \in Cells, d # c, NEW u \in PcThreads
          PROVE  (th'[u].at = "written" /\ th'[u].cell = d) <=> (th[u].at = "written" /\ th[u].cell = d)
        <3>1. CASE u = t
            BY <1>1, <1>2, <2>1, <3>1
        <3>2. CASE u # t
            BY <1>3, <3>2
        <3> QED BY <3>1, <3>2
    <2> QED BY <2>1 DEF Writers
<1>7. c \in Cells => t \in Writers(c)'
    BY <1>2 DEF Writers
<1>8. ValuesApart'
    <2>1. ASSUME NEW d \in Cells, NEW v \in last'[d] PROVE v <= calls' /\ v <= calls
        <3>1. CASE gap(d)
            <4>1. v = 0
                BY <1>2, <2>1, <3>1
            <4> QED BY <1>0, <1>1, <4>1
        <3>2. CASE ~gap(d)
            <4>1. v \in last[d]
                BY <1>2, <2>1, <3>2
            <4>2. v \in Nat /\ v <= calls
                BY <1>0, <4>1 DEF ValuesApart
            <4> QED BY <1>0, <1>1, <4>2
        <3> QED BY <3>1, <3>2
    <2>2. ASSUME NEW u \in PcThreads, u # t, th'[u].at = "written"
          PROVE  /\ th[u].at = "written" /\ th'[u].val \in Nat /\ 0 < th'[u].val /\ th'[u].val <= calls
                 /\ \A v \in th'[u].older : v <= calls /\ v \in Nat
                 /\ th'[u].cell \in Cells => th'[u].val \notin last'[th'[u].cell]
        <3>1. /\ th[u].at = "written" /\ th'[u].cell = th[u].cell /\ th'[u].val = th[u].val
              /\ th'[u].older \subseteq th[u].older
            BY <1>3, <2>2
        <3>2. th[u].val \in Nat /\ th[u].older \subseteq Nat
            BY <1>0 DEF PcTypeOK, PcThread
        <3>3. /\ 0 < th[u].val /\ th[u].val <= calls /\ \A v \in th[u].older : v <= calls
            BY <1>0, <3>1 DEF ValuesApart
        <3>4. th[u].cell \in Cells => th[u].val \notin last[th[u].cell]
            BY <1>0, <3>1 DEF ValuesApart
        <3>5. th[u].cell \in Cells => th[u].val \notin last'[th[u].cell]
            BY <1>2, <3>2, <3>3, <3>4
        <3> QED BY <3>1, <3>2, <3>3, <3>5
    <2>3. /\ th'[t].val = calls + 1 /\ \A v \in th'[t].older : v <= calls /\ v \in Nat
          /\ th'[t].cell \in Cells => th'[t].val \notin last'[th'[t].cell]
        <3>1. \A v \in th'[t].older : v <= calls /\ v \in Nat
            <4>1. CASE c \in Cells
                BY <1>0, <1>2, <4>1 DEF ValuesApart
            <4>2. CASE c \notin Cells
                BY <1>2, <4>2
            <4> QED BY <4>1, <4>2
        <3>2. ASSUME c \in Cells, calls + 1 \in last'[c] PROVE FALSE
            <4>1. calls + 1 <= calls
                BY <2>1, <3>2
            <4> QED BY <1>0, <4>1
        <3> QED BY <1>2, <3>1, <3>2
    <2>4. ASSUME NEW u \in PcThreads, th'[u].at = "written"
          PROVE  /\ 0 < th'[u].val /\ th'[u].val <= calls'
                 /\ \A v \in th'[u].older : v <= calls'
                 /\ th'[u].cell \in Cells => th'[u].val \notin last'[th'[u].cell]
        <3>1. CASE u = t
            BY <1>0, <1>1, <2>3, <3>1
        <3>2. CASE u # t
            BY <1>0, <1>1, <2>2, <2>4, <3>2
        <3> QED BY <3>1, <3>2
    <2>5. ASSUME NEW u \in PcThreads, NEW w \in PcThreads, th'[u].at = "written", th'[w].at = "written", w # u
          PROVE  th'[w].val # th'[u].val /\ (th'[w].cell = th'[u].cell => th'[u].val \notin th'[w].older)
        <3>1. CASE u # t /\ w # t
            <4>1. /\ th[u].at = "written" /\ th[w].at = "written" /\ th'[u].val = th[u].val /\ th'[w].val = th[w].val
                  /\ th'[u].cell = th[u].cell /\ th'[w].cell = th[w].cell /\ th'[w].older \subseteq th[w].older
                BY <1>3, <2>5, <3>1
            <4> QED BY <1>0, <2>5, <4>1 DEF ValuesApart
        <3>2. CASE u = t
            <4>1. w # t /\ th'[w].val \in Nat /\ th'[w].val <= calls /\ \A v \in th'[w].older : v <= calls /\ v \in Nat
                BY <2>2, <2>5, <3>2
            <4>2. th'[u].val = calls + 1
                BY <1>2, <3>2
            <4> QED BY <1>0, <4>1, <4>2
        <3>3. CASE w = t
            <4>1. /\ u # t /\ th'[u].val \in Nat /\ th'[u].val <= calls
                  /\ (th'[u].cell \in Cells => th[u].val \notin last[th[u].cell])
                  /\ th'[u].cell = th[u].cell /\ th'[u].val = th[u].val
                BY <1>0, <1>3, <2>2, <2>5, <3>3 DEF ValuesApart
            <4>2. th'[w].val = calls + 1 /\ th'[w].cell = c /\ th'[w].older = (IF c \in Cells THEN last[c] ELSE {})
                BY <1>2, <3>3
            <4> QED BY <1>0, <4>1, <4>2
        <3> QED BY <3>1, <3>2, <3>3
    <2> QED BY <2>1, <2>4, <2>5 DEF ValuesApart
<1>9. \A f \in PcFrames : f # entry.frame \/ ~entry.shared => mem'[f] = mem[f]
    BY <1>0, <1>1, GapFacts
<1>10. ASSUME NEW f \in PcFrames, f # entry.frame \/ ~entry.shared, SameAsFile(f)
       PROVE  \/ \E u \in PcThreads : th'[u].at \in {"cut", "saved"}
              \/ \A d \in Cells : Writers(d)' = {} => mem'[f][d] = FileCells(pcFile)'[d]
    <2>1. CASE \E u \in PcThreads : th[u].at \in {"cut", "saved"}
        BY <1>1, <1>3, <2>1
    <2>2. CASE \A d \in Cells : Writers(d) = {} => mem[f][d] = FileCells(pcFile)[d]
        <3>1. ASSUME NEW d \in Cells, Writers(d)' = {} PROVE mem'[f][d] = FileCells(pcFile)'[d]
            <4>1. d # c /\ Writers(d) = {}
                BY <1>6, <1>7, <3>1
            <4>2. mem'[f][d] = (IF d < n THEN pcFile.data[d] ELSE 0)
                BY <1>9, <1>10, <2>2, <4>1 DEF FileCells
            <4>3. FileCells(pcFile)'[d] = (IF d < pcFile'.size THEN pcFile'.data[d] ELSE 0)
                BY DEF FileCells
            <4>4. pcFile'.data[d] = IF gap(d) THEN 0 ELSE pcFile.data[d]
                BY <1>2, <4>1
            <4>5. CASE d < n
                BY <1>0, <1>5, <4>2, <4>3, <4>4, <4>5
            <4>6. CASE ~(d < n)
                BY <1>0, <1>4, <4>1, <4>2, <4>3, <4>4, <4>6
            <4> QED BY <4>5, <4>6
        <3> QED BY <3>1
    <2> QED BY <1>10, <2>1, <2>2 DEF SameAsFile
<1>11. PrivateIsFile'
    <2>1. ASSUME entry'.frame # 0, ~entry'.shared PROVE SameAsFile(entry.frame)'
        <3>1. SameAsFile(entry.frame) /\ entry.frame \in PcFrames /\ ~entry.shared
            BY <1>0, <1>1, <2>1 DEF PrivateIsFile
        <3> QED BY <1>1, <1>10, <3>1 DEF SameAsFile
    <2>2. ASSUME NEW u \in PcThreads, th'[u].at = "insert", th'[u].gen = pcFile'.gen PROVE SameAsFile(th[u].frame)'
        <3>1. u # t
            BY <1>2, <2>2
        <3>2. th[u].at = "insert" /\ th[u].gen = pcFile.gen /\ th'[u].frame = th[u].frame
            BY <1>2, <1>3, <2>2, <3>1
        <3>3. SameAsFile(th[u].frame) /\ th[u].frame \in PcFrames /\ th[u].frame # entry.frame
            BY <1>0, <3>2 DEF PrivateIsFile, FramesInHand
        <3> QED BY <1>10, <3>2, <3>3 DEF SameAsFile
    <2> QED BY <2>1, <2>2 DEF PrivateIsFile
<1>12. ASSUME CalmPage, ~Racing' PROVE CalmPage'
    <2>1. \A u \in PcThreads : th'[u].at \notin Saving \cup {"cut"}
        <3>1. ASSUME NEW u \in PcThreads, th'[u].at \in Saving \cup {"cut"} PROVE FALSE
            <4>1. u # t
                BY <1>2, <3>1 DEF Saving
            <4> QED BY <1>2, <1>12, <3>1, <4>1, NextRaceFacts DEF Changing
        <3> QED BY <3>1
    <2>2. entry.shared => n > 0
        <3>1. \A u \in PcThreads : th[u].at # "cut"
            BY <1>1, <1>3, <2>1
        <3> QED BY <1>12, <3>1 DEF CalmPage, PageCalm
    <2>3. ASSUME NEW d \in Cells, d < pcFile'.size, ~entry.shared \/ ~entry.dirty PROVE Settled(d)'
        <3>1. CASE d = c
            <4>1. t \in Writers(d)' /\ pcFile'.data[d] = th'[t].val
                BY <1>2, <1>7, <3>1
            <4> QED BY <4>1 DEF Settled
        <3>2. CASE d # c /\ gap(d)
            <4>1. pcFile'.data[d] = 0 /\ last'[d] = {0}
                BY <1>2, <3>2
            <4>2. \A u \in Writers(d)' : th'[u].older = {}
                <5>1. ASSUME NEW u \in Writers(d) PROVE th'[u].older = {}
                    BY <1>1, <1>3, <3>2, <5>1 DEF Writers
                <5> QED BY <1>6, <3>2, <5>1
            <4> QED BY <4>1, <4>2 DEF Settled
        <3>3. CASE d # c /\ ~gap(d)
            <4>1. d < n /\ Settled(d)
                BY <1>4, <1>12, <2>3, <3>3 DEF CalmPage, PageCalm
            <4>2. pcFile'.data[d] = pcFile.data[d] /\ last'[d] = last[d] /\ Writers(d)' = Writers(d)
                BY <1>2, <1>6, <3>3
            <4>3. \A u \in Writers(d) : th'[u].val = th[u].val /\ th'[u].older = th[u].older
                BY <1>1, <1>3, <3>3 DEF Writers
            <4> QED BY <4>1, <4>2, <4>3 DEF Settled
        <3> QED BY <3>1, <3>2, <3>3
    <2>4. ASSUME entry.shared, NEW d \in Cells, d < pcFile'.size, Writers(d)' = {} PROVE mem'[entry.frame][d] \in last'[d]
        <3>1. d # c /\ Writers(d) = {}
            BY <1>6, <1>7, <2>4
        <3>2. entry.frame \in PcFrames
            BY <1>0, <2>4 DEF FramesInHand, NoEntry
        <3>3. CASE gap(d)
            <4>1. c > n /\ 0 < n /\ n < PageEnd /\ ~(d < n)
                <5>1. d \in Nat /\ c \in Nat /\ n \in Nat /\ d < 2 /\ n <= d /\ d < c /\ n > 0
                    BY <1>0, <2>2, <2>4, <3>3 DEF PageEnd
                <5> HIDE DEF n
                <5> QED BY <5>1 DEF PageEnd
            <4>2. mem' = [mem EXCEPT ![entry.frame] = [e \in Cells |-> IF e < n THEN mem[entry.frame][e] ELSE 0]]
                BY <1>1, <2>4, <4>1 DEF file_gap
            <4>3. mem'[entry.frame][d] = 0
                BY <1>0, <3>2, <4>1, <4>2
            <4>4. last'[d] = {0}
                BY <1>2, <3>3
            <4> QED BY <4>3, <4>4
        <3>4. CASE ~gap(d)
            <4>1. d < n /\ last'[d] = last[d]
                BY <1>2, <1>4, <2>4, <3>1, <3>4
            <4>2. mem[entry.frame][d] \in last[d]
                BY <1>12, <2>4, <3>1, <4>1 DEF CalmPage, PageCalm
            <4>3. mem'[entry.frame][d] = mem[entry.frame][d]
                <5>1. CASE entry.shared /\ c > n /\ 0 < n /\ n < PageEnd
                    <6>1. mem' = [mem EXCEPT ![entry.frame] = [e \in Cells |-> IF e < n THEN mem[entry.frame][e] ELSE 0]]
                        BY <1>1, <5>1 DEF file_gap
                    <6> QED BY <1>0, <3>2, <4>1, <6>1
                <5>2. CASE ~(entry.shared /\ c > n /\ 0 < n /\ n < PageEnd)
                    BY <1>1, <5>2 DEF file_gap
                <5> QED BY <5>1, <5>2
            <4> QED BY <4>1, <4>2, <4>3
        <3> QED BY <3>3, <3>4
    <2>5. PageCalm'
        BY <1>1, <1>5, <2>3, <2>4 DEF PageCalm
    <2>6. ASSUME NEW u \in PcThreads PROVE ThreadCalm(th[u])'
        BY <1>5, <2>1 DEF ThreadCalm, Saving
    <2> QED BY <2>5, <2>6 DEF CalmPage
<1> QED BY <1>8, <1>11, <1>12 DEF ValuesStep

LEMMA WrittenValues ==
    ASSUME PcAssumption, PcValues, NEW t \in PcThreads, Written(t)
    PROVE  ValuesStep
<1> DEFINE c == th[t].cell
           z == [mem[entry.frame] EXCEPT ![c] = th[t].val]
           y == (last[c] \ th[t].older) \cup {th[t].val}
<1>0. /\ PcTypeOK /\ GenSeen /\ FramesInHand /\ ValuesApart /\ last \in [Cells -> SUBSET Nat] /\ calls \in Nat
      /\ mem \in [PcFrames -> [Cells -> Nat]] /\ entry.frame \in PcFrames \cup {0} /\ th[t].val \in Nat
    BY BooksFacts DEF PcValues, PcTypeOK, PcThread
<1>1. /\ th[t].at = "written" /\ PcGoes(t, AtRest) /\ pcFile' = [pcFile EXCEPT !.gen = pcFile.gen + 1]
      /\ entry' = (IF entry.shared THEN entry ELSE NoEntry)
      /\ mem' = (IF entry.shared /\ c \in Cells THEN [mem EXCEPT ![entry.frame] = z] ELSE mem)
      /\ last' = (IF c \in Cells THEN [last EXCEPT ![c] = y] ELSE last)
      /\ UNCHANGED <<region, pte, calls>>
    BY DEF Written, Alone, procVars
<1>2. FileStays /\ pcFile'.gen = pcFile.gen + 1
    BY <1>0, <1>1, GenerationUp DEF FileStays
<1>3. th'[t].at = "idle" /\ \A u \in PcThreads : u # t => th'[u] = th[u]
    BY <1>0, <1>1, GoesFacts, RestFacts
<1>4. \A d \in Cells : last'[d] = IF d = c THEN y ELSE last[d]
    BY <1>0, <1>1
<1>5. /\ entry.shared => entry.frame \in PcFrames
      /\ entry.shared => \A d \in Cells : mem'[entry.frame][d] = IF d = c THEN th[t].val ELSE mem[entry.frame][d]
    <2>1. entry.shared => entry.frame \in PcFrames
        BY <1>0 DEF FramesInHand, NoEntry
    <2> QED BY <1>0, <1>1, <2>1
<1>6. \A d \in Cells : Writers(d)' = Writers(d) \ {t} /\ (d # c => Writers(d)' = Writers(d))
    BY <1>1, <1>3 DEF Writers
<1>7. c \in Cells => t \in Writers(c)
    BY <1>1 DEF Writers
<1>8. \A v : v \in y <=> v = th[t].val \/ (v \in last[c] /\ v \notin th[t].older)
    OBVIOUS
<1> HIDE DEF y, z
<1>9. ValuesApart'
    <2>1. ASSUME NEW d \in Cells, NEW v \in last'[d] PROVE v <= calls'
        <3>1. v \in last[d] \/ v = th[t].val
            BY <1>4, <1>8, <2>1
        <3> QED BY <1>0, <1>1, <2>1, <3>1 DEF ValuesApart
    <2>2. ASSUME NEW u \in PcThreads, th'[u].at = "written"
          PROVE  /\ u # t /\ th[u].at = "written" /\ th'[u] = th[u]
                 /\ 0 < th'[u].val /\ th'[u].val <= calls'
                 /\ \A v \in th'[u].older : v <= calls'
                 /\ th'[u].cell \in Cells => th'[u].val \notin last'[th'[u].cell]
        <3>1. u # t /\ th'[u] = th[u] /\ th[u].at = "written"
            BY <1>3, <2>2
        <3>2. /\ 0 < th[u].val /\ th[u].val <= calls /\ \A v \in th[u].older : v <= calls
            BY <1>0, <3>1 DEF ValuesApart
        <3>3. /\ th[u].cell \in Cells => th[u].val \notin last[th[u].cell]
              /\ th[u].val # th[t].val
            BY <1>0, <1>1, <3>1 DEF ValuesApart
        <3>4. th[u].cell \in Cells => th[u].val \notin last'[th[u].cell]
            BY <1>4, <1>8, <3>3
        <3> QED BY <1>1, <3>1, <3>2, <3>4
    <2>3. ASSUME NEW u \in PcThreads, NEW w \in PcThreads, th'[u].at = "written", th'[w].at = "written", w # u
          PROVE  th'[w].val # th'[u].val /\ (th'[w].cell = th'[u].cell => th'[u].val \notin th'[w].older)
        BY <1>0, <2>2, <2>3 DEF ValuesApart
    <2> QED BY <2>1, <2>2, <2>3 DEF ValuesApart
<1>10. PrivateIsFile'
    <2>1. entry'.frame # 0 => entry'.shared
        BY <1>1 DEF NoEntry
    <2> QED BY <1>0, <1>2, <1>3, <2>1, TellFacts
<1>11. ASSUME CalmPage, ~Racing PROVE CalmPage'
    <2>1. \A u \in PcThreads : th[u].at \notin Saving \cup {"cut"}
        <3>1. ASSUME NEW u \in PcThreads, th[u].at \in Saving \cup {"cut"} PROVE FALSE
            <4>1. u # t
                BY <1>1, <3>1 DEF Saving
            <4> QED BY <1>1, <1>11, <3>1, <4>1, RaceFacts DEF Changing
        <3> QED BY <3>1
    <2>2. entry'.shared <=> entry.shared
        BY <1>1 DEF NoEntry
    <2>3. entry.shared => entry' = entry
        BY <1>1
    <2>4. ASSUME NEW d \in Cells, d < pcFile'.size, ~entry'.shared \/ ~entry'.dirty PROVE Settled(d)'
        <3>1. Settled(d)
            BY <1>2, <1>11, <2>2, <2>3, <2>4 DEF CalmPage, PageCalm, FileStays
        <3>2. pcFile'.data[d] = pcFile.data[d] /\ \A u \in Writers(d)' : th'[u] = th[u] /\ u \in Writers(d) /\ u # t
            BY <1>2, <1>3, <1>6 DEF FileStays, Writers
        <3>3. CASE d # c
            <4>1. Writers(d)' = Writers(d) /\ last'[d] = last[d]
                BY <1>4, <1>6, <3>3
            <4> QED BY <3>1, <3>2, <4>1 DEF Settled
        <3>4. CASE d = c
            <4>1. last'[d] = y /\ Writers(d)' = Writers(d) \ {t} /\ t \in Writers(d)
                BY <1>4, <1>6, <1>7, <3>4
            <4>2. CASE \E u \in Writers(d) : u # t /\ pcFile.data[d] = th[u].val
                BY <3>2, <4>1, <4>2 DEF Settled
            <4>3. CASE pcFile.data[d] = th[t].val
                <5>1. \A u \in Writers(d) : u # t => th[t].val \notin th[u].older
                    BY <1>0, <1>1, <3>4 DEF Writers, ValuesApart
                <5>2. \A u \in Writers(d)' : pcFile'.data[d] \notin th'[u].older
                    BY <3>2, <4>3, <5>1
                <5> QED BY <1>8, <3>2, <4>1, <4>3, <5>2 DEF Settled
            <4>4. CASE pcFile.data[d] \in last[d] /\ \A u \in Writers(d) : pcFile.data[d] \notin th[u].older
                <5>1. pcFile'.data[d] \in last'[d]
                    BY <1>8, <3>2, <3>4, <4>1, <4>4
                <5>2. \A u \in Writers(d)' : pcFile'.data[d] \notin th'[u].older
                    BY <3>2, <4>4
                <5> QED BY <5>1, <5>2 DEF Settled
            <4> QED BY <3>1, <4>2, <4>3, <4>4 DEF Settled
        <3> QED BY <3>3, <3>4
    <2>5. ASSUME entry'.shared, NEW d \in Cells, d < pcFile'.size, Writers(d)' = {} PROVE mem'[entry'.frame][d] \in last'[d]
        <3>1. CASE d = c
            BY <1>4, <1>5, <1>8, <2>2, <2>3, <2>5, <3>1
        <3>2. CASE d # c
            <4>1. Writers(d) = {} /\ d < pcFile.size
                BY <1>2, <1>6, <2>5, <3>2 DEF FileStays
            <4>2. mem[entry.frame][d] \in last[d]
                BY <1>11, <2>2, <2>5, <4>1 DEF CalmPage, PageCalm
            <4> QED BY <1>4, <1>5, <2>2, <2>3, <2>5, <3>2, <4>2
        <3> QED BY <3>1, <3>2
    <2>6. entry'.shared => pcFile'.size > 0
        BY <1>2, <1>11, <2>1, <2>2 DEF CalmPage, PageCalm, FileStays
    <2>7. PageCalm'
        BY <2>4, <2>5, <2>6 DEF PageCalm
    <2>8. ASSUME NEW u \in PcThreads PROVE ThreadCalm(th[u])'
        <3>1. CASE u = t
            BY <1>3, <3>1 DEF ThreadCalm, Saving, Faulting
        <3>2. CASE u # t
            <4>1. th'[u] = th[u] /\ th[u].at \notin Saving /\ ThreadCalm(th[u])
                BY <1>3, <1>11, <2>1, <3>2 DEF CalmPage
            <4> QED BY <1>2, <4>1 DEF ThreadCalm, Saving, FileStays
        <3> QED BY <3>1, <3>2
    <2> QED BY <2>7, <2>8 DEF CalmPage
<1> QED BY <1>9, <1>10, <1>11 DEF ValuesStep

\* Every step keeps the values
LEMMA ValuesAlways ==
    ASSUME PcAssumption, PcValues, [PcNext]_pcVars
    PROVE  PcValues'
<1>1. CASE UNCHANGED pcVars
    <2>1. /\ pcFile' = pcFile /\ entry' = entry /\ mem' = mem /\ region' = region /\ pte' = pte
          /\ th' = th /\ calls' = calls /\ last' = last /\ raced' = raced
        BY <1>1 DEF pcVars
    <2>2. PcBooks'
        BY BooksStep DEF PcValues
    <2>3. WritesStay /\ FileStays
        BY <2>1 DEF WritesStay, FileStays
    <2>4. PcTypeOK /\ ValuesApart /\ PrivateIsFile
        BY DEF PcValues, PcBooks
    <2>5. ValuesApart'
        BY <2>1, <2>3, <2>4, ApartStays
    <2>6. PrivateIsFile'
        BY <2>1, <2>3, <2>4, PrivateStays
    <2>7. CalmPage => CalmPage'
        BY <2>1, <2>3, <2>4, CalmStays
    <2>8. Racing' = Racing
        BY <2>1 DEF Racing
    <2> QED BY <2>1, <2>2, <2>5, <2>6, <2>7, <2>8 DEF PcValues
<1>2. CASE PcNext
    <2>1. PcBooks' /\ raced' = (raced \/ Racing')
        BY <1>2, BooksStep DEF PcValues, PcNext
    <2>2. ValuesStep
        <3>1. ASSUME NEW t \in PcThreads, NEW kind \in {"private", "shared"}, Map(t, kind) PROVE ValuesStep
            BY <3>1, MapValues
        <3>2. ASSUME NEW t \in PcThreads, Touch(t) \/ Find(t) \/ ReadIn(t) \/ Insert(t) \/ Install(t) PROVE ValuesStep
            BY <3>2, TouchValues, FindValues, ReadInValues, InsertValues, InstallValues
        <3>3. ASSUME NEW t \in PcThreads, NEW c \in Cells, Store(t, c) PROVE ValuesStep
            BY <3>3, StoreValues
        <3>4. ASSUME NEW t \in PcThreads, Unmap(t) \/ Waited(t) \/ Sync(t) \/ Collect(t) \/ Measure(t) PROVE ValuesStep
            BY <3>4, UnmapValues, WaitedValues, SyncValues, CollectValues, MeasureValues
        <3>5. ASSUME NEW t \in PcThreads, NEW ok \in BOOLEAN, Save(t, ok) PROVE ValuesStep
            BY <3>5, SaveValues
        <3>6. ASSUME NEW t \in PcThreads, Saved(t) \/ Clean(t) \/ Done(t) \/ Written(t) \/ Cut(t) \/ Revalidate(t)
              PROVE  ValuesStep
            BY <3>6, SavedValues, CleanValues, DoneValues, WrittenValues, CutValues, RevalidateValues
        <3>7. ASSUME NEW t \in PcThreads, NEW c \in Cells \cup {PageEnd}, Write(t, c) PROVE ValuesStep
            BY <3>7, WriteValues
        <3>8. ASSUME NEW t \in PcThreads, NEW n \in 0 .. 1, Truncate(t, n) PROVE ValuesStep
            BY <3>8, TruncateValues
        <3>9. ASSUME Reclaim \/ Remove PROVE ValuesStep
            BY <3>9, ReclaimValues, RemoveValues
        <3> QED BY <1>2, <3>1, <3>2, <3>3, <3>4, <3>5, <3>6, <3>7, <3>8, <3>9 DEF PcNext, PcStep
    <2>3. pcFile.removed => pcFile'.removed
        <3>1. pcFile \in PcFile
            BY DEF PcValues, PcBooks, PcTypeOK
        <3>2. ASSUME NEW t \in PcThreads, NEW kind \in {"private", "shared"}, Map(t, kind)
              PROVE  pcFile'.removed = pcFile.removed
            BY <3>1, <3>2 DEF Map, PcFile
        <3>3. ASSUME NEW t \in PcThreads, Touch(t) \/ Find(t) \/ ReadIn(t) \/ Insert(t) \/ Install(t)
              PROVE  pcFile' = pcFile
            BY <3>3 DEF Touch, Find, ReadIn, Insert, Install, pageVars
        <3>4. ASSUME NEW t \in PcThreads, NEW c \in Cells, Store(t, c) PROVE pcFile' = pcFile
            BY <3>4 DEF Store
        <3>5. ASSUME NEW t \in PcThreads, Unmap(t) \/ Sync(t) \/ Collect(t) \/ Measure(t) \/ Clean(t) \/ Revalidate(t)
              PROVE  pcFile' = pcFile
            BY <3>5 DEF Unmap, Sync, Collect, Measure, Clean, Revalidate, pageVars
        <3>6. ASSUME NEW t \in PcThreads, Waited(t) \/ Done(t) PROVE pcFile'.removed = pcFile.removed
            BY <3>1, <3>6 DEF Waited, Done, PcFile
        <3>7. ASSUME NEW t \in PcThreads, NEW ok \in BOOLEAN, Save(t, ok) PROVE pcFile'.removed = pcFile.removed
            BY <3>1, <3>7 DEF Save, PcFile
        <3>8. ASSUME NEW t \in PcThreads, Saved(t) \/ Written(t) \/ Cut(t) PROVE pcFile'.removed = pcFile.removed
            <4>1. pcFile' = [pcFile EXCEPT !.gen = pcFile.gen + 1]
                BY <3>8 DEF Saved, Written, Cut
            <4> QED BY <3>1, <4>1 DEF PcFile
        <3>9. ASSUME NEW t \in PcThreads, NEW c \in Cells \cup {PageEnd}, Write(t, c) PROVE pcFile'.removed = pcFile.removed
            BY <3>9, WriteFacts DEF PcValues
        <3>10. ASSUME NEW t \in PcThreads, NEW n \in 0 .. 1, Truncate(t, n) PROVE pcFile'.removed = pcFile.removed
            BY <3>1, <3>10 DEF Truncate, PcFile
        <3>11. ASSUME Reclaim PROVE pcFile' = pcFile
            BY <3>11 DEF Reclaim
        <3>12. ASSUME Remove PROVE pcFile'.removed
            BY <3>1, <3>12 DEF Remove, PcFile
        <3> QED BY <1>2, <3>2, <3>3, <3>4, <3>5, <3>6, <3>7, <3>8, <3>9, <3>10, <3>11, <3>12 DEF PcNext, PcStep
    <2> QED BY <2>1, <2>2, <2>3, ValuesKept
<1> QED BY <1>1, <1>2

LEMMA ValuesAtFirst ==
    ASSUME PcAssumption, PcInit
    PROVE  PcValues
<1>1. PcBooks
    BY BooksAtFirst
<1>2. /\ \A t \in PcThreads : th[t].at = "idle"
      /\ entry.frame = 0 /\ ~entry.shared /\ ~entry.dirty /\ calls = 0 /\ ~raced
      /\ \A c \in Cells : last[c] = {0} /\ pcFile.data[c] = 0
    <2>1. th = [t \in PcThreads |-> AtRest] /\ entry = NoEntry /\ calls = 0 /\ ~raced /\ pcFile.data = Blank
          /\ last = [c \in Cells |-> {0}]
        BY DEF PcInit
    <2> QED BY <2>1, RestFacts DEF NoEntry, Blank
<1>3. ValuesApart
    BY <1>2 DEF ValuesApart
<1>4. PrivateIsFile
    BY <1>2 DEF PrivateIsFile
<1>5. ~Racing
    BY <1>2 DEF Racing, Saving, Faulting
<1>6. CalmPage
    <2>1. \A c \in Cells : Writers(c) = {}
        BY <1>2 DEF Writers
    <2>2. PageCalm
        BY <1>2, <2>1 DEF PageCalm, Settled
    <2>3. \A t \in PcThreads : ThreadCalm(th[t])
        BY <1>2 DEF ThreadCalm, Saving, Faulting
    <2> QED BY <2>2, <2>3 DEF CalmPage
<1> QED BY <1>1, <1>3, <1>4, <1>5, <1>6 DEF PcValues

\* What the invariant says of a page while no write is under way
LEMMA ValuesSay ==
    ASSUME PcAssumption, PcValues
    PROVE  CacheIsCurrent
<1> SUFFICES ASSUME Quiet PROVE CacheIsCurrent
    BY DEF CacheIsCurrent
<1>1. PcTypeOK /\ FramesInHand
    BY DEF PcValues, PcBooks
<1>2. \A t \in PcThreads : th[t].at \notin {"cut", "saved", "written"}
    BY DEF Quiet, Saving, Changing
<1>3. \A c \in Cells : Writers(c) = {}
    BY <1>2 DEF Writers
<1>4. ASSUME entry.frame # 0, ~entry.shared PROVE mem[entry.frame] = FileCells(pcFile)
    <2>1. \A c \in Cells : mem[entry.frame][c] = FileCells(pcFile)[c]
        BY <1>2, <1>3, <1>4 DEF PcValues, PrivateIsFile, SameAsFile
    <2>2. entry.frame \in PcFrames
        BY <1>1, <1>4 DEF PcTypeOK, PcEntry
    <2>3. mem[entry.frame] \in [Cells -> Nat] /\ FileCells(pcFile) \in [Cells -> Nat]
        BY <1>1, <2>2, CellFacts
    <2> QED BY <2>1, <2>3
<1>5. ASSUME ~raced, ~pcFile.removed, NEW c \in Cells, c < pcFile.size
      PROVE  read_overlay(pcFile, entry, mem)[c] \in last[c]
    <2>1. CalmPage
        BY <1>5 DEF PcValues
    <2>2. CASE entry.shared
        BY <1>3, <1>5, <2>1, <2>2 DEF CalmPage, PageCalm, read_overlay
    <2>3. CASE ~entry.shared
        <3>1. pcFile.data[c] \in last[c]
            BY <1>3, <1>5, <2>1, <2>3 DEF CalmPage, PageCalm, Settled
        <3>2. read_overlay(pcFile, entry, mem)[c] = pcFile.data[c]
            BY <1>5, <2>3 DEF read_overlay, FileCells
        <3> QED BY <3>1, <3>2
    <2> QED BY <2>2, <2>3
<1> QED BY <1>4, <1>5 DEF CacheIsCurrent

\* A page cached for private mappings is what the file holds, and a read() sees
\* the last write, by write() or through a mapping (pcache.c)
THEOREM CachedPagesAreCurrent ==
    ASSUME PcAssumption
    PROVE  PcSpec => []CacheIsCurrent
<1>1. PcInit => PcValues
    BY ValuesAtFirst
<1>2. PcValues /\ [PcNext]_pcVars => PcValues'
    BY ValuesAlways
<1>3. PcValues => CacheIsCurrent
    BY ValuesSay
<1> QED BY <1>1, <1>2, <1>3, PTL DEF PcSpec
=============================================================================
