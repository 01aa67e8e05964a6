----------------------------- MODULE KernelHeap -----------------------------
(***************************************************************************)
(* The kernel's memory: the frame bitmap (src/mm/pmm.c), the heap of       *)
(* boundary-tagged blocks grown at its end (src/mm/heap.c) and one slab    *)
(* cache (src/mm/slab.c).  Every call holds its lock from its first read   *)
(* to its last write, so a call is one step.                               *)
(*                                                                         *)
(* Sizes are in units of a header (16 bytes); heap addresses start at 0.   *)
(* A block's header is one unit and a free block's links another, so       *)
(* MIN_BLOCK is 2.  hPoison is the set of heap units that hold POISON.     *)
(***************************************************************************)
EXTENDS Naturals, Integers, FiniteSets, Sequences, SequencesExt, FiniteSetsExt

CONSTANTS
    FrameCount,     \* total_frames; frame 0 is reserved
    PageUnits,      \* PAGE_SIZE
    InitialPages,   \* KHEAP_INITIAL_SIZE
    GrowMin,        \* GROW_MIN
    TrimThreshold,  \* KHEAP_TRIM_THRESHOLD
    TrimKeep,       \* KHEAP_TRIM_KEEP
    AskSizes,       \* the payload sizes callers ask for
    CacheUnits,     \* sizeof(kmem_cache_t)
    PerSlab         \* objects_per_slab

KernelHeapAssumption ==
    /\ {FrameCount, PageUnits, InitialPages, GrowMin, TrimThreshold, TrimKeep, CacheUnits, PerSlab}
            \subseteq Nat \ {0}
    /\ AskSizes \subseteq Nat \ {0}
    /\ FrameCount > InitialPages
    /\ TrimThreshold > TrimKeep

VARIABLES
    kheap,  \* the heap and the frames: see KheapInit
    slabs,  \* the cache: its struct's address (-1: none), its two lists, free objects by page
    objs    \* the objects callers hold, as <<frame, index>>

heapVars == <<kheap, slabs, objs>>

MinBlock == 2
NoCache == [at |-> -1, partial |-> <<>>, full |-> <<>>, free |-> << >>]

\* page_align_up, and the number of pages `units` take
PagesFor(units) == (units + PageUnits - 1) \div PageUnits

-----------------------------------------------------------------------------
(* Frames: pmm_alloc_frames(1) and pmm_free_frames(_, 1)                   *)

\* The first free frame at or after the hint, else the first of all, else 0.
find_free_run(h) ==
    LET Free == (1 .. FrameCount - 1) \ h.frames
        Above == {f \in Free : f >= h.hint} IN
    IF Above # {} THEN Min(Above) ELSE IF Free # {} THEN Min(Free) ELSE 0

pmm_alloc(h, f) == [h EXCEPT !.frames = @ \union {f}, !.hint = f + 1]

pmm_free(h, f) ==
    IF f \in h.frames THEN [h EXCEPT !.frames = @ \ {f}, !.hint = IF f < @ THEN f ELSE @] ELSE h

-----------------------------------------------------------------------------
(* Blocks                                                                  *)

next_block(h, b) == IF b = h.last THEN -1 ELSE b + h.size[b]
prev_block(h, b) == IF h.prev[b] = 0 THEN -1 ELSE b - h.prev[b]

\* class_of: the position of the highest set bit
class_of(size) == Max({k \in 0 .. 8 : 2^k <= size})

Span(b, n) == b .. (b + n - 1)

insert_free(h, b) ==
    [h EXCEPT !.free = @ \union {b},
              !.lists[class_of(h.size[b])] = <<b>> \o @,
              !.poison = @ \ Span(b, MinBlock)]

unlink_free(h, b) == [h EXCEPT !.lists[class_of(h.size[b])] = Remove(@, b)]

update_next_prev_size(h, b) ==
    IF b = h.last THEN h ELSE [h EXCEPT !.prev[b + h.size[b]] = h.size[b]]

\* A new header at `b`
Header(h, b, size, prev) ==
    [h EXCEPT !.size = (b :> size) @@ @, !.prev = (b :> prev) @@ @]

\* Mutant of Merged: the header and links that disappear are not poisoned.
MergedAsIs(h, b) ==
    [h EXCEPT !.size = [x \in DOMAIN @ \ {b} |-> @[x]], !.prev = [x \in DOMAIN @ \ {b} |-> @[x]],
              !.free = @ \ {b}]

\* The header at `b` is gone: it lies inside another block.
Merged(h, b) ==
    [h EXCEPT !.size = [x \in DOMAIN @ \ {b} |-> @[x]], !.prev = [x \in DOMAIN @ \ {b} |-> @[x]],
              !.free = @ \ {b}, !.poison = @ \union Span(b, MinBlock)]


\* split: the caller's block has no free bit; the rest becomes a free block.
split(h, b, need) ==
    IF h.size[b] < need + MinBlock THEN h
    ELSE LET rest == b + need
             cut == Header([h EXCEPT !.size[b] = need], rest, h.size[b] - need, need) IN
         insert_free(IF h.last = b THEN [cut EXCEPT !.last = rest]
                     ELSE update_next_prev_size(cut, rest), rest)

-----------------------------------------------------------------------------
(* Pages                                                                   *)

EndOf(h) == Len(h.pages) * PageUnits


\* shrink_heap: the pages from `to` on are unmapped, the last one first, and freed.
shrink_heap(h, to) ==
    LET Back(acc, i) == [pmm_free(acc, Last(acc.pages)) EXCEPT !.pages = Front(@)]
    IN  FoldLeft(Back, h, [i \in 1 .. (Len(h.pages) - to) |-> i])

\* One page more, or (no frame, or no frame for a page table after
\* `mapped` pages) the heap stays as long as it got.
AddPage(h, f, mapped) ==
    IF f = 0 \/ Len(h.pages) >= mapped THEN h
    ELSE [pmm_alloc(h, f) EXCEPT !.pages = Append(@, f)]

\* expand_heap: all `n` pages or none.
expand_heap(h, n, mapped) ==
    LET More(acc, i) == AddPage(acc, find_free_run(acc), mapped)
        Settle(g) == IF Len(g.pages) = Len(h.pages) + n THEN g ELSE shrink_heap(g, Len(h.pages))
    IN  Settle(FoldLeft(More, h, [i \in 1 .. n |-> i]))

\* The new pages join the last block, if free, or become a block of their own.
Join(h, old) ==
    LET added == EndOf(h) - old
        b == h.last IN
    IF b \in h.free
    THEN insert_free([unlink_free(h, b) EXCEPT !.size[b] = @ + added], b)
    ELSE insert_free([Header(h, old, added, h.size[b]) EXCEPT !.last = old], old)

grow_for(h, need, mapped) ==
    LET have == IF h.last \in h.free THEN h.size[h.last] ELSE 0
        more == IF need - have < GrowMin THEN GrowMin ELSE need - have
        Grown(g) == IF Len(g.pages) = Len(h.pages) THEN g
                    ELSE Join([g EXCEPT !.poison = @ \union (EndOf(h) .. EndOf(g) - 1)], EndOf(h))
    IN  Grown(expand_heap(h, PagesFor(more), mapped))

-----------------------------------------------------------------------------
(* kmalloc and kfree                                                       *)

\* take_free's choice: first fit in need's own class, else the first block of
\* the next class that has one.
Fit(h, need) ==
    LET own == SelectSeq(h.lists[class_of(need)], LAMBDA b : h.size[b] >= need)
        above == {k \in DOMAIN h.lists : k > class_of(need) /\ h.lists[k] # <<>>} IN
    IF own # <<>> THEN Head(own) ELSE IF above # {} THEN Head(h.lists[Min(above)]) ELSE -1

\* A block found is handed out: in use, split, checked and counted.  What
\* first_unpoisoned looks at is the whole block but its header and links.
HandOut(h, b) == [h EXCEPT !.damage = @ \/ ~ (Span(b + MinBlock, h.size[b] - MinBlock) \subseteq h.poison),
                           !.inUse = @ + h.size[b] - 1,
                           !.poison = @ \ Span(b, h.size[b]),
                           !.result = b]

Take(h, b, need) ==
    IF b = -1 THEN [h EXCEPT !.result = -1]
    ELSE HandOut(split([unlink_free(h, b) EXCEPT !.free = @ \ {b}], b, need), b)

kmalloc(h, size, mapped) ==
    LET need == IF size + 1 < MinBlock THEN MinBlock ELSE size + 1
        Again(g) == Take(g, Fit(g, need), need)
    IN  IF Fit(h, need) # -1 THEN Again(h) ELSE Again(grow_for(h, need, mapped))

MergeNext(h, b, n) ==
    IF n = -1 \/ n \notin h.free THEN h
    ELSE Merged([unlink_free(h, n) EXCEPT !.size[b] = @ + h.size[n],
                                          !.last = IF @ = n THEN b ELSE @], n)

\* The merge with the block before; .result says which block is left.
MergePrev(h, b, p) ==
    IF p = -1 \/ p \notin h.free THEN [h EXCEPT !.result = b]
    ELSE [Merged([unlink_free(h, p) EXCEPT !.size[p] = @ + h.size[b],
                                           !.last = IF @ = b THEN p ELSE @], b)
            EXCEPT !.result = p, !.free = @ \ {p}]

\* A large free block at the end gives most of its pages back.
Trim(h, b) ==
    LET wanted == PagesFor(b + 1 + TrimKeep)
        to == IF wanted < InitialPages THEN InitialPages ELSE wanted
        Cut(g) == [g EXCEPT !.size[b] = EndOf(g) - b, !.poison = @ \ {x \in @ : x >= EndOf(g)}] IN
    IF b = h.last /\ h.size[b] >= TrimThreshold /\ to < Len(h.pages)
    THEN Cut(shrink_heap(h, to)) ELSE h

\* kfree of a block: one that is free already is left alone.
kfree(h, b) ==
    LET Freed == [h EXCEPT !.inUse = @ - (h.size[b] - 1),
                           !.poison = @ \union Span(b + MinBlock, h.size[b] - MinBlock)]
        Finish(g, c) == insert_free(Trim(update_next_prev_size(g, c), c), c)
        Prev(g) == MergePrev(g, b, prev_block(g, b))
        Done(g) == Finish(g, g.result)
    IN  IF b \in h.free THEN h
        ELSE Done(Prev(MergeNext(Freed, b, next_block(Freed, b))))

-----------------------------------------------------------------------------
(* The slab cache: frames of PerSlab objects each                          *)

\* slab_page_create puts a new page alone on the partial list.
slab_page_create(s, f) ==
    [s EXCEPT !.free = (f :> [i \in 1 .. PerSlab |-> i]) @@ @, !.partial = <<f>>]

\* The first object of the first partial page; a page it fills moves over.
TakeObject(s, f) ==
    LET rest == Tail(s.free[f]) IN
    [s EXCEPT !.free[f] = rest,
              !.partial = IF rest = <<>> THEN Tail(@) ELSE @,
              !.full = IF rest = <<>> THEN <<f>> \o @ ELSE @]

\* The object goes back on its page's list; a page that was full moves over.
GiveObject(s, f, i) ==
    [s EXCEPT !.free[f] = <<i>> \o @,
              !.full = Remove(@, f),
              !.partial = IF s.free[f] = <<>> THEN <<f>> \o @ ELSE @]

\* An empty page is returned unless it is the only one with room.
Returned(s, f) ==
    IF Len(s.free[f]) = PerSlab /\ ~ (Len(s.partial) > 0 /\ Head(s.partial) = f /\ Len(s.partial) = 1)
    THEN {f} ELSE {}

DropPages(s, gone) ==
    [s EXCEPT !.partial = SelectSeq(@, LAMBDA x : x \notin gone),
              !.free = [x \in DOMAIN @ \ gone |-> @[x]]]

-----------------------------------------------------------------------------
(* What the kernel does                                                    *)

\* kheap_init, on a machine with no frame taken but frame 0: one free block.
KheapInit ==
    LET empty == [frames |-> {0}, hint |-> 1, pages |-> <<>>, size |-> << >>, prev |-> << >>,
                  free |-> {}, lists |-> [k \in 0 .. 8 |-> <<>>], last |-> 0,
                  inUse |-> 0, poison |-> {}, damage |-> FALSE, result |-> -1]
        First(h) == insert_free(Header([h EXCEPT !.poison = Span(0, EndOf(h))], 0, EndOf(h), 0), 0)
    IN  First(expand_heap(empty, InitialPages, InitialPages))

HeapInit == kheap = KheapInit /\ slabs = NoCache /\ objs = {}

\* The call is over: its result is the caller's.
Returns(h) == [h EXCEPT !.result = -1]

\* How far the page tables reach before a frame for a new one is missing
Reach == {FrameCount, Len(kheap.pages)}

Kmalloc(size, mapped) ==
    /\ kheap' = Returns(kmalloc(kheap, size, mapped))
    /\ UNCHANGED <<slabs, objs>>

\* A block is freed by its owner, or a second time.
Kfree(b) ==
    /\ b # slabs.at
    /\ kheap' = Returns(kfree(kheap, b))
    /\ UNCHANGED <<slabs, objs>>

CacheCreate(mapped) ==
    LET Made(h) == kheap' = Returns(h) /\ slabs' = [NoCache EXCEPT !.at = h.result] IN
    /\ slabs.at = -1
    /\ Made(kmalloc(kheap, CacheUnits, mapped))
    /\ UNCHANGED objs

\* kmem_cache_alloc: from the first page with room, or a new page.
CacheAlloc ==
    LET f == find_free_run(kheap) IN
    /\ slabs.at # -1
    /\ \/ /\ slabs.partial # <<>>
          /\ slabs' = TakeObject(slabs, Head(slabs.partial))
          /\ objs' = objs \union {<<Head(slabs.partial), Head(slabs.free[Head(slabs.partial)])>>}
          /\ UNCHANGED kheap
       \/ /\ slabs.partial = <<>> /\ f # 0
          /\ kheap' = pmm_alloc(kheap, f)
          /\ slabs' = TakeObject(slab_page_create(slabs, f), f)
          /\ objs' = objs \union {<<f, 1>>}

\* kmem_cache_free of an object its caller holds
CacheFree(o) ==
    LET back == GiveObject(slabs, o[1], o[2])
        gone == Returned(back, o[1]) IN
    /\ o \in objs
    /\ objs' = objs \ {o}
    /\ slabs' = DropPages(back, gone)
    /\ kheap' = IF gone = {} THEN kheap ELSE pmm_free(kheap, o[1])

\* kmem_cache_destroy frees both lists' pages, then the cache itself.
CacheDestroy ==
    LET PageBack(h, f) == pmm_free(h, f) IN
    /\ slabs.at # -1
    /\ kheap' = Returns(kfree(FoldLeft(PageBack, kheap, slabs.full \o slabs.partial), slabs.at))
    /\ slabs' = NoCache
    /\ objs' = {}

HeapNext ==
    \/ \E size \in AskSizes, mapped \in Reach : Kmalloc(size, mapped)
    \/ \E b \in DOMAIN kheap.size : Kfree(b)
    \/ \E mapped \in Reach : CacheCreate(mapped)
    \/ CacheAlloc
    \/ \E o \in objs : CacheFree(o)
    \/ CacheDestroy

-----------------------------------------------------------------------------
(* Properties                                                              *)

\* What kheap_check walks: the headers tile the heap to its end, each knows
\* the size before it, no two free blocks touch, and the lists hold exactly
\* the free blocks, each in its class, once.
HeapIsSound ==
    LET B == DOMAIN kheap.size
        listed == FoldLeft(LAMBDA x, y : x \o y, <<>>, [k \in 1 .. 9 |-> kheap.lists[k - 1]]) IN
    /\ 0 \in B /\ kheap.last \in B
    /\ kheap.last + kheap.size[kheap.last] = EndOf(kheap)
    /\ \A b \in B :
        /\ kheap.size[b] >= MinBlock
        /\ b # kheap.last => /\ b + kheap.size[b] \in B
                             /\ kheap.prev[b + kheap.size[b]] = kheap.size[b]
                             /\ ~ {b, b + kheap.size[b]} \subseteq kheap.free
        /\ ~ \E c \in B : c > b /\ c < b + kheap.size[b]
    /\ ToSet(listed) = kheap.free /\ Len(listed) = Cardinality(kheap.free)
    /\ \A k \in DOMAIN kheap.lists : \A b \in ToSet(kheap.lists[k]) : class_of(kheap.size[b]) = k
    /\ kheap.inUse = FoldSet(LAMBDA b, n : n + kheap.size[b] - 1, 0, B \ kheap.free)

\* Poison never cries wolf: whatever kmalloc hands out still holds POISON but
\* for its links, so damage it reports was done by a write after a free.
PoisonIsKept ==
    /\ ~ kheap.damage
    /\ \A b \in kheap.free : Span(b + MinBlock, kheap.size[b] - MinBlock) \subseteq kheap.poison

\* Every used frame is the heap's or the cache's, and no frame is both: no
\* path (a failed growth, a trim, an emptied page, a destroyed cache) loses
\* a frame or gives away one still in use.  A page with room is on the
\* partial list, a full one on the other, and no object in use is free.
FramesAccounted ==
    LET onLists == slabs.partial \o slabs.full IN
    /\ kheap.frames = {0} \union ToSet(kheap.pages) \union DOMAIN slabs.free
    /\ IsInjective(kheap.pages) /\ ToSet(kheap.pages) \intersect DOMAIN slabs.free = {}
    /\ IsInjective(onLists) /\ ToSet(onLists) = DOMAIN slabs.free
    /\ \A f \in DOMAIN slabs.free :
        /\ (f \in ToSet(slabs.full)) = (slabs.free[f] = <<>>)
        /\ IsInjective(slabs.free[f])
        /\ {o[2] : o \in {x \in objs : x[1] = f}} = (1 .. PerSlab) \ ToSet(slabs.free[f])
    /\ Len(kheap.pages) >= InitialPages
=============================================================================
