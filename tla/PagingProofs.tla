---------------------------- MODULE PagingProofs ----------------------------
(***************************************************************************)
(* Proofs about module Paging, for any number of processes, threads,       *)
(* frames and slots: owners are counted, a buffer a call has checked stays *)
(* and no CPU keeps a translation to a frame that is somebody else's; and, *)
(* with at most two threads in the process that forks, a page holds what   *)
(* its process stored.  PgBooks is the inductive invariant of the first    *)
(* three, PgValues adds what the last needs; one lemma per action shows    *)
(* that the action keeps them.                                             *)
(***************************************************************************)
EXTENDS Paging, MemoryProofs

-----------------------------------------------------------------------------
(* Pages of processes.                                                     *)

Heap(p) == tables[p]["heap"]
Shm(p) == tables[p]["shm"]
HeapIs(p, f) == Heap(p).k = "in" /\ Heap(p).at = f
ShmIs(p, f) == Shm(p).k = "in" /\ Shm(p).at = f
HeapOut(p, s) == Heap(p).k = "out" /\ Heap(p).at = s

HeapsOf(f) == {p \in PgProcs : HeapIs(p, f)}
ShmsOf(f) == {p \in PgProcs : ShmIs(p, f)}
OutsOf(s) == {p \in PgProcs : HeapOut(p, s)}
HandsOf(f) == {t \in PgThreads : job[t].frame = f}

\* An entry that is present names a frame, one on the swap disk a slot
PgEntry == [k : {"none", "in", "out"}, at : Nat, w : BOOLEAN]
EntryNames(e) == (e.k = "in" => e.at \in PgFrames) /\ (e.k = "out" => e.at \in PgSlots)

JobPlaces == {"idle", "freeing", "copied", "leaving", "saving", "attaching",
              "cloning", "cloned", "keeping", "charging", "undoing"}
PgJob == [at : JobPlaces, frame : PgFrames \cup {0}, slot : PgSlots \cup {0},
          todo : SUBSET PgPages, child : PgProcs \cup {0}]

\* The types of the address spaces' variables
PgTypeOK ==
    /\ tables \in [PgProcs -> [PgPages -> PgEntry]]
    /\ owners \in [PgFrames -> Nat] /\ bytes \in [PgFrames -> Nat]
    /\ slotOwners \in [PgSlots -> Nat] /\ slotBytes \in [PgSlots -> Nat]
    /\ heapOn \in [PgProcs -> BOOLEAN] /\ promised \in [PgProcs -> Nat]
    /\ segment \in PgFrames \cup {0} /\ live \in SUBSET PgProcs
    /\ mapLock \in [PgProcs -> Nat] /\ memLock \in [PgProcs -> Nat] /\ swapLock \in Nat
    /\ tlb \in [PgThreads -> [f : PgFrames \cup {0}, w : BOOLEAN]]
    /\ job \in [PgThreads -> PgJob]
    /\ inCall \in [PgThreads -> {"no", "checking", "using"}]
    /\ pgCalls \in Nat /\ holds \in [PgProcs -> Nat]

\* Entries name what there is, and shared memory is not swapped
EntriesOK == \A p \in PgProcs : EntryNames(Heap(p)) /\ EntryNames(Shm(p)) /\ Shm(p).k # "out"

\* Owners are counted
FramesCounted == \A f \in PgFrames :
    owners[f] = Cardinality(HeapsOf(f)) + Cardinality(ShmsOf(f)) + One(segment = f) + Cardinality(HandsOf(f))
SlotsCounted == \A s \in PgSlots : slotOwners[s] = Cardinality(OutsOf(s))

Forking == {"cloning", "cloned", "keeping", "charging", "undoing"}
Cloning == {"cloning", "cloned", "keeping"}
InHand == {"freeing", "leaving", "saving", "attaching"}
Swapping == {"leaving", "saving"}

\* What a thread in the middle of something has in its hand ...
HandOK(t) ==
    /\ job[t].at # "idle" => Space(t) \in live
    /\ job[t].at \in InHand => job[t].frame # 0
    /\ job[t].at \notin InHand \cup {"copied"} => job[t].frame = 0
    /\ job[t].at \in Swapping => job[t].slot \in PgSlots /\ owners[job[t].frame] = 1
    /\ job[t].at \in Forking => Space(t) = First /\ job[t].child \in PgProcs /\ job[t].child \notin live

\* ... the locks it holds ...
LocksOK(t) ==
    /\ job[t].at \in InHand \cup Cloning => memLock[Space(t)] = t
    /\ job[t].at \in Cloning \cup {"charging", "attaching"} => mapLock[Space(t)] = t
    /\ job[t].at \in Swapping => swapLock = t

\* ... and the page it works at
PageOK(t) ==
    /\ job[t].at = "freeing" => Heap(Space(t)).k = "none" /\ ~heapOn[Space(t)]
    /\ job[t].at = "attaching" => Shm(Space(t)).k = "none"
    /\ job[t].at \in Swapping => HeapOut(Space(t), job[t].slot)

OneFork == \A t, u \in PgThreads : job[t].at \in Forking /\ job[u].at \in Forking => t = u

\* The address space being made has the pages cloned so far, and as much of the
\* heap as the parent
ChildOK(t) ==
    /\ job[t].at = "cloning" => \A v \in job[t].todo : tables[job[t].child][v] = Absent
    /\ job[t].at \in {"cloned", "keeping"} => job[t].todo = {}
    /\ job[t].at \in Cloning /\ "heap" \notin job[t].todo => Heap(job[t].child).k = Heap(Space(t)).k
    /\ job[t].at \in Cloning \cup {"charging"} /\ ~heapOn[Space(t)] => Heap(job[t].child).k = "none"
    /\ job[t].at = "charging" => promised[Space(t)] <= One(heapOn[Space(t)] /\ Heap(job[t].child).k = "none")

\* A process that does not exist has nothing, unless it is being made
DeadOK(p) ==
    p \notin live =>
        /\ ~heapOn[p] /\ promised[p] = 0
        /\ (\A t \in PgThreads : job[t].at \in Forking => job[t].child # p)
             => tables[p]["heap"] = Absent /\ tables[p]["shm"] = Absent
        /\ \A t \in PgThreads : Space(t) = p => inCall[t] = "no" /\ tlb[t].f = 0

\* Promises are for pages that are not there, and what brk has not promised is not there
HeapOK(p) ==
    /\ promised[p] <= One(heapOn[p] /\ Heap(p).k = "none")
    /\ p \in live /\ ~heapOn[p] => Heap(p).k = "none"

\* A page that can be written without a fault has one owner
WritableAlone(p) == Heap(p).k = "in" /\ Heap(p).w => owners[Heap(p).at] = 1

\* A translation some CPU may still use leads to a frame its process maps, or
\* that a thread of it has in hand until the CPUs are told
TlbOwned(p) ==
    \A t \in PgThreads : Space(t) = p /\ tlb[t].f # 0 =>
        \/ HeapIs(p, tlb[t].f)
        \/ \E u \in PgThreads : /\ Space(u) = p /\ job[u].frame = tlb[t].f
                                /\ job[u].at \in {"freeing", "leaving", "copied"}

\* A buffer in use has its frame to itself, but for a child that is being made
BuffersKept(p) ==
    (\E t \in PgThreads : Space(t) = p /\ inCall[t] = "using") =>
        /\ Heap(p).k = "in"
        /\ \/ owners[Heap(p).at] = 1
           \/ /\ owners[Heap(p).at] = 2
              /\ \E u \in PgThreads : /\ Space(u) = p /\ job[u].at \in Forking \ {"charging"}
                                      /\ HeapIs(job[u].child, Heap(p).at)

SpaceOK(p) == DeadOK(p) /\ HeapOK(p) /\ WritableAlone(p) /\ TlbOwned(p) /\ BuffersKept(p)

PgThreadsOK == \A t \in PgThreads : HandOK(t) /\ LocksOK(t) /\ PageOK(t) /\ ChildOK(t)

PgBooks == /\ PgTypeOK /\ EntriesOK /\ FramesCounted /\ SlotsCounted /\ PgThreadsOK /\ OneFork
           /\ First \in live /\ \A p \in PgProcs : SpaceOK(p)

-----------------------------------------------------------------------------

LEMMA PgNames ==
    ASSUME PgAssumption
    PROVE  /\ First \in PgProcs
           /\ \A t \in PgThreads : Space(t) \in PgProcs /\ t \in Nat /\ t # 0
           /\ \A f \in PgFrames : f \in Nat /\ f # 0
           /\ \A s \in PgSlots : s \in Nat /\ s # 0
           /\ \A p \in PgProcs : p \in Nat /\ p # 0
BY DEF PgAssumption, First, Space

LEMMA NewIsFree ==
    ASSUME HasFrame
    PROVE  NewFrame \in PgFrames /\ owners[NewFrame] = 0
BY DEF HasFrame, NewFrame, FreeNow

\* The counts are numbers
LEMMA PgCounts ==
    ASSUME PgAssumption
    PROVE  /\ \A f : /\ Cardinality(HeapsOf(f)) \in Nat /\ Cardinality(ShmsOf(f)) \in Nat
                     /\ Cardinality(HandsOf(f)) \in Nat /\ Cardinality(OutsOf(f)) \in Nat
           /\ \A f : /\ Cardinality(HeapsOf(f)) = 0 <=> HeapsOf(f) = {}
                     /\ Cardinality(ShmsOf(f)) = 0 <=> ShmsOf(f) = {}
                     /\ Cardinality(HandsOf(f)) = 0 <=> HandsOf(f) = {}
                     /\ Cardinality(OutsOf(f)) = 0 <=> OutsOf(f) = {}
<1> SUFFICES ASSUME NEW f
             PROVE  /\ Cardinality(HeapsOf(f)) \in Nat /\ Cardinality(ShmsOf(f)) \in Nat
                    /\ Cardinality(HandsOf(f)) \in Nat /\ Cardinality(OutsOf(f)) \in Nat
                    /\ Cardinality(HeapsOf(f)) = 0 <=> HeapsOf(f) = {}
                    /\ Cardinality(ShmsOf(f)) = 0 <=> ShmsOf(f) = {}
                    /\ Cardinality(HandsOf(f)) = 0 <=> HandsOf(f) = {}
                    /\ Cardinality(OutsOf(f)) = 0 <=> OutsOf(f) = {}
    OBVIOUS
<1>1. IsFiniteSet(PgProcs) /\ IsFiniteSet(PgThreads)
    BY DEF PgAssumption
<1>2. /\ HeapsOf(f) \in SUBSET PgProcs /\ ShmsOf(f) \in SUBSET PgProcs /\ OutsOf(f) \in SUBSET PgProcs
      /\ HandsOf(f) \in SUBSET PgThreads
    BY DEF HeapsOf, ShmsOf, OutsOf, HandsOf
<1> QED BY <1>1, <1>2, CountsOne

\* Two members are counted as two
LEMMA CountsTwo ==
    ASSUME NEW S, IsFiniteSet(S), NEW A \in SUBSET S, NEW x \in A, NEW y \in A, x # y
    PROVE  Cardinality(A) \in Nat /\ Cardinality(A) >= 2
<1>1. IsFiniteSet(A) /\ Cardinality(A) \in Nat
    BY FS_Subset, FS_CardinalityType
<1>2. Cardinality(A \ {x}) = Cardinality(A) - 1
    BY <1>1, FS_RemoveElement
<1>3. IsFiniteSet(A \ {x}) /\ A \ {x} # {}
    BY <1>1, FS_Subset
<1>4. Cardinality(A \ {x}) \in Nat /\ Cardinality(A \ {x}) # 0
    BY <1>3, FS_CardinalityType, FS_EmptySet
<1> QED BY <1>1, <1>2, <1>4

LEMMA CountsThree ==
    ASSUME NEW S, IsFiniteSet(S), NEW A \in SUBSET S, NEW x \in A, NEW y \in A, NEW z \in A, x # y, y # z, x # z
    PROVE  Cardinality(A) >= 3
<1>1. IsFiniteSet(A) /\ Cardinality(A) \in Nat
    BY FS_Subset, FS_CardinalityType
<1>2. Cardinality(A \ {x}) = Cardinality(A) - 1
    BY <1>1, FS_RemoveElement
<1>3. A \ {x} \in SUBSET S /\ y \in A \ {x} /\ z \in A \ {x}
    OBVIOUS
<1>4. Cardinality(A \ {x}) \in Nat /\ Cardinality(A \ {x}) >= 2
    BY <1>3, CountsTwo
<1> QED BY <1>1, <1>2, <1>4

\* Who has a frame owns it
LEMMA Holders ==
    ASSUME PgAssumption, PgTypeOK, FramesCounted, NEW f \in PgFrames
    PROVE  /\ owners[f] = 0 => /\ \A q \in PgProcs : ~HeapIs(q, f) /\ ~ShmIs(q, f)
                               /\ segment # f /\ \A u \in PgThreads : job[u].frame # f
           /\ owners[f] = 1 =>
                /\ \A q, r \in PgProcs : HeapIs(q, f) /\ HeapIs(r, f) => q = r
                /\ \A q, r \in PgProcs : HeapIs(q, f) => ~ShmIs(r, f)
                /\ \A q \in PgProcs : HeapIs(q, f) => segment # f
                /\ \A q \in PgProcs, u \in PgThreads : HeapIs(q, f) => job[u].frame # f
                /\ \A u \in PgThreads : job[u].frame = f => segment # f
                /\ \A q \in PgProcs, u \in PgThreads : job[u].frame = f => ~ShmIs(q, f)
                /\ \A u, v \in PgThreads : job[u].frame = f /\ job[v].frame = f => u = v
           /\ owners[f] = 2 =>
                \A q, r \in PgProcs : HeapIs(q, f) /\ HeapIs(r, f) /\ q # r =>
                    /\ segment # f /\ \A x \in PgProcs : ~ShmIs(x, f) /\ (HeapIs(x, f) => x = q \/ x = r)
                    /\ \A u \in PgThreads : job[u].frame # f
<1> DEFINE A == HeapsOf(f)
           B == ShmsOf(f)
           C == HandsOf(f)
<1>1. /\ Cardinality(A) \in Nat /\ Cardinality(B) \in Nat /\ Cardinality(C) \in Nat
      /\ (Cardinality(A) = 0 <=> A = {}) /\ (Cardinality(B) = 0 <=> B = {}) /\ (Cardinality(C) = 0 <=> C = {})
    BY PgCounts
<1>2. owners[f] = Cardinality(A) + Cardinality(B) + One(segment = f) + Cardinality(C)
    BY DEF FramesCounted
<1>3. ASSUME NEW x \in A, NEW y \in A, x # y PROVE Cardinality(A) >= 2
    BY <1>3, CountsTwo DEF PgAssumption, HeapsOf
<1>4. ASSUME NEW x \in C, NEW y \in C, x # y PROVE Cardinality(C) >= 2
    BY <1>4, CountsTwo DEF PgAssumption, HandsOf
<1>t. ASSUME NEW x \in A, NEW y \in A, NEW z \in A, x # y, y # z, x # z PROVE Cardinality(A) >= 3
    BY <1>t, CountsThree DEF PgAssumption, HeapsOf
<1>5. /\ \A q \in PgProcs : (HeapIs(q, f) <=> q \in A) /\ (ShmIs(q, f) <=> q \in B)
      /\ \A u \in PgThreads : job[u].frame = f <=> u \in C
    BY DEF HeapsOf, ShmsOf, HandsOf
<1>6. (One(segment = f) = 0 \/ One(segment = f) = 1) /\ (segment = f => One(segment = f) = 1)
    BY DEF One
<1> HIDE DEF A, B, C
<1> DEFINE a == Cardinality(A)
           b == Cardinality(B)
           c == Cardinality(C)
           g == One(segment = f)
<1>a. a \in Nat /\ b \in Nat /\ c \in Nat /\ (g = 0 \/ g = 1) /\ (segment = f => g = 1) /\ owners[f] = a + b + g + c
    BY <1>1, <1>2, <1>6
<1>b. \A q \in PgProcs : (HeapIs(q, f) => a > 0) /\ (ShmIs(q, f) => b > 0)
    BY <1>1, <1>5
<1>c. \A u \in PgThreads : job[u].frame = f => c > 0
    BY <1>1, <1>5
<1>d. \A q, r \in PgProcs : HeapIs(q, f) /\ HeapIs(r, f) /\ q # r => a >= 2
    BY <1>3, <1>5
<1>h. \A q, r, x \in PgProcs : HeapIs(q, f) /\ HeapIs(r, f) /\ HeapIs(x, f) /\ q # r /\ x # q /\ x # r => a >= 3
    BY <1>t, <1>5
<1>e. \A u, v \in PgThreads : job[u].frame = f /\ job[v].frame = f /\ u # v => c >= 2
    BY <1>4, <1>5
<1> HIDE DEF a, b, c, g
<1>8. /\ owners[f] = 0 => a = 0 /\ b = 0 /\ g = 0 /\ c = 0
      /\ owners[f] = 1 => /\ a < 2 /\ c < 2 /\ (a > 0 => b = 0 /\ g = 0 /\ c = 0)
                          /\ (c > 0 => a = 0 /\ b = 0 /\ g = 0)
      /\ owners[f] = 2 => a < 3 /\ (a >= 2 => b = 0 /\ g = 0 /\ c = 0)
    BY <1>a
<1> QED BY <1>a, <1>b, <1>c, <1>d, <1>e, <1>h, <1>8

LEMMA FrameBooks ==
    ASSUME PgAssumption, FramesCounted, NEW p \in PgProcs, NEW t \in PgThreads,
           \A q \in PgProcs : q # p => \A f \in PgFrames : /\ HeapIs(q, f)' <=> HeapIs(q, f)
                                                           /\ ShmIs(q, f)' <=> ShmIs(q, f),
           \A u \in PgThreads : u # t => job'[u].frame = job[u].frame,
           \A f \in PgFrames : owners[f] \in Nat /\ owners'[f] \in Nat,
           \A f \in PgFrames :
             owners'[f] + One(HeapIs(p, f)) + One(ShmIs(p, f)) + One(segment = f) + One(job[t].frame = f)
               = owners[f] + One(HeapIs(p, f)') + One(ShmIs(p, f)') + One(segment' = f) + One(job'[t].frame = f)
    PROVE  FramesCounted'
<1> SUFFICES ASSUME NEW f \in PgFrames
             PROVE  owners'[f] = Cardinality(HeapsOf(f)') + Cardinality(ShmsOf(f)') + One(segment' = f)
                                 + Cardinality(HandsOf(f)')
    BY DEF FramesCounted
<1>1. owners[f] = Cardinality(HeapsOf(f)) + Cardinality(ShmsOf(f)) + One(segment = f) + Cardinality(HandsOf(f))
    BY DEF FramesCounted
<1>2. IsFiniteSet(PgProcs) /\ IsFiniteSet(PgThreads)
    BY DEF PgAssumption
<1>3. /\ HeapsOf(f) \in SUBSET PgProcs /\ HeapsOf(f)' \in SUBSET PgProcs
      /\ ShmsOf(f) \in SUBSET PgProcs /\ ShmsOf(f)' \in SUBSET PgProcs
      /\ HandsOf(f) \in SUBSET PgThreads /\ HandsOf(f)' \in SUBSET PgThreads
    BY DEF HeapsOf, ShmsOf, HandsOf
<1>4. /\ HeapsOf(f) \ {p} = HeapsOf(f)' \ {p} /\ ShmsOf(f) \ {p} = ShmsOf(f)' \ {p}
      /\ HandsOf(f) \ {t} = HandsOf(f)' \ {t}
    BY DEF HeapsOf, ShmsOf, HandsOf
<1>5. /\ p \in HeapsOf(f) <=> HeapIs(p, f)
      /\ p \in HeapsOf(f)' <=> HeapIs(p, f)'
      /\ p \in ShmsOf(f) <=> ShmIs(p, f)
      /\ p \in ShmsOf(f)' <=> ShmIs(p, f)'
      /\ t \in HandsOf(f) <=> job[t].frame = f
      /\ t \in HandsOf(f)' <=> job'[t].frame = f
    BY DEF HeapsOf, ShmsOf, HandsOf
<1>a. /\ One(p \in HeapsOf(f)) = One(HeapIs(p, f)) /\ One(p \in HeapsOf(f)') = One(HeapIs(p, f)')
      /\ One(p \in ShmsOf(f)) = One(ShmIs(p, f)) /\ One(p \in ShmsOf(f)') = One(ShmIs(p, f)')
      /\ One(t \in HandsOf(f)) = One(job[t].frame = f) /\ One(t \in HandsOf(f)') = One(job'[t].frame = f)
    BY <1>5 DEF One
<1>6. /\ Cardinality(HeapsOf(f)) \in Nat /\ Cardinality(HeapsOf(f)') \in Nat
      /\ Cardinality(HeapsOf(f)') + One(p \in HeapsOf(f)) = Cardinality(HeapsOf(f)) + One(p \in HeapsOf(f)')
    BY <1>2, <1>3, <1>4, CountChange
<1>7. /\ Cardinality(ShmsOf(f)) \in Nat /\ Cardinality(ShmsOf(f)') \in Nat
      /\ Cardinality(ShmsOf(f)') + One(p \in ShmsOf(f)) = Cardinality(ShmsOf(f)) + One(p \in ShmsOf(f)')
    BY <1>2, <1>3, <1>4, CountChange
<1>8. /\ Cardinality(HandsOf(f)) \in Nat /\ Cardinality(HandsOf(f)') \in Nat
      /\ Cardinality(HandsOf(f)') + One(t \in HandsOf(f)) = Cardinality(HandsOf(f)) + One(t \in HandsOf(f)')
    BY <1>2, <1>3, <1>4, CountChange
<1>9. \A b : One(b) = 0 \/ One(b) = 1
    BY DEF One
<1> QED BY <1>1, <1>a, <1>6, <1>7, <1>8, <1>9

LEMMA SlotBooks ==
    ASSUME PgAssumption, SlotsCounted, NEW p \in PgProcs,
           \A q \in PgProcs : q # p => \A s \in PgSlots : HeapOut(q, s)' <=> HeapOut(q, s),
           \A s \in PgSlots : slotOwners[s] \in Nat /\ slotOwners'[s] \in Nat,
           \A s \in PgSlots : slotOwners'[s] + One(HeapOut(p, s)) = slotOwners[s] + One(HeapOut(p, s)')
    PROVE  SlotsCounted'
<1> SUFFICES ASSUME NEW s \in PgSlots PROVE slotOwners'[s] = Cardinality(OutsOf(s)')
    BY DEF SlotsCounted
<1>1. slotOwners[s] = Cardinality(OutsOf(s))
    BY DEF SlotsCounted
<1>2. IsFiniteSet(PgProcs) /\ OutsOf(s) \in SUBSET PgProcs /\ OutsOf(s)' \in SUBSET PgProcs
    BY DEF PgAssumption, OutsOf
<1>3. /\ OutsOf(s) \ {p} = OutsOf(s)' \ {p}
      /\ p \in OutsOf(s) <=> HeapOut(p, s)
      /\ p \in OutsOf(s)' <=> HeapOut(p, s)'
    BY DEF OutsOf
<1>a. One(p \in OutsOf(s)) = One(HeapOut(p, s)) /\ One(p \in OutsOf(s)') = One(HeapOut(p, s)')
    BY <1>3 DEF One
<1>4. /\ Cardinality(OutsOf(s)) \in Nat /\ Cardinality(OutsOf(s)') \in Nat
      /\ Cardinality(OutsOf(s)') + One(p \in OutsOf(s)) = Cardinality(OutsOf(s)) + One(p \in OutsOf(s)')
    BY <1>2, <1>3, CountChange
<1>5. \A b : One(b) = 0 \/ One(b) = 1
    BY DEF One
<1> QED BY <1>1, <1>a, <1>4, <1>5

\* A slot that an entry names is owned
LEMMA SlotHolders ==
    ASSUME PgAssumption, PgTypeOK, SlotsCounted, NEW s \in PgSlots, NEW q \in PgProcs, HeapOut(q, s)
    PROVE  slotOwners[s] > 0
<1>1. slotOwners[s] = Cardinality(OutsOf(s)) /\ Cardinality(OutsOf(s)) \in Nat
      /\ (Cardinality(OutsOf(s)) = 0 <=> OutsOf(s) = {})
    BY PgCounts DEF SlotsCounted
<1>2. q \in OutsOf(s)
    BY DEF OutsOf
<1> QED BY <1>1, <1>2
-----------------------------------------------------------------------------
(* A step is about one address space, or two in fork: what it leaves alone. *)

Touched(t) == {Space(t)} \cup (IF job[t].at \in Forking THEN {job[t].child} ELSE {})
NotOthers(l, t) == l = 0 \/ l = t

OnlyJob(t) == \A u \in PgThreads : u # t => job'[u] = job[u]

OtherSpacesStay(t) ==
    /\ Space(t) \in live
    /\ OnlyJob(t)
    /\ \A q \in PgProcs : q \notin Touched(t) =>
         /\ Heap(q)' = Heap(q) /\ Shm(q)' = Shm(q)
         /\ heapOn'[q] = heapOn[q] /\ promised'[q] = promised[q] /\ (q \in live' <=> q \in live)
    /\ \A q \in PgProcs : q # Space(t) => memLock'[q] = memLock[q] /\ mapLock'[q] = mapLock[q]
    /\ \A u \in PgThreads : Space(u) # Space(t) => tlb'[u] = tlb[u] /\ inCall'[u] = inCall[u]
    /\ swapLock' = swapLock \/ NotOthers(swapLock, t)
    /\ \A f \in PgFrames : \/ owners'[f] = owners[f] \/ owners[f] = 0 \/ segment = f \/ job[t].frame = f
                           \/ \E r \in PgProcs : ShmIs(r, f) \/ (r \in Touched(t) /\ HeapIs(r, f))

\* What the step does to its own address space while other threads are at work in it
LocksRespected(t) ==
    LET p == Space(t) IN
    /\ First \in live'
    /\ \/ \A u \in PgThreads : u # t /\ Space(u) = p => job[u].at = "idle"
       \/ /\ p \in live'
          /\ memLock'[p] = memLock[p] \/ NotOthers(memLock[p], t)
          /\ mapLock'[p] = mapLock[p] \/ NotOthers(mapLock[p], t)
          /\ Heap(p)' = Heap(p) \/ NotOthers(memLock[p], t) \/ (Heap(p).k = "in" /\ Heap(p)'.k = "in")
          /\ Shm(p)' = Shm(p) \/ NotOthers(memLock[p], t)
          /\ heapOn'[p] = heapOn[p] \/ (NotOthers(memLock[p], t) /\ NotOthers(mapLock[p], t))
          /\ promised'[p] <= promised[p] \/ NotOthers(mapLock[p], t)

\* What has to be seen to: the thread, its address space, and the child of a fork
ThreadDone(t) ==
    /\ HandOK(t)' /\ LocksOK(t)' /\ PageOK(t)' /\ ChildOK(t)'
    /\ job'[t].at \in Forking => job[t].at \in Forking \/ \A u \in PgThreads : job[u].at \notin Forking
    /\ job[t].at \in Forking /\ job'[t].at \in Forking => job'[t].child = job[t].child
    /\ \A p \in Touched(t) : SpaceOK(p)'

LEMMA OtherThreads ==
    ASSUME PgAssumption, PgBooks, NEW t \in PgThreads, OtherSpacesStay(t), LocksRespected(t), ThreadDone(t), PgTypeOK'
    PROVE  PgThreadsOK' /\ OneFork'
<1>p. /\ Space(t) \in PgProcs /\ t # 0 /\ First \in PgProcs
      /\ \A u \in PgThreads : Space(u) \in PgProcs /\ u # 0
    BY PgNames
<1>0. PgTypeOK /\ FramesCounted /\ PgThreadsOK /\ OneFork
    BY DEF PgBooks
<1>1. OneFork'
    BY <1>0 DEF OneFork, OtherSpacesStay, OnlyJob, ThreadDone
<1>2. ASSUME NEW u \in PgThreads, u # t
      PROVE  HandOK(u)' /\ LocksOK(u)' /\ PageOK(u)' /\ ChildOK(u)'
    <2>1. /\ HandOK(u) /\ LocksOK(u) /\ PageOK(u) /\ ChildOK(u)
          /\ job'[u] = job[u] /\ Space(u) \in PgProcs /\ u # 0
        BY <1>p, <1>0, <1>2 DEF PgThreadsOK, OtherSpacesStay, OnlyJob
    <2>2. job[u] \in PgJob
        BY <1>0 DEF PgTypeOK
    <2>t. job[u].at \in Forking => job[t].at \notin Forking /\ Touched(t) = {Space(t)}
        BY <1>0, <1>2 DEF OneFork, Touched
    <2>9. job[u].at \in InHand \cup Cloning \cup {"charging"} => job[u].at # "idle"
        BY DEF InHand, Cloning
    <2>8. ASSUME job[u].at # "idle"
          PROVE  /\ Space(u) \in live /\ Space(u) \in live'
                 /\ memLock'[Space(u)] = memLock[Space(u)] \/ NotOthers(memLock[Space(u)], t)
                 /\ mapLock'[Space(u)] = mapLock[Space(u)] \/ NotOthers(mapLock[Space(u)], t)
        <3>1. Space(u) \in live
            BY <2>1, <2>8 DEF HandOK
        <3>2. CASE Space(u) = Space(t)
            BY <2>8, <3>1, <3>2, <1>2 DEF LocksRespected
        <3>3. CASE Space(u) # Space(t)
            <4>1. Space(u) \notin Touched(t)
                <5>1. job[t].at \in Forking => job[t].child \notin live
                    BY <1>0 DEF PgThreadsOK, HandOK
                <5> QED BY <3>1, <3>3, <5>1 DEF Touched
            <4> QED BY <2>1, <3>1, <3>3, <4>1 DEF OtherSpacesStay
        <3> QED BY <3>1, <3>2, <3>3
    <2>7. ASSUME job[u].at # "idle"
          PROVE  /\ \/ Heap(Space(u))' = Heap(Space(u)) \/ NotOthers(memLock[Space(u)], t)
                    \/ (Heap(Space(u)).k = "in" /\ Heap(Space(u))'.k = "in")
                 /\ Shm(Space(u))' = Shm(Space(u)) \/ NotOthers(memLock[Space(u)], t)
                 /\ \/ heapOn'[Space(u)] = heapOn[Space(u)]
                    \/ NotOthers(memLock[Space(u)], t) /\ NotOthers(mapLock[Space(u)], t)
                 /\ promised'[Space(u)] <= promised[Space(u)] \/ NotOthers(mapLock[Space(u)], t)
        <3>1. Space(u) \in live
            BY <2>1, <2>7 DEF HandOK
        <3>2. CASE Space(u) = Space(t)
            BY <2>7, <3>1, <3>2, <1>2 DEF LocksRespected
        <3>3. CASE Space(u) # Space(t)
            <4>1. Space(u) \notin Touched(t)
                <5>1. job[t].at \in Forking => job[t].child \notin live
                    BY <1>0 DEF PgThreadsOK, HandOK
                <5> QED BY <3>1, <3>3, <5>1 DEF Touched
            <4>2. promised[Space(u)] \in Nat
                BY <1>0, <2>1 DEF PgTypeOK
            <4> QED BY <2>1, <4>1, <4>2 DEF OtherSpacesStay
        <3> QED BY <3>2, <3>3
    <2>3. LocksOK(u)'
        <3>1. /\ memLock[Space(u)] = u => ~NotOthers(memLock[Space(u)], t)
              /\ mapLock[Space(u)] = u => ~NotOthers(mapLock[Space(u)], t)
              /\ swapLock = u => ~NotOthers(swapLock, t)
            BY <1>2, <2>1 DEF NotOthers
        <3>2. swapLock' = swapLock \/ NotOthers(swapLock, t)
            BY DEF OtherSpacesStay
        <3> QED BY <2>1, <2>8, <3>1, <3>2 DEF LocksOK, InHand, Cloning, Swapping, Space
    <2>4. PageOK(u)'
        <3>1. memLock[Space(u)] = u => ~NotOthers(memLock[Space(u)], t)
            BY <1>2, <2>1 DEF NotOthers
        <3> QED BY <2>1, <2>7, <3>1 DEF PageOK, LocksOK, InHand, Swapping, HeapOut, Space
    <2>5. HandOK(u)'
        <3>1. ASSUME job[u].at \in Swapping PROVE owners'[job[u].frame] = 1
            <4>1. job[u].frame \in PgFrames /\ owners[job[u].frame] = 1
                BY <2>1, <2>2, <3>1 DEF HandOK, PgJob, InHand, Swapping
            <4>2. /\ segment # job[u].frame /\ job[t].frame # job[u].frame
                  /\ \A r \in PgProcs : ~ShmIs(r, job[u].frame) /\ ~HeapIs(r, job[u].frame)
                BY <1>0, <1>2, <4>1, Holders
            <4> QED BY <4>1, <4>2 DEF OtherSpacesStay
        <3>2. ASSUME job[u].at \in Forking PROVE job[u].child \in PgProcs /\ job[u].child \notin live'
            <4>1. job[u].child \in PgProcs /\ job[u].child \notin live
                BY <2>1, <3>2 DEF HandOK
            <4> QED BY <2>t, <3>2, <4>1 DEF OtherSpacesStay
        <3> QED BY <2>1, <2>8, <3>1, <3>2 DEF HandOK, Space, First
    <2>6. ChildOK(u)'
        <3> SUFFICES ASSUME job[u].at \in Forking PROVE ChildOK(u)'
            BY <2>1 DEF ChildOK, Cloning, Forking
        <3>0. PICK c \in PgProcs : c = job[u].child
            BY <2>1 DEF HandOK
        <3>1. c \notin Touched(t) /\ job[u].at # "idle"
            BY <2>1, <2>t, <3>0 DEF HandOK, Touched, OtherSpacesStay, Forking
        <3>2. Heap(c)' = Heap(c) /\ Shm(c)' = Shm(c)
            BY <3>1 DEF OtherSpacesStay
        <3>3. \A v \in PgPages : tables'[c][v] = tables[c][v]
            BY <3>2 DEF Heap, Shm, PgPages
        <3>4. /\ memLock[Space(u)] = u => ~NotOthers(memLock[Space(u)], t)
              /\ mapLock[Space(u)] = u => ~NotOthers(mapLock[Space(u)], t)
            BY <1>2, <2>1 DEF NotOthers
        <3>5. /\ job[u].at \in Cloning => Heap(Space(u))'.k = Heap(Space(u)).k
              /\ job[u].at \in Cloning \cup {"charging"} =>
                    heapOn'[Space(u)] = heapOn[Space(u)] /\ promised'[Space(u)] <= promised[Space(u)]
            BY <2>1, <2>7, <3>1, <3>4 DEF LocksOK
        <3>6. /\ promised[Space(u)] \in Nat /\ promised'[Space(u)] \in Nat
              /\ job[u].todo \in SUBSET PgPages
            BY <1>0, <2>1, <2>2 DEF PgTypeOK, PgJob
        <3>7. /\ job'[u].child = c /\ Heap(c)'.k = Heap(c).k /\ job'[u].at = job[u].at
              /\ job'[u].todo = job[u].todo
            BY <2>1, <3>0, <3>2
        <3>8. One(heapOn[Space(u)] /\ Heap(c).k = "none") \in Nat
            BY DEF One
        <3>9. tables'[job'[u].child]["heap"].k = Heap(c).k
            BY <3>2, <3>7 DEF Heap
        <3>a. job[u].at = "charging" => promised'[Space(u)] <= One(heapOn'[Space(u)] /\ Heap(c)'.k = "none")
            BY <2>1, <3>5, <3>6, <3>7, <3>8, <3>0 DEF ChildOK
        <3> QED BY <2>1, <3>0, <3>3, <3>5, <3>6, <3>7, <3>9, <3>a DEF ChildOK, Cloning, Heap, Space
    <2> QED BY <2>3, <2>4, <2>5, <2>6
<1> QED BY <1>1, <1>2 DEF PgThreadsOK, ThreadDone

LEMMA OtherSpaces ==
    ASSUME PgAssumption, PgBooks, NEW t \in PgThreads, OtherSpacesStay(t), ThreadDone(t), PgTypeOK',
           NEW q \in PgProcs, q \notin Touched(t)
    PROVE  SpaceOK(q)'
<1>p. /\ Space(t) \in PgProcs /\ \A u \in PgThreads : Space(u) \in PgProcs
    BY PgNames
<1>0. PgTypeOK /\ EntriesOK /\ FramesCounted /\ PgThreadsOK /\ OneFork /\ SpaceOK(q)
    BY DEF PgBooks
<1>1. /\ q # Space(t) /\ Heap(q)' = Heap(q) /\ Shm(q)' = Shm(q)
      /\ heapOn'[q] = heapOn[q] /\ promised'[q] = promised[q] /\ (q \in live' <=> q \in live)
      /\ \A u \in PgThreads : Space(u) = q => tlb'[u] = tlb[u] /\ inCall'[u] = inCall[u] /\ u # t
      /\ \A u \in PgThreads : u # t => job'[u] = job[u]
    BY DEF OtherSpacesStay, OnlyJob, Touched
<1>2. DeadOK(q)'
    <2>1. job[t].at \in Forking => job[t].child # q
        BY DEF Touched
    <2>2. q \notin live /\ (\A u \in PgThreads : job'[u].at \in Forking => job'[u].child # q)
            => \A u \in PgThreads : job[u].at \in Forking => job[u].child # q
        BY <1>1, <2>1
    <2> QED BY <1>0, <1>1, <2>2 DEF SpaceOK, DeadOK, Heap, Shm, Space
<1>3. HeapOK(q)'
    BY <1>0, <1>1 DEF SpaceOK, HeapOK
<1>a. ASSUME Heap(q).k = "in" PROVE Heap(q).at \in PgFrames /\ HeapIs(q, Heap(q).at)
    BY <1>0, <1>a DEF EntriesOK, EntryNames, HeapIs
<1>b. ASSUME Heap(q).k = "in", owners[Heap(q).at] = 1 PROVE owners'[Heap(q).at] = 1
    <2> DEFINE f == Heap(q).at
    <2>1. /\ segment # f /\ job[t].frame # f
          /\ \A r \in PgProcs : ~ShmIs(r, f) /\ (HeapIs(r, f) => r = q)
        BY <1>0, <1>a, <1>b, Holders
    <2> HIDE DEF f
    <2> QED BY <1>a, <1>b, <2>1 DEF OtherSpacesStay, f
<1>4. WritableAlone(q)'
    BY <1>0, <1>1, <1>b DEF SpaceOK, WritableAlone
<1>5. TlbOwned(q)'
    BY <1>0, <1>1 DEF SpaceOK, TlbOwned, HeapIs, Space
<1>6. BuffersKept(q)'
    <2> SUFFICES ASSUME NEW u \in PgThreads, Space(u) = q, inCall[u] = "using" PROVE BuffersKept(q)'
        BY <1>1 DEF BuffersKept, Space
    <2> DEFINE f == Heap(q).at
    <2>1. /\ Heap(q).k = "in"
          /\ \/ owners[f] = 1
             \/ /\ owners[f] = 2
                /\ \E z \in PgThreads : /\ Space(z) = q /\ job[z].at \in Forking \ {"charging"}
                                        /\ HeapIs(job[z].child, f)
        BY <1>0 DEF SpaceOK, BuffersKept
    <2>2. CASE owners[f] = 1
        BY <1>1, <1>b, <2>1, <2>2 DEF BuffersKept
    <2>3. ASSUME NEW z \in PgThreads, owners[f] = 2, Space(z) = q, job[z].at \in Forking \ {"charging"},
                 HeapIs(job[z].child, f)
          PROVE  BuffersKept(q)'
        <3> DEFINE c == job[z].child
        <3>1. c \in PgProcs /\ c \notin live /\ q \in live /\ job[t].at \notin Forking /\ job'[z] = job[z]
            BY <1>0, <1>1, <2>3 DEF PgThreadsOK, HandOK, OneFork, Forking
        <3>2. f \in PgFrames /\ HeapIs(q, f)
            BY <1>a, <2>1
        <3>3. /\ segment # f /\ job[t].frame # f
              /\ \A r \in PgProcs : ~ShmIs(r, f) /\ (HeapIs(r, f) => r = q \/ r = c)
            BY <1>0, <2>3, <3>1, <3>2, Holders
        <3>4. Touched(t) = {Space(t)} /\ c \notin Touched(t)
            BY <3>1 DEF Touched, OtherSpacesStay
        <3>5. owners'[f] = owners[f] /\ Heap(c)' = Heap(c)
            BY <1>1, <2>3, <3>1, <3>2, <3>3, <3>4 DEF OtherSpacesStay
        <3>6. tables'[job'[z].child]["heap"] = Heap(c) /\ Heap(c).k = "in" /\ Heap(c).at = f
            BY <2>3, <3>1, <3>5 DEF Heap, HeapIs
        <3> HIDE DEF c, f
        <3>7. Heap(q)'.k = "in" /\ Heap(q)'.at = f
            BY <1>1, <2>1 DEF f
        <3>8. job'[z].at \in Forking \ {"charging"} /\ owners'[f] = 2
            BY <2>3, <3>1, <3>5
        <3> QED BY <2>3, <3>6, <3>7, <3>8 DEF BuffersKept, HeapIs, Heap, Space
    <2> QED BY <2>1, <2>2, <2>3
<1> QED BY <1>2, <1>3, <1>4, <1>5, <1>6 DEF SpaceOK

\* A step that does its own part keeps the whole
LEMMA StepKeepsBooks ==
    ASSUME PgAssumption, PgBooks, NEW t \in PgThreads, OtherSpacesStay(t), LocksRespected(t), ThreadDone(t),
           PgTypeOK', EntriesOK', FramesCounted', SlotsCounted'
    PROVE  PgBooks'
<1>1. PgThreadsOK' /\ OneFork'
    BY OtherThreads
<1>2. \A q \in PgProcs : SpaceOK(q)'
    BY OtherSpaces DEF ThreadDone
<1>3. First \in live'
    BY DEF LocksRespected
<1> QED BY <1>1, <1>2, <1>3 DEF PgBooks, First

\* What the books say of one thread and its address space
LEMMA BooksOf ==
    ASSUME PgAssumption, PgBooks, NEW t \in PgThreads
    PROVE  /\ PgTypeOK /\ EntriesOK /\ FramesCounted /\ SlotsCounted /\ OneFork
           /\ HandOK(t) /\ LocksOK(t) /\ PageOK(t) /\ ChildOK(t)
           /\ First \in live /\ First \in PgProcs /\ Space(t) \in PgProcs
           /\ \A p \in PgProcs : SpaceOK(p) /\ Heap(p) \in PgEntry /\ Shm(p) \in PgEntry
           /\ \A p \in PgProcs : /\ Heap(p).k = "in" => Heap(p).at \in PgFrames /\ Heap(p).at # 0
                                 /\ Heap(p).k = "out" => Heap(p).at \in PgSlots /\ Heap(p).at # 0
                                 /\ Shm(p).k = "in" => Shm(p).at \in PgFrames /\ Shm(p).at # 0
           /\ t \in Nat /\ t # 0 /\ job[t] \in PgJob
<1>1. PgTypeOK /\ EntriesOK /\ PgThreadsOK /\ \A p \in PgProcs : SpaceOK(p)
    BY DEF PgBooks
<1>2. \A p \in PgProcs : Heap(p) \in PgEntry /\ Shm(p) \in PgEntry
    BY <1>1 DEF PgTypeOK, Heap, Shm, PgPages
<1>3. HandOK(t) /\ LocksOK(t) /\ PageOK(t) /\ ChildOK(t)
    BY <1>1 DEF PgThreadsOK
<1> QED BY <1>1, <1>2, <1>3, PgNames DEF PgBooks, PgTypeOK, EntriesOK, EntryNames

\* The step changes what one process has on its heap and one thread in its hand
LEMMA HeapBooks ==
    ASSUME PgAssumption, PgTypeOK, PgTypeOK', FramesCounted, NEW p \in PgProcs, NEW t \in PgThreads,
           \A q \in PgProcs : q # p => Heap(q)' = Heap(q),
           \A q \in PgProcs : Shm(q)' = Shm(q),
           OnlyJob(t), segment' = segment,
           \A f \in PgFrames : owners'[f] + One(HeapIs(p, f)) + One(job[t].frame = f)
                                = owners[f] + One(HeapIs(p, f)') + One(job'[t].frame = f)
    PROVE  FramesCounted'
<1>1. \A q \in PgProcs : q # p => \A f \in PgFrames : /\ HeapIs(q, f)' <=> HeapIs(q, f)
                                                      /\ ShmIs(q, f)' <=> ShmIs(q, f)
    BY DEF HeapIs, ShmIs
<1>2. \A u \in PgThreads : u # t => job'[u].frame = job[u].frame
    BY DEF OnlyJob
<1>3. \A f \in PgFrames : owners[f] \in Nat /\ owners'[f] \in Nat
    BY DEF PgTypeOK
<1>4. ASSUME NEW f \in PgFrames
      PROVE  owners'[f] + One(HeapIs(p, f)) + One(ShmIs(p, f)) + One(segment = f) + One(job[t].frame = f)
               = owners[f] + One(HeapIs(p, f)') + One(ShmIs(p, f)') + One(segment' = f) + One(job'[t].frame = f)
    <2>1. One(ShmIs(p, f)') = One(ShmIs(p, f)) /\ One(segment' = f) = One(segment = f)
        BY DEF ShmIs
    <2>2. \A b : One(b) \in Nat
        BY DEF One
    <2> QED BY <1>3, <2>1, <2>2
<1> QED BY <1>1, <1>2, <1>3, <1>4, FrameBooks

LEMMA OutBooks ==
    ASSUME PgAssumption, PgTypeOK, PgTypeOK', SlotsCounted, NEW p \in PgProcs,
           \A q \in PgProcs : q # p => Heap(q)' = Heap(q),
           \A s \in PgSlots : slotOwners'[s] + One(HeapOut(p, s)) = slotOwners[s] + One(HeapOut(p, s)')
    PROVE  SlotsCounted'
<1>1. \A q \in PgProcs : q # p => \A s \in PgSlots : HeapOut(q, s)' <=> HeapOut(q, s)
    BY DEF HeapOut
<1>2. \A s \in PgSlots : slotOwners[s] \in Nat /\ slotOwners'[s] \in Nat
    BY DEF PgTypeOK
<1> QED BY <1>1, <1>2, SlotBooks

\* Nothing changes on the heaps, or only how a page may be written
LEMMA SameBooks ==
    ASSUME PgAssumption, SlotsCounted, slotOwners' = slotOwners,
           \A q \in PgProcs : Heap(q)'.k = Heap(q).k /\ Heap(q)'.at = Heap(q).at
    PROVE  SlotsCounted'
<1>1. \A s \in PgSlots : OutsOf(s)' = OutsOf(s)
    BY DEF OutsOf, HeapOut
<1> QED BY <1>1 DEF SlotsCounted

\* No step of another kind changes how often a private page is owned
LEMMA PrivatePageStays ==
    ASSUME PgAssumption, PgBooks, NEW t \in PgThreads, NEW p \in PgProcs,
           \A q \in PgProcs : Heap(q)' = Heap(q),
           \A u \in PgThreads : Space(u) = p => inCall'[u] = inCall[u],
           \A u \in PgThreads : Space(u) = p /\ job[u].at \in Forking \ {"charging"} =>
               job'[u].at \in Forking \ {"charging"} /\ job'[u].child = job[u].child,
           \A f \in PgFrames : \/ owners'[f] = owners[f] \/ owners[f] = 0 \/ segment = f \/ job[t].frame = f
                               \/ \E r \in PgProcs : ShmIs(r, f)
    PROVE  WritableAlone(p)' /\ BuffersKept(p)'
<1>1. /\ PgTypeOK /\ FramesCounted /\ SpaceOK(p)
      /\ Heap(p).k = "in" => Heap(p).at \in PgFrames
    BY BooksOf
<1>2. ASSUME Heap(p).k = "in", owners[Heap(p).at] = 1 PROVE owners'[Heap(p).at] = 1
    <2>1. PICK f \in PgFrames : f = Heap(p).at /\ HeapIs(p, f)
        BY <1>1, <1>2 DEF HeapIs
    <2>2. segment # f /\ job[t].frame # f /\ \A r \in PgProcs : ~ShmIs(r, f)
        BY <1>1, <1>2, <2>1, Holders
    <2> QED BY <1>2, <2>1, <2>2
<1>3. WritableAlone(p)'
    BY <1>1, <1>2 DEF SpaceOK, WritableAlone
<1>4. BuffersKept(p)'
    <2> SUFFICES ASSUME NEW u \in PgThreads, Space(u) = p, inCall[u] = "using" PROVE BuffersKept(p)'
        BY DEF BuffersKept, Space
    <2>1. PICK f \in PgFrames : Heap(p).k = "in" /\ Heap(p).at = f
        BY <1>1 DEF SpaceOK, BuffersKept
    <2>2. CASE owners[f] = 1
        BY <1>2, <2>1, <2>2 DEF BuffersKept
    <2>3. ASSUME NEW z \in PgThreads, owners[f] = 2, Space(z) = p, job[z].at \in Forking \ {"charging"},
                 HeapIs(job[z].child, f)
          PROVE  BuffersKept(p)'
        <3>1. PICK c \in PgProcs : c = job[z].child /\ c # p
            BY <2>3, BooksOf DEF HandOK, Forking
        <3>2. segment # f /\ job[t].frame # f /\ \A r \in PgProcs : ~ShmIs(r, f)
            BY <1>1, <2>1, <2>3, <3>1, Holders DEF HeapIs
        <3>3. owners'[f] = 2
            BY <2>3, <3>2
        <3>4. tables'[c]["heap"].k = "in" /\ tables'[c]["heap"].at = f
            BY <2>3, <3>1 DEF HeapIs, Heap
        <3> QED BY <2>1, <2>3, <3>1, <3>3, <3>4 DEF BuffersKept, HeapIs, Heap, Space
    <2> QED BY <1>1, <2>1, <2>2, <2>3 DEF SpaceOK, BuffersKept
<1> QED BY <1>3, <1>4

\* An address space goes, with what it has
LEMMA SpaceGoes ==
    ASSUME PgAssumption, PgBooks, NEW t \in PgThreads, NEW c \in PgProcs,
           owners' = DropFrame(DropFrame(owners, tables[c]["heap"]), tables[c]["shm"]),
           slotOwners' = DropSlot(slotOwners, tables[c]["heap"]),
           tables' = [tables EXCEPT ![c] = [v \in PgPages |-> Absent]],
           segment' = segment, \A u \in PgThreads : job'[u].frame = job[u].frame
    PROVE  /\ tables' \in [PgProcs -> [PgPages -> PgEntry]]
           /\ owners' \in [PgFrames -> Nat] /\ slotOwners' \in [PgSlots -> Nat]
           /\ Heap(c)' = Absent /\ Shm(c)' = Absent
           /\ \A q \in PgProcs : q # c => Heap(q)' = Heap(q) /\ Shm(q)' = Shm(q)
           /\ \A f \in PgFrames : owners'[f] = owners[f] - One(HeapIs(c, f)) - One(ShmIs(c, f))
           /\ EntriesOK' /\ FramesCounted' /\ SlotsCounted'
<1>1. /\ PgTypeOK /\ EntriesOK /\ FramesCounted /\ SlotsCounted
      /\ Heap(c).k = "in" => Heap(c).at \in PgFrames /\ Heap(c).at # 0
      /\ Heap(c).k = "out" => Heap(c).at \in PgSlots /\ Heap(c).at # 0
      /\ Shm(c).k = "in" => Shm(c).at \in PgFrames /\ Shm(c).at # 0
    BY BooksOf
<1>2. /\ tables' \in [PgProcs -> [PgPages -> PgEntry]]
      /\ Heap(c)' = Absent /\ Shm(c)' = Absent /\ Heap(c)'.k = "none" /\ Shm(c)'.k = "none"
      /\ \A q \in PgProcs : q # c => Heap(q)' = Heap(q) /\ Shm(q)' = Shm(q)
    BY <1>1 DEF PgTypeOK, PgPages, PgEntry, Absent, Heap, Shm
<1>3. \A f \in PgFrames : /\ One(HeapIs(c, f)) \in {0, 1} /\ One(ShmIs(c, f)) \in {0, 1} /\ owners[f] \in Nat
                          /\ owners[f] >= One(HeapIs(c, f)) + One(ShmIs(c, f))
    <2> SUFFICES ASSUME NEW f \in PgFrames
                 PROVE  /\ One(HeapIs(c, f)) \in {0, 1} /\ One(ShmIs(c, f)) \in {0, 1} /\ owners[f] \in Nat
                        /\ owners[f] >= One(HeapIs(c, f)) + One(ShmIs(c, f))
        OBVIOUS
    <2>1. /\ owners[f] = Cardinality(HeapsOf(f)) + Cardinality(ShmsOf(f)) + One(segment = f) + Cardinality(HandsOf(f))
          /\ owners[f] \in Nat
        BY <1>1 DEF FramesCounted, PgTypeOK
    <2>2. /\ Cardinality(HeapsOf(f)) \in Nat /\ Cardinality(ShmsOf(f)) \in Nat /\ Cardinality(HandsOf(f)) \in Nat
          /\ Cardinality(HeapsOf(f)) = 0 <=> HeapsOf(f) = {}
          /\ Cardinality(ShmsOf(f)) = 0 <=> ShmsOf(f) = {}
        BY PgCounts
    <2>3. HeapIs(c, f) => Cardinality(HeapsOf(f)) > 0
        BY <2>2 DEF HeapsOf
    <2>4. ShmIs(c, f) => Cardinality(ShmsOf(f)) > 0
        BY <2>2 DEF ShmsOf
    <2>5. One(segment = f) \in Nat
        BY DEF One
    <2>6. Cardinality(HeapsOf(f)) >= One(HeapIs(c, f)) /\ One(HeapIs(c, f)) \in {0, 1}
        BY <2>2, <2>3 DEF One
    <2>7. Cardinality(ShmsOf(f)) >= One(ShmIs(c, f)) /\ One(ShmIs(c, f)) \in {0, 1}
        BY <2>2, <2>4 DEF One
    <2> QED BY <2>1, <2>2, <2>5, <2>6, <2>7
<1>4. PICK o \in [PgFrames -> Int] : o = DropFrame(owners, Heap(c))
                                      /\ \A f \in PgFrames : o[f] = owners[f] - One(HeapIs(c, f))
    <2>1. CASE Heap(c).k = "in"
        <3>1. DropFrame(owners, Heap(c)) = [owners EXCEPT ![Heap(c).at] = @ - 1]
            BY <1>1, <2>1 DEF DropFrame, DropOwner
        <3>2. /\ owners \in [PgFrames -> Nat] /\ Heap(c).at \in PgFrames
              /\ \A f \in PgFrames : HeapIs(c, f) <=> f = Heap(c).at
            BY <1>1, <2>1 DEF PgTypeOK, HeapIs
        <3>3. /\ DropFrame(owners, Heap(c)) \in [PgFrames -> Int]
              /\ \A f \in PgFrames : DropFrame(owners, Heap(c))[f] = IF f = Heap(c).at THEN owners[f] - 1 ELSE owners[f]
            BY <3>1, <3>2
        <3> QED BY <3>2, <3>3 DEF One
    <2>2. CASE Heap(c).k # "in"
        <3>1. DropFrame(owners, Heap(c)) = owners
            BY <2>2 DEF DropFrame
        <3> QED BY <1>1, <2>2, <3>1 DEF PgTypeOK, HeapIs, One
    <2> QED BY <2>1, <2>2
<1>5. \A f \in PgFrames : owners'[f] = o[f] - One(ShmIs(c, f))
    <2>1. owners' = DropFrame(o, Shm(c))
        BY <1>4 DEF Heap, Shm
    <2>2. CASE Shm(c).k = "in"
        <3>1. owners' = [o EXCEPT ![Shm(c).at] = @ - 1]
            BY <1>1, <2>1, <2>2 DEF DropFrame, DropOwner
        <3> QED BY <1>1, <2>2, <3>1 DEF ShmIs, One
    <2>3. CASE Shm(c).k # "in"
        <3>1. owners' = o
            BY <2>1, <2>3 DEF DropFrame
        <3> QED BY <2>3, <3>1 DEF ShmIs, One
    <2> QED BY <2>2, <2>3
<1>6. \A f \in PgFrames : /\ owners'[f] = owners[f] - One(HeapIs(c, f)) - One(ShmIs(c, f))
                          /\ owners'[f] \in Nat
    BY <1>3, <1>4, <1>5
<1>7. owners' \in [PgFrames -> Nat]
    <2>1. DOMAIN owners' = PgFrames /\ owners' = [f \in DOMAIN owners' |-> owners'[f]]
        BY <1>4 DEF DropFrame, DropOwner, Heap, Shm
    <2> QED BY <1>6, <2>1
<1>8. /\ slotOwners' \in [PgSlots -> Nat]
      /\ \A s \in PgSlots : slotOwners'[s] = slotOwners[s] - One(HeapOut(c, s))
    <2>1. CASE Heap(c).k = "out"
        <3>1. slotOwners' = [slotOwners EXCEPT ![Heap(c).at] = @ - 1]
            BY <1>1, <2>1 DEF DropSlot, DropOwner, Heap
        <3>2. slotOwners[Heap(c).at] > 0 /\ slotOwners[Heap(c).at] \in Nat
            BY <1>1, <2>1, SlotHolders DEF HeapOut, PgTypeOK
        <3>3. slotOwners[Heap(c).at] - 1 \in Nat
            BY <3>2
        <3>4. \A s \in PgSlots : HeapOut(c, s) <=> s = Heap(c).at
            BY <2>1 DEF HeapOut
        <3>5. slotOwners' \in [PgSlots -> Nat]
            BY <1>1, <3>1, <3>3 DEF PgTypeOK
        <3> QED BY <1>1, <2>1, <3>1, <3>4, <3>5 DEF PgTypeOK, One
    <2>2. CASE Heap(c).k # "out"
        <3>1. slotOwners' = slotOwners
            BY <2>2 DEF DropSlot, Heap
        <3> QED BY <1>1, <2>2, <3>1 DEF PgTypeOK, HeapOut, One
    <2> QED BY <2>1, <2>2
<1>e. EntriesOK'
    BY <1>1, <1>2 DEF EntriesOK, EntryNames
<1>f. FramesCounted'
    <2>1. \A q \in PgProcs : q # c => \A f \in PgFrames : /\ HeapIs(q, f)' <=> HeapIs(q, f)
                                                          /\ ShmIs(q, f)' <=> ShmIs(q, f)
        BY <1>2 DEF HeapIs, ShmIs
    <2>2. ASSUME NEW f \in PgFrames
          PROVE  owners'[f] + One(HeapIs(c, f)) + One(ShmIs(c, f)) + One(segment = f) + One(job[t].frame = f)
                   = owners[f] + One(HeapIs(c, f)') + One(ShmIs(c, f)') + One(segment' = f) + One(job'[t].frame = f)
        <3>1. One(HeapIs(c, f)') = 0 /\ One(ShmIs(c, f)') = 0
            BY <1>2 DEF HeapIs, ShmIs, One
        <3>2. One(segment' = f) = One(segment = f) /\ One(segment = f) \in Nat
            BY DEF One
        <3>3. One(job'[t].frame = f) = One(job[t].frame = f) /\ One(job[t].frame = f) \in Nat
            BY DEF One
        <3> QED BY <1>3, <1>6, <3>1, <3>2, <3>3
    <2>3. \A f \in PgFrames : owners[f] \in Nat /\ owners'[f] \in Nat
        BY <1>3, <1>6
    <2>4. \A u \in PgThreads : u # t => job'[u].frame = job[u].frame
        OBVIOUS
    <2> QED BY <1>1, <2>1, <2>2, <2>3, <2>4, FrameBooks
<1>s. SlotsCounted'
    <2>1. \A q \in PgProcs : q # c => \A s \in PgSlots : HeapOut(q, s)' <=> HeapOut(q, s)
        BY <1>2 DEF HeapOut
    <2>2. \A s \in PgSlots : slotOwners[s] \in Nat /\ slotOwners'[s] \in Nat
        BY <1>1, <1>8 DEF PgTypeOK
    <2>3. ASSUME NEW s \in PgSlots
          PROVE  slotOwners'[s] + One(HeapOut(c, s)) = slotOwners[s] + One(HeapOut(c, s)')
        <3>1. One(HeapOut(c, s)') = 0 /\ One(HeapOut(c, s)) \in {0, 1}
            BY <1>2 DEF HeapOut, One
        <3> QED BY <1>8, <2>2, <3>1
    <2> QED BY <1>1, <2>1, <2>2, <2>3, SlotBooks
<1> QED BY <1>2, <1>6, <1>7, <1>8, <1>e, <1>f, <1>s
LEMMA BrkDownKeeps ==
    ASSUME PgAssumption, PgBooks, NEW t \in PgThreads, BrkDown(t)
    PROVE  PgBooks'
<1>0. PICK p \in PgProcs : p = Space(t)
    BY BooksOf
<1>1. /\ PgTypeOK /\ EntriesOK /\ FramesCounted /\ SlotsCounted
      /\ SpaceOK(p) /\ HandOK(t) /\ Heap(p) \in PgEntry /\ First \in live /\ t \in Nat /\ t # 0
      /\ Heap(p).k = "in" => Heap(p).at \in PgFrames /\ Heap(p).at # 0
      /\ Heap(p).k = "out" => Heap(p).at \in PgSlots
    BY <1>0, BooksOf
<1>2. /\ job[t].at = "idle" /\ p \in live /\ inCall[t] = "no" /\ mapLock[p] = 0 /\ memLock[p] = 0
      /\ heapOn[p] /\ ~RangeBusy(p) /\ pgCalls' = pgCalls + 1
    BY <1>0 DEF BrkDown, Calling
<1>3. /\ UNCHANGED <<owners, bytes, slotBytes, segment, live, mapLock, swapLock, tlb, inCall, holds>>
      /\ heapOn' = [heapOn EXCEPT ![p] = FALSE]
      /\ promised' = [promised EXCEPT ![p] = IF Heap(p).k = "none" /\ @ > 0 THEN @ - 1 ELSE @]
    BY <1>0 DEF BrkDown, Heap
<1>4. /\ Heap(p)' = Absent /\ Heap(p)'.k = "none" /\ \A q \in PgProcs : q # p => Heap(q)' = Heap(q)
      /\ \A q \in PgProcs : Shm(q)' = Shm(q)
      /\ tables' \in [PgProcs -> [PgPages -> PgEntry]]
    BY <1>0, <1>1 DEF BrkDown, Heap, Shm, PgTypeOK, PgPages, Absent, PgEntry
<1>5. /\ Heap(p).k = "in" => job'[t].at = "freeing" /\ job'[t].frame = Heap(p).at /\ memLock' = [memLock EXCEPT ![p] = t]
      /\ Heap(p).k # "in" => job'[t].at = "idle" /\ job'[t].frame = 0 /\ memLock' = memLock
      /\ OnlyJob(t)
    BY <1>0, <1>1 DEF BrkDown, Heap, PgTypeOK, Does, NoJob, OnlyJob
<1>6. job' \in [PgThreads -> PgJob]
    <2>1. NoJob \in PgJob /\ (Heap(p).k = "in" => [NoJob EXCEPT !.at = "freeing", !.frame = Heap(p).at] \in PgJob)
        BY <1>1 DEF NoJob, PgJob, JobPlaces
    <2> QED BY <1>0, <1>1, <2>1 DEF BrkDown, Does, PgTypeOK, Heap
<1>7. \A s \in PgSlots : /\ slotOwners'[s] = IF HeapOut(p, s) THEN slotOwners[s] - 1 ELSE slotOwners[s]
                         /\ slotOwners'[s] \in Nat
    <2>1. slotOwners' = IF Heap(p).k = "out" THEN [slotOwners EXCEPT ![Heap(p).at] = @ - 1] ELSE slotOwners
        BY <1>0, <1>1, PgNames DEF BrkDown, Heap, DropSlot, DropOwner
    <2>2. \A s \in PgSlots : HeapOut(p, s) => slotOwners[s] > 0
        BY <1>1, SlotHolders
    <2> QED BY <1>1, <2>1, <2>2 DEF PgTypeOK, HeapOut
<1>t. PgTypeOK'
    <2>1. slotOwners' \in [PgSlots -> Nat]
        BY <1>0, <1>1, <1>7 DEF BrkDown, PgTypeOK, DropSlot, DropOwner
    <2>2. memLock' \in [PgProcs -> Nat] /\ heapOn' \in [PgProcs -> BOOLEAN] /\ promised' \in [PgProcs -> Nat]
        BY <1>1, <1>3, <1>5 DEF PgTypeOK
    <2> QED BY <1>1, <1>2, <1>3, <1>4, <1>6, <2>1, <2>2 DEF PgTypeOK
<1>e. EntriesOK'
    BY <1>1, <1>4 DEF EntriesOK, EntryNames
<1>f. FramesCounted'
    <2>1. job[t].frame = 0 /\ owners' = owners /\ segment' = segment
        BY <1>1, <1>2, <1>3 DEF HandOK, InHand
    <2>2. ASSUME NEW f \in PgFrames
          PROVE  owners'[f] + One(HeapIs(p, f)) + One(job[t].frame = f)
                   = owners[f] + One(HeapIs(p, f)') + One(job'[t].frame = f)
        <3>1. f # 0 /\ owners[f] \in Nat /\ ~HeapIs(p, f)' /\ (HeapIs(p, f) <=> job'[t].frame = f)
            BY <1>1, <1>4, <1>5, PgNames DEF HeapIs, PgTypeOK
        <3> QED BY <2>1, <3>1 DEF One
    <2> QED BY <1>1, <1>4, <1>5, <1>t, <2>1, <2>2, HeapBooks
<1>s. SlotsCounted'
    <2>1. ASSUME NEW s \in PgSlots
          PROVE  slotOwners'[s] + One(HeapOut(p, s)) = slotOwners[s] + One(HeapOut(p, s)')
        BY <1>1, <1>4, <1>7 DEF HeapOut, One, PgTypeOK
    <2> QED BY <1>1, <1>4, <1>t, <2>1, OutBooks
<1>u. Touched(t) = {p}
    BY <1>0, <1>2 DEF Touched, Forking
<1>a. OtherSpacesStay(t)
    BY <1>0, <1>1, <1>2, <1>3, <1>4, <1>5, <1>u DEF OtherSpacesStay, PgTypeOK
<1>b. LocksRespected(t)
    BY <1>0, <1>1, <1>2, <1>3, <1>4, <1>5, <1>u DEF LocksRespected, NotOthers, PgTypeOK
<1>c. HandOK(t)' /\ LocksOK(t)' /\ PageOK(t)' /\ ChildOK(t)' /\ job'[t].at \notin Forking
    BY <1>0, <1>1, <1>2, <1>3, <1>4, <1>5
    DEF HandOK, LocksOK, PageOK, ChildOK, InHand, Cloning, Swapping, Forking, Space, PgTypeOK
<1>d. SpaceOK(p)'
    <2>1. DeadOK(p)' /\ HeapOK(p)' /\ WritableAlone(p)'
        BY <1>1, <1>2, <1>3, <1>4 DEF DeadOK, HeapOK, WritableAlone, PgTypeOK, SpaceOK, One
    <2>2. TlbOwned(p)'
        BY <1>0, <1>1, <1>2, <1>3, <1>4, <1>5 DEF SpaceOK, TlbOwned, HeapIs, OnlyJob, Space
    <2>3. BuffersKept(p)'
        BY <1>2, <1>3 DEF BuffersKept, RangeBusy, ThreadsOf, Space
    <2> QED BY <2>1, <2>2, <2>3 DEF SpaceOK
<1>g. ThreadDone(t)
    BY <1>c, <1>d, <1>u DEF ThreadDone
<1> QED BY <1>t, <1>e, <1>f, <1>s, <1>a, <1>b, <1>g, StepKeepsBooks

\* Page tables and counts stay as they are
LEMMA QuietKeeps ==
    ASSUME PgAssumption, PgBooks, NEW t \in PgThreads, NEW p \in PgProcs, p = Space(t), p \in live, job[t].at = "idle",
           UNCHANGED <<tables, owners, slotOwners, segment, live, mapLock, memLock, swapLock, job>>, PgTypeOK',
           \A q \in PgProcs : q # p => heapOn'[q] = heapOn[q] /\ promised'[q] = promised[q],
           \A u \in PgThreads : Space(u) # p => tlb'[u] = tlb[u] /\ inCall'[u] = inCall[u],
           heapOn'[p] = heapOn[p] \/ (memLock[p] = 0 /\ mapLock[p] = 0),
           promised'[p] = promised[p] \/ mapLock[p] = 0,
           HeapOK(p)', TlbOwned(p)', BuffersKept(p)'
    PROVE  PgBooks'
<1>1. /\ PgTypeOK /\ EntriesOK /\ FramesCounted /\ SlotsCounted /\ First \in live
      /\ SpaceOK(p) /\ HandOK(t) /\ LocksOK(t) /\ PageOK(t) /\ ChildOK(t)
    BY BooksOf
<1>2. /\ \A q \in PgProcs : Heap(q)' = Heap(q) /\ Shm(q)' = Shm(q)
      /\ job' = job
    BY DEF Heap, Shm
<1>e. EntriesOK'
    BY <1>1, <1>2 DEF EntriesOK
<1>f. FramesCounted'
    BY <1>1 DEF FramesCounted, HeapsOf, ShmsOf, HandsOf, HeapIs, ShmIs, Heap, Shm
<1>s. SlotsCounted'
    BY <1>1, <1>2, SameBooks
<1>u. Touched(t) = {p}
    BY DEF Touched, Forking
<1>a. OtherSpacesStay(t)
    BY <1>1, <1>2, <1>u DEF OtherSpacesStay, OnlyJob
<1>b. LocksRespected(t)
    BY <1>1, <1>2 DEF LocksRespected, NotOthers, PgTypeOK
<1>c. HandOK(t)' /\ LocksOK(t)' /\ PageOK(t)' /\ ChildOK(t)' /\ job'[t].at \notin Forking
    BY <1>1, <1>2 DEF HandOK, LocksOK, PageOK, ChildOK, InHand, Cloning, Swapping, Forking
<1>d. SpaceOK(p)'
    BY <1>1, <1>2 DEF SpaceOK, DeadOK, WritableAlone
<1>g. ThreadDone(t)
    BY <1>c, <1>d, <1>u DEF ThreadDone
<1> QED BY <1>e, <1>f, <1>s, <1>a, <1>b, <1>g, StepKeepsBooks

LEMMA BrkUpKeeps ==
    ASSUME PgAssumption, PgBooks, NEW t \in PgThreads, BrkUp(t)
    PROVE  PgBooks'
<1>0. PICK p \in PgProcs : p = Space(t)
    BY BooksOf
<1>1. PgTypeOK /\ SpaceOK(p)
    BY <1>0, BooksOf
<1>2. /\ job[t].at = "idle" /\ p \in live /\ mapLock[p] = 0 /\ memLock[p] = 0 /\ ~heapOn[p]
      /\ heapOn' = [heapOn EXCEPT ![p] = TRUE] /\ promised' = [promised EXCEPT ![p] = @ + 1]
      /\ UNCHANGED <<tables, owners, slotOwners, segment, live, mapLock, memLock, swapLock, job, tlb, inCall>>
      /\ pgCalls' = pgCalls + 1 /\ UNCHANGED <<bytes, slotBytes>> /\ holds' = [holds EXCEPT ![p] = 0]
    BY <1>0 DEF BrkUp, Calling, frameVars, swapVars, lockVars
<1>t. PgTypeOK'
    BY <1>1, <1>2 DEF PgTypeOK
<1>h. HeapOK(p)'
    <2>1. Heap(p)' = Heap(p) /\ Heap(p).k = "none" /\ promised[p] = 0
        BY <1>1, <1>2 DEF Heap, SpaceOK, HeapOK, One, PgTypeOK
    <2> QED BY <1>1, <1>2, <2>1 DEF HeapOK, One, PgTypeOK
<1>l. TlbOwned(p)' /\ BuffersKept(p)'
    BY <1>1, <1>2 DEF SpaceOK, TlbOwned, BuffersKept, HeapIs, Heap
<1> QED BY <1>0, <1>1, <1>2, <1>t, <1>h, <1>l, QuietKeeps DEF PgTypeOK

LEMMA FillKeeps ==
    ASSUME PgAssumption, PgBooks, NEW t \in PgThreads, Fill(t)
    PROVE  PgBooks'
<1>0. PICK p \in PgProcs : p = Space(t)
    BY BooksOf
<1>1. /\ PgTypeOK /\ SpaceOK(p) /\ Heap(p) \in PgEntry
      /\ Heap(p).k = "in" => Heap(p).at \in PgFrames
    BY <1>0, BooksOf
<1>2. /\ job[t].at = "idle" /\ p \in live /\ Heap(p).k = "in"
      /\ tlb' = [tlb EXCEPT ![t] = [f |-> Heap(p).at, w |-> Heap(p).w]]
      /\ UNCHANGED <<tables, owners, slotOwners, segment, live, mapLock, memLock, swapLock, job, inCall>>
      /\ UNCHANGED <<pgCalls, heapOn, promised, bytes, slotBytes, holds>>
    BY <1>0 DEF Fill, Running, frameVars, swapVars, lockVars, userVars, Heap
<1>t. PgTypeOK'
    <2>1. tlb' \in [PgThreads -> [f : PgFrames \cup {0}, w : BOOLEAN]]
        BY <1>1, <1>2 DEF PgTypeOK, PgEntry
    <2> QED BY <1>1, <1>2, <2>1 DEF PgTypeOK
<1>h. HeapOK(p)' /\ BuffersKept(p)'
    BY <1>1, <1>2 DEF HeapOK, SpaceOK, Heap, BuffersKept, HeapIs
<1>l. TlbOwned(p)'
    <2>1. tlb'[t].f = Heap(p).at /\ Heap(p)' = Heap(p) /\ \A u \in PgThreads : u # t => tlb'[u] = tlb[u]
        BY <1>1, <1>2 DEF PgTypeOK, Heap
    <2> QED BY <1>1, <1>2, <2>1 DEF SpaceOK, TlbOwned, HeapIs
<1>m. \A u \in PgThreads : Space(u) # p => tlb'[u] = tlb[u]
    BY <1>0, <1>1, <1>2 DEF PgTypeOK
<1>n. /\ \A q \in PgProcs : heapOn'[q] = heapOn[q] /\ promised'[q] = promised[q]
      /\ \A u \in PgThreads : inCall'[u] = inCall[u]
    BY <1>2
<1> QED BY <1>0, <1>2, <1>t, <1>h, <1>l, <1>m, <1>n, QuietKeeps

LEMMA StoreKeeps ==
    ASSUME PgAssumption, PgBooks, NEW t \in PgThreads, StoreHeap(t)
    PROVE  PgBooks'
<1>0. PICK p \in PgProcs : p = Space(t)
    BY BooksOf
<1>1. PgTypeOK /\ SpaceOK(p)
    BY <1>0, BooksOf
<1>2. /\ job[t].at = "idle" /\ p \in live
      /\ bytes' = [bytes EXCEPT ![tlb[t].f] = pgCalls + 1] /\ holds' = [holds EXCEPT ![p] = pgCalls + 1]
      /\ pgCalls' = pgCalls + 1
      /\ UNCHANGED <<tables, owners, slotOwners, segment, live, mapLock, memLock, swapLock, job, inCall>>
      /\ UNCHANGED <<heapOn, promised, slotBytes, tlb>>
    BY <1>0 DEF StoreHeap, Calling, swapVars, lockVars, userVars
<1>t. PgTypeOK'
    <2>1. /\ pgCalls + 1 \in Nat /\ bytes \in [PgFrames -> Nat] /\ holds \in [PgProcs -> Nat]
        BY <1>1 DEF PgTypeOK
    <2>2. bytes' \in [PgFrames -> Nat] /\ holds' \in [PgProcs -> Nat] /\ pgCalls' \in Nat
        BY <1>2, <2>1
    <2> QED BY <1>1, <1>2, <2>2 DEF PgTypeOK
<1>h. HeapOK(p)' /\ BuffersKept(p)' /\ TlbOwned(p)'
    BY <1>1, <1>2 DEF HeapOK, SpaceOK, Heap, BuffersKept, HeapIs, TlbOwned
<1>n. /\ \A q \in PgProcs : heapOn'[q] = heapOn[q] /\ promised'[q] = promised[q]
      /\ \A u \in PgThreads : inCall'[u] = inCall[u] /\ tlb'[u] = tlb[u]
    BY <1>2
<1> QED BY <1>0, <1>2, <1>t, <1>h, <1>n, QuietKeeps

LEMMA CallKeeps ==
    ASSUME PgAssumption, PgBooks, NEW t \in PgThreads, CallBegin(t) \/ CallChecked(t) \/ CallEnd(t)
    PROVE  PgBooks'
<1>0. PICK p \in PgProcs : p = Space(t)
    BY BooksOf
<1>1. /\ PgTypeOK /\ SpaceOK(p) /\ Heap(p) \in PgEntry
      /\ Heap(p).k = "in" => Heap(p).at \in PgFrames
    BY <1>0, BooksOf
<1>2. /\ job[t].at = "idle" /\ p \in live
      /\ \E x \in {"no", "checking", "using"} :
           inCall' = [inCall EXCEPT ![t] = x] /\ (x = "using" => Heap(p).k = "in" /\ Heap(p).w)
      /\ pgCalls' \in {pgCalls, pgCalls + 1}
      /\ UNCHANGED <<tables, owners, slotOwners, segment, live, mapLock, memLock, swapLock, job, tlb>>
      /\ UNCHANGED <<heapOn, promised, slotBytes, bytes, holds>>
    BY <1>0 DEF CallBegin, CallChecked, CallEnd, Calling, Running, frameVars, swapVars, lockVars, userVars, Heap
<1>3. PICK x \in {"no", "checking", "using"} :
           inCall' = [inCall EXCEPT ![t] = x] /\ (x = "using" => Heap(p).k = "in" /\ Heap(p).w)
    BY <1>2
<1>t. PgTypeOK'
    BY <1>1, <1>2, <1>3 DEF PgTypeOK
<1>h. HeapOK(p)' /\ TlbOwned(p)'
    BY <1>1, <1>2 DEF HeapOK, SpaceOK, Heap, HeapIs, TlbOwned
<1>b. BuffersKept(p)'
    <2>1. Heap(p)' = Heap(p) /\ inCall'[t] = x /\ \A u \in PgThreads : u # t => inCall'[u] = inCall[u]
        BY <1>1, <1>2, <1>3 DEF PgTypeOK, Heap
    <2>2. CASE x = "using"
        BY <1>1, <1>2, <1>3, <2>1, <2>2 DEF BuffersKept, SpaceOK, WritableAlone
    <2>3. CASE x # "using"
        BY <1>1, <1>2, <2>1, <2>3 DEF BuffersKept, SpaceOK, HeapIs, Heap
    <2> QED BY <2>2, <2>3
<1>m. \A u \in PgThreads : Space(u) # p => inCall'[u] = inCall[u]
    BY <1>0, <1>1, <1>3 DEF PgTypeOK
<1>n. /\ \A q \in PgProcs : heapOn'[q] = heapOn[q] /\ promised'[q] = promised[q]
      /\ \A u \in PgThreads : tlb'[u] = tlb[u]
    BY <1>2
<1> QED BY <1>0, <1>2, <1>t, <1>h, <1>b, <1>m, <1>n, QuietKeeps

LEMMA FreeUnmappedKeeps ==
    ASSUME PgAssumption, PgBooks, NEW t \in PgThreads, FreeUnmapped(t)
    PROVE  PgBooks'
<1>0. PICK p \in PgProcs : p = Space(t)
    BY BooksOf
<1>1. /\ PgTypeOK /\ EntriesOK /\ FramesCounted /\ SlotsCounted
      /\ SpaceOK(p) /\ HandOK(t) /\ LocksOK(t) /\ PageOK(t) /\ First \in live /\ t \in Nat /\ t # 0 /\ job[t] \in PgJob
    BY <1>0, BooksOf
<1>2. job[t].at = "freeing"
    BY DEF FreeUnmapped
<1>3. /\ UNCHANGED <<tables, bytes, slotOwners, slotBytes, heapOn, promised, segment, live, mapLock, swapLock>>
      /\ UNCHANGED <<inCall, pgCalls, holds>>
      /\ memLock' = [memLock EXCEPT ![p] = 0]
      /\ tlb' = [u \in PgThreads |-> IF Space(u) = p THEN NoTlb ELSE tlb[u]]
    BY <1>0 DEF FreeUnmapped, swapVars, userVars, process_tlb_sync, ThreadsOf
<1>4. /\ p \in live /\ memLock[p] = t /\ Heap(p).k = "none"
      /\ \A q \in PgProcs : Heap(q)' = Heap(q) /\ Shm(q)' = Shm(q)
    BY <1>0, <1>1, <1>2, <1>3 DEF HandOK, LocksOK, PageOK, InHand, Heap, Shm
<1>5. PICK f \in PgFrames : f = job[t].frame
    BY <1>1, <1>2 DEF HandOK, InHand, PgJob
<1>6. job'[t].at = "idle" /\ job'[t].frame = 0 /\ OnlyJob(t) /\ job' \in [PgThreads -> PgJob]
    <2>1. NoJob \in PgJob
        BY DEF NoJob, PgJob, JobPlaces
    <2> QED BY <1>1, <2>1 DEF FreeUnmapped, PgTypeOK, Does, NoJob, OnlyJob
<1>7. /\ owners[f] \in Nat /\ owners[f] > 0 /\ owners' = [owners EXCEPT ![f] = @ - 1]
      /\ owners' \in [PgFrames -> Nat]
    <2>1. owners[f] \in Nat /\ owners[f] # 0
        BY <1>1, <1>5, Holders DEF PgTypeOK
    <2>2. owners' = [owners EXCEPT ![f] = @ - 1]
        BY <1>5, PgNames DEF FreeUnmapped, DropOwner
    <2>3. owners[f] > 0 /\ owners[f] - 1 \in Nat /\ owners \in [PgFrames -> Nat]
        BY <1>1, <2>1 DEF PgTypeOK
    <2> QED BY <2>1, <2>2, <2>3
<1>t. PgTypeOK'
    <2>1. tlb' \in [PgThreads -> [f : PgFrames \cup {0}, w : BOOLEAN]] /\ memLock' \in [PgProcs -> Nat]
        BY <1>1, <1>3 DEF PgTypeOK, NoTlb
    <2> QED BY <1>1, <1>3, <1>6, <1>7, <2>1 DEF PgTypeOK
<1>e. EntriesOK'
    BY <1>1, <1>4 DEF EntriesOK
<1>f. FramesCounted'
    <2>1. ASSUME NEW g \in PgFrames
          PROVE  owners'[g] + One(HeapIs(p, g)) + One(job[t].frame = g)
                   = owners[g] + One(HeapIs(p, g)') + One(job'[t].frame = g)
        <3>1. g # 0 /\ owners[g] \in Nat /\ (HeapIs(p, g)' <=> HeapIs(p, g))
            BY <1>1, <1>4, PgNames DEF HeapIs, PgTypeOK
        <3>2. owners'[g] = IF g = f THEN owners[g] - 1 ELSE owners[g]
            BY <1>1, <1>7 DEF PgTypeOK
        <3> QED BY <1>5, <1>6, <1>7, <3>1, <3>2 DEF One
    <2> QED BY <1>1, <1>3, <1>4, <1>6, <1>t, <2>1, HeapBooks
<1>s. SlotsCounted'
    BY <1>1, <1>3, <1>4, SameBooks
<1>u. Touched(t) = {p}
    BY <1>0, <1>2 DEF Touched, Forking
<1>a. OtherSpacesStay(t)
    BY <1>0, <1>1, <1>3, <1>4, <1>5, <1>6, <1>7, <1>u DEF OtherSpacesStay, PgTypeOK, Space
<1>b. LocksRespected(t)
    BY <1>0, <1>1, <1>3, <1>4, <1>6 DEF LocksRespected, NotOthers, PgTypeOK
<1>c. HandOK(t)' /\ LocksOK(t)' /\ PageOK(t)' /\ ChildOK(t)' /\ job'[t].at \notin Forking
    BY <1>6 DEF HandOK, LocksOK, PageOK, ChildOK, InHand, Cloning, Swapping, Forking
<1>d. SpaceOK(p)'
    <2>1. DeadOK(p)' /\ HeapOK(p)' /\ WritableAlone(p)'
        BY <1>1, <1>3, <1>4 DEF DeadOK, HeapOK, WritableAlone, SpaceOK
    <2>2. TlbOwned(p)'
        BY <1>3 DEF TlbOwned, Space, NoTlb
    <2>3. BuffersKept(p)'
        BY <1>1, <1>3, <1>4 DEF BuffersKept, SpaceOK
    <2> QED BY <2>1, <2>2, <2>3 DEF SpaceOK
<1>g. ThreadDone(t)
    BY <1>c, <1>d, <1>u DEF ThreadDone
<1> QED BY <1>t, <1>e, <1>f, <1>s, <1>a, <1>b, <1>g, StepKeepsBooks

LEMMA TouchHeapKeeps ==
    ASSUME PgAssumption, PgBooks, NEW t \in PgThreads, TouchHeap(t)
    PROVE  PgBooks'
<1>0. PICK p \in PgProcs : p = Space(t)
    BY BooksOf
<1>1. /\ PgTypeOK /\ EntriesOK /\ FramesCounted /\ SlotsCounted
      /\ SpaceOK(p) /\ HandOK(t) /\ Heap(p) \in PgEntry /\ First \in live /\ t \in Nat /\ t # 0
    BY <1>0, BooksOf
<1>2. /\ job[t].at = "idle" /\ p \in live /\ memLock[p] = 0 /\ heapOn[p] /\ Heap(p).k = "none" /\ HasFrame
      /\ pgCalls' = pgCalls
    BY <1>0 DEF TouchHeap, Running, Heap
<1>n. PICK n \in PgFrames : n = NewFrame /\ owners[n] = 0
    BY <1>2, NewIsFree
<1>3. /\ UNCHANGED <<slotOwners, slotBytes, heapOn, segment, live, mapLock, memLock, swapLock, tlb, inCall, holds, job>>
      /\ promised' = [promised EXCEPT ![p] = IF @ > 0 THEN @ - 1 ELSE 0]
      /\ owners' = [owners EXCEPT ![n] = @ + 1] /\ bytes' = [bytes EXCEPT ![n] = 0]
      /\ tables' = [tables EXCEPT ![p]["heap"] = In(n, TRUE)]
    BY <1>0, <1>n DEF TouchHeap, swapVars, lockVars, AddOwner
<1>4. /\ Heap(p)' = In(n, TRUE) /\ Heap(p)'.k = "in" /\ Heap(p)'.at = n
      /\ \A q \in PgProcs : q # p => Heap(q)' = Heap(q)
      /\ \A q \in PgProcs : Shm(q)' = Shm(q)
      /\ tables' \in [PgProcs -> [PgPages -> PgEntry]]
    BY <1>1, <1>3, PgNames DEF Heap, Shm, PgTypeOK, PgPages, In, PgEntry
<1>5. \A g \in PgFrames : owners'[g] = IF g = n THEN 1 ELSE owners[g]
    BY <1>1, <1>3, <1>n DEF PgTypeOK
<1>6. promised[p] \in Nat /\ promised[p] <= 1 /\ promised'[p] = 0
    BY <1>1, <1>3 DEF PgTypeOK, SpaceOK, HeapOK, One
<1>t. PgTypeOK'
    <2>1. /\ owners' \in [PgFrames -> Nat] /\ bytes' \in [PgFrames -> Nat] /\ promised' \in [PgProcs -> Nat]
        BY <1>1, <1>3 DEF PgTypeOK
    <2> QED BY <1>1, <1>2, <1>3, <1>4, <2>1 DEF PgTypeOK
<1>e. EntriesOK'
    BY <1>1, <1>4 DEF EntriesOK, EntryNames
<1>f. FramesCounted'
    <2>2. ASSUME NEW f \in PgFrames
          PROVE  owners'[f] + One(HeapIs(p, f)) + One(job[t].frame = f)
                   = owners[f] + One(HeapIs(p, f)') + One(job'[t].frame = f)
        <3>1. owners[f] \in Nat /\ ~HeapIs(p, f) /\ (HeapIs(p, f)' <=> f = n)
            BY <1>1, <1>2, <1>4 DEF HeapIs, PgTypeOK
        <3>2. One(HeapIs(p, f)) = 0 /\ One(HeapIs(p, f)') = One(f = n) /\ owners'[f] = owners[f] + One(f = n)
            BY <1>5, <1>n, <3>1 DEF One
        <3>3. One(job'[t].frame = f) = One(job[t].frame = f) /\ One(job[t].frame = f) \in Nat /\ One(f = n) \in Nat
            BY <1>3 DEF One
        <3> QED BY <3>1, <3>2, <3>3
    <2>3. OnlyJob(t)
        BY <1>3 DEF OnlyJob
    <2> QED BY <1>1, <1>3, <1>4, <1>t, <2>2, <2>3, HeapBooks
<1>s. SlotsCounted'
    <2>1. ASSUME NEW s \in PgSlots
          PROVE  slotOwners'[s] + One(HeapOut(p, s)) = slotOwners[s] + One(HeapOut(p, s)')
        BY <1>1, <1>2, <1>3, <1>4 DEF HeapOut, One, PgTypeOK
    <2> QED BY <1>1, <1>4, <1>t, <2>1, OutBooks
<1>u. Touched(t) = {p}
    BY <1>0, <1>2 DEF Touched, Forking
<1>a. OtherSpacesStay(t)
    BY <1>0, <1>1, <1>2, <1>3, <1>4, <1>5, <1>n, <1>u DEF OtherSpacesStay, PgTypeOK, OnlyJob
<1>b. LocksRespected(t)
    BY <1>0, <1>1, <1>2, <1>3, <1>4, <1>6 DEF LocksRespected, NotOthers, PgTypeOK
<1>c. HandOK(t)' /\ LocksOK(t)' /\ PageOK(t)' /\ ChildOK(t)' /\ job'[t].at \notin Forking
    BY <1>1, <1>2, <1>3
    DEF HandOK, LocksOK, PageOK, ChildOK, InHand, Cloning, Swapping, Forking
<1>d. SpaceOK(p)'
    <2>1. DeadOK(p)' /\ WritableAlone(p)'
        BY <1>2, <1>3, <1>4, <1>5 DEF DeadOK, WritableAlone
    <2>4. HeapOK(p)'
        <3>1. One((heapOn[p] /\ Heap(p).k = "none")') \in Nat /\ heapOn'[p] = heapOn[p]
            BY <1>3 DEF One
        <3> QED BY <1>2, <1>6, <3>1 DEF HeapOK
    <2>2. TlbOwned(p)'
        BY <1>0, <1>1, <1>2, <1>3, <1>4 DEF SpaceOK, TlbOwned, HeapIs, Space
    <2>3. BuffersKept(p)'
        BY <1>1, <1>2, <1>3 DEF BuffersKept, SpaceOK
    <2> QED BY <2>1, <2>2, <2>3, <2>4 DEF SpaceOK
<1>g. ThreadDone(t)
    BY <1>c, <1>d, <1>u DEF ThreadDone
<1> QED BY <1>t, <1>e, <1>f, <1>s, <1>a, <1>b, <1>g, StepKeepsBooks

LEMMA CowFaultKeeps ==
    ASSUME PgAssumption, PgBooks, NEW t \in PgThreads, CowFault(t)
    PROVE  PgBooks'
<1>0. PICK p \in PgProcs : p = Space(t)
    BY BooksOf
<1>1. /\ PgTypeOK /\ EntriesOK /\ FramesCounted /\ SlotsCounted
      /\ SpaceOK(p) /\ HandOK(t) /\ Heap(p) \in PgEntry /\ First \in live /\ t \in Nat /\ t # 0
      /\ Heap(p).k = "in" => Heap(p).at \in PgFrames /\ Heap(p).at # 0
    BY <1>0, BooksOf
<1>2. /\ job[t].at = "idle" /\ p \in live /\ Heap(p).k = "in" /\ pgCalls' = pgCalls
      /\ UNCHANGED <<slotOwners, slotBytes, heapOn, promised, segment, live, mapLock, memLock, swapLock, tlb, inCall, holds>>
    BY <1>0 DEF CowFault, Running, Heap, swapVars, userVars, lockVars
<1>o. PICK o \in PgFrames : o = Heap(p).at
    BY <1>1, <1>2
<1>j. job[t].frame = 0
    BY <1>1, <1>2 DEF HandOK, InHand
<1>h. heapOn[p] /\ promised[p] = 0
    BY <1>1, <1>2 DEF SpaceOK, HeapOK, One, PgTypeOK
<1>x. PICK n \in PgFrames :
         /\ tables' = [tables EXCEPT ![p]["heap"] = In(n, TRUE)]
         /\ OnlyJob(t) /\ job'[t].at = "copied" /\ job' \in [PgThreads -> PgJob]
         /\ \/ /\ n = o /\ owners[o] = 1 /\ job'[t].frame = 0 /\ owners' = owners /\ bytes' = bytes
            \/ /\ n # o /\ owners[n] = 0 /\ job'[t].frame = o
               /\ owners' = [owners EXCEPT ![n] = @ + 1] /\ bytes' = [bytes EXCEPT ![n] = bytes[o]]
    <2>1. CASE /\ MayTake(o) /\ tables' = [tables EXCEPT ![p]["heap"] = In(o, TRUE)]
               /\ Does(t, [NoJob EXCEPT !.at = "copied"]) /\ UNCHANGED <<owners, bytes>>
        <3>1. [NoJob EXCEPT !.at = "copied"] \in PgJob
            BY DEF NoJob, PgJob, JobPlaces
        <3>2. OnlyJob(t) /\ job'[t].at = "copied" /\ job'[t].frame = 0 /\ job' \in [PgThreads -> PgJob]
            BY <1>1, <2>1, <3>1 DEF Does, NoJob, OnlyJob, PgTypeOK
        <3> QED BY <2>1, <3>2 DEF MayTake
    <2>2. CASE /\ ~MayTake(o) /\ HasFrame /\ tables' = [tables EXCEPT ![p]["heap"] = In(NewFrame, TRUE)]
               /\ owners' = AddOwner(owners, NewFrame) /\ bytes' = [bytes EXCEPT ![NewFrame] = bytes[o]]
               /\ Does(t, [NoJob EXCEPT !.at = "copied", !.frame = o])
        <3>1. [NoJob EXCEPT !.at = "copied", !.frame = o] \in PgJob
            BY DEF NoJob, PgJob, JobPlaces
        <3>2. OnlyJob(t) /\ job'[t].at = "copied" /\ job'[t].frame = o /\ job' \in [PgThreads -> PgJob]
            BY <1>1, <2>2, <3>1 DEF Does, NoJob, OnlyJob, PgTypeOK
        <3>3. NewFrame \in PgFrames /\ owners[NewFrame] = 0 /\ NewFrame # o
            BY <1>1, <1>2, <1>o, <2>2, NewIsFree, Holders DEF HeapIs
        <3> QED BY <2>2, <3>2, <3>3 DEF AddOwner
    <2> QED BY <1>0, <1>o, <2>1, <2>2 DEF CowFault, Heap
<1>4. /\ Heap(p)' = In(n, TRUE) /\ Heap(p)'.k = "in" /\ Heap(p)'.at = n
      /\ \A q \in PgProcs : q # p => Heap(q)' = Heap(q)
      /\ \A q \in PgProcs : Shm(q)' = Shm(q)
      /\ tables' \in [PgProcs -> [PgPages -> PgEntry]]
    BY <1>1, <1>x, PgNames DEF Heap, Shm, PgTypeOK, PgPages, In, PgEntry
<1>5. /\ owners'[n] = 1
      /\ \A g \in PgFrames : /\ n = o => owners'[g] = owners[g]
                             /\ n # o => owners'[g] = IF g = n THEN 1 ELSE owners[g]
    BY <1>1, <1>x DEF PgTypeOK
<1>t. PgTypeOK'
    <2>1. owners' \in [PgFrames -> Nat] /\ bytes' \in [PgFrames -> Nat]
        <3>1. bytes[o] \in Nat /\ owners \in [PgFrames -> Nat] /\ bytes \in [PgFrames -> Nat]
            BY <1>1 DEF PgTypeOK
        <3> QED BY <1>x, <3>1
    <2> QED BY <1>1, <1>2, <1>x, <1>4, <2>1 DEF PgTypeOK
<1>e. EntriesOK'
    BY <1>1, <1>4 DEF EntriesOK, EntryNames
<1>f. FramesCounted'
    <2>2. ASSUME NEW f \in PgFrames
          PROVE  owners'[f] + One(HeapIs(p, f)) + One(job[t].frame = f)
                   = owners[f] + One(HeapIs(p, f)') + One(job'[t].frame = f)
        <3>1. /\ f # 0 /\ owners[f] \in Nat /\ (HeapIs(p, f) <=> f = o) /\ (HeapIs(p, f)' <=> f = n)
              /\ job[t].frame # f
            BY <1>1, <1>2, <1>4, <1>o, <1>j, PgNames DEF HeapIs, PgTypeOK
        <3>3. CASE n = o
            BY <1>5, <1>x, <3>1, <3>3 DEF One
        <3>4. CASE n # o
            BY <1>5, <1>x, <3>1, <3>4 DEF One
        <3> QED BY <3>3, <3>4
    <2> QED BY <1>1, <1>2, <1>4, <1>x, <1>t, <2>2, HeapBooks
<1>s. SlotsCounted'
    <2>1. ASSUME NEW s \in PgSlots
          PROVE  slotOwners'[s] + One(HeapOut(p, s)) = slotOwners[s] + One(HeapOut(p, s)')
        BY <1>1, <1>2, <1>4 DEF HeapOut, One, PgTypeOK
    <2> QED BY <1>1, <1>4, <1>t, <2>1, OutBooks
<1>u. Touched(t) = {p}
    BY <1>0, <1>2 DEF Touched, Forking
<1>a. OtherSpacesStay(t)
    BY <1>0, <1>1, <1>2, <1>x, <1>4, <1>5, <1>u DEF OtherSpacesStay, PgTypeOK
<1>b. LocksRespected(t)
    <2>1. /\ First \in live' /\ p \in live' /\ memLock'[p] = memLock[p] /\ mapLock'[p] = mapLock[p]
          /\ heapOn'[p] = heapOn[p]
        BY <1>1, <1>2
    <2>2. promised'[p] <= promised[p]
        BY <1>2, <1>h
    <2>3. Shm(p)' = Shm(p) /\ Heap(p).k = "in" /\ Heap(p)'.k = "in"
        BY <1>2, <1>4
    <2> QED BY <1>0, <2>1, <2>2, <2>3 DEF LocksRespected
<1>c. HandOK(t)' /\ LocksOK(t)' /\ PageOK(t)' /\ ChildOK(t)' /\ job'[t].at \notin Forking
    BY <1>0, <1>2, <1>x
    DEF HandOK, LocksOK, PageOK, ChildOK, InHand, Cloning, Swapping, Forking, Space
<1>d. SpaceOK(p)'
    <2>1. DeadOK(p)' /\ WritableAlone(p)'
        BY <1>2, <1>4, <1>5 DEF DeadOK, WritableAlone
    <2>4. HeapOK(p)'
        BY <1>2, <1>4, <1>h DEF HeapOK, One
    <2>2. TlbOwned(p)'
        <3> SUFFICES ASSUME NEW u \in PgThreads, Space(u) = p, tlb[u].f # 0
                     PROVE  \/ HeapIs(p, tlb[u].f)'
                            \/ \E z \in PgThreads : /\ Space(z) = p /\ job'[z].frame = tlb[u].f
                                                    /\ job'[z].at \in {"freeing", "leaving", "copied"}
            BY <1>2 DEF TlbOwned, HeapIs, Space
        <3>1. CASE HeapIs(p, tlb[u].f)
            BY <1>0, <1>o, <1>x, <1>4, <3>1, <1>2 DEF HeapIs
        <3>2. CASE ~HeapIs(p, tlb[u].f)
            BY <1>1, <1>x, <1>2, <3>2 DEF SpaceOK, TlbOwned, OnlyJob
        <3> QED BY <3>1, <3>2
    <2>3. BuffersKept(p)'
        BY <1>4, <1>5 DEF BuffersKept
    <2> QED BY <2>1, <2>2, <2>3, <2>4 DEF SpaceOK
<1>g. ThreadDone(t)
    BY <1>c, <1>d, <1>u DEF ThreadDone
<1> QED BY <1>t, <1>e, <1>f, <1>s, <1>a, <1>b, <1>g, StepKeepsBooks

LEMMA CowDoneKeeps ==
    ASSUME PgAssumption, PgBooks, NEW t \in PgThreads, CowDone(t)
    PROVE  PgBooks'
<1>0. PICK p \in PgProcs : p = Space(t)
    BY BooksOf
<1>1. /\ PgTypeOK /\ EntriesOK /\ FramesCounted /\ SlotsCounted
      /\ SpaceOK(p) /\ HandOK(t) /\ First \in live /\ t \in Nat /\ t # 0 /\ job[t] \in PgJob
      /\ Heap(p).k = "in" => Heap(p).at \in PgFrames /\ Heap(p).at # 0
    BY <1>0, BooksOf
<1>2. job[t].at = "copied" /\ p \in live
    BY <1>0, <1>1 DEF CowDone, HandOK
<1>3. /\ UNCHANGED <<tables, bytes, slotOwners, slotBytes, heapOn, promised, segment, live, mapLock, memLock, swapLock>>
      /\ UNCHANGED <<inCall, pgCalls, holds>>
      /\ tlb' = [u \in PgThreads |-> IF Space(u) = p THEN NoTlb ELSE tlb[u]]
    BY <1>0 DEF CowDone, swapVars, userVars, lockVars, process_tlb_sync, ThreadsOf
<1>4. \A q \in PgProcs : Heap(q)' = Heap(q) /\ Shm(q)' = Shm(q)
    BY <1>3 DEF Heap, Shm
<1>5. PICK f \in PgFrames \cup {0} : f = job[t].frame
    BY <1>1 DEF PgJob
<1>6. job'[t].at = "idle" /\ job'[t].frame = 0 /\ OnlyJob(t) /\ job' \in [PgThreads -> PgJob]
    <2>1. NoJob \in PgJob
        BY DEF NoJob, PgJob, JobPlaces
    <2> QED BY <1>1, <2>1 DEF CowDone, PgTypeOK, Does, NoJob, OnlyJob
<1>7. /\ owners' \in [PgFrames -> Nat]
      /\ \A g \in PgFrames : /\ owners'[g] = IF g = f THEN owners[g] - 1 ELSE owners[g]
                             /\ g = f => owners[g] \in Nat /\ owners[g] > 0
    <2>1. CASE f = 0
        BY <1>1, <1>5, <2>1, PgNames DEF CowDone, DropOwner, PgTypeOK
    <2>2. CASE f # 0
        <3>1. owners[f] \in Nat /\ owners[f] # 0 /\ f \in PgFrames
            BY <1>1, <1>5, <2>2, Holders DEF PgTypeOK
        <3>2. owners' = [owners EXCEPT ![f] = @ - 1]
            BY <1>5, <2>2 DEF CowDone, DropOwner
        <3>3. owners[f] > 0 /\ owners[f] - 1 \in Nat /\ owners \in [PgFrames -> Nat]
            BY <1>1, <3>1 DEF PgTypeOK
        <3> QED BY <3>1, <3>2, <3>3
    <2> QED BY <2>1, <2>2
<1>t. PgTypeOK'
    <2>1. tlb' \in [PgThreads -> [f : PgFrames \cup {0}, w : BOOLEAN]]
        BY <1>1, <1>3 DEF PgTypeOK, NoTlb
    <2> QED BY <1>1, <1>3, <1>6, <1>7, <2>1 DEF PgTypeOK
<1>e. EntriesOK'
    BY <1>1, <1>4 DEF EntriesOK
<1>f. FramesCounted'
    <2>1. ASSUME NEW g \in PgFrames
          PROVE  owners'[g] + One(HeapIs(p, g)) + One(job[t].frame = g)
                   = owners[g] + One(HeapIs(p, g)') + One(job'[t].frame = g)
        <3>1. g # 0 /\ owners[g] \in Nat /\ (HeapIs(p, g)' <=> HeapIs(p, g))
            BY <1>1, <1>4, PgNames DEF HeapIs, PgTypeOK
        <3> QED BY <1>5, <1>6, <1>7, <3>1 DEF One
    <2> QED BY <1>1, <1>3, <1>4, <1>6, <1>t, <2>1, HeapBooks
<1>s. SlotsCounted'
    BY <1>1, <1>3, <1>4, SameBooks
<1>u. Touched(t) = {p}
    BY <1>0, <1>2 DEF Touched, Forking
<1>a. OtherSpacesStay(t)
    BY <1>0, <1>1, <1>2, <1>3, <1>4, <1>5, <1>6, <1>7, <1>u DEF OtherSpacesStay, PgTypeOK, Space
<1>b. LocksRespected(t)
    BY <1>0, <1>1, <1>2, <1>3, <1>4, <1>6 DEF LocksRespected, NotOthers, PgTypeOK
<1>c. HandOK(t)' /\ LocksOK(t)' /\ PageOK(t)' /\ ChildOK(t)' /\ job'[t].at \notin Forking
    BY <1>6 DEF HandOK, LocksOK, PageOK, ChildOK, InHand, Cloning, Swapping, Forking
<1>d. SpaceOK(p)'
    <2>1. DeadOK(p)' /\ HeapOK(p)'
        BY <1>1, <1>2, <1>3, <1>4 DEF DeadOK, HeapOK, SpaceOK
    <2>2. TlbOwned(p)'
        BY <1>3 DEF TlbOwned, Space, NoTlb
    <2>4. WritableAlone(p)'
        <3>1. ASSUME Heap(p).k = "in", Heap(p).w PROVE owners'[Heap(p).at] = 1
            <4>1. owners[Heap(p).at] = 1 /\ HeapIs(p, Heap(p).at)
                BY <1>1, <3>1 DEF SpaceOK, WritableAlone, HeapIs
            <4>2. job[t].frame # Heap(p).at
                BY <1>1, <3>1, <4>1, Holders
            <4> QED BY <1>1, <1>5, <1>7, <3>1, <4>1, <4>2
        <3> QED BY <1>4, <3>1 DEF WritableAlone
    <2>3. BuffersKept(p)'
        <3> SUFFICES ASSUME NEW u \in PgThreads, Space(u) = p, inCall[u] = "using" PROVE BuffersKept(p)'
            BY <1>3 DEF BuffersKept, Space
        <3>1. PICK h \in PgFrames : Heap(p).k = "in" /\ Heap(p).at = h
            BY <1>1 DEF SpaceOK, BuffersKept
        <3>2. CASE owners[h] = 1
            <4>1. job[t].frame # h
                BY <1>1, <3>1, <3>2, Holders DEF HeapIs
            <4> QED BY <1>4, <1>5, <1>7, <3>1, <3>2, <4>1 DEF BuffersKept
        <3>3. ASSUME NEW z \in PgThreads, owners[h] = 2, Space(z) = p, job[z].at \in Forking \ {"charging"},
                     HeapIs(job[z].child, h)
              PROVE  BuffersKept(p)'
            <4>1. PICK c \in PgProcs : c = job[z].child /\ c \notin live /\ z # t
                BY <1>2, <3>3, BooksOf DEF HandOK, Forking
            <4>2. job[t].frame # h
                BY <1>1, <1>2, <3>1, <3>3, <4>1, Holders DEF HeapIs
            <4>3. /\ owners'[h] = 2 /\ job'[z] = job[z] /\ tables'[c]["heap"].k = "in" /\ tables'[c]["heap"].at = h
                  /\ Heap(p)'.k = "in" /\ Heap(p)'.at = h
                BY <1>3, <1>4, <1>5, <1>6, <1>7, <3>1, <3>3, <4>1, <4>2 DEF OnlyJob, HeapIs, Heap
            <4> QED BY <3>3, <4>1, <4>3 DEF BuffersKept, HeapIs, Heap, Space
        <3> QED BY <1>1, <3>1, <3>2, <3>3 DEF SpaceOK, BuffersKept
    <2> QED BY <2>1, <2>2, <2>3, <2>4 DEF SpaceOK
<1>g. ThreadDone(t)
    BY <1>c, <1>d, <1>u DEF ThreadDone
<1> QED BY <1>t, <1>e, <1>f, <1>s, <1>a, <1>b, <1>g, StepKeepsBooks

LEMMA SwapOutKeeps ==
    ASSUME PgAssumption, PgBooks, NEW t \in PgThreads, NEW s \in PgSlots, SwapOut(t, s)
    PROVE  PgBooks'
<1>0. PICK p \in PgProcs : p = Space(t)
    BY BooksOf
<1>1. /\ PgTypeOK /\ EntriesOK /\ FramesCounted /\ SlotsCounted
      /\ SpaceOK(p) /\ HandOK(t) /\ Heap(p) \in PgEntry /\ First \in live /\ t \in Nat /\ t # 0
      /\ Heap(p).k = "in" => Heap(p).at \in PgFrames /\ Heap(p).at # 0
    BY <1>0, BooksOf
<1>2. /\ job[t].at = "idle" /\ p \in live /\ memLock[p] = 0 /\ swapLock = 0 /\ slotOwners[s] = 0
      /\ Heap(p).k = "in" /\ owners[Heap(p).at] = 1 /\ ~RangeBusy(p) /\ pgCalls' = pgCalls + 1
    BY <1>0 DEF SwapOut, Calling, FreeSlot, MayLeave, Heap
<1>3. /\ UNCHANGED <<owners, bytes, slotBytes, heapOn, promised, segment, live, mapLock, tlb, inCall, holds>>
      /\ memLock' = [memLock EXCEPT ![p] = t] /\ swapLock' = t
      /\ slotOwners' = [slotOwners EXCEPT ![s] = @ + 1]
    BY <1>0 DEF SwapOut, userVars, AddOwner
<1>o. PICK o \in PgFrames : o = Heap(p).at
    BY <1>1, <1>2
<1>h. heapOn[p] /\ promised[p] = 0
    BY <1>1, <1>2 DEF SpaceOK, HeapOK, One, PgTypeOK
<1>4. /\ Heap(p)'.k = "out" /\ Heap(p)'.at = s /\ \A q \in PgProcs : q # p => Heap(q)' = Heap(q)
      /\ \A q \in PgProcs : Shm(q)' = Shm(q)
      /\ tables' \in [PgProcs -> [PgPages -> PgEntry]]
    <2>1. Out(s, Heap(p).w) \in PgEntry
        BY <1>1, PgNames DEF Out, PgEntry
    <2>2. tables' = [tables EXCEPT ![p]["heap"] = Out(s, Heap(p).w)]
        BY <1>0 DEF SwapOut, Heap
    <2> QED BY <1>1, <2>1, <2>2 DEF Heap, Shm, PgTypeOK, PgPages, Out
<1>5. /\ job'[t].at = "leaving" /\ job'[t].frame = o /\ job'[t].slot = s /\ OnlyJob(t)
      /\ job' \in [PgThreads -> PgJob]
    <2>1. [NoJob EXCEPT !.at = "leaving", !.frame = o, !.slot = s] \in PgJob
        BY DEF NoJob, PgJob, JobPlaces
    <2>2. job' = [job EXCEPT ![t] = [NoJob EXCEPT !.at = "leaving", !.frame = o, !.slot = s]]
        BY <1>0, <1>o DEF SwapOut, Does, Heap
    <2> QED BY <1>1, <2>1, <2>2 DEF PgTypeOK, NoJob, OnlyJob
<1>7. /\ slotOwners' \in [PgSlots -> Nat]
      /\ \A r \in PgSlots : slotOwners'[r] = IF r = s THEN slotOwners[r] + 1 ELSE slotOwners[r]
    BY <1>1, <1>3 DEF PgTypeOK
<1>t. PgTypeOK'
    <2>1. memLock' \in [PgProcs -> Nat] /\ swapLock' \in Nat /\ pgCalls' \in Nat
        BY <1>1, <1>2, <1>3 DEF PgTypeOK
    <2> QED BY <1>1, <1>3, <1>4, <1>5, <1>7, <2>1 DEF PgTypeOK
<1>e. EntriesOK'
    BY <1>1, <1>4 DEF EntriesOK, EntryNames
<1>f. FramesCounted'
    <2>1. job[t].frame = 0 /\ owners' = owners /\ segment' = segment
        BY <1>1, <1>2, <1>3 DEF HandOK, InHand
    <2>2. ASSUME NEW f \in PgFrames
          PROVE  owners'[f] + One(HeapIs(p, f)) + One(job[t].frame = f)
                   = owners[f] + One(HeapIs(p, f)') + One(job'[t].frame = f)
        <3>1. f # 0 /\ owners[f] \in Nat /\ ~HeapIs(p, f)' /\ (HeapIs(p, f) <=> job'[t].frame = f)
            BY <1>1, <1>2, <1>4, <1>5, <1>o, PgNames DEF HeapIs, PgTypeOK
        <3> QED BY <2>1, <3>1 DEF One
    <2> QED BY <1>1, <1>4, <1>5, <1>t, <2>1, <2>2, HeapBooks
<1>s. SlotsCounted'
    <2>1. ASSUME NEW r \in PgSlots
          PROVE  slotOwners'[r] + One(HeapOut(p, r)) = slotOwners[r] + One(HeapOut(p, r)')
        <3>1. slotOwners[r] \in Nat /\ ~HeapOut(p, r) /\ (HeapOut(p, r)' <=> r = s)
            BY <1>1, <1>2, <1>4 DEF HeapOut, PgTypeOK
        <3> QED BY <1>7, <3>1 DEF One
    <2> QED BY <1>1, <1>4, <1>t, <2>1, OutBooks
<1>u. Touched(t) = {p}
    BY <1>0, <1>2 DEF Touched, Forking
<1>a. OtherSpacesStay(t)
    BY <1>0, <1>1, <1>2, <1>3, <1>4, <1>5, <1>u DEF OtherSpacesStay, NotOthers, PgTypeOK
<1>b. LocksRespected(t)
    BY <1>0, <1>1, <1>2, <1>3, <1>4, <1>h DEF LocksRespected, NotOthers, PgTypeOK
<1>c. HandOK(t)' /\ LocksOK(t)' /\ PageOK(t)' /\ ChildOK(t)' /\ job'[t].at \notin Forking
    <2>1. memLock'[p] = t /\ owners'[o] = 1 /\ o # 0
        BY <1>1, <1>2, <1>3, <1>o DEF PgTypeOK
    <2> QED BY <1>0, <1>2, <1>3, <1>4, <1>5, <2>1
        DEF HandOK, LocksOK, PageOK, ChildOK, HeapOut, InHand, Cloning, Swapping, Forking, Space
<1>d. SpaceOK(p)'
    <2>1. DeadOK(p)' /\ WritableAlone(p)'
        BY <1>2, <1>3, <1>4 DEF DeadOK, WritableAlone
    <2>4. HeapOK(p)'
        BY <1>3, <1>4, <1>h DEF HeapOK, One
    <2>2. TlbOwned(p)'
        <3> SUFFICES ASSUME NEW u \in PgThreads, Space(u) = p, tlb[u].f # 0
                     PROVE  \/ HeapIs(p, tlb[u].f)'
                            \/ \E z \in PgThreads : /\ Space(z) = p /\ job'[z].frame = tlb[u].f
                                                    /\ job'[z].at \in {"freeing", "leaving", "copied"}
            BY <1>3 DEF TlbOwned, HeapIs, Space
        <3>1. CASE HeapIs(p, tlb[u].f)
            BY <1>0, <1>o, <1>5, <3>1 DEF HeapIs
        <3>2. CASE ~HeapIs(p, tlb[u].f)
            BY <1>1, <1>5, <1>2, <3>2 DEF SpaceOK, TlbOwned, OnlyJob
        <3> QED BY <3>1, <3>2
    <2>3. BuffersKept(p)'
        BY <1>2, <1>3 DEF BuffersKept, RangeBusy, ThreadsOf, Space
    <2> QED BY <2>1, <2>2, <2>3, <2>4 DEF SpaceOK
<1>g. ThreadDone(t)
    BY <1>c, <1>d, <1>u DEF ThreadDone
<1> QED BY <1>t, <1>e, <1>f, <1>s, <1>a, <1>b, <1>g, StepKeepsBooks

LEMMA SwapSyncKeeps ==
    ASSUME PgAssumption, PgBooks, NEW t \in PgThreads, SwapSync(t)
    PROVE  PgBooks'
<1>0. PICK p \in PgProcs : p = Space(t)
    BY BooksOf
<1>1. /\ PgTypeOK /\ EntriesOK /\ FramesCounted /\ SlotsCounted /\ First \in live
      /\ SpaceOK(p) /\ HandOK(t) /\ LocksOK(t) /\ PageOK(t) /\ t \in Nat /\ t # 0 /\ job[t] \in PgJob
    BY <1>0, BooksOf
<1>2. job[t].at = "leaving" /\ p \in live
    BY <1>0, <1>1 DEF SwapSync, HandOK
<1>3. /\ UNCHANGED <<tables, owners, bytes, slotOwners, slotBytes, heapOn, promised, segment, live>>
      /\ UNCHANGED <<mapLock, memLock, swapLock, inCall, pgCalls, holds>>
      /\ tlb' = [u \in PgThreads |-> IF Space(u) = p THEN NoTlb ELSE tlb[u]]
    BY <1>0 DEF SwapSync, frameVars, swapVars, userVars, lockVars, process_tlb_sync, ThreadsOf
<1>4. \A q \in PgProcs : Heap(q)' = Heap(q) /\ Shm(q)' = Shm(q)
    BY <1>3 DEF Heap, Shm
<1>5. /\ job'[t].at = "saving" /\ job'[t].frame = job[t].frame /\ job'[t].slot = job[t].slot /\ OnlyJob(t)
      /\ job' \in [PgThreads -> PgJob]
    <2>1. [job[t] EXCEPT !.at = "saving"] \in PgJob
        BY <1>1 DEF PgJob, JobPlaces
    <2> QED BY <1>1, <2>1 DEF SwapSync, Does, PgTypeOK, PgJob, OnlyJob
<1>t. PgTypeOK'
    <2>1. tlb' \in [PgThreads -> [f : PgFrames \cup {0}, w : BOOLEAN]]
        BY <1>1, <1>3 DEF PgTypeOK, NoTlb
    <2> QED BY <1>1, <1>3, <1>5, <2>1 DEF PgTypeOK
<1>e. EntriesOK'
    BY <1>1, <1>4 DEF EntriesOK
<1>f. FramesCounted'
    <2>1. ASSUME NEW g \in PgFrames
          PROVE  owners'[g] + One(HeapIs(p, g)) + One(job[t].frame = g)
                   = owners[g] + One(HeapIs(p, g)') + One(job'[t].frame = g)
        BY <1>3, <1>4, <1>5 DEF HeapIs
    <2> QED BY <1>1, <1>3, <1>4, <1>5, <1>t, <2>1, HeapBooks
<1>s. SlotsCounted'
    BY <1>1, <1>3, <1>4, SameBooks
<1>u. Touched(t) = {p}
    BY <1>0, <1>2 DEF Touched, Forking
<1>a. OtherSpacesStay(t)
    BY <1>0, <1>1, <1>2, <1>3, <1>4, <1>5, <1>u DEF OtherSpacesStay, PgTypeOK, Space
<1>b. LocksRespected(t)
    BY <1>0, <1>1, <1>2, <1>3, <1>4 DEF LocksRespected, NotOthers, PgTypeOK
<1>c. HandOK(t)' /\ LocksOK(t)' /\ PageOK(t)' /\ ChildOK(t)' /\ job'[t].at \notin Forking
    BY <1>0, <1>1, <1>2, <1>3, <1>4, <1>5
    DEF HandOK, LocksOK, PageOK, ChildOK, HeapOut, InHand, Cloning, Swapping, Forking, Space
<1>d. SpaceOK(p)'
    <2>1. DeadOK(p)' /\ HeapOK(p)' /\ WritableAlone(p)'
        BY <1>1, <1>2, <1>3, <1>4 DEF DeadOK, HeapOK, WritableAlone, SpaceOK
    <2>2. TlbOwned(p)'
        BY <1>3 DEF TlbOwned, Space, NoTlb
    <2>3. BuffersKept(p)'
        <3>1. HeapOut(p, job[t].slot)
            BY <1>0, <1>1, <1>2 DEF PageOK, Swapping
        <3> QED BY <1>1, <1>3, <3>1 DEF BuffersKept, SpaceOK, HeapOut
    <2> QED BY <2>1, <2>2, <2>3 DEF SpaceOK
<1>g. ThreadDone(t)
    BY <1>c, <1>d, <1>u DEF ThreadDone
<1> QED BY <1>t, <1>e, <1>f, <1>s, <1>a, <1>b, <1>g, StepKeepsBooks

LEMMA SwapSaveKeeps ==
    ASSUME PgAssumption, PgBooks, NEW t \in PgThreads, NEW ok \in BOOLEAN, SwapSave(t, ok)
    PROVE  PgBooks'
<1>0. PICK p \in PgProcs : p = Space(t)
    BY BooksOf
<1>1. /\ PgTypeOK /\ EntriesOK /\ FramesCounted /\ SlotsCounted /\ First \in live
      /\ SpaceOK(p) /\ HandOK(t) /\ LocksOK(t) /\ PageOK(t) /\ t \in Nat /\ t # 0 /\ job[t] \in PgJob
      /\ Heap(p) \in PgEntry
    BY <1>0, BooksOf
<1>2. job[t].at = "saving" /\ p \in live /\ memLock[p] = t /\ swapLock = t
    BY <1>0, <1>1 DEF SwapSave, HandOK, LocksOK, InHand, Swapping
<1>o. PICK o \in PgFrames : o = job[t].frame /\ owners[o] = 1 /\ o # 0
    BY <1>1, <1>2 DEF HandOK, InHand, Swapping, PgJob
<1>r. PICK s \in PgSlots : s = job[t].slot /\ Heap(p).k = "out" /\ Heap(p).at = s /\ slotOwners[s] \in Nat /\ slotOwners[s] > 0
    <2>1. job[t].slot \in PgSlots /\ HeapOut(p, job[t].slot)
        BY <1>0, <1>1, <1>2 DEF HandOK, PageOK, Swapping
    <2> QED BY <1>1, <2>1, SlotHolders DEF HeapOut, PgTypeOK
<1>h. heapOn[p] /\ promised[p] = 0
    BY <1>1, <1>2, <1>r DEF SpaceOK, HeapOK, One, PgTypeOK
<1>3. /\ UNCHANGED <<bytes, heapOn, promised, segment, live, mapLock, tlb, inCall, pgCalls, holds>>
      /\ memLock' = [memLock EXCEPT ![p] = 0] /\ swapLock' = 0
    BY <1>0 DEF SwapSave, userVars
<1>5. job'[t].at = "idle" /\ job'[t].frame = 0 /\ OnlyJob(t) /\ job' \in [PgThreads -> PgJob]
    <2>1. NoJob \in PgJob
        BY DEF NoJob, PgJob, JobPlaces
    <2> QED BY <1>1, <2>1 DEF SwapSave, PgTypeOK, Does, NoJob, OnlyJob
<1>x. /\ \A q \in PgProcs : q # p => Heap(q)' = Heap(q)
      /\ \A q \in PgProcs : Shm(q)' = Shm(q)
      /\ tables' \in [PgProcs -> [PgPages -> PgEntry]] /\ slotBytes' \in [PgSlots -> Nat]
      /\ owners' \in [PgFrames -> Nat] /\ slotOwners' \in [PgSlots -> Nat]
      /\ \/ /\ Heap(p)' = Heap(p) /\ \A g \in PgFrames : owners'[g] = IF g = o THEN 0 ELSE owners[g]
            /\ slotOwners' = slotOwners
         \/ /\ Heap(p)'.k = "in" /\ Heap(p)'.at = o /\ owners' = owners
            /\ \A r \in PgSlots : slotOwners'[r] = IF r = s THEN slotOwners[r] - 1 ELSE slotOwners[r]
    <2>1. CASE ok
        <3>1. /\ slotBytes' = [slotBytes EXCEPT ![s] = bytes[o]] /\ owners' = [owners EXCEPT ![o] = @ - 1]
              /\ UNCHANGED <<tables, slotOwners>>
            BY <1>o, <1>r, <2>1 DEF SwapSave, DropOwner
        <3>2. \A q \in PgProcs : Heap(q)' = Heap(q) /\ Shm(q)' = Shm(q)
            BY <3>1 DEF Heap, Shm
        <3>3. owners[o] - 1 = 0 /\ bytes[o] \in Nat
            BY <1>1, <1>o DEF PgTypeOK
        <3>4. owners' \in [PgFrames -> Nat] /\ slotBytes' \in [PgSlots -> Nat]
            BY <1>1, <1>o, <3>1, <3>3 DEF PgTypeOK
        <3>5. \A g \in PgFrames : owners'[g] = IF g = o THEN 0 ELSE owners[g]
            BY <1>1, <1>o, <3>1, <3>3 DEF PgTypeOK
        <3> QED BY <1>1, <3>1, <3>2, <3>4, <3>5 DEF PgTypeOK
    <2>2. CASE ~ok
        <3>1. /\ tables' = [tables EXCEPT ![p]["heap"] = In(o, tables[p]["heap"].w)]
              /\ slotOwners' = [slotOwners EXCEPT ![s] = @ - 1]
              /\ UNCHANGED <<slotBytes, owners>>
            BY <1>0, <1>1, <1>o, <1>r, <2>2, PgNames DEF SwapSave, DropOwner, PgTypeOK, PgPages
        <3>2. In(o, tables[p]["heap"].w) \in PgEntry
            BY <1>1, <1>o, PgNames DEF In, PgEntry, Heap
        <3>3. /\ tables' \in [PgProcs -> [PgPages -> PgEntry]] /\ Heap(p)'.k = "in" /\ Heap(p)'.at = o
              /\ \A q \in PgProcs : q # p => Heap(q)' = Heap(q)
              /\ \A q \in PgProcs : Shm(q)' = Shm(q)
            BY <1>1, <3>1, <3>2 DEF PgTypeOK, PgPages, Heap, Shm, In
        <3>4. slotOwners[s] - 1 \in Nat
            BY <1>r
        <3>5. /\ slotOwners' \in [PgSlots -> Nat]
              /\ \A r \in PgSlots : slotOwners'[r] = IF r = s THEN slotOwners[r] - 1 ELSE slotOwners[r]
            BY <1>1, <3>1, <3>4 DEF PgTypeOK
        <3> QED BY <1>1, <3>1, <3>3, <3>5 DEF PgTypeOK
    <2> QED BY <2>1, <2>2
<1>t. PgTypeOK'
    <2>1. memLock' \in [PgProcs -> Nat]
        BY <1>1, <1>3 DEF PgTypeOK
    <2> QED BY <1>1, <1>3, <1>5, <1>x, <2>1 DEF PgTypeOK
<1>e. EntriesOK'
    BY <1>1, <1>x DEF EntriesOK, EntryNames
<1>f. FramesCounted'
    <2>2. ASSUME NEW f \in PgFrames
          PROVE  owners'[f] + One(HeapIs(p, f)) + One(job[t].frame = f)
                   = owners[f] + One(HeapIs(p, f)') + One(job'[t].frame = f)
        <3>1. f # 0 /\ owners[f] \in Nat /\ ~HeapIs(p, f) /\ (job[t].frame = f <=> f = o) /\ job'[t].frame # f
            BY <1>1, <1>r, <1>5, <1>o, PgNames DEF HeapIs, PgTypeOK
        <3>2. \/ ~HeapIs(p, f)' /\ owners'[f] = IF f = o THEN 0 ELSE owners[f]
              \/ (HeapIs(p, f)' <=> f = o) /\ owners'[f] = owners[f]
            BY <1>x, <1>r DEF HeapIs
        <3> QED BY <1>o, <3>1, <3>2 DEF One
    <2> QED BY <1>1, <1>3, <1>x, <1>5, <1>t, <2>2, HeapBooks
<1>s. SlotsCounted'
    <2>1. ASSUME NEW r \in PgSlots
          PROVE  slotOwners'[r] + One(HeapOut(p, r)) = slotOwners[r] + One(HeapOut(p, r)')
        <3>1. slotOwners[r] \in Nat /\ (HeapOut(p, r) <=> r = s)
            BY <1>1, <1>r DEF HeapOut, PgTypeOK
        <3>2. \/ (HeapOut(p, r)' <=> r = s) /\ slotOwners'[r] = slotOwners[r]
              \/ ~HeapOut(p, r)' /\ slotOwners'[r] = IF r = s THEN slotOwners[r] - 1 ELSE slotOwners[r]
            BY <1>x, <1>r DEF HeapOut
        <3> QED BY <3>1, <3>2 DEF One
    <2> QED BY <1>1, <1>x, <1>t, <2>1, OutBooks
<1>u. Touched(t) = {p}
    BY <1>0, <1>2 DEF Touched, Forking
<1>a. OtherSpacesStay(t)
    BY <1>0, <1>1, <1>2, <1>3, <1>x, <1>5, <1>o, <1>u DEF OtherSpacesStay, NotOthers, PgTypeOK
<1>b. LocksRespected(t)
    BY <1>0, <1>1, <1>2, <1>3, <1>h, <1>x DEF LocksRespected, NotOthers, PgTypeOK
<1>c. HandOK(t)' /\ LocksOK(t)' /\ PageOK(t)' /\ ChildOK(t)' /\ job'[t].at \notin Forking
    BY <1>5 DEF HandOK, LocksOK, PageOK, ChildOK, InHand, Cloning, Swapping, Forking
<1>d. SpaceOK(p)'
    <2>1. DeadOK(p)' /\ WritableAlone(p)'
        BY <1>2, <1>3, <1>o, <1>r, <1>x DEF DeadOK, WritableAlone
    <2>4. HeapOK(p)'
        <3>1. Heap(p)'.k # "none"
            BY <1>r, <1>x
        <3> QED BY <1>3, <1>h, <3>1 DEF HeapOK, One
    <2>2. TlbOwned(p)'
        <3> SUFFICES ASSUME NEW u \in PgThreads, Space(u) = p, tlb[u].f # 0
                     PROVE  \/ HeapIs(p, tlb[u].f)'
                            \/ \E z \in PgThreads : /\ Space(z) = p /\ job'[z].frame = tlb[u].f
                                                    /\ job'[z].at \in {"freeing", "leaving", "copied"}
            BY <1>3 DEF TlbOwned, HeapIs, Space
        <3>1. ~HeapIs(p, tlb[u].f)
            BY <1>r DEF HeapIs
        <3>2. PICK z \in PgThreads : /\ Space(z) = p /\ job[z].frame = tlb[u].f
                                      /\ job[z].at \in {"freeing", "leaving", "copied"}
            BY <1>1, <3>1 DEF SpaceOK, TlbOwned
        <3>3. z # t
            BY <1>2, <3>2
        <3> QED BY <1>5, <3>2, <3>3 DEF OnlyJob
    <2>3. BuffersKept(p)'
        BY <1>1, <1>3, <1>r DEF BuffersKept, SpaceOK
    <2> QED BY <2>1, <2>2, <2>3, <2>4 DEF SpaceOK
<1>g. ThreadDone(t)
    BY <1>c, <1>d, <1>u DEF ThreadDone
<1> QED BY <1>t, <1>e, <1>f, <1>s, <1>a, <1>b, <1>g, StepKeepsBooks

LEMMA SwapInKeeps ==
    ASSUME PgAssumption, PgBooks, NEW t \in PgThreads, SwapIn(t)
    PROVE  PgBooks'
<1>0. PICK p \in PgProcs : p = Space(t)
    BY BooksOf
<1>1. /\ PgTypeOK /\ EntriesOK /\ FramesCounted /\ SlotsCounted
      /\ SpaceOK(p) /\ HandOK(t) /\ Heap(p) \in PgEntry /\ First \in live /\ t \in Nat /\ t # 0
      /\ Heap(p).k = "out" => Heap(p).at \in PgSlots /\ Heap(p).at # 0
    BY <1>0, BooksOf
<1>2. /\ job[t].at = "idle" /\ p \in live /\ memLock[p] = 0 /\ Heap(p).k = "out" /\ HasFrame
      /\ pgCalls' = pgCalls
    BY <1>0 DEF SwapIn, Running, Heap
<1>n. PICK n \in PgFrames : n = NewFrame /\ owners[n] = 0
    BY <1>2, NewIsFree
<1>r. PICK s \in PgSlots : s # 0 /\ Heap(p).at = s /\ slotOwners[s] \in Nat /\ slotOwners[s] > 0
    BY <1>1, <1>2, SlotHolders DEF HeapOut, PgTypeOK
<1>h. heapOn[p] /\ promised[p] = 0
    BY <1>1, <1>2 DEF SpaceOK, HeapOK, One, PgTypeOK
<1>3. /\ UNCHANGED <<slotBytes, heapOn, promised, segment, live, mapLock, memLock, swapLock, tlb, inCall, holds, job>>
      /\ owners' = [owners EXCEPT ![n] = @ + 1] /\ bytes' = [bytes EXCEPT ![n] = slotBytes[s]]
      /\ tables' = [tables EXCEPT ![p]["heap"] = In(n, Heap(p).w)]
      /\ slotOwners' = [slotOwners EXCEPT ![s] = @ - 1]
    BY <1>0, <1>n, <1>r DEF SwapIn, userVars, lockVars, AddOwner, DropOwner, Heap
<1>4. /\ Heap(p)'.k = "in" /\ Heap(p)'.at = n
      /\ \A q \in PgProcs : q # p => Heap(q)' = Heap(q)
      /\ \A q \in PgProcs : Shm(q)' = Shm(q)
      /\ tables' \in [PgProcs -> [PgPages -> PgEntry]]
    <2>1. In(n, Heap(p).w) \in PgEntry
        BY <1>1, PgNames DEF In, PgEntry
    <2> QED BY <1>1, <1>3, <2>1 DEF Heap, Shm, PgTypeOK, PgPages, In
<1>5. \A g \in PgFrames : owners'[g] = IF g = n THEN 1 ELSE owners[g]
    BY <1>1, <1>3, <1>n DEF PgTypeOK
<1>7. /\ slotOwners' \in [PgSlots -> Nat]
      /\ \A r \in PgSlots : slotOwners'[r] = IF r = s THEN slotOwners[r] - 1 ELSE slotOwners[r]
    <2>1. slotOwners[s] - 1 \in Nat
        BY <1>r
    <2> QED BY <1>1, <1>3, <2>1 DEF PgTypeOK
<1>t. PgTypeOK'
    <2>1. owners' \in [PgFrames -> Nat] /\ bytes' \in [PgFrames -> Nat]
        <3>1. slotBytes[s] \in Nat /\ bytes \in [PgFrames -> Nat] /\ owners \in [PgFrames -> Nat]
            BY <1>1 DEF PgTypeOK
        <3> QED BY <1>3, <3>1
    <2> QED BY <1>1, <1>2, <1>3, <1>4, <1>7, <2>1 DEF PgTypeOK
<1>e. EntriesOK'
    BY <1>1, <1>4 DEF EntriesOK, EntryNames
<1>f. FramesCounted'
    <2>2. ASSUME NEW f \in PgFrames
          PROVE  owners'[f] + One(HeapIs(p, f)) + One(job[t].frame = f)
                   = owners[f] + One(HeapIs(p, f)') + One(job'[t].frame = f)
        <3>1. owners[f] \in Nat /\ ~HeapIs(p, f) /\ (HeapIs(p, f)' <=> f = n)
            BY <1>1, <1>2, <1>4 DEF HeapIs, PgTypeOK
        <3>2. One(HeapIs(p, f)) = 0 /\ One(HeapIs(p, f)') = One(f = n) /\ owners'[f] = owners[f] + One(f = n)
            BY <1>5, <1>n, <3>1 DEF One
        <3>3. One(job'[t].frame = f) = One(job[t].frame = f) /\ One(job[t].frame = f) \in Nat /\ One(f = n) \in Nat
            BY <1>3 DEF One
        <3> QED BY <3>1, <3>2, <3>3
    <2>3. OnlyJob(t)
        BY <1>3 DEF OnlyJob
    <2> QED BY <1>1, <1>3, <1>4, <1>t, <2>2, <2>3, HeapBooks
<1>s. SlotsCounted'
    <2>1. ASSUME NEW r \in PgSlots
          PROVE  slotOwners'[r] + One(HeapOut(p, r)) = slotOwners[r] + One(HeapOut(p, r)')
        <3>1. slotOwners[r] \in Nat /\ (HeapOut(p, r) <=> r = s) /\ ~HeapOut(p, r)'
            BY <1>1, <1>2, <1>4, <1>r DEF HeapOut, PgTypeOK
        <3> QED BY <1>7, <3>1 DEF One
    <2> QED BY <1>1, <1>4, <1>t, <2>1, OutBooks
<1>u. Touched(t) = {p}
    BY <1>0, <1>2 DEF Touched, Forking
<1>a. OtherSpacesStay(t)
    BY <1>0, <1>1, <1>2, <1>3, <1>4, <1>5, <1>n, <1>u DEF OtherSpacesStay, PgTypeOK, OnlyJob
<1>b. LocksRespected(t)
    BY <1>0, <1>1, <1>2, <1>3, <1>4, <1>h DEF LocksRespected, NotOthers, PgTypeOK
<1>c. HandOK(t)' /\ LocksOK(t)' /\ PageOK(t)' /\ ChildOK(t)' /\ job'[t].at \notin Forking
    BY <1>1, <1>2, <1>3
    DEF HandOK, LocksOK, PageOK, ChildOK, InHand, Cloning, Swapping, Forking
<1>d. SpaceOK(p)'
    <2>1. DeadOK(p)' /\ WritableAlone(p)'
        BY <1>2, <1>3, <1>4, <1>5 DEF DeadOK, WritableAlone
    <2>4. HeapOK(p)'
        BY <1>3, <1>4, <1>h DEF HeapOK, One
    <2>2. TlbOwned(p)'
        BY <1>0, <1>1, <1>2, <1>3, <1>4 DEF SpaceOK, TlbOwned, HeapIs, Space
    <2>3. BuffersKept(p)'
        BY <1>1, <1>2, <1>3 DEF BuffersKept, SpaceOK
    <2> QED BY <2>1, <2>2, <2>3, <2>4 DEF SpaceOK
<1>g. ThreadDone(t)
    BY <1>c, <1>d, <1>u DEF ThreadDone
<1> QED BY <1>t, <1>e, <1>f, <1>s, <1>a, <1>b, <1>g, StepKeepsBooks

LEMMA ShmGetKeeps ==
    ASSUME PgAssumption, PgBooks, NEW t \in PgThreads, ShmGet(t) \/ ShmRemove(t)
    PROVE  PgBooks'
<1>0. PICK p \in PgProcs : p = Space(t)
    BY BooksOf
<1>1. /\ PgTypeOK /\ EntriesOK /\ FramesCounted /\ SlotsCounted
      /\ SpaceOK(p) /\ HandOK(t) /\ LocksOK(t) /\ PageOK(t) /\ ChildOK(t) /\ First \in live /\ t \in Nat /\ t # 0
    BY <1>0, BooksOf
<1>2. /\ job[t].at = "idle" /\ p \in live /\ pgCalls' = pgCalls + 1
      /\ UNCHANGED <<tables, slotOwners, slotBytes, heapOn, promised, live, mapLock, memLock, swapLock, tlb, job, inCall, holds>>
    BY <1>0 DEF ShmGet, ShmRemove, Calling, swapVars, lockVars
<1>4. \A q \in PgProcs : Heap(q)' = Heap(q) /\ Shm(q)' = Shm(q)
    BY <1>2 DEF Heap, Shm
<1>x. PICK n \in PgFrames :
         /\ owners' \in [PgFrames -> Nat] /\ bytes' \in [PgFrames -> Nat]
         /\ \/ /\ segment = 0 /\ segment' = n /\ owners[n] = 0
               /\ \A f \in PgFrames : owners'[f] = IF f = n THEN owners[f] + 1 ELSE owners[f]
            \/ /\ segment = n /\ segment' = 0 /\ owners[n] > 0
               /\ \A f \in PgFrames : owners'[f] = IF f = n THEN owners[f] - 1 ELSE owners[f]
    <2>1. CASE ShmGet(t)
        <3>1. PICK n \in PgFrames : n = NewFrame /\ owners[n] = 0
            BY <2>1, NewIsFree DEF ShmGet
        <3>2. owners' = [owners EXCEPT ![n] = @ + 1] /\ bytes' = [bytes EXCEPT ![n] = 0] /\ segment = 0 /\ segment' = n
            BY <2>1, <3>1 DEF ShmGet, AddOwner
        <3>3. owners' \in [PgFrames -> Nat] /\ bytes' \in [PgFrames -> Nat]
            BY <1>1, <3>2 DEF PgTypeOK
        <3> QED BY <1>1, <3>1, <3>2, <3>3 DEF PgTypeOK
    <2>2. CASE ShmRemove(t)
        <3>1. PICK n \in PgFrames : n = segment /\ segment # 0
            BY <1>1, <2>2 DEF ShmRemove, PgTypeOK
        <3>2. owners' = [owners EXCEPT ![n] = @ - 1] /\ bytes' = bytes /\ segment' = 0
            BY <2>2, <3>1 DEF ShmRemove, DropOwner
        <3>3. owners[n] \in Nat /\ owners[n] # 0
            BY <1>1, <3>1, Holders DEF PgTypeOK
        <3>4. owners[n] > 0 /\ owners[n] - 1 \in Nat
            BY <3>3
        <3>5. owners' \in [PgFrames -> Nat] /\ bytes' \in [PgFrames -> Nat]
            BY <1>1, <3>2, <3>4 DEF PgTypeOK
        <3> QED BY <1>1, <3>1, <3>2, <3>4, <3>5 DEF PgTypeOK
    <2> QED BY <2>1, <2>2
<1>t. PgTypeOK'
    <2>1. segment' \in PgFrames \cup {0} /\ pgCalls' \in Nat
        BY <1>1, <1>2, <1>x DEF PgTypeOK
    <2> QED BY <1>1, <1>2, <1>x, <2>1 DEF PgTypeOK
<1>e. EntriesOK'
    BY <1>1, <1>4 DEF EntriesOK
<1>f. FramesCounted'
    <2>1. \A q \in PgProcs : \A f \in PgFrames : (HeapIs(q, f)' <=> HeapIs(q, f)) /\ (ShmIs(q, f)' <=> ShmIs(q, f))
        BY <1>4 DEF HeapIs, ShmIs
    <2>2. ASSUME NEW f \in PgFrames
          PROVE  owners'[f] + One(HeapIs(p, f)) + One(ShmIs(p, f)) + One(segment = f) + One(job[t].frame = f)
                   = owners[f] + One(HeapIs(p, f)') + One(ShmIs(p, f)') + One(segment' = f) + One(job'[t].frame = f)
        <3>1. /\ One(HeapIs(p, f)') = One(HeapIs(p, f)) /\ One(ShmIs(p, f)') = One(ShmIs(p, f))
              /\ One(job'[t].frame = f) = One(job[t].frame = f)
            BY <1>2, <2>1 DEF One
        <3>2. \A b : One(b) \in Nat
            BY DEF One
        <3>3. f # 0 /\ owners[f] \in Nat
            BY <1>1, PgNames DEF PgTypeOK
        <3>4. owners'[f] + One(segment = f) = owners[f] + One(segment' = f) /\ owners'[f] \in Nat
            BY <1>x, <3>3 DEF One
        <3> QED BY <3>1, <3>2, <3>3, <3>4
    <2>3. \A f \in PgFrames : owners[f] \in Nat /\ owners'[f] \in Nat
        BY <1>1, <1>x DEF PgTypeOK
    <2>4. \A u \in PgThreads : u # t => job'[u].frame = job[u].frame
        BY <1>2
    <2> QED BY <1>1, <2>1, <2>2, <2>3, <2>4, FrameBooks
<1>s. SlotsCounted'
    BY <1>1, <1>2, <1>4, SameBooks
<1>u. Touched(t) = {p}
    BY <1>0, <1>2 DEF Touched, Forking
<1>o. \A f \in PgFrames : owners'[f] = owners[f] \/ owners[f] = 0 \/ segment = f
    BY <1>x
<1>a. OtherSpacesStay(t)
    BY <1>0, <1>1, <1>2, <1>4, <1>o, <1>u DEF OtherSpacesStay, OnlyJob
<1>b. LocksRespected(t)
    BY <1>0, <1>1, <1>2, <1>4 DEF LocksRespected, PgTypeOK
<1>c. HandOK(t)' /\ LocksOK(t)' /\ PageOK(t)' /\ ChildOK(t)' /\ job'[t].at \notin Forking
    BY <1>1, <1>2
    DEF HandOK, LocksOK, PageOK, ChildOK, InHand, Cloning, Swapping, Forking
<1>d. SpaceOK(p)'
    <2>1. DeadOK(p)' /\ HeapOK(p)' /\ TlbOwned(p)'
        BY <1>1, <1>2, <1>4 DEF DeadOK, SpaceOK, HeapOK, TlbOwned, HeapIs
    <2>2. /\ \A u \in PgThreads : Space(u) = p => inCall'[u] = inCall[u]
          /\ \A u \in PgThreads : Space(u) = p /\ job[u].at \in Forking \ {"charging"} =>
               job'[u].at \in Forking \ {"charging"} /\ job'[u].child = job[u].child
        BY <1>2
    <2>3. WritableAlone(p)' /\ BuffersKept(p)'
        BY <1>4, <1>o, <2>2, PrivatePageStays
    <2> QED BY <2>1, <2>3 DEF SpaceOK
<1>g. ThreadDone(t)
    BY <1>c, <1>d, <1>u DEF ThreadDone
<1> QED BY <1>t, <1>e, <1>f, <1>s, <1>a, <1>b, <1>g, StepKeepsBooks

LEMMA ShmAttachKeeps ==
    ASSUME PgAssumption, PgBooks, NEW t \in PgThreads, ShmAttach(t)
    PROVE  PgBooks'
<1>0. PICK p \in PgProcs : p = Space(t)
    BY BooksOf
<1>1. /\ PgTypeOK /\ EntriesOK /\ FramesCounted /\ SlotsCounted
      /\ SpaceOK(p) /\ HandOK(t) /\ First \in live /\ t \in Nat /\ t # 0
    BY <1>0, BooksOf
<1>2. /\ job[t].at = "idle" /\ p \in live /\ mapLock[p] = 0 /\ memLock[p] = 0 /\ Shm(p).k = "none" /\ segment # 0
      /\ pgCalls' = pgCalls + 1
    BY <1>0 DEF ShmAttach, Calling, Shm
<1>3. /\ UNCHANGED <<tables, bytes, slotOwners, slotBytes, heapOn, promised, segment, live, swapLock, tlb, inCall, holds>>
      /\ mapLock' = [mapLock EXCEPT ![p] = t] /\ memLock' = [memLock EXCEPT ![p] = t]
      /\ owners' = [owners EXCEPT ![segment] = @ + 1]
    BY <1>0 DEF ShmAttach, swapVars, userVars, shm_take, AddOwner
<1>n. PICK n \in PgFrames : n = segment /\ n # 0
    BY <1>1, <1>2 DEF PgTypeOK
<1>4. \A q \in PgProcs : Heap(q)' = Heap(q) /\ Shm(q)' = Shm(q)
    BY <1>3 DEF Heap, Shm
<1>5. /\ job'[t].at = "attaching" /\ job'[t].frame = n /\ OnlyJob(t) /\ job' \in [PgThreads -> PgJob]
    <2>1. [NoJob EXCEPT !.at = "attaching", !.frame = n] \in PgJob
        BY DEF NoJob, PgJob, JobPlaces
    <2>2. job' = [job EXCEPT ![t] = [NoJob EXCEPT !.at = "attaching", !.frame = n]]
        BY <1>n DEF ShmAttach, Does
    <2> QED BY <1>1, <2>1, <2>2 DEF PgTypeOK, NoJob, OnlyJob
<1>6. \A f \in PgFrames : owners'[f] = IF f = n THEN owners[f] + 1 ELSE owners[f]
    BY <1>1, <1>3, <1>n DEF PgTypeOK
<1>t. PgTypeOK'
    <2>1. /\ owners' \in [PgFrames -> Nat] /\ memLock' \in [PgProcs -> Nat] /\ mapLock' \in [PgProcs -> Nat]
          /\ pgCalls' \in Nat
        BY <1>1, <1>2, <1>3 DEF PgTypeOK
    <2> QED BY <1>1, <1>3, <1>5, <2>1 DEF PgTypeOK
<1>e. EntriesOK'
    BY <1>1, <1>4 DEF EntriesOK
<1>f. FramesCounted'
    <2>2. ASSUME NEW f \in PgFrames
          PROVE  owners'[f] + One(HeapIs(p, f)) + One(job[t].frame = f)
                   = owners[f] + One(HeapIs(p, f)') + One(job'[t].frame = f)
        <3>1. /\ f # 0 /\ owners[f] \in Nat /\ (HeapIs(p, f)' <=> HeapIs(p, f)) /\ job[t].frame # f
              /\ job'[t].frame = n
            BY <1>1, <1>2, <1>4, <1>5, PgNames DEF HeapIs, PgTypeOK, HandOK, InHand
        <3> QED BY <1>6, <3>1 DEF One
    <2> QED BY <1>1, <1>3, <1>4, <1>5, <1>t, <2>2, HeapBooks
<1>s. SlotsCounted'
    BY <1>1, <1>3, <1>4, SameBooks
<1>u. Touched(t) = {p}
    BY <1>0, <1>2 DEF Touched, Forking
<1>o. \A f \in PgFrames : owners'[f] = owners[f] \/ owners[f] = 0 \/ segment = f
    BY <1>6, <1>n
<1>a. OtherSpacesStay(t)
    BY <1>0, <1>1, <1>2, <1>3, <1>4, <1>5, <1>o, <1>u DEF OtherSpacesStay, PgTypeOK
<1>b. LocksRespected(t)
    BY <1>0, <1>1, <1>2, <1>3, <1>4 DEF LocksRespected, NotOthers, PgTypeOK
<1>c. HandOK(t)' /\ LocksOK(t)' /\ PageOK(t)' /\ ChildOK(t)' /\ job'[t].at \notin Forking
    <2>1. memLock'[p] = t /\ mapLock'[p] = t
        BY <1>1, <1>3 DEF PgTypeOK
    <2> QED BY <1>0, <1>2, <1>3, <1>4, <1>5, <1>n, <2>1
        DEF HandOK, LocksOK, PageOK, ChildOK, InHand, Cloning, Swapping, Forking, Space
<1>d. SpaceOK(p)'
    <2>1. DeadOK(p)' /\ HeapOK(p)'
        BY <1>1, <1>2, <1>3, <1>4 DEF DeadOK, SpaceOK, HeapOK
    <2>4. TlbOwned(p)'
        <3> SUFFICES ASSUME NEW u \in PgThreads, Space(u) = p, tlb[u].f # 0
                     PROVE  \/ HeapIs(p, tlb[u].f)'
                            \/ \E z \in PgThreads : /\ Space(z) = p /\ job'[z].frame = tlb[u].f
                                                    /\ job'[z].at \in {"freeing", "leaving", "copied"}
            BY <1>3 DEF TlbOwned, HeapIs, Space
        <3>1. CASE HeapIs(p, tlb[u].f)
            BY <1>3, <1>4, <3>1 DEF HeapIs
        <3>2. CASE ~HeapIs(p, tlb[u].f)
            <4>2. PICK z \in PgThreads : /\ Space(z) = p /\ job[z].frame = tlb[u].f
                                          /\ job[z].at \in {"freeing", "leaving", "copied"}
                BY <1>1, <3>2 DEF SpaceOK, TlbOwned
            <4>3. z # t
                BY <1>2, <4>2
            <4> QED BY <1>5, <4>2, <4>3 DEF OnlyJob
        <3> QED BY <3>1, <3>2
    <2>2. /\ \A u \in PgThreads : Space(u) = p => inCall'[u] = inCall[u]
          /\ \A u \in PgThreads : Space(u) = p /\ job[u].at \in Forking \ {"charging"} =>
               job'[u].at \in Forking \ {"charging"} /\ job'[u].child = job[u].child
        BY <1>2, <1>3, <1>5 DEF OnlyJob, Forking
    <2>3. WritableAlone(p)' /\ BuffersKept(p)'
        BY <1>4, <1>o, <2>2, PrivatePageStays
    <2> QED BY <2>1, <2>3, <2>4 DEF SpaceOK
<1>g. ThreadDone(t)
    BY <1>c, <1>d, <1>u DEF ThreadDone
<1> QED BY <1>t, <1>e, <1>f, <1>s, <1>a, <1>b, <1>g, StepKeepsBooks

LEMMA ShmMapKeeps ==
    ASSUME PgAssumption, PgBooks, NEW t \in PgThreads, NEW ok \in BOOLEAN, ShmMap(t, ok)
    PROVE  PgBooks'
<1>0. PICK p \in PgProcs : p = Space(t)
    BY BooksOf
<1>1. /\ PgTypeOK /\ EntriesOK /\ FramesCounted /\ SlotsCounted
      /\ SpaceOK(p) /\ HandOK(t) /\ LocksOK(t) /\ PageOK(t) /\ First \in live /\ t \in Nat /\ t # 0 /\ job[t] \in PgJob
    BY <1>0, BooksOf
<1>2. job[t].at = "attaching" /\ p \in live /\ mapLock[p] = t /\ memLock[p] = t /\ Shm(p).k = "none"
    BY <1>0, <1>1 DEF ShmMap, HandOK, LocksOK, PageOK, InHand
<1>3. /\ UNCHANGED <<bytes, slotOwners, slotBytes, heapOn, promised, segment, live, swapLock, tlb, inCall, pgCalls, holds>>
      /\ mapLock' = [mapLock EXCEPT ![p] = 0] /\ memLock' = [memLock EXCEPT ![p] = 0]
    BY <1>0 DEF ShmMap, swapVars, userVars
<1>n. PICK n \in PgFrames : n = job[t].frame /\ n # 0
    BY <1>1, <1>2 DEF HandOK, InHand, PgJob
<1>5. job'[t].at = "idle" /\ job'[t].frame = 0 /\ OnlyJob(t) /\ job' \in [PgThreads -> PgJob]
    <2>1. NoJob \in PgJob
        BY DEF NoJob, PgJob, JobPlaces
    <2> QED BY <1>1, <2>1 DEF ShmMap, PgTypeOK, Does, NoJob, OnlyJob
<1>x. /\ tables' \in [PgProcs -> [PgPages -> PgEntry]] /\ owners' \in [PgFrames -> Nat]
      /\ \A q \in PgProcs : Heap(q)' = Heap(q) /\ (q # p => Shm(q)' = Shm(q))
      /\ \/ /\ Shm(p)'.k = "in" /\ Shm(p)'.at = n /\ \A f \in PgFrames : owners'[f] = owners[f]
         \/ /\ Shm(p)' = Shm(p) /\ owners[n] \in Nat /\ owners[n] > 0
            /\ \A f \in PgFrames : owners'[f] = IF f = n THEN owners[f] - 1 ELSE owners[f]
    <2>1. CASE ok
        <3>1. tables' = [tables EXCEPT ![p]["shm"] = In(n, TRUE)] /\ owners' = owners
            BY <1>0, <1>n, <2>1 DEF ShmMap
        <3> QED BY <1>1, <3>1, PgNames DEF PgTypeOK, PgPages, PgEntry, In, Heap, Shm
    <2>2. CASE ~ok
        <3>1. tables' = tables /\ owners' = [owners EXCEPT ![n] = @ - 1]
            BY <1>n, <2>2 DEF ShmMap, DropOwner
        <3>2. owners[n] \in Nat /\ owners[n] # 0
            BY <1>1, <1>n, Holders DEF PgTypeOK
        <3>3. owners[n] > 0 /\ owners[n] - 1 \in Nat /\ owners \in [PgFrames -> Nat]
            BY <1>1, <3>2 DEF PgTypeOK
        <3>4. owners' \in [PgFrames -> Nat] /\ \A f \in PgFrames : owners'[f] = IF f = n THEN owners[f] - 1 ELSE owners[f]
            BY <3>1, <3>3
        <3> QED BY <1>1, <3>1, <3>2, <3>3, <3>4 DEF PgTypeOK, Heap, Shm
    <2> QED BY <2>1, <2>2
<1>t. PgTypeOK'
    <2>1. memLock' \in [PgProcs -> Nat] /\ mapLock' \in [PgProcs -> Nat]
        BY <1>1, <1>3 DEF PgTypeOK
    <2> QED BY <1>1, <1>3, <1>5, <1>x, <2>1 DEF PgTypeOK
<1>e. EntriesOK'
    BY <1>1, <1>x DEF EntriesOK, EntryNames
<1>f. FramesCounted'
    <2>1. \A q \in PgProcs : q # p => \A f \in PgFrames : (HeapIs(q, f)' <=> HeapIs(q, f)) /\ (ShmIs(q, f)' <=> ShmIs(q, f))
        BY <1>x DEF HeapIs, ShmIs
    <2>2. ASSUME NEW f \in PgFrames
          PROVE  owners'[f] + One(HeapIs(p, f)) + One(ShmIs(p, f)) + One(segment = f) + One(job[t].frame = f)
                   = owners[f] + One(HeapIs(p, f)') + One(ShmIs(p, f)') + One(segment' = f) + One(job'[t].frame = f)
        <3>1. One(HeapIs(p, f)') = One(HeapIs(p, f)) /\ One(segment' = f) = One(segment = f) /\ One(ShmIs(p, f)) = 0
            BY <1>2, <1>3, <1>x DEF One, HeapIs, ShmIs
        <3>2. \A b : One(b) \in Nat
            BY DEF One
        <3>3. f # 0 /\ owners[f] \in Nat
            BY <1>1, PgNames DEF PgTypeOK
        <3>5. One(job[t].frame = f) = One(f = n) /\ One(job'[t].frame = f) = 0
            BY <1>5, <1>n, <3>3 DEF One
        <3>6. \/ One(ShmIs(p, f)') = One(f = n) /\ owners'[f] = owners[f]
              \/ One(ShmIs(p, f)') = 0 /\ owners'[f] = IF f = n THEN owners[f] - 1 ELSE owners[f]
            BY <1>2, <1>x DEF ShmIs, One
        <3>4. owners'[f] + One(f = n) = owners[f] + One(ShmIs(p, f)') /\ owners'[f] \in Nat
            BY <1>x, <3>3, <3>6 DEF One
        <3> QED BY <3>1, <3>2, <3>3, <3>4, <3>5
    <2>3. \A f \in PgFrames : owners[f] \in Nat /\ owners'[f] \in Nat
        BY <1>1, <1>x DEF PgTypeOK
    <2>4. \A u \in PgThreads : u # t => job'[u].frame = job[u].frame
        BY <1>5 DEF OnlyJob
    <2> QED BY <1>1, <2>1, <2>2, <2>3, <2>4, FrameBooks
<1>s. SlotsCounted'
    BY <1>1, <1>3, <1>x, SameBooks
<1>u. Touched(t) = {p}
    BY <1>0, <1>2 DEF Touched, Forking
<1>o. \A f \in PgFrames : owners'[f] = owners[f] \/ job[t].frame = f
    BY <1>x, <1>n
<1>a. OtherSpacesStay(t)
    BY <1>0, <1>1, <1>2, <1>3, <1>x, <1>5, <1>o, <1>u DEF OtherSpacesStay, PgTypeOK
<1>b. LocksRespected(t)
    BY <1>0, <1>1, <1>2, <1>3, <1>x DEF LocksRespected, NotOthers, PgTypeOK
<1>c. HandOK(t)' /\ LocksOK(t)' /\ PageOK(t)' /\ ChildOK(t)' /\ job'[t].at \notin Forking
    BY <1>5 DEF HandOK, LocksOK, PageOK, ChildOK, InHand, Cloning, Swapping, Forking
<1>d. SpaceOK(p)'
    <2>1. DeadOK(p)' /\ HeapOK(p)'
        BY <1>1, <1>2, <1>3, <1>x DEF DeadOK, SpaceOK, HeapOK
    <2>4. TlbOwned(p)'
        <3> SUFFICES ASSUME NEW u \in PgThreads, Space(u) = p, tlb[u].f # 0
                     PROVE  \/ HeapIs(p, tlb[u].f)'
                            \/ \E z \in PgThreads : /\ Space(z) = p /\ job'[z].frame = tlb[u].f
                                                    /\ job'[z].at \in {"freeing", "leaving", "copied"}
            BY <1>3 DEF TlbOwned, HeapIs, Space
        <3>1. CASE HeapIs(p, tlb[u].f)
            BY <1>3, <1>x, <3>1 DEF HeapIs
        <3>2. CASE ~HeapIs(p, tlb[u].f)
            <4>2. PICK z \in PgThreads : /\ Space(z) = p /\ job[z].frame = tlb[u].f
                                          /\ job[z].at \in {"freeing", "leaving", "copied"}
                BY <1>1, <3>2 DEF SpaceOK, TlbOwned
            <4>3. z # t
                BY <1>2, <4>2
            <4> QED BY <1>5, <4>2, <4>3 DEF OnlyJob
        <3> QED BY <3>1, <3>2
    <2>2. /\ \A u \in PgThreads : Space(u) = p => inCall'[u] = inCall[u]
          /\ \A u \in PgThreads : Space(u) = p /\ job[u].at \in Forking \ {"charging"} =>
               job'[u].at \in Forking \ {"charging"} /\ job'[u].child = job[u].child
        BY <1>2, <1>3, <1>5 DEF OnlyJob, Forking
    <2>3. WritableAlone(p)' /\ BuffersKept(p)'
        BY <1>x, <1>o, <2>2, PrivatePageStays
    <2> QED BY <2>1, <2>3, <2>4 DEF SpaceOK
<1>g. ThreadDone(t)
    BY <1>c, <1>d, <1>u DEF ThreadDone
<1> QED BY <1>t, <1>e, <1>f, <1>s, <1>a, <1>b, <1>g, StepKeepsBooks

LEMMA ExitKeeps ==
    ASSUME PgAssumption, PgBooks, NEW t \in PgThreads, Exit(t)
    PROVE  PgBooks'
<1>0. PICK p \in PgProcs : p = Space(t)
    BY BooksOf
<1>1. /\ PgTypeOK /\ SpaceOK(p) /\ HandOK(t) /\ LocksOK(t) /\ PageOK(t) /\ ChildOK(t) /\ First \in live
    BY <1>0, BooksOf
<1>2. /\ job[t].at = "idle" /\ p \in live /\ p # First /\ pgCalls' = pgCalls + 1
      /\ \A u \in PgThreads : Space(u) = p => job[u].at = "idle" /\ inCall[u] = "no"
      /\ UNCHANGED <<bytes, slotBytes, segment, mapLock, memLock, swapLock, job, inCall, holds>>
      /\ tlb' = [u \in PgThreads |-> IF Space(u) = p THEN NoTlb ELSE tlb[u]]
      /\ heapOn' = [heapOn EXCEPT ![p] = FALSE] /\ promised' = [promised EXCEPT ![p] = 0]
      /\ live' = live \ {p}
    BY <1>0 DEF Exit, Calling, lockVars, ThreadsOf
<1>3. /\ owners' = DropFrame(DropFrame(owners, tables[p]["heap"]), tables[p]["shm"])
      /\ slotOwners' = DropSlot(slotOwners, tables[p]["heap"])
      /\ tables' = [tables EXCEPT ![p] = [v \in PgPages |-> Absent]]
    BY <1>0 DEF Exit
<1>4. \A u \in PgThreads : job'[u].frame = job[u].frame
    BY <1>2
<1>x. /\ tables' \in [PgProcs -> [PgPages -> PgEntry]]
      /\ owners' \in [PgFrames -> Nat] /\ slotOwners' \in [PgSlots -> Nat]
      /\ Heap(p)' = Absent /\ Shm(p)' = Absent
      /\ \A q \in PgProcs : q # p => Heap(q)' = Heap(q) /\ Shm(q)' = Shm(q)
      /\ \A f \in PgFrames : owners'[f] = owners[f] - One(HeapIs(p, f)) - One(ShmIs(p, f))
      /\ EntriesOK' /\ FramesCounted' /\ SlotsCounted'
    BY <1>2, <1>3, <1>4, SpaceGoes
<1>t. PgTypeOK'
    <2>1. /\ tlb' \in [PgThreads -> [f : PgFrames \cup {0}, w : BOOLEAN]] /\ pgCalls' \in Nat
          /\ heapOn' \in [PgProcs -> BOOLEAN] /\ promised' \in [PgProcs -> Nat] /\ live' \in SUBSET PgProcs
        BY <1>1, <1>2 DEF PgTypeOK, NoTlb
    <2> QED BY <1>1, <1>2, <1>x, <2>1 DEF PgTypeOK
<1>u. Touched(t) = {p}
    BY <1>0, <1>2 DEF Touched, Forking
<1>o. \A f \in PgFrames : owners'[f] = owners[f] \/ HeapIs(p, f) \/ \E r \in PgProcs : ShmIs(r, f)
    <2> SUFFICES ASSUME NEW f \in PgFrames, ~HeapIs(p, f), ~ShmIs(p, f) PROVE owners'[f] = owners[f]
        OBVIOUS
    <2>1. owners[f] \in Nat /\ One(HeapIs(p, f)) = 0 /\ One(ShmIs(p, f)) = 0
        BY <1>1 DEF PgTypeOK, One
    <2> QED BY <1>x, <2>1
<1>a. OtherSpacesStay(t)
    BY <1>0, <1>1, <1>2, <1>x, <1>o, <1>u DEF OtherSpacesStay, PgTypeOK, OnlyJob, Space
<1>b. LocksRespected(t)
    BY <1>0, <1>1, <1>2 DEF LocksRespected
<1>c. HandOK(t)' /\ LocksOK(t)' /\ PageOK(t)' /\ ChildOK(t)' /\ job'[t].at \notin Forking
    BY <1>1, <1>2
    DEF HandOK, LocksOK, PageOK, ChildOK, InHand, Cloning, Swapping, Forking
<1>d. SpaceOK(p)'
    <2>0. /\ p \notin live' /\ ~heapOn'[p] /\ promised'[p] = 0 /\ Heap(p)'.k = "none"
          /\ \A u \in PgThreads : Space(u) = p => inCall'[u] = "no" /\ tlb'[u].f = 0
        BY <1>1, <1>2, <1>x DEF PgTypeOK, NoTlb, Absent
    <2>1. DeadOK(p)'
        BY <1>x, <2>0 DEF DeadOK, Heap, Shm, Space
    <2>2. HeapOK(p)' /\ WritableAlone(p)'
        BY <2>0 DEF HeapOK, WritableAlone, One
    <2>3. TlbOwned(p)' /\ BuffersKept(p)'
        BY <2>0 DEF TlbOwned, BuffersKept, Space
    <2> QED BY <2>1, <2>2, <2>3 DEF SpaceOK
<1>g. ThreadDone(t)
    BY <1>c, <1>d, <1>u DEF ThreadDone
<1> QED BY <1>t, <1>x, <1>a, <1>b, <1>g, StepKeepsBooks

LEMMA ForkUndoKeeps ==
    ASSUME PgAssumption, PgBooks, NEW t \in PgThreads, ForkUndo(t)
    PROVE  PgBooks'
<1>0. PICK p \in PgProcs : p = Space(t)
    BY BooksOf
<1>1. /\ PgTypeOK /\ FramesCounted /\ OneFork /\ SpaceOK(p) /\ HandOK(t) /\ First \in live
      /\ Heap(p).k = "in" => Heap(p).at \in PgFrames
    BY <1>0, BooksOf
<1>2. /\ job[t].at = "undoing" /\ p \in live /\ job[t].frame = 0
      /\ UNCHANGED <<bytes, slotBytes, heapOn, promised, segment, live, mapLock, memLock, swapLock>>
      /\ UNCHANGED <<tlb, inCall, pgCalls, holds>>
    BY <1>0, <1>1 DEF ForkUndo, userVars, lockVars, HandOK, InHand
<1>c. PICK c \in PgProcs : c = job[t].child /\ c \notin live /\ c # p
    BY <1>1, <1>2 DEF HandOK, Forking
<1>3. /\ owners' = DropFrame(DropFrame(owners, tables[c]["heap"]), tables[c]["shm"])
      /\ slotOwners' = DropSlot(slotOwners, tables[c]["heap"])
      /\ tables' = [tables EXCEPT ![c] = [v \in PgPages |-> Absent]]
    BY <1>c DEF ForkUndo
<1>5. job'[t].at = "idle" /\ job'[t].frame = 0 /\ OnlyJob(t) /\ job' \in [PgThreads -> PgJob]
    <2>1. NoJob \in PgJob
        BY DEF NoJob, PgJob, JobPlaces
    <2> QED BY <1>1, <2>1 DEF ForkUndo, PgTypeOK, Does, NoJob, OnlyJob
<1>4. \A u \in PgThreads : job'[u].frame = job[u].frame
    BY <1>2, <1>5 DEF OnlyJob
<1>x. /\ tables' \in [PgProcs -> [PgPages -> PgEntry]]
      /\ owners' \in [PgFrames -> Nat] /\ slotOwners' \in [PgSlots -> Nat]
      /\ Heap(c)' = Absent /\ Shm(c)' = Absent
      /\ \A q \in PgProcs : q # c => Heap(q)' = Heap(q) /\ Shm(q)' = Shm(q)
      /\ \A f \in PgFrames : owners'[f] = owners[f] - One(HeapIs(c, f)) - One(ShmIs(c, f))
      /\ EntriesOK' /\ FramesCounted' /\ SlotsCounted'
    BY <1>2, <1>3, <1>4, SpaceGoes
<1>t. PgTypeOK'
    BY <1>1, <1>2, <1>5, <1>x DEF PgTypeOK
<1>u. Touched(t) = {p, c}
    BY <1>0, <1>2, <1>c DEF Touched, Forking
<1>o. \A f \in PgFrames : ~HeapIs(c, f) /\ ~ShmIs(c, f) => owners'[f] = owners[f]
    <2> SUFFICES ASSUME NEW f \in PgFrames, ~HeapIs(c, f), ~ShmIs(c, f) PROVE owners'[f] = owners[f]
        OBVIOUS
    <2>1. owners[f] \in Nat /\ One(HeapIs(c, f)) = 0 /\ One(ShmIs(c, f)) = 0
        BY <1>1 DEF PgTypeOK, One
    <2> QED BY <1>x, <2>1
<1>a. OtherSpacesStay(t)
    BY <1>0, <1>1, <1>2, <1>5, <1>x, <1>o, <1>u DEF OtherSpacesStay
<1>b. LocksRespected(t)
    <2>1. promised'[p] <= promised[p]
        BY <1>1, <1>2 DEF PgTypeOK
    <2> QED BY <1>0, <1>1, <1>2, <1>c, <1>x, <2>1 DEF LocksRespected
<1>d. HandOK(t)' /\ LocksOK(t)' /\ PageOK(t)' /\ ChildOK(t)' /\ job'[t].at \notin Forking
    BY <1>5 DEF HandOK, LocksOK, PageOK, ChildOK, InHand, Cloning, Swapping, Forking
<1>e. SpaceOK(c)'
    <2>0. /\ c \notin live' /\ ~heapOn'[c] /\ promised'[c] = 0 /\ Heap(c)'.k = "none"
          /\ \A u \in PgThreads : Space(u) = c => inCall'[u] = "no" /\ tlb'[u].f = 0
        BY <1>2, <1>c, <1>x, BooksOf DEF Absent, SpaceOK, DeadOK
    <2>1. DeadOK(c)'
        BY <1>x, <2>0 DEF DeadOK, Heap, Shm, Space
    <2>2. HeapOK(c)' /\ WritableAlone(c)'
        BY <2>0 DEF HeapOK, WritableAlone, One
    <2>3. TlbOwned(c)' /\ BuffersKept(c)'
        BY <2>0 DEF TlbOwned, BuffersKept, Space
    <2> QED BY <2>1, <2>2, <2>3 DEF SpaceOK
<1>f. SpaceOK(p)'
    <2>0. Heap(p)' = Heap(p) /\ Shm(p)' = Shm(p)
        BY <1>c, <1>x
    <2>1. DeadOK(p)' /\ HeapOK(p)'
        BY <1>1, <1>2, <2>0 DEF DeadOK, HeapOK, SpaceOK
    <2>2. TlbOwned(p)'
        <3> SUFFICES ASSUME NEW u \in PgThreads, Space(u) = p, tlb[u].f # 0, ~HeapIs(p, tlb[u].f)
                     PROVE  \E z \in PgThreads : /\ Space(z) = p /\ job'[z].frame = tlb[u].f
                                                 /\ job'[z].at \in {"freeing", "leaving", "copied"}
            BY <1>2, <2>0 DEF TlbOwned, HeapIs, Space
        <3>2. PICK z \in PgThreads : /\ Space(z) = p /\ job[z].frame = tlb[u].f
                                      /\ job[z].at \in {"freeing", "leaving", "copied"}
            BY <1>1 DEF SpaceOK, TlbOwned
        <3>3. z # t
            BY <1>2, <3>2
        <3> QED BY <1>5, <3>2, <3>3 DEF OnlyJob
    <2>3. ASSUME Heap(p).k = "in", owners[Heap(p).at] = 1 PROVE owners'[Heap(p).at] = 1
        <3>1. PICK f \in PgFrames : f = Heap(p).at /\ HeapIs(p, f)
            BY <1>1, <2>3 DEF HeapIs
        <3>2. ~HeapIs(c, f) /\ ~ShmIs(c, f)
            BY <1>1, <1>c, <2>3, <3>1, Holders
        <3> QED BY <1>o, <2>3, <3>1, <3>2
    <2>4. WritableAlone(p)'
        BY <1>1, <2>0, <2>3 DEF WritableAlone, SpaceOK
    <2>5. BuffersKept(p)'
        <3> SUFFICES ASSUME NEW u \in PgThreads, Space(u) = p, inCall[u] = "using"
                     PROVE  Heap(p).k = "in" /\ owners'[Heap(p).at] = 1
            BY <1>2, <2>0 DEF BuffersKept, Space
        <3>1. PICK f \in PgFrames : Heap(p).k = "in" /\ Heap(p).at = f
            BY <1>1 DEF SpaceOK, BuffersKept
        <3>2. ASSUME NEW z \in PgThreads, owners[f] = 2, job[z].at \in Forking, HeapIs(job[z].child, f)
              PROVE  owners'[f] = 1
            <4>1. z = t /\ HeapIs(c, f)
                BY <1>1, <1>2, <1>c, <3>2 DEF OneFork, Forking
            <4>2. ~ShmIs(c, f)
                BY <1>1, <1>c, <3>1, <3>2, <4>1, Holders DEF HeapIs
            <4>3. One(HeapIs(c, f)) = 1 /\ One(ShmIs(c, f)) = 0
                BY <4>1, <4>2 DEF One
            <4> QED BY <1>x, <3>2, <4>3
        <3> QED BY <1>1, <2>3, <3>1, <3>2 DEF SpaceOK, BuffersKept
    <2> QED BY <2>1, <2>2, <2>4, <2>5 DEF SpaceOK
<1>g. ThreadDone(t)
    BY <1>d, <1>e, <1>f, <1>u DEF ThreadDone
<1> QED BY <1>t, <1>x, <1>a, <1>b, <1>g, StepKeepsBooks

LEMMA ForkBeginKeeps ==
    ASSUME PgAssumption, PgBooks, NEW t \in PgThreads, ForkBegin(t)
    PROVE  PgBooks'
<1>0. PICK p \in PgProcs : p = Space(t)
    BY BooksOf
<1>1. /\ PgTypeOK /\ EntriesOK /\ FramesCounted /\ SlotsCounted
      /\ SpaceOK(p) /\ HandOK(t) /\ First \in live /\ t \in Nat /\ t # 0
    BY <1>0, BooksOf
<1>2. /\ job[t].at = "idle" /\ p \in live /\ p = First /\ PgProcs # live /\ mapLock[p] = 0 /\ memLock[p] = 0
      /\ \A u \in PgThreads : job[u].at # "undoing"
      /\ pgCalls' = pgCalls + 1
    BY <1>0 DEF ForkBegin, Calling
<1>3. /\ UNCHANGED <<tables, owners, bytes, slotOwners, slotBytes, heapOn, promised, segment, live, swapLock, tlb, inCall, holds>>
      /\ mapLock' = [mapLock EXCEPT ![p] = t] /\ memLock' = [memLock EXCEPT ![p] = t]
    BY <1>0 DEF ForkBegin, frameVars, swapVars, userVars
<1>c. PICK c \in PgProcs : c = (CHOOSE q \in PgProcs : q \notin live) /\ c \notin live
    BY <1>1, <1>2 DEF PgTypeOK
<1>n. \A u \in PgThreads : job[u].at \notin Forking
    <2> SUFFICES ASSUME NEW u \in PgThreads, job[u].at \in Forking PROVE FALSE
        OBVIOUS
    <2>1. HandOK(u) /\ LocksOK(u) /\ u # 0
        BY BooksOf
    <2>2. job[u].at \in Cloning \cup {"charging"} /\ Space(u) = p
        BY <1>2, <2>1 DEF HandOK, Cloning, Forking
    <2>3. mapLock[p] = u
        BY <2>1, <2>2 DEF LocksOK
    <2> QED BY <1>2, <2>1, <2>3
<1>4. \A q \in PgProcs : Heap(q)' = Heap(q) /\ Shm(q)' = Shm(q)
    BY <1>3 DEF Heap, Shm
<1>5. /\ job'[t].at = "cloning" /\ job'[t].frame = 0 /\ job'[t].todo = PgPages /\ job'[t].child = c /\ OnlyJob(t)
      /\ job' \in [PgThreads -> PgJob]
    <2>1. [NoJob EXCEPT !.at = "cloning", !.todo = PgPages, !.child = c] \in PgJob
        BY DEF NoJob, PgJob, JobPlaces
    <2>2. job' = [job EXCEPT ![t] = [NoJob EXCEPT !.at = "cloning", !.todo = PgPages, !.child = c]]
        BY <1>c DEF ForkBegin, Does
    <2> QED BY <1>1, <2>1, <2>2 DEF PgTypeOK, NoJob, OnlyJob
<1>6. tables[c]["heap"] = Absent /\ tables[c]["shm"] = Absent
    BY <1>c, <1>n, BooksOf DEF SpaceOK, DeadOK
<1>t. PgTypeOK'
    <2>1. memLock' \in [PgProcs -> Nat] /\ mapLock' \in [PgProcs -> Nat] /\ pgCalls' \in Nat
        BY <1>1, <1>2, <1>3 DEF PgTypeOK
    <2> QED BY <1>1, <1>3, <1>5, <2>1 DEF PgTypeOK
<1>e. EntriesOK'
    BY <1>1, <1>4 DEF EntriesOK
<1>f. FramesCounted'
    <2>1. job[t].frame = 0
        BY <1>1, <1>2 DEF HandOK, InHand
    <2>2. ASSUME NEW f \in PgFrames
          PROVE  owners'[f] + One(HeapIs(p, f)) + One(job[t].frame = f)
                   = owners[f] + One(HeapIs(p, f)') + One(job'[t].frame = f)
        BY <1>3, <1>4, <1>5, <2>1 DEF HeapIs
    <2> QED BY <1>1, <1>3, <1>4, <1>5, <1>t, <2>2, HeapBooks
<1>s. SlotsCounted'
    BY <1>1, <1>3, <1>4, SameBooks
<1>u. Touched(t) = {p}
    BY <1>0, <1>2 DEF Touched, Forking
<1>a. OtherSpacesStay(t)
    BY <1>0, <1>1, <1>2, <1>3, <1>4, <1>5, <1>u DEF OtherSpacesStay, PgTypeOK
<1>b. LocksRespected(t)
    BY <1>0, <1>1, <1>2, <1>3, <1>4 DEF LocksRespected, NotOthers, PgTypeOK
<1>d. HandOK(t)' /\ LocksOK(t)' /\ PageOK(t)' /\ ChildOK(t)'
    <2>1. memLock'[p] = t /\ mapLock'[p] = t
        BY <1>1, <1>3 DEF PgTypeOK
    <2>2. HandOK(t)' /\ LocksOK(t)' /\ PageOK(t)'
        BY <1>0, <1>2, <1>3, <1>5, <1>c, <2>1
        DEF HandOK, LocksOK, PageOK, InHand, Cloning, Swapping, Forking, Space, First
    <2>3. /\ \A v \in PgPages : tables'[c][v] = Absent
          /\ tables'[c]["heap"].k = "none" /\ "heap" \in PgPages
        BY <1>3, <1>6 DEF PgPages, Absent
    <2>4. ChildOK(t)'
        BY <1>5, <2>3 DEF ChildOK, Cloning, Heap
    <2> QED BY <2>2, <2>4
<1>h. SpaceOK(p)'
    <2>1. DeadOK(p)' /\ HeapOK(p)'
        BY <1>1, <1>2, <1>3, <1>4 DEF DeadOK, SpaceOK, HeapOK
    <2>4. TlbOwned(p)'
        <3> SUFFICES ASSUME NEW u \in PgThreads, Space(u) = p, tlb[u].f # 0, ~HeapIs(p, tlb[u].f)
                     PROVE  \E z \in PgThreads : /\ Space(z) = p /\ job'[z].frame = tlb[u].f
                                                 /\ job'[z].at \in {"freeing", "leaving", "copied"}
            BY <1>3, <1>4 DEF TlbOwned, HeapIs, Space
        <3>2. PICK z \in PgThreads : /\ Space(z) = p /\ job[z].frame = tlb[u].f
                                      /\ job[z].at \in {"freeing", "leaving", "copied"}
            BY <1>1 DEF SpaceOK, TlbOwned
        <3>3. z # t
            BY <1>2, <3>2
        <3> QED BY <1>5, <3>2, <3>3 DEF OnlyJob
    <2>2. /\ \A u \in PgThreads : Space(u) = p => inCall'[u] = inCall[u]
          /\ \A u \in PgThreads : Space(u) = p /\ job[u].at \in Forking \ {"charging"} =>
               job'[u].at \in Forking \ {"charging"} /\ job'[u].child = job[u].child
        BY <1>3, <1>n
    <2>3. WritableAlone(p)' /\ BuffersKept(p)'
        BY <1>3, <1>4, <2>2, PrivatePageStays
    <2> QED BY <2>1, <2>3, <2>4 DEF SpaceOK
<1>g. ThreadDone(t)
    BY <1>2, <1>d, <1>h, <1>n, <1>u DEF ThreadDone, Forking
<1> QED BY <1>t, <1>e, <1>f, <1>s, <1>a, <1>b, <1>g, StepKeepsBooks

\* What is known while a fork goes on
LEMMA ForkerOf ==
    ASSUME PgAssumption, PgBooks, NEW t \in PgThreads, NEW p \in PgProcs, p = Space(t), job[t].at \in Forking
    PROVE  /\ p = First /\ p \in live /\ job[t].frame = 0
           /\ job[t].child \in PgProcs /\ job[t].child \notin live /\ job[t].child # p
           /\ Touched(t) = {p, job[t].child}
           /\ \A u \in PgThreads : job[u].at \in Forking => u = t
           /\ job[t].at \in Cloning => memLock[p] = t /\ mapLock[p] = t
           /\ job[t].at = "charging" => mapLock[p] = t
           /\ ~heapOn[job[t].child] /\ promised[job[t].child] = 0
           /\ \A u \in PgThreads : Space(u) = job[t].child => inCall[u] = "no" /\ tlb[u].f = 0
<1>1. /\ HandOK(t) /\ LocksOK(t) /\ OneFork /\ \A q \in PgProcs : SpaceOK(q)
    BY BooksOf
<1>2. job[t].at # "idle" /\ job[t].at \notin InHand \cup {"copied"}
    BY DEF Forking, InHand
<1>3. /\ p = First /\ p \in live /\ job[t].frame = 0
      /\ job[t].child \in PgProcs /\ job[t].child \notin live /\ job[t].child # p
    BY <1>1, <1>2 DEF HandOK
<1> QED BY <1>1, <1>3 DEF OneFork, LocksOK, SpaceOK, DeadOK, Touched

LEMMA ForkSyncKeeps ==
    ASSUME PgAssumption, PgBooks, NEW t \in PgThreads, ForkSync(t)
    PROVE  PgBooks'
<1>0. PICK p \in PgProcs : p = Space(t)
    BY BooksOf
<1>1. /\ PgTypeOK /\ EntriesOK /\ FramesCounted /\ SlotsCounted /\ First \in live /\ job[t] \in PgJob
      /\ SpaceOK(p) /\ HandOK(t) /\ LocksOK(t) /\ PageOK(t) /\ ChildOK(t) /\ t \in Nat /\ t # 0
    BY <1>0, BooksOf
<1>2. job[t].at = "cloned" /\ job[t].at \in Forking
    BY DEF ForkSync, Forking
<1>c. PICK c \in PgProcs : /\ c = job[t].child /\ c \notin live /\ c # p /\ p \in live /\ Touched(t) = {p, c}
                           /\ SpaceOK(c) /\ \A u \in PgThreads : Space(u) = c => inCall[u] = "no" /\ tlb[u].f = 0
    BY <1>0, <1>2, ForkerOf, BooksOf
<1>3. /\ UNCHANGED <<tables, owners, bytes, slotOwners, slotBytes, heapOn, promised, segment, live>>
      /\ UNCHANGED <<mapLock, memLock, swapLock, inCall, pgCalls>>
      /\ tlb' = [u \in PgThreads |-> IF Space(u) = p THEN NoTlb ELSE tlb[u]]
    BY <1>0 DEF ForkSync, frameVars, swapVars, userVars, lockVars, process_tlb_sync, ThreadsOf
<1>4. \A q \in PgProcs : Heap(q)' = Heap(q) /\ Shm(q)' = Shm(q)
    BY <1>3 DEF Heap, Shm
<1>5. /\ job'[t].at = "keeping" /\ job'[t].frame = job[t].frame /\ job'[t].todo = job[t].todo
      /\ job'[t].child = c /\ OnlyJob(t) /\ job' \in [PgThreads -> PgJob]
    <2>1. [job[t] EXCEPT !.at = "keeping"] \in PgJob
        BY <1>1 DEF PgJob, JobPlaces
    <2> QED BY <1>1, <1>c, <2>1 DEF ForkSync, Does, PgTypeOK, PgJob, OnlyJob
<1>t. PgTypeOK'
    <2>1. tlb' \in [PgThreads -> [f : PgFrames \cup {0}, w : BOOLEAN]]
        BY <1>1, <1>3 DEF PgTypeOK, NoTlb
    <2>2. holds' \in [PgProcs -> Nat]
        <3>1. PICK x \in Nat : holds' = [holds EXCEPT ![c] = x]
            <4>1. /\ Heap(c).k = "in" => bytes[Heap(c).at] \in Nat
                  /\ Heap(c).k = "out" => slotBytes[Heap(c).at] \in Nat
                BY <1>1, BooksOf DEF PgTypeOK
            <4>2. holds' = [holds EXCEPT ![c] = CASE Heap(c).k = "in" -> bytes[Heap(c).at]
                                                  [] Heap(c).k = "out" -> slotBytes[Heap(c).at]
                                                  [] OTHER -> 0]
                BY <1>c DEF ForkSync, Heap
            <4> QED BY <4>1, <4>2
        <3> QED BY <1>1, <3>1 DEF PgTypeOK
    <2> QED BY <1>1, <1>3, <1>5, <2>1, <2>2 DEF PgTypeOK
<1>e. EntriesOK'
    BY <1>1, <1>4 DEF EntriesOK
<1>f. FramesCounted'
    <2>1. ASSUME NEW g \in PgFrames
          PROVE  owners'[g] + One(HeapIs(p, g)) + One(job[t].frame = g)
                   = owners[g] + One(HeapIs(p, g)') + One(job'[t].frame = g)
        BY <1>3, <1>4, <1>5 DEF HeapIs
    <2> QED BY <1>1, <1>3, <1>4, <1>5, <1>t, <2>1, HeapBooks
<1>s. SlotsCounted'
    BY <1>1, <1>3, <1>4, SameBooks
<1>a. OtherSpacesStay(t)
    BY <1>0, <1>1, <1>3, <1>4, <1>5, <1>c DEF OtherSpacesStay, PgTypeOK, Space
<1>b. LocksRespected(t)
    <2>1. promised'[p] <= promised[p]
        BY <1>1, <1>3 DEF PgTypeOK
    <2> QED BY <1>0, <1>1, <1>3, <1>4, <1>c, <2>1 DEF LocksRespected
<1>d. HandOK(t)' /\ LocksOK(t)' /\ PageOK(t)' /\ ChildOK(t)' /\ job'[t].at \in Forking
    <2>1. HandOK(t)' /\ LocksOK(t)' /\ PageOK(t)' /\ job'[t].at \in Forking
        BY <1>0, <1>1, <1>2, <1>3, <1>5, <1>c
        DEF HandOK, LocksOK, PageOK, InHand, Cloning, Swapping, Forking, Space, First
    <2>2. /\ job[t].todo = {} /\ Heap(c).k = Heap(p).k /\ (~heapOn[p] => Heap(c).k = "none")
        BY <1>0, <1>1, <1>2, <1>c DEF ChildOK, Cloning
    <2>3. tables'[c]["heap"].k = tables'[p]["heap"].k /\ (~heapOn'[p] => tables'[c]["heap"].k = "none")
        BY <1>3, <2>2 DEF Heap
    <2>4. ChildOK(t)'
        BY <1>0, <1>5, <2>2, <2>3 DEF ChildOK, Cloning, Heap, Space
    <2> QED BY <2>1, <2>4
<1>h. SpaceOK(p)'
    <2>1. DeadOK(p)' /\ HeapOK(p)'
        BY <1>1, <1>c, <1>3, <1>4 DEF DeadOK, HeapOK, SpaceOK
    <2>2. TlbOwned(p)'
        BY <1>3 DEF TlbOwned, Space, NoTlb
    <2>3. /\ \A u \in PgThreads : Space(u) = p => inCall'[u] = inCall[u]
          /\ \A u \in PgThreads : Space(u) = p /\ job[u].at \in Forking \ {"charging"} =>
               job'[u].at \in Forking \ {"charging"} /\ job'[u].child = job[u].child
        BY <1>2, <1>3, <1>5, <1>c DEF OnlyJob, Forking
    <2>4. WritableAlone(p)' /\ BuffersKept(p)'
        BY <1>3, <1>4, <2>3, PrivatePageStays
    <2> QED BY <2>1, <2>2, <2>4 DEF SpaceOK
<1>i. SpaceOK(c)'
    <2>0. \A u \in PgThreads : Space(u) = c => inCall'[u] = "no" /\ tlb'[u].f = 0
        BY <1>3, <1>c
    <2>1. DeadOK(c)'
        BY <1>2, <1>3, <1>5, <1>c, <1>d, <2>0 DEF DeadOK, SpaceOK, Space
    <2>2. HeapOK(c)' /\ WritableAlone(c)'
        BY <1>3, <1>4, <1>c DEF HeapOK, WritableAlone, SpaceOK
    <2>3. TlbOwned(c)' /\ BuffersKept(c)'
        BY <2>0 DEF TlbOwned, BuffersKept, Space
    <2> QED BY <2>1, <2>2, <2>3 DEF SpaceOK
<1>g. ThreadDone(t)
    BY <1>2, <1>5, <1>c, <1>d, <1>h, <1>i DEF ThreadDone
<1> QED BY <1>t, <1>e, <1>f, <1>s, <1>a, <1>b, <1>g, StepKeepsBooks

LEMMA ForkChargeKeeps ==
    ASSUME PgAssumption, PgBooks, NEW t \in PgThreads, ForkCharge(t)
    PROVE  PgBooks'
<1>0. PICK p \in PgProcs : p = Space(t)
    BY BooksOf
<1>1. /\ PgTypeOK /\ EntriesOK /\ FramesCounted /\ SlotsCounted /\ First \in live /\ job[t] \in PgJob
      /\ SpaceOK(p) /\ HandOK(t) /\ ChildOK(t) /\ t \in Nat /\ t # 0
    BY <1>0, BooksOf
<1>2. job[t].at = "charging" /\ job[t].at \in Forking
    BY DEF ForkCharge, Forking
<1>c. PICK c \in PgProcs : /\ c = job[t].child /\ c \notin live /\ c # p /\ p \in live /\ Touched(t) = {p, c}
                           /\ SpaceOK(c) /\ \A u \in PgThreads : Space(u) = c => inCall[u] = "no" /\ tlb[u].f = 0
                           /\ mapLock[p] = t /\ job[t].frame = 0
                           /\ \A u \in PgThreads : job[u].at \in Forking => u = t
    BY <1>0, <1>2, ForkerOf, BooksOf
<1>3. /\ UNCHANGED <<tables, owners, bytes, slotOwners, slotBytes, segment, memLock, swapLock, tlb, inCall, pgCalls, holds>>
      /\ heapOn' = [heapOn EXCEPT ![c] = heapOn[p]] /\ promised' = [promised EXCEPT ![c] = promised[p]]
      /\ live' = live \cup {c} /\ mapLock' = [mapLock EXCEPT ![p] = 0]
    BY <1>0, <1>c DEF ForkCharge, frameVars, swapVars
<1>4. \A q \in PgProcs : Heap(q)' = Heap(q) /\ Shm(q)' = Shm(q)
    BY <1>3 DEF Heap, Shm
<1>5. job'[t].at = "idle" /\ job'[t].frame = 0 /\ OnlyJob(t) /\ job' \in [PgThreads -> PgJob]
    <2>1. NoJob \in PgJob
        BY DEF NoJob, PgJob, JobPlaces
    <2> QED BY <1>1, <2>1 DEF ForkCharge, PgTypeOK, Does, NoJob, OnlyJob
<1>6. /\ heapOn'[c] = heapOn[p] /\ promised'[c] = promised[p]
      /\ \A q \in PgProcs : q # c => heapOn'[q] = heapOn[q] /\ promised'[q] = promised[q]
    BY <1>1, <1>3 DEF PgTypeOK
<1>t. PgTypeOK'
    <2>1. /\ heapOn' \in [PgProcs -> BOOLEAN] /\ promised' \in [PgProcs -> Nat] /\ mapLock' \in [PgProcs -> Nat]
          /\ live' \in SUBSET PgProcs
        BY <1>1, <1>3 DEF PgTypeOK
    <2> QED BY <1>1, <1>3, <1>5, <2>1 DEF PgTypeOK
<1>e. EntriesOK'
    BY <1>1, <1>4 DEF EntriesOK
<1>f. FramesCounted'
    <2>1. ASSUME NEW g \in PgFrames
          PROVE  owners'[g] + One(HeapIs(p, g)) + One(job[t].frame = g)
                   = owners[g] + One(HeapIs(p, g)') + One(job'[t].frame = g)
        BY <1>3, <1>4, <1>5, <1>c DEF HeapIs
    <2> QED BY <1>1, <1>3, <1>4, <1>5, <1>t, <2>1, HeapBooks
<1>s. SlotsCounted'
    BY <1>1, <1>3, <1>4, SameBooks
<1>a. OtherSpacesStay(t)
    BY <1>0, <1>1, <1>3, <1>4, <1>5, <1>6, <1>c DEF OtherSpacesStay, PgTypeOK, Space
<1>b. LocksRespected(t)
    <2>1. promised'[p] <= promised[p] /\ heapOn'[p] = heapOn[p]
        BY <1>1, <1>6, <1>c DEF PgTypeOK
    <2> QED BY <1>0, <1>1, <1>3, <1>4, <1>c, <2>1 DEF LocksRespected, NotOthers
<1>d. HandOK(t)' /\ LocksOK(t)' /\ PageOK(t)' /\ ChildOK(t)' /\ job'[t].at \notin Forking
    BY <1>5 DEF HandOK, LocksOK, PageOK, ChildOK, InHand, Cloning, Swapping, Forking
<1>h. SpaceOK(p)'
    <2>1. DeadOK(p)' /\ HeapOK(p)' /\ WritableAlone(p)'
        BY <1>1, <1>c, <1>3, <1>4, <1>6 DEF DeadOK, HeapOK, WritableAlone, SpaceOK
    <2>2. TlbOwned(p)'
        <3> SUFFICES ASSUME NEW u \in PgThreads, Space(u) = p, tlb[u].f # 0, ~HeapIs(p, tlb[u].f)
                     PROVE  \E z \in PgThreads : /\ Space(z) = p /\ job'[z].frame = tlb[u].f
                                                 /\ job'[z].at \in {"freeing", "leaving", "copied"}
            BY <1>3, <1>4 DEF TlbOwned, HeapIs, Space
        <3>2. PICK z \in PgThreads : /\ Space(z) = p /\ job[z].frame = tlb[u].f
                                      /\ job[z].at \in {"freeing", "leaving", "copied"}
            BY <1>1 DEF SpaceOK, TlbOwned
        <3>3. z # t
            BY <1>2, <3>2
        <3> QED BY <1>5, <3>2, <3>3 DEF OnlyJob
    <2>3. /\ \A u \in PgThreads : Space(u) = p => inCall'[u] = inCall[u]
          /\ \A u \in PgThreads : Space(u) = p /\ job[u].at \in Forking \ {"charging"} =>
               job'[u].at \in Forking \ {"charging"} /\ job'[u].child = job[u].child
        BY <1>2, <1>3, <1>c
    <2>4. BuffersKept(p)'
        BY <1>3, <1>4, <2>3, PrivatePageStays
    <2> QED BY <2>1, <2>2, <2>4 DEF SpaceOK
<1>i. SpaceOK(c)'
    <2>0. /\ \A u \in PgThreads : Space(u) = c => inCall'[u] = "no" /\ tlb'[u].f = 0
          /\ c \in live'
        BY <1>3, <1>c
    <2>1. DeadOK(c)' /\ WritableAlone(c)'
        BY <1>3, <1>4, <1>c, <2>0 DEF DeadOK, WritableAlone, SpaceOK
    <2>2. HeapOK(c)'
        <3>1. /\ promised[p] <= One(heapOn[p] /\ Heap(c).k = "none")
              /\ ~heapOn[p] => Heap(c).k = "none"
            BY <1>0, <1>1, <1>2, <1>c DEF ChildOK
        <3> QED BY <1>4, <1>6, <3>1 DEF HeapOK
    <2>3. TlbOwned(c)' /\ BuffersKept(c)'
        BY <2>0 DEF TlbOwned, BuffersKept, Space
    <2> QED BY <2>1, <2>2, <2>3 DEF SpaceOK
<1>g. ThreadDone(t)
    BY <1>2, <1>5, <1>c, <1>d, <1>h, <1>i DEF ThreadDone
<1> QED BY <1>t, <1>e, <1>f, <1>s, <1>a, <1>b, <1>g, StepKeepsBooks

LEMMA ClonePageKeeps ==
    ASSUME PgAssumption, PgBooks, NEW t \in PgThreads, NEW v \in PgPages, ClonePage(t, v)
    PROVE  PgBooks'
<1>0. PICK p \in PgProcs : p = Space(t)
    BY BooksOf
<1>1. /\ PgTypeOK /\ EntriesOK /\ FramesCounted /\ SlotsCounted /\ First \in live /\ job[t] \in PgJob
      /\ SpaceOK(p) /\ HandOK(t) /\ LocksOK(t) /\ PageOK(t) /\ ChildOK(t) /\ t \in Nat /\ t # 0
      /\ Heap(p) \in PgEntry /\ Shm(p) \in PgEntry
      /\ Heap(p).k = "in" => Heap(p).at \in PgFrames
      /\ Heap(p).k = "out" => Heap(p).at \in PgSlots
      /\ Shm(p).k = "in" => Shm(p).at \in PgFrames
    BY <1>0, BooksOf
<1>2. job[t].at = "cloning" /\ job[t].at \in Forking /\ v \in job[t].todo
    BY DEF ClonePage, Forking
<1>c. PICK c \in PgProcs : /\ c = job[t].child /\ c \notin live /\ c # p /\ p \in live /\ Touched(t) = {p, c}
                           /\ SpaceOK(c) /\ \A u \in PgThreads : Space(u) = c => inCall[u] = "no" /\ tlb[u].f = 0
                           /\ ~heapOn[c] /\ promised[c] = 0
                           /\ memLock[p] = t /\ mapLock[p] = t /\ job[t].frame = 0
                           /\ \A u \in PgThreads : job[u].at \in Forking => u = t
    BY <1>0, <1>2, ForkerOf, BooksOf DEF Cloning
<1>3. UNCHANGED <<bytes, slotBytes, heapOn, promised, segment, live, mapLock, memLock, swapLock, tlb, inCall, pgCalls, holds>>
    BY DEF ClonePage, userVars, lockVars
<1>5. /\ job'[t].at = (IF job[t].todo = {v} THEN "cloned" ELSE "cloning") /\ job'[t].frame = 0
      /\ job'[t].todo = job[t].todo \ {v} /\ job'[t].child = c /\ OnlyJob(t) /\ job' \in [PgThreads -> PgJob]
      /\ job'[t].at \in {"cloned", "cloning"} /\ job'[t].at \in Forking
    <2>1. [job[t] EXCEPT !.todo = @ \ {v}, !.at = IF job[t].todo = {v} THEN "cloned" ELSE "cloning"] \in PgJob
        BY <1>1 DEF PgJob, JobPlaces
    <2>2. job' = [job EXCEPT ![t] = [job[t] EXCEPT !.todo = @ \ {v}, !.at = IF job[t].todo = {v} THEN "cloned" ELSE "cloning"]]
        BY DEF ClonePage, Does
    <2>3. job' \in [PgThreads -> PgJob] /\ OnlyJob(t)
        BY <1>1, <2>1, <2>2 DEF PgTypeOK, OnlyJob
    <2> QED BY <1>1, <1>c, <2>2, <2>3 DEF PgTypeOK, PgJob, Forking
<1>6. \A x \in job[t].todo : tables[c][x] = Absent
    BY <1>1, <1>2, <1>c DEF ChildOK
<1>x. PICK e \in PgEntry :
         /\ e.k = tables[p][v].k /\ e.at = tables[p][v].at
         /\ v = "heap" /\ e.k = "in" => ~e.w
         /\ v = "shm" => e = tables[p][v]
         /\ tables' = [tables EXCEPT ![p][v] = e, ![c][v] = e]
         /\ owners' = IF e.k = "in" THEN AddOwner(owners, e.at) ELSE owners
         /\ slotOwners' = IF e.k = "out" THEN AddOwner(slotOwners, e.at) ELSE slotOwners
    <2> DEFINE d == IF v = "heap" /\ tables[p][v].k = "in" THEN [tables[p][v] EXCEPT !.w = FALSE] ELSE tables[p][v]
    <2>1. tables[p][v] \in PgEntry
        BY <1>1 DEF PgTypeOK
    <2>2. /\ d \in PgEntry /\ d.k = tables[p][v].k /\ d.at = tables[p][v].at
          /\ v = "heap" /\ d.k = "in" => ~d.w
          /\ v = "shm" => d = tables[p][v]
        BY <2>1 DEF PgEntry
    <2>3. /\ tables' = [tables EXCEPT ![p][v] = d, ![c][v] = d]
          /\ owners' = IF d.k = "in" THEN AddOwner(owners, d.at) ELSE owners
          /\ slotOwners' = IF d.k = "out" THEN AddOwner(slotOwners, d.at) ELSE slotOwners
        BY <1>0, <1>c DEF ClonePage
    <2> HIDE DEF d
    <2> QED BY <2>2, <2>3
<1>y. /\ tables' \in [PgProcs -> [PgPages -> PgEntry]]
      /\ tables'[p][v] = e /\ tables'[c][v] = e
      /\ \A q \in PgProcs, x \in PgPages : (q # p /\ q # c) \/ x # v => tables'[q][x] = tables[q][x]
    <2> DEFINE g == [tables EXCEPT ![p][v] = e]
    <2>1. /\ g \in [PgProcs -> [PgPages -> PgEntry]]
          /\ g[p][v] = e /\ \A q \in PgProcs, x \in PgPages : q # p \/ x # v => g[q][x] = tables[q][x]
        BY <1>1 DEF PgTypeOK
    <2>2. tables' = [g EXCEPT ![c][v] = e]
        BY <1>x
    <2> HIDE DEF g
    <2> QED BY <1>c, <2>1, <2>2
<1>z. /\ owners' \in [PgFrames -> Nat] /\ slotOwners' \in [PgSlots -> Nat]
      /\ e.k = "in" => e.at \in PgFrames
      /\ e.k = "out" => e.at \in PgSlots /\ v = "heap"
      /\ \A f \in PgFrames : owners'[f] = owners[f] + One(e.k = "in" /\ e.at = f)
      /\ \A s \in PgSlots : slotOwners'[s] = slotOwners[s] + One(e.k = "out" /\ e.at = s)
    <2>1. /\ e.k = "in" => e.at \in PgFrames
          /\ e.k = "out" => e.at \in PgSlots /\ v = "heap"
        BY <1>1, <1>x DEF EntriesOK, EntryNames, Heap, Shm, PgPages
    <2>2. owners' \in [PgFrames -> Nat] /\ \A f \in PgFrames : owners'[f] = owners[f] + One(e.k = "in" /\ e.at = f)
        BY <1>1, <1>x, <2>1 DEF PgTypeOK, AddOwner, One
    <2>3. slotOwners' \in [PgSlots -> Nat] /\ \A s \in PgSlots : slotOwners'[s] = slotOwners[s] + One(e.k = "out" /\ e.at = s)
        BY <1>1, <1>x, <2>1 DEF PgTypeOK, AddOwner, One
    <2> QED BY <2>1, <2>2, <2>3
<1>t. PgTypeOK'
    BY <1>1, <1>3, <1>5, <1>y, <1>z DEF PgTypeOK
<1>w. /\ \A q \in PgProcs : q # c => Heap(q)'.k = Heap(q).k /\ Heap(q)'.at = Heap(q).at /\ Shm(q)' = Shm(q)
      /\ \A q \in PgProcs : q # c /\ q # p => Heap(q)' = Heap(q)
      /\ v = "heap" => /\ Heap(c) = Absent /\ Heap(p)' = e /\ Heap(c)' = e /\ e.k = Heap(p).k /\ e.at = Heap(p).at
                       /\ Shm(c)' = Shm(c)
      /\ v = "shm" => /\ Shm(c) = Absent /\ Shm(c)' = e /\ e = Shm(p)
                      /\ \A q \in PgProcs : Heap(q)' = Heap(q)
    BY <1>2, <1>6, <1>x, <1>y DEF Heap, Shm, PgPages
<1>v. v = "heap" \/ v = "shm"
    BY DEF PgPages
<1>e. EntriesOK'
    <2>1. \A q \in PgProcs : EntryNames(Heap(q)) /\ EntryNames(Shm(q)) /\ Shm(q).k # "out"
        BY <1>1 DEF EntriesOK
    <2>2. \A q \in PgProcs : (EntryNames(Heap(q)) /\ EntryNames(Shm(q)) /\ Shm(q).k # "out")'
        BY <1>v, <1>w, <1>z, <2>1 DEF EntryNames
    <2> QED BY <2>2 DEF EntriesOK
<1>f. FramesCounted'
    <2>1. \A q \in PgProcs : q # c => \A f \in PgFrames : (HeapIs(q, f)' <=> HeapIs(q, f)) /\ (ShmIs(q, f)' <=> ShmIs(q, f))
        BY <1>w DEF HeapIs, ShmIs
    <2>2. ASSUME NEW f \in PgFrames
          PROVE  owners'[f] + One(HeapIs(c, f)) + One(ShmIs(c, f)) + One(segment = f) + One(job[t].frame = f)
                   = owners[f] + One(HeapIs(c, f)') + One(ShmIs(c, f)') + One(segment' = f) + One(job'[t].frame = f)
        <3>1. One(segment' = f) = One(segment = f) /\ One(job'[t].frame = f) = One(job[t].frame = f)
            BY <1>3, <1>5, <1>c DEF One
        <3>2. \A b : One(b) \in Nat
            BY DEF One
        <3>3. owners[f] \in Nat /\ owners'[f] = owners[f] + One(e.k = "in" /\ e.at = f)
            BY <1>1, <1>z DEF PgTypeOK
        <3>4. CASE v = "heap"
            <4>1. One(HeapIs(c, f)) = 0 /\ One(HeapIs(c, f)') = One(e.k = "in" /\ e.at = f) /\ One(ShmIs(c, f)') = One(ShmIs(c, f))
                BY <1>w, <3>4 DEF HeapIs, ShmIs, One, Absent
            <4> QED BY <3>1, <3>2, <3>3, <4>1
        <3>5. CASE v = "shm"
            <4>1. One(ShmIs(c, f)) = 0 /\ One(ShmIs(c, f)') = One(e.k = "in" /\ e.at = f) /\ One(HeapIs(c, f)') = One(HeapIs(c, f))
                BY <1>w, <3>5 DEF HeapIs, ShmIs, One, Absent
            <4> QED BY <3>1, <3>2, <3>3, <4>1
        <3> QED BY <1>v, <3>4, <3>5
    <2>3. \A f \in PgFrames : owners[f] \in Nat /\ owners'[f] \in Nat
        BY <1>1, <1>z DEF PgTypeOK
    <2>4. \A u \in PgThreads : u # t => job'[u].frame = job[u].frame
        BY <1>5 DEF OnlyJob
    <2> QED BY <1>1, <2>1, <2>2, <2>3, <2>4, FrameBooks
<1>s. SlotsCounted'
    <2>1. \A q \in PgProcs : q # c => \A s \in PgSlots : HeapOut(q, s)' <=> HeapOut(q, s)
        BY <1>w DEF HeapOut
    <2>2. \A s \in PgSlots : slotOwners[s] \in Nat /\ slotOwners'[s] \in Nat
        BY <1>1, <1>z DEF PgTypeOK
    <2>3. ASSUME NEW s \in PgSlots
          PROVE  slotOwners'[s] + One(HeapOut(c, s)) = slotOwners[s] + One(HeapOut(c, s)')
        <3>1. CASE v = "heap"
            <4>1. One(HeapOut(c, s)) = 0 /\ One(HeapOut(c, s)') = One(e.k = "out" /\ e.at = s)
                BY <1>w, <3>1 DEF HeapOut, One, Absent
            <4>2. One(e.k = "out" /\ e.at = s) \in Nat
                BY DEF One
            <4> QED BY <1>z, <2>2, <4>1, <4>2
        <3>2. CASE v = "shm"
            <4>1. One(HeapOut(c, s)') = One(HeapOut(c, s)) /\ One(e.k = "out" /\ e.at = s) = 0 /\ One(HeapOut(c, s)) \in Nat
                BY <1>w, <1>z, <3>2 DEF HeapOut, One
            <4> QED BY <1>z, <2>2, <4>1
        <3> QED BY <1>v, <3>1, <3>2
    <2> QED BY <1>1, <2>1, <2>2, <2>3, SlotBooks
<1>o. \A f \in PgFrames : \/ owners'[f] = owners[f] \/ (v = "heap" /\ HeapIs(p, f)) \/ (v = "shm" /\ ShmIs(p, f))
    <2> SUFFICES ASSUME NEW f \in PgFrames, ~(v = "heap" /\ HeapIs(p, f)), ~(v = "shm" /\ ShmIs(p, f))
                 PROVE  owners'[f] = owners[f]
        OBVIOUS
    <2>1. One(e.k = "in" /\ e.at = f) = 0 /\ owners[f] \in Nat
        BY <1>1, <1>v, <1>w DEF One, HeapIs, ShmIs, PgTypeOK
    <2> QED BY <1>z, <2>1
<1>a. OtherSpacesStay(t)
    BY <1>0, <1>1, <1>3, <1>5, <1>c, <1>o, <1>w DEF OtherSpacesStay
<1>b. LocksRespected(t)
    BY <1>0, <1>1, <1>3, <1>c DEF LocksRespected, NotOthers
<1>d. HandOK(t)' /\ LocksOK(t)' /\ PageOK(t)' /\ ChildOK(t)'
    <2>1. HandOK(t)' /\ LocksOK(t)' /\ PageOK(t)'
        BY <1>0, <1>1, <1>2, <1>3, <1>5, <1>c
        DEF HandOK, LocksOK, PageOK, InHand, Cloning, Swapping, Forking, Space, First
    <2>2. \A x \in job'[t].todo : tables'[c][x] = Absent
        <3>1. \A x \in job[t].todo \ {v} : x \in PgPages /\ tables[c][x] = Absent /\ x # v
            BY <1>1, <1>6 DEF PgJob
        <3> QED BY <1>5, <1>y, <3>1
    <2>3. job'[t].at = "cloned" => job'[t].todo = {}
        BY <1>5
    <2>4. "heap" \notin job'[t].todo => Heap(c)'.k = Heap(p)'.k
        <3>1. CASE v = "heap"
            BY <1>w, <3>1
        <3>2. CASE v = "shm"
            <4>1. "heap" \notin job[t].todo => Heap(c).k = Heap(p).k
                BY <1>0, <1>1, <1>2, <1>c DEF ChildOK, Cloning
            <4> QED BY <1>5, <1>w, <3>2, <4>1
        <3> QED BY <1>v, <3>1, <3>2
    <2>5. ~heapOn'[p] => Heap(c)'.k = "none"
        <3>1. CASE v = "heap"
            BY <1>1, <1>3, <1>c, <1>w, <3>1 DEF SpaceOK, HeapOK
        <3>2. CASE v = "shm"
            <4>1. ~heapOn[p] => Heap(c).k = "none"
                BY <1>0, <1>1, <1>2, <1>c DEF ChildOK, Cloning
            <4> QED BY <1>3, <1>w, <3>2, <4>1
        <3> QED BY <1>v, <3>1, <3>2
    <2>6. ChildOK(t)'
        BY <1>0, <1>5, <2>2, <2>3, <2>4, <2>5 DEF ChildOK, Cloning, Heap, Space
    <2> QED BY <2>1, <2>6
<1>h. SpaceOK(p)'
    <2>1. DeadOK(p)' /\ HeapOK(p)'
        BY <1>1, <1>c, <1>3, <1>w DEF DeadOK, HeapOK, SpaceOK
    <2>2. TlbOwned(p)'
        <3> SUFFICES ASSUME NEW u \in PgThreads, Space(u) = p, tlb[u].f # 0, ~HeapIs(p, tlb[u].f)
                     PROVE  \E z \in PgThreads : /\ Space(z) = p /\ job'[z].frame = tlb[u].f
                                                 /\ job'[z].at \in {"freeing", "leaving", "copied"}
            BY <1>3, <1>c, <1>w DEF TlbOwned, HeapIs, Space
        <3>2. PICK z \in PgThreads : /\ Space(z) = p /\ job[z].frame = tlb[u].f
                                      /\ job[z].at \in {"freeing", "leaving", "copied"}
            BY <1>1 DEF SpaceOK, TlbOwned
        <3>3. z # t
            BY <1>2, <3>2
        <3> QED BY <1>5, <3>2, <3>3 DEF OnlyJob
    <2>3. CASE v = "shm"
        <3>1. /\ \A u \in PgThreads : Space(u) = p => inCall'[u] = inCall[u]
              /\ \A u \in PgThreads : Space(u) = p /\ job[u].at \in Forking \ {"charging"} =>
                   job'[u].at \in Forking \ {"charging"} /\ job'[u].child = job[u].child
            BY <1>3, <1>5, <1>c
        <3>2. /\ \A q \in PgProcs : Heap(q)' = Heap(q)
              /\ \A f \in PgFrames : owners'[f] = owners[f] \/ \E r \in PgProcs : ShmIs(r, f)
            BY <1>o, <1>w, <2>3
        <3>3. WritableAlone(p)' /\ BuffersKept(p)'
            BY <3>1, <3>2, PrivatePageStays
        <3> QED BY <2>1, <2>2, <3>3 DEF SpaceOK
    <2>4. CASE v = "heap"
        <3>1. WritableAlone(p)'
            BY <1>w, <1>x, <2>4 DEF WritableAlone
        <3>2. BuffersKept(p)'
            <4> SUFFICES ASSUME NEW u \in PgThreads, Space(u) = p, inCall[u] = "using" PROVE BuffersKept(p)'
                BY <1>3 DEF BuffersKept, Space
            <4>1. PICK f \in PgFrames : Heap(p).k = "in" /\ Heap(p).at = f
                BY <1>1 DEF SpaceOK, BuffersKept
            <4>2. owners[f] = 1
                <5>1. ASSUME NEW z \in PgThreads, job[z].at \in Forking, HeapIs(job[z].child, f) PROVE FALSE
                    BY <1>c, <1>w, <2>4, <5>1 DEF HeapIs, Absent
                <5> QED BY <1>1, <4>1, <5>1 DEF SpaceOK, BuffersKept
            <4>3. /\ owners'[f] = 2 /\ Heap(p)'.k = "in" /\ Heap(p)'.at = f /\ Heap(c)'.k = "in" /\ Heap(c)'.at = f
                BY <1>w, <1>z, <2>4, <4>1, <4>2 DEF One
            <4>4. job'[t].at \in Forking \ {"charging"} /\ job'[t].child = c
                BY <1>5
            <4> QED BY <1>0, <4>3, <4>4 DEF BuffersKept, HeapIs, Heap, Space
        <3> QED BY <2>1, <2>2, <3>1, <3>2 DEF SpaceOK
    <2> QED BY <1>v, <2>3, <2>4
<1>i. SpaceOK(c)'
    <2>0. /\ \A u \in PgThreads : Space(u) = c => inCall'[u] = "no" /\ tlb'[u].f = 0
          /\ c \notin live' /\ ~heapOn'[c] /\ promised'[c] = 0
        BY <1>3, <1>c
    <2>1. DeadOK(c)'
        BY <1>5, <2>0 DEF DeadOK, Space
    <2>2. HeapOK(c)'
        BY <2>0 DEF HeapOK, One
    <2>3. WritableAlone(c)'
        <3>1. CASE v = "heap"
            BY <1>w, <1>x, <3>1 DEF WritableAlone
        <3>2. CASE v = "shm"
            <4>1. /\ \A u \in PgThreads : Space(u) = c => inCall'[u] = inCall[u]
                  /\ \A u \in PgThreads : Space(u) = c /\ job[u].at \in Forking \ {"charging"} =>
                       job'[u].at \in Forking \ {"charging"} /\ job'[u].child = job[u].child
                BY <1>3, <1>5, <1>c
            <4>2. /\ \A q \in PgProcs : Heap(q)' = Heap(q)
                  /\ \A f \in PgFrames : owners'[f] = owners[f] \/ \E r \in PgProcs : ShmIs(r, f)
                BY <1>o, <1>w, <3>2
            <4> QED BY <4>1, <4>2, PrivatePageStays
        <3> QED BY <1>v, <3>1, <3>2
    <2>4. TlbOwned(c)' /\ BuffersKept(c)'
        BY <2>0 DEF TlbOwned, BuffersKept, Space
    <2> QED BY <2>1, <2>2, <2>3, <2>4 DEF SpaceOK
<1>g. ThreadDone(t)
    BY <1>2, <1>5, <1>c, <1>d, <1>h, <1>i DEF ThreadDone
<1> QED BY <1>t, <1>e, <1>f, <1>s, <1>a, <1>b, <1>g, StepKeepsBooks

LEMMA ForkKeepKeeps ==
    ASSUME PgAssumption, PgBooks, NEW t \in PgThreads, NEW enough \in BOOLEAN, ForkKeep(t, enough)
    PROVE  PgBooks'
<1>0. PICK p \in PgProcs : p = Space(t)
    BY BooksOf
<1>1. /\ PgTypeOK /\ EntriesOK /\ FramesCounted /\ SlotsCounted /\ First \in live /\ job[t] \in PgJob
      /\ SpaceOK(p) /\ HandOK(t) /\ LocksOK(t) /\ PageOK(t) /\ ChildOK(t) /\ t \in Nat /\ t # 0
      /\ Heap(p) \in PgEntry
      /\ Heap(p).k = "in" => Heap(p).at \in PgFrames /\ Heap(p).at # 0
    BY <1>0, BooksOf
<1>2. job[t].at = "keeping" /\ job[t].at \in Forking
    BY DEF ForkKeep, Forking
<1>c. PICK c \in PgProcs : /\ c = job[t].child /\ c \notin live /\ c # p /\ p \in live /\ Touched(t) = {p, c}
                           /\ SpaceOK(c) /\ \A u \in PgThreads : Space(u) = c => inCall[u] = "no" /\ tlb[u].f = 0
                           /\ ~heapOn[c] /\ promised[c] = 0
                           /\ memLock[p] = t /\ mapLock[p] = t /\ job[t].frame = 0
                           /\ \A u \in PgThreads : job[u].at \in Forking => u = t
                           /\ Heap(c).k = "in" => Heap(c).at \in PgFrames
    BY <1>0, <1>2, ForkerOf, BooksOf DEF Cloning
<1>3. /\ UNCHANGED <<slotOwners, slotBytes, heapOn, promised, segment, live, swapLock, inCall, pgCalls, holds>>
      /\ memLock' = [memLock EXCEPT ![p] = 0]
    BY <1>0 DEF ForkKeep, swapVars, userVars
<1> DEFINE keep == RangeBusy(p) /\ Heap(p).k = "in" /\ ~Heap(p).w
           copy == keep /\ owners[Heap(p).at] # 1
           goes == enough /\ (copy => HasFrame)
<1>5. /\ job'[t].at = (IF goes THEN "charging" ELSE "undoing") /\ job'[t].frame = 0 /\ job'[t].todo = job[t].todo
      /\ job'[t].child = c /\ OnlyJob(t) /\ job' \in [PgThreads -> PgJob] /\ job'[t].at \in Forking
      /\ mapLock' = IF goes THEN mapLock ELSE [mapLock EXCEPT ![p] = 0]
    <2>1. [job[t] EXCEPT !.at = IF goes THEN "charging" ELSE "undoing"] \in PgJob
        BY <1>1 DEF PgJob, JobPlaces
    <2>2. /\ job' = [job EXCEPT ![t] = [job[t] EXCEPT !.at = IF goes THEN "charging" ELSE "undoing"]]
          /\ mapLock' = IF goes THEN mapLock ELSE [mapLock EXCEPT ![p] = 0]
        BY <1>0 DEF ForkKeep, Does, MayTake, Heap
    <2> HIDE DEF goes
    <2>3. job' \in [PgThreads -> PgJob] /\ OnlyJob(t)
        BY <1>1, <2>1, <2>2 DEF PgTypeOK, OnlyJob
    <2>4. job'[t] = [job[t] EXCEPT !.at = IF goes THEN "charging" ELSE "undoing"]
        BY <1>1, <2>2 DEF PgTypeOK
    <2> QED BY <1>1, <1>c, <2>2, <2>3, <2>4 DEF PgJob, Forking
<1>6. tlb' = IF keep THEN [u \in PgThreads |-> IF Space(u) = p THEN NoTlb ELSE tlb[u]] ELSE tlb
    BY <1>0 DEF ForkKeep, process_tlb_sync, ThreadsOf, Heap
<1>x. \/ /\ ~(copy /\ HasFrame) /\ owners' = owners /\ bytes' = bytes
         /\ tables' = IF keep /\ ~copy THEN [tables EXCEPT ![p]["heap"] = In(Heap(p).at, TRUE)] ELSE tables
      \/ /\ copy /\ \E n \in PgFrames :
              /\ owners[n] = 0 /\ tables' = [tables EXCEPT ![p]["heap"] = In(n, TRUE)]
              /\ owners' = DropOwner(AddOwner(owners, n), Heap(p).at)
              /\ bytes' = [bytes EXCEPT ![n] = bytes[Heap(p).at]]
    <2>1. CASE copy /\ HasFrame
        BY <1>0, <2>1, NewIsFree DEF ForkKeep, MayTake, Heap
    <2>2. CASE ~(copy /\ HasFrame)
        BY <1>0, <2>2 DEF ForkKeep, MayTake, Heap
    <2> QED BY <2>1, <2>2
<1>y. /\ tables' \in [PgProcs -> [PgPages -> PgEntry]] /\ owners' \in [PgFrames -> Nat] /\ bytes' \in [PgFrames -> Nat]
      /\ \A q \in PgProcs : (q # p => Heap(q)' = Heap(q)) /\ Shm(q)' = Shm(q)
      /\ Heap(p)'.k = Heap(p).k
      /\ \/ /\ ~copy \/ ~HasFrame
            /\ \A f \in PgFrames : owners'[f] = owners[f]
            /\ Heap(p)'.at = Heap(p).at
            /\ (keep /\ ~copy) \/ Heap(p)' = Heap(p)
         \/ /\ copy /\ Heap(p)'.at \in PgFrames /\ Heap(p)'.at # Heap(p).at /\ owners[Heap(p)'.at] = 0
            /\ owners[Heap(p).at] \in Nat /\ owners[Heap(p).at] > 1
            /\ \A f \in PgFrames : owners'[f] = IF f = Heap(p)'.at THEN 1
                                                ELSE IF f = Heap(p).at THEN owners[f] - 1 ELSE owners[f]
    <2>1. CASE /\ ~(copy /\ HasFrame) /\ owners' = owners /\ bytes' = bytes
               /\ tables' = IF keep /\ ~copy THEN [tables EXCEPT ![p]["heap"] = In(Heap(p).at, TRUE)] ELSE tables
        <3>1. CASE keep /\ ~copy
            <4>1. In(Heap(p).at, TRUE) \in PgEntry /\ In(Heap(p).at, TRUE).k = "in" /\ In(Heap(p).at, TRUE).at = Heap(p).at
                BY <1>1 DEF In, PgEntry
            <4>2. tables' = [tables EXCEPT ![p]["heap"] = In(Heap(p).at, TRUE)]
                BY <2>1, <3>1
            <4>3. /\ tables' \in [PgProcs -> [PgPages -> PgEntry]]
                  /\ \A q \in PgProcs : (q # p => Heap(q)' = Heap(q)) /\ Shm(q)' = Shm(q)
                  /\ tables'[p]["heap"] = In(Heap(p).at, TRUE)
                BY <1>1, <4>1, <4>2 DEF PgTypeOK, PgPages, Heap, Shm
            <4>4. Heap(p)'.k = Heap(p).k /\ Heap(p)'.at = Heap(p).at
                BY <3>1, <4>1, <4>3 DEF Heap
            <4> HIDE DEF keep, copy
            <4> QED BY <1>1, <2>1, <3>1, <4>3, <4>4 DEF PgTypeOK
        <3>2. CASE ~(keep /\ ~copy)
            <4>1. tables' = tables
                BY <2>1, <3>2
            <4>2. \A q \in PgProcs : Heap(q)' = Heap(q) /\ Shm(q)' = Shm(q)
                BY <4>1 DEF Heap, Shm
            <4> HIDE DEF keep, copy
            <4> QED BY <1>1, <2>1, <4>1, <4>2 DEF PgTypeOK
        <3> QED BY <3>1, <3>2
    <2>2. ASSUME copy, NEW n \in PgFrames, owners[n] = 0, tables' = [tables EXCEPT ![p]["heap"] = In(n, TRUE)],
                 owners' = DropOwner(AddOwner(owners, n), Heap(p).at), bytes' = [bytes EXCEPT ![n] = bytes[Heap(p).at]]
          PROVE  /\ tables' \in [PgProcs -> [PgPages -> PgEntry]] /\ owners' \in [PgFrames -> Nat] /\ bytes' \in [PgFrames -> Nat]
                 /\ \A q \in PgProcs : (q # p => Heap(q)' = Heap(q)) /\ Shm(q)' = Shm(q)
                 /\ Heap(p)'.k = "in" /\ Heap(p)'.at = n /\ n # Heap(p).at
                 /\ owners[Heap(p).at] \in Nat /\ owners[Heap(p).at] > 1
                 /\ \A f \in PgFrames : owners'[f] = IF f = n THEN 1
                                                     ELSE IF f = Heap(p).at THEN owners[f] - 1 ELSE owners[f]
        <3>o. PICK o \in PgFrames : o = Heap(p).at /\ o # 0 /\ HeapIs(p, o)
            BY <1>1, <2>2 DEF HeapIs
        <3>1. owners[o] \in Nat /\ owners[o] # 0 /\ owners[o] # 1
            BY <1>1, <2>2, <3>o, Holders DEF PgTypeOK
        <3>2. owners[o] > 1 /\ n # o /\ owners[o] - 1 \in Nat
            BY <2>2, <3>1
        <3>3. owners' = [[owners EXCEPT ![n] = @ + 1] EXCEPT ![o] = @ - 1]
            BY <2>2, <3>o DEF DropOwner, AddOwner
        <3>4. /\ owners' \in [PgFrames -> Nat]
              /\ \A f \in PgFrames : owners'[f] = IF f = n THEN 1 ELSE IF f = o THEN owners[f] - 1 ELSE owners[f]
            <4> DEFINE g == [owners EXCEPT ![n] = @ + 1]
            <4>1. /\ g \in [PgFrames -> Nat]
                  /\ \A f \in PgFrames : g[f] = IF f = n THEN 1 ELSE owners[f]
                BY <1>1, <2>2 DEF PgTypeOK
            <4>2. owners' = [g EXCEPT ![o] = @ - 1] /\ g[o] = owners[o]
                BY <3>2, <3>3, <4>1
            <4> HIDE DEF g
            <4> QED BY <3>2, <4>1, <4>2
        <3>5. bytes' \in [PgFrames -> Nat]
            <4>1. bytes[o] \in Nat /\ bytes \in [PgFrames -> Nat]
                BY <1>1 DEF PgTypeOK
            <4> QED BY <2>2, <3>o, <4>1
        <3>6. In(n, TRUE) \in PgEntry /\ In(n, TRUE).k = "in" /\ In(n, TRUE).at = n
            BY PgNames DEF In, PgEntry
        <3>7. /\ tables' \in [PgProcs -> [PgPages -> PgEntry]]
              /\ \A q \in PgProcs : (q # p => Heap(q)' = Heap(q)) /\ Shm(q)' = Shm(q)
              /\ tables'[p]["heap"] = In(n, TRUE)
            BY <1>1, <2>2, <3>6 DEF PgTypeOK, PgPages, Heap, Shm
        <3>8. Heap(p)'.k = "in" /\ Heap(p)'.at = n
            BY <3>6, <3>7 DEF Heap
        <3> QED BY <3>o, <3>1, <3>2, <3>4, <3>5, <3>7, <3>8
    <2>3. CASE /\ copy /\ \E n \in PgFrames :
                    /\ owners[n] = 0 /\ tables' = [tables EXCEPT ![p]["heap"] = In(n, TRUE)]
                    /\ owners' = DropOwner(AddOwner(owners, n), Heap(p).at)
                    /\ bytes' = [bytes EXCEPT ![n] = bytes[Heap(p).at]]
        <3>1. Heap(p).k = "in"
            BY <2>3
        <3>2. PICK n \in PgFrames :
                    /\ owners[n] = 0 /\ tables' = [tables EXCEPT ![p]["heap"] = In(n, TRUE)]
                    /\ owners' = DropOwner(AddOwner(owners, n), Heap(p).at)
                    /\ bytes' = [bytes EXCEPT ![n] = bytes[Heap(p).at]]
            BY <2>3
        <3> HIDE DEF keep, copy
        <3>4. /\ tables' \in [PgProcs -> [PgPages -> PgEntry]] /\ owners' \in [PgFrames -> Nat] /\ bytes' \in [PgFrames -> Nat]
                 /\ \A q \in PgProcs : (q # p => Heap(q)' = Heap(q)) /\ Shm(q)' = Shm(q)
                 /\ Heap(p)'.k = "in" /\ Heap(p)'.at = n /\ n # Heap(p).at
                 /\ owners[Heap(p).at] \in Nat /\ owners[Heap(p).at] > 1
                 /\ \A f \in PgFrames : owners'[f] = IF f = n THEN 1
                                                     ELSE IF f = Heap(p).at THEN owners[f] - 1 ELSE owners[f]
            BY <2>2, <2>3, <3>2
        <3> QED BY <2>3, <3>1, <3>2, <3>4
    <2> HIDE DEF keep, copy
    <2> QED BY <1>x, <2>1, <2>3
<1>k. /\ keep => RangeBusy(p) /\ Heap(p).k = "in" /\ ~Heap(p).w
      /\ copy => keep /\ owners[Heap(p).at] # 1
      /\ keep /\ ~copy => owners[Heap(p).at] = 1
      /\ RangeBusy(p) /\ Heap(p).k = "in" /\ ~Heap(p).w => keep
      /\ goes => (copy => HasFrame)
    OBVIOUS
<1> HIDE DEF keep, copy, goes
<1>t. PgTypeOK'
    <2>1. /\ tlb' \in [PgThreads -> [f : PgFrames \cup {0}, w : BOOLEAN]] /\ memLock' \in [PgProcs -> Nat]
          /\ mapLock' \in [PgProcs -> Nat]
        BY <1>1, <1>3, <1>5, <1>6 DEF PgTypeOK, NoTlb
    <2> QED BY <1>1, <1>3, <1>5, <1>y, <2>1 DEF PgTypeOK
<1>e. EntriesOK'
    <2>1. \A q \in PgProcs : EntryNames(Heap(q)) /\ EntryNames(Shm(q)) /\ Shm(q).k # "out"
        BY <1>1 DEF EntriesOK
    <2>2. ASSUME NEW q \in PgProcs PROVE (EntryNames(Heap(q)) /\ EntryNames(Shm(q)) /\ Shm(q).k # "out")'
        <3>1. CASE q # p
            BY <1>y, <2>1, <3>1 DEF EntryNames
        <3>2. CASE q = p
            BY <1>k, <1>y, <2>1, <3>2 DEF EntryNames
        <3> QED BY <3>1, <3>2
    <2> QED BY <2>2 DEF EntriesOK
<1>f. FramesCounted'
    <2>2. ASSUME NEW f \in PgFrames
          PROVE  owners'[f] + One(HeapIs(p, f)) + One(job[t].frame = f)
                   = owners[f] + One(HeapIs(p, f)') + One(job'[t].frame = f)
        <3>1. /\ owners[f] \in Nat /\ One(job'[t].frame = f) = One(job[t].frame = f) /\ One(job[t].frame = f) \in Nat
            BY <1>1, <1>5, <1>c DEF PgTypeOK, One
        <3>2. CASE /\ \A g \in PgFrames : owners'[g] = owners[g]
                   /\ Heap(p)'.at = Heap(p).at
            <4>1. One(HeapIs(p, f)') = One(HeapIs(p, f)) /\ owners'[f] = owners[f]
                BY <1>y, <3>2 DEF HeapIs, One
            <4> QED BY <3>1, <4>1
        <3>3. CASE /\ copy /\ Heap(p)'.at \in PgFrames /\ Heap(p)'.at # Heap(p).at /\ owners[Heap(p)'.at] = 0
                   /\ owners[Heap(p).at] \in Nat /\ owners[Heap(p).at] > 1
                   /\ \A g \in PgFrames : owners'[g] = IF g = Heap(p)'.at THEN 1
                                                       ELSE IF g = Heap(p).at THEN owners[g] - 1 ELSE owners[g]
            <4>0. Heap(p)'.k = "in" /\ Heap(p).k = "in"
                BY <1>k, <1>y, <3>3
            <4>1. /\ HeapIs(p, f) <=> f = Heap(p).at
                  /\ HeapIs(p, f)' <=> f = Heap(p)'.at
                BY <4>0 DEF HeapIs
            <4>2. owners'[f] + One(HeapIs(p, f)) = owners[f] + One(HeapIs(p, f)') /\ owners'[f] \in Nat
                BY <3>1, <3>3, <4>1 DEF One
            <4>3. One(HeapIs(p, f)) \in Nat /\ One(HeapIs(p, f)') \in Nat
                BY DEF One
            <4> QED BY <3>1, <4>2, <4>3
        <3> QED BY <1>y, <3>2, <3>3
    <2> QED BY <1>1, <1>3, <1>5, <1>y, <1>t, <2>2, HeapBooks
<1>s. SlotsCounted'
    <2>1. ASSUME NEW s \in PgSlots
          PROVE  slotOwners'[s] + One(HeapOut(p, s)) = slotOwners[s] + One(HeapOut(p, s)')
        <3>1. HeapOut(p, s)' <=> HeapOut(p, s)
            BY <1>k, <1>y DEF HeapOut
        <3> QED BY <1>3, <3>1 DEF One
    <2> QED BY <1>1, <1>y, <1>t, <2>1, OutBooks
<1>o. \A f \in PgFrames : owners'[f] = owners[f] \/ owners[f] = 0 \/ HeapIs(p, f)
    BY <1>y, <1>k DEF HeapIs
<1>a. OtherSpacesStay(t)
    <2>1. /\ \A q \in PgProcs : q # p => memLock'[q] = memLock[q] /\ mapLock'[q] = mapLock[q]
          /\ \A u \in PgThreads : Space(u) # p => tlb'[u] = tlb[u]
        BY <1>1, <1>3, <1>5, <1>6 DEF PgTypeOK
    <2> QED BY <1>0, <1>1, <1>3, <1>5, <1>c, <1>o, <1>y, <2>1 DEF OtherSpacesStay
<1>b. LocksRespected(t)
    BY <1>0, <1>1, <1>3, <1>c DEF LocksRespected, NotOthers
<1>d. HandOK(t)' /\ LocksOK(t)' /\ PageOK(t)' /\ ChildOK(t)'
    <2>0. job'[t].at \in {"charging", "undoing"} /\ (job'[t].at = "charging" => mapLock' = mapLock)
        BY <1>5
    <2>1. HandOK(t)' /\ LocksOK(t)' /\ PageOK(t)'
        BY <1>0, <1>1, <1>2, <1>3, <1>5, <1>c, <2>0
        DEF HandOK, LocksOK, PageOK, InHand, Cloning, Swapping, Forking, Space, First
    <2>2. /\ Heap(c).k = Heap(p).k /\ (~heapOn[p] => Heap(c).k = "none")
          /\ promised[p] <= One(heapOn[p] /\ Heap(p).k = "none")
        BY <1>0, <1>1, <1>2, <1>c DEF ChildOK, Cloning, SpaceOK, HeapOK
    <2>3. /\ ~heapOn'[p] => tables'[c]["heap"].k = "none"
          /\ promised'[p] <= One(heapOn'[p] /\ tables'[c]["heap"].k = "none")
        BY <1>3, <1>c, <1>y, <2>2 DEF Heap
    <2>4. ChildOK(t)'
        BY <1>0, <1>5, <2>0, <2>3 DEF ChildOK, Cloning, Heap, Space
    <2> QED BY <2>1, <2>4
<1>h. SpaceOK(p)'
    <2>1. DeadOK(p)' /\ HeapOK(p)'
        BY <1>1, <1>c, <1>3, <1>y DEF DeadOK, HeapOK, SpaceOK
    <2>2. TlbOwned(p)'
        <3>1. CASE keep
            BY <1>6, <3>1 DEF TlbOwned, Space, NoTlb
        <3>2. CASE ~keep
            <4>1. tlb' = tlb /\ Heap(p)' = Heap(p)
                BY <1>6, <1>k, <1>y, <3>2
            <4> SUFFICES ASSUME NEW u \in PgThreads, Space(u) = p, tlb[u].f # 0, ~HeapIs(p, tlb[u].f)
                         PROVE  \E z \in PgThreads : /\ Space(z) = p /\ job'[z].frame = tlb[u].f
                                                     /\ job'[z].at \in {"freeing", "leaving", "copied"}
                BY <4>1 DEF TlbOwned, HeapIs, Space
            <4>2. PICK z \in PgThreads : /\ Space(z) = p /\ job[z].frame = tlb[u].f
                                          /\ job[z].at \in {"freeing", "leaving", "copied"}
                BY <1>1 DEF SpaceOK, TlbOwned
            <4>3. z # t
                BY <1>2, <4>2
            <4> QED BY <1>5, <4>2, <4>3 DEF OnlyJob
        <3> QED BY <3>1, <3>2
    <2>3. WritableAlone(p)'
        <3> SUFFICES ASSUME Heap(p)'.k = "in", Heap(p)'.w PROVE owners'[Heap(p)'.at] = 1
            BY DEF WritableAlone
        <3>1. CASE copy /\ Heap(p)'.at # Heap(p).at
            BY <1>y, <3>1
        <3>2. CASE keep /\ ~copy
            BY <1>1, <1>k, <1>y, <3>2
        <3>3. CASE Heap(p)' = Heap(p)
            BY <1>1, <1>y, <3>3 DEF SpaceOK, WritableAlone
        <3> QED BY <1>y, <3>1, <3>2, <3>3
    <2>4. BuffersKept(p)'
        <3> SUFFICES ASSUME NEW u \in PgThreads, Space(u) = p, inCall[u] = "using" PROVE BuffersKept(p)'
            BY <1>3 DEF BuffersKept, Space
        <3>1. PICK f \in PgFrames : Heap(p).k = "in" /\ Heap(p).at = f /\ RangeBusy(p)
            BY <1>1 DEF SpaceOK, BuffersKept, RangeBusy, ThreadsOf
        <3>2. ASSUME owners[f] = 1 PROVE BuffersKept(p)'
            <4>1. ~copy /\ owners'[f] = 1 /\ Heap(p)'.at = f /\ Heap(p)'.k = "in"
                BY <1>k, <1>y, <3>1, <3>2
            <4> QED BY <4>1 DEF BuffersKept
        <3>3. ASSUME owners[f] = 2, HeapIs(c, f) PROVE BuffersKept(p)'
            <4>1. keep /\ copy
                BY <1>1, <1>k, <3>1, <3>3 DEF SpaceOK, WritableAlone, copy
            <4>2. CASE Heap(p)'.at # f
                <5>1. owners'[Heap(p)'.at] = 1 /\ Heap(p)'.k = "in"
                    BY <1>y, <3>1, <4>2
                <5> QED BY <5>1 DEF BuffersKept
            <4>3. CASE Heap(p)'.at = f
                <5>1. ~HasFrame /\ owners'[f] = 2 /\ job'[t].at = "undoing" /\ Heap(p)'.k = "in"
                    BY <1>5, <1>k, <1>y, <3>1, <3>3, <4>1, <4>3
                <5>2. tables'[c]["heap"].k = "in" /\ tables'[c]["heap"].at = f
                    BY <1>c, <1>y, <3>3 DEF HeapIs, Heap
                <5>3. job'[t].at \in Forking \ {"charging"} /\ job'[t].child = c
                    BY <1>5, <5>1 DEF Forking
                <5> QED BY <1>0, <4>3, <5>1, <5>2, <5>3 DEF BuffersKept, HeapIs, Heap, Space
            <4> QED BY <4>2, <4>3
        <3>4. owners[f] = 1 \/ (owners[f] = 2 /\ HeapIs(c, f))
            BY <1>1, <1>c, <3>1 DEF SpaceOK, BuffersKept
        <3> QED BY <3>2, <3>3, <3>4
    <2> QED BY <2>1, <2>2, <2>3, <2>4 DEF SpaceOK
<1>i. SpaceOK(c)'
    <2>0. /\ \A u \in PgThreads : Space(u) = c => inCall'[u] = "no" /\ tlb'[u].f = 0
          /\ c \notin live' /\ ~heapOn'[c] /\ promised'[c] = 0
        BY <1>3, <1>6, <1>c
    <2>1. DeadOK(c)'
        BY <1>5, <2>0 DEF DeadOK, Space
    <2>2. HeapOK(c)'
        BY <2>0 DEF HeapOK, One
    <2>3. WritableAlone(c)'
        <3> SUFFICES ASSUME Heap(c).k = "in", Heap(c).w PROVE owners'[Heap(c).at] = 1
            BY <1>c, <1>y DEF WritableAlone
        <3>1. PICK f \in PgFrames : f = Heap(c).at /\ HeapIs(c, f) /\ owners[f] = 1
            BY <1>c DEF SpaceOK, WritableAlone, HeapIs
        <3>2. ~HeapIs(p, f)
            BY <1>1, <1>c, <3>1, Holders
        <3> QED BY <1>o, <3>1, <3>2
    <2>4. TlbOwned(c)' /\ BuffersKept(c)'
        BY <2>0 DEF TlbOwned, BuffersKept, Space
    <2> QED BY <2>1, <2>2, <2>3, <2>4 DEF SpaceOK
<1>g. ThreadDone(t)
    BY <1>2, <1>5, <1>c, <1>d, <1>h, <1>i DEF ThreadDone
<1> QED BY <1>t, <1>e, <1>f, <1>s, <1>a, <1>b, <1>g, StepKeepsBooks

LEMMA PgBooksInit ==
    ASSUME PgAssumption, PgInit
    PROVE  PgBooks
<1>1. /\ First \in PgProcs /\ \A t \in PgThreads : Space(t) \in PgProcs
      /\ \A f \in PgFrames : f # 0
    BY PgNames
<1>2. /\ \A p \in PgProcs : Heap(p) = Absent /\ Shm(p) = Absent /\ Heap(p).k = "none" /\ Shm(p).k = "none"
      /\ \A t \in PgThreads : job[t].at = "idle" /\ job[t].frame = 0 /\ tlb[t].f = 0 /\ inCall[t] = "no"
    BY DEF PgInit, Heap, Shm, PgPages, Absent, NoJob, NoTlb
<1>t. PgTypeOK
    <2>1. Absent \in PgEntry /\ NoJob \in PgJob /\ NoTlb \in [f : PgFrames \cup {0}, w : BOOLEAN]
        BY DEF Absent, PgEntry, NoJob, PgJob, JobPlaces, NoTlb
    <2> QED BY <1>1, <2>1 DEF PgTypeOK, PgInit
<1>e. EntriesOK
    BY <1>2 DEF EntriesOK, EntryNames
<1>f. FramesCounted
    <2> SUFFICES ASSUME NEW f \in PgFrames
                 PROVE  owners[f] = Cardinality(HeapsOf(f)) + Cardinality(ShmsOf(f)) + One(segment = f) + Cardinality(HandsOf(f))
        BY DEF FramesCounted
    <2>1. HeapsOf(f) = {} /\ ShmsOf(f) = {} /\ HandsOf(f) = {} /\ One(segment = f) = 0 /\ owners[f] = 0
        BY <1>1, <1>2 DEF HeapsOf, ShmsOf, HandsOf, HeapIs, ShmIs, One, PgInit
    <2> QED BY <2>1, FS_EmptySet
<1>s. SlotsCounted
    <2> SUFFICES ASSUME NEW s \in PgSlots PROVE slotOwners[s] = Cardinality(OutsOf(s))
        BY DEF SlotsCounted
    <2>1. OutsOf(s) = {} /\ slotOwners[s] = 0
        BY <1>2 DEF OutsOf, HeapOut, PgInit
    <2> QED BY <2>1, FS_EmptySet
<1>a. PgThreadsOK /\ OneFork
    BY <1>2 DEF PgThreadsOK, OneFork, HandOK, LocksOK, PageOK, ChildOK, InHand, Cloning, Swapping, Forking
<1>b. First \in live
    BY DEF PgInit
<1>c. ASSUME NEW p \in PgProcs PROVE SpaceOK(p)
    <2>1. ~heapOn[p] /\ promised[p] = 0
        BY DEF PgInit
    <2>2. DeadOK(p) /\ TlbOwned(p) /\ BuffersKept(p) /\ WritableAlone(p)
        BY <1>2, <2>1 DEF DeadOK, TlbOwned, BuffersKept, WritableAlone, Heap, Shm
    <2>3. HeapOK(p)
        BY <1>2, <2>1 DEF HeapOK, One
    <2> QED BY <2>2, <2>3 DEF SpaceOK
<1> QED BY <1>t, <1>e, <1>f, <1>s, <1>a, <1>b, <1>c DEF PgBooks

LEMMA PgBooksStep ==
    ASSUME PgAssumption, PgBooks, [PgNext]_pgVars
    PROVE  PgBooks'
<1>1. CASE PgNext
    <2>1. PICK t \in PgThreads :
              \/ BrkUp(t) \/ BrkDown(t) \/ FreeUnmapped(t) \/ TouchHeap(t)
              \/ Fill(t) \/ StoreHeap(t) \/ CowFault(t) \/ CowDone(t)
              \/ CallBegin(t) \/ CallChecked(t) \/ CallEnd(t)
              \/ \E s \in PgSlots : SwapOut(t, s)
              \/ SwapSync(t) \/ SwapIn(t)
              \/ \E ok \in BOOLEAN : SwapSave(t, ok) \/ ShmMap(t, ok) \/ ForkKeep(t, ok)
              \/ ForkBegin(t) \/ ForkSync(t) \/ ForkUndo(t) \/ ForkCharge(t) \/ Exit(t)
              \/ \E v \in PgPages : ClonePage(t, v)
              \/ ShmGet(t) \/ ShmAttach(t) \/ ShmRemove(t)
        BY <1>1 DEF PgNext
    <2>2. CASE BrkUp(t) \/ BrkDown(t) \/ FreeUnmapped(t) \/ TouchHeap(t)
        BY <2>2, BrkUpKeeps, BrkDownKeeps, FreeUnmappedKeeps, TouchHeapKeeps
    <2>3. CASE Fill(t) \/ StoreHeap(t) \/ CowFault(t) \/ CowDone(t)
        BY <2>3, FillKeeps, StoreKeeps, CowFaultKeeps, CowDoneKeeps
    <2>4. CASE CallBegin(t) \/ CallChecked(t) \/ CallEnd(t)
        BY <2>4, CallKeeps
    <2>5. CASE (\E s \in PgSlots : SwapOut(t, s)) \/ SwapSync(t) \/ SwapIn(t)
        BY <2>5, SwapOutKeeps, SwapSyncKeeps, SwapInKeeps
    <2>6. CASE \E ok \in BOOLEAN : SwapSave(t, ok) \/ ShmMap(t, ok) \/ ForkKeep(t, ok)
        BY <2>6, SwapSaveKeeps, ShmMapKeeps, ForkKeepKeeps
    <2>7. CASE ForkBegin(t) \/ ForkSync(t) \/ ForkUndo(t) \/ ForkCharge(t) \/ Exit(t)
        BY <2>7, ForkBeginKeeps, ForkSyncKeeps, ForkUndoKeeps, ForkChargeKeeps, ExitKeeps
    <2>8. CASE \E v \in PgPages : ClonePage(t, v)
        BY <2>8, ClonePageKeeps
    <2>9. CASE ShmGet(t) \/ ShmAttach(t) \/ ShmRemove(t)
        BY <2>9, ShmGetKeeps, ShmAttachKeeps
    <2> QED BY <2>1, <2>2, <2>3, <2>4, <2>5, <2>6, <2>7, <2>8, <2>9
<1>2. CASE UNCHANGED pgVars
    <2>u. /\ tables' = tables /\ owners' = owners /\ bytes' = bytes /\ slotOwners' = slotOwners /\ slotBytes' = slotBytes
          /\ heapOn' = heapOn /\ promised' = promised /\ segment' = segment /\ live' = live /\ mapLock' = mapLock
          /\ memLock' = memLock /\ swapLock' = swapLock /\ tlb' = tlb /\ job' = job /\ inCall' = inCall
          /\ pgCalls' = pgCalls /\ holds' = holds
        BY <1>2 DEF pgVars
    <2>1. PgTypeOK' /\ EntriesOK' /\ First \in live'
        BY <2>u DEF PgBooks, PgTypeOK, EntriesOK, EntryNames, Heap, Shm
    <2>2. FramesCounted' /\ SlotsCounted'
        <3>1. ASSUME NEW f PROVE HeapsOf(f)' = HeapsOf(f) /\ ShmsOf(f)' = ShmsOf(f) /\ HandsOf(f)' = HandsOf(f)
                                 /\ OutsOf(f)' = OutsOf(f)
            BY <2>u DEF HeapsOf, ShmsOf, HandsOf, OutsOf, HeapIs, ShmIs, HeapOut, Heap, Shm
        <3> QED BY <2>u, <3>1 DEF PgBooks, FramesCounted, SlotsCounted
    <2>3. ASSUME NEW t \in PgThreads PROVE HandOK(t)' /\ LocksOK(t)' /\ PageOK(t)' /\ ChildOK(t)'
        <3>1. HandOK(t)'
            BY <2>u DEF PgBooks, PgThreadsOK, HandOK, Space
        <3>2. LocksOK(t)'
            BY <2>u DEF PgBooks, PgThreadsOK, LocksOK, Space
        <3>3. PageOK(t)'
            BY <2>u DEF PgBooks, PgThreadsOK, PageOK, Space, HeapOut, Heap, Shm
        <3>4. ChildOK(t)'
            BY <2>u DEF PgBooks, PgThreadsOK, ChildOK, Space, Heap
        <3> QED BY <3>1, <3>2, <3>3, <3>4
    <2>4. OneFork'
        BY <2>u DEF PgBooks, OneFork
    <2>5. ASSUME NEW p \in PgProcs PROVE SpaceOK(p)'
        <3>1. SpaceOK(p)
            BY DEF PgBooks
        <3>2. DeadOK(p)'
            BY <2>u, <3>1 DEF SpaceOK, DeadOK, Space
        <3>3. HeapOK(p)' /\ WritableAlone(p)'
            BY <2>u, <3>1 DEF SpaceOK, HeapOK, WritableAlone, Heap
        <3>4. TlbOwned(p)'
            BY <2>u, <3>1 DEF SpaceOK, TlbOwned, HeapIs, Heap, Space
        <3>5. BuffersKept(p)'
            BY <2>u, <3>1 DEF SpaceOK, BuffersKept, HeapIs, Heap, Space
        <3> QED BY <3>2, <3>3, <3>4, <3>5 DEF SpaceOK
    <2> QED BY <2>1, <2>2, <2>3, <2>4, <2>5 DEF PgBooks, PgThreadsOK
<1> QED BY <1>1, <1>2

\* The books say what the properties say
LEMMA PgBooksSay ==
    ASSUME PgAssumption, PgBooks
    PROVE  FramesOwned /\ BufferStays /\ TranslationsOwned
<1>1. PgTypeOK /\ EntriesOK /\ FramesCounted /\ SlotsCounted /\ \A p \in PgProcs : SpaceOK(p)
    BY DEF PgBooks
<1>2. FramesOwned
    <2>1. ASSUME NEW f \in PgFrames
          PROVE  owners[f] = Maps("heap", "in", f) + Maps("shm", "in", f) + (IF segment = f THEN 1 ELSE 0)
                             + Cardinality({t \in PgThreads : job[t].frame = f})
        BY <1>1 DEF FramesCounted, HeapsOf, ShmsOf, HandsOf, HeapIs, ShmIs, Heap, Shm, Maps, One
    <2>2. ASSUME NEW s \in PgSlots PROVE slotOwners[s] = Maps("heap", "out", s) + Maps("shm", "out", s)
        <3>1. slotOwners[s] = Maps("heap", "out", s)
            BY <1>1 DEF SlotsCounted, OutsOf, HeapOut, Heap, Maps
        <3>2. {p \in PgProcs : tables[p]["shm"].k = "out" /\ tables[p]["shm"].at = s} = {}
            BY <1>1 DEF EntriesOK, Shm
        <3>3. Maps("shm", "out", s) = 0
            BY <3>2, FS_EmptySet DEF Maps
        <3>4. slotOwners[s] \in Nat
            BY <1>1 DEF PgTypeOK
        <3> QED BY <3>1, <3>3, <3>4
    <2>3. ASSUME NEW p \in PgProcs PROVE promised[p] <= (IF heapOn[p] /\ tables[p]["heap"].k = "none" THEN 1 ELSE 0)
        BY <1>1 DEF SpaceOK, HeapOK, Heap, One
    <2> QED BY <2>1, <2>2, <2>3 DEF FramesOwned
<1>3. BufferStays
    <2> SUFFICES ASSUME NEW t \in PgThreads, inCall[t] = "using"
                 PROVE  /\ tables[Space(t)]["heap"].k = "in"
                        /\ \/ MayTake(tables[Space(t)]["heap"].at)
                           \/ \E u \in ThreadsOf(Space(t)) : job[u].at \in {"cloning", "cloned", "keeping", "undoing"}
        BY DEF BufferStays
    <2>1. Space(t) \in PgProcs
        BY PgNames
    <2>2. BuffersKept(Space(t))
        BY <1>1, <2>1 DEF SpaceOK
    <2> QED BY <2>2 DEF BuffersKept, MayTake, ThreadsOf, Forking, Heap
<1>4. TranslationsOwned
    <2> SUFFICES ASSUME NEW t \in PgThreads, tlb[t].f # 0
                 PROVE  \/ tables[Space(t)]["heap"].k = "in" /\ tables[Space(t)]["heap"].at = tlb[t].f
                        \/ \E u \in ThreadsOf(Space(t)) : job[u].frame = tlb[t].f
        BY DEF TranslationsOwned
    <2>1. Space(t) \in PgProcs
        BY PgNames
    <2>2. TlbOwned(Space(t))
        BY <1>1, <2>1 DEF SpaceOK
    <2> QED BY <2>2 DEF TlbOwned, HeapIs, Heap, ThreadsOf
<1> QED BY <1>2, <1>3, <1>4

\* For any number of processes, threads, frames and slots: every frame and every
\* swap slot has as many owners as there are entries, segments and threads in
\* the middle of something that hold it (pmm_ref_frame, pmm_unref_frame,
\* swap_slot_unref), and a process is promised no more than it has untouched.
THEOREM PagesAreCounted ==
    ASSUME PgAssumption
    PROVE  PgSpec => []FramesOwned
<1>1. PgInit => PgBooks
    BY PgBooksInit
<1>2. PgBooks /\ [PgNext]_pgVars => PgBooks'
    BY PgBooksStep
<1>3. PgBooks => FramesOwned
    BY PgBooksSay
<1> QED BY <1>1, <1>2, <1>3, PTL DEF PgSpec

\* For any number of threads: a buffer a call has checked stays in memory until
\* the call is over (process_range_busy, vmm_swap_pick), and its frame is its
\* process's own, but for a child that is being made or undone.
THEOREM BuffersStay ==
    ASSUME PgAssumption
    PROVE  PgSpec => []BufferStays
<1>1. PgInit => PgBooks
    BY PgBooksInit
<1>2. PgBooks /\ [PgNext]_pgVars => PgBooks'
    BY PgBooksStep
<1>3. PgBooks => BufferStays
    BY PgBooksSay
<1> QED BY <1>1, <1>2, <1>3, PTL DEF PgSpec

\* For any number of CPUs: a translation one may still use leads to a frame its
\* process maps, or that a thread of it holds until process_tlb_sync has told
\* them all; no frame is given to somebody else before.
THEOREM TranslationsAreOwned ==
    ASSUME PgAssumption
    PROVE  PgSpec => []TranslationsOwned
<1>1. PgInit => PgBooks
    BY PgBooksInit
<1>2. PgBooks /\ [PgNext]_pgVars => PgBooks'
    BY PgBooksStep
<1>3. PgBooks => TranslationsOwned
    BY PgBooksSay
<1> QED BY <1>1, <1>2, <1>3, PTL DEF PgSpec

-----------------------------------------------------------------------------
(* What the pages hold.                                                    *)

\* The address spaces whose contents matter: of a process, or of one on its way
Born(p) == p \in live \/ \E t \in PgThreads : job[t].at \in {"keeping", "charging"} /\ job[t].child = p
SwapsOut(p) == \E t \in PgThreads : Space(t) = p /\ job[t].at \in Swapping

\* The page holds what it should, in memory, on the disk or untouched
HeldIs(p) ==
    /\ Heap(p).k = "in" => bytes[Heap(p).at] = holds[p]
    /\ Heap(p).k = "out" /\ ~SwapsOut(p) => slotBytes[Heap(p).at] = holds[p]
    /\ Heap(p).k = "none" /\ (p \in live => heapOn[p]) => holds[p] = 0
PagesHold == \A p \in PgProcs : Born(p) => HeldIs(p)

\* A page on its way to the disk is still what it should be, its slot is no
\* other's, and once the CPUs have been told none reaches it
SavingIs == \A t \in PgThreads : job[t].at \in Swapping => bytes[job[t].frame] = holds[Space(t)]
SlotAlone == \A t \in PgThreads, q \in PgProcs :
    job[t].at \in Swapping /\ q # Space(t) /\ Heap(q).k = "out" => Heap(q).at # job[t].slot
NoTlbLeft == \A t, u \in PgThreads : job[t].at = "saving" /\ Space(u) = Space(t) => tlb[u].f = 0

CloneTime == {"cloning", "cloned"}

\* A store goes into no other process's page, but for a child the CPUs have not
\* been told of; it goes into a copy-on-write page only before they are told,
\* and not into a page another thread has copied
TlbNamed == \A t \in PgThreads : tlb[t].w => tlb[t].f # 0
StoreAlone == \A t \in PgThreads, q \in PgProcs :
    tlb[t].w /\ q # Space(t) /\ HeapIs(q, tlb[t].f) =>
        \E z \in PgThreads : job[z].at \in CloneTime /\ Space(z) = Space(t) /\ job[z].child = q
StaleStore == \A t \in PgThreads :
    tlb[t].w /\ HeapIs(Space(t), tlb[t].f) /\ ~Heap(Space(t)).w =>
        \E z \in PgThreads : job[z].at \in CloneTime /\ Space(z) = Space(t)
CopyAlone == \A t, u \in PgThreads :
    job[t].at = "copied" /\ Space(u) = Space(t) /\ tlb[u].w /\ tlb[u].f = job[t].frame =>
        u = t \/ job[u].at \in CloneTime

PgValues == /\ PagesHold /\ SavingIs /\ SlotAlone /\ NoTlbLeft
            /\ TlbNamed /\ StoreAlone /\ StaleStore /\ CopyAlone

\* A frame that is mapped, in hand or in a TLB has an owner
LEMMA ReachedIsOwned ==
    ASSUME PgAssumption, PgBooks
    PROVE  /\ \A q \in PgProcs : Heap(q).k = "in" => Heap(q).at \in PgFrames /\ owners[Heap(q).at] # 0
           /\ \A u \in PgThreads : job[u].at \in Swapping => job[u].frame \in PgFrames /\ owners[job[u].frame] # 0
           /\ \A u \in PgThreads : tlb[u].f # 0 => tlb[u].f \in PgFrames /\ owners[tlb[u].f] # 0
<1>0. PgTypeOK /\ EntriesOK /\ FramesCounted /\ PgThreadsOK /\ \A p \in PgProcs : TlbOwned(p)
    BY DEF PgBooks, SpaceOK
<1>1. \A q \in PgProcs : Heap(q).k = "in" => Heap(q).at \in PgFrames /\ owners[Heap(q).at] # 0
    BY <1>0, Holders DEF EntriesOK, EntryNames, HeapIs
<1>2. ASSUME NEW u \in PgThreads, job[u].frame # 0 PROVE job[u].frame \in PgFrames /\ owners[job[u].frame] # 0
    <2>1. job[u].frame \in PgFrames
        BY <1>0, <1>2 DEF PgTypeOK, PgJob
    <2> QED BY <1>0, <2>1, Holders
<1>3. \A u \in PgThreads : job[u].at \in Swapping => job[u].frame # 0
    BY <1>0 DEF PgThreadsOK, HandOK, Swapping, InHand
<1>4. ASSUME NEW u \in PgThreads, tlb[u].f # 0 PROVE tlb[u].f \in PgFrames /\ owners[tlb[u].f] # 0
    <2>1. Space(u) \in PgProcs
        BY PgNames
    <2>2. HeapIs(Space(u), tlb[u].f) \/ \E z \in PgThreads : job[z].frame = tlb[u].f
        BY <1>0, <1>4, <2>1 DEF TlbOwned
    <2> QED BY <1>1, <1>2, <1>4, <2>1, <2>2 DEF HeapIs
<1> QED BY <1>1, <1>2, <1>3, <1>4

\* A step that swaps nothing out, clones nothing and gives no CPU a translation
Calm(t) ==
    /\ OnlyJob(t) /\ job[t].at \notin Swapping \cup CloneTime /\ job'[t].at \notin Swapping
    /\ \A q \in PgProcs : \/ Heap(q)' = Heap(q)
                          \/ Heap(q)'.k = "none"
                          \/ Heap(q)'.k = "in" /\ Heap(q)'.at \in PgFrames /\ owners[Heap(q)'.at] = 0
                          \/ Heap(q)'.k = "in" /\ Heap(q)'.w /\ HeapIs(q, Heap(q)'.at)
    /\ \A u \in PgThreads : tlb'[u] = tlb[u] \/ tlb'[u] = NoTlb
    /\ slotBytes' = slotBytes /\ \A f \in PgFrames : owners[f] # 0 => bytes'[f] = bytes[f]
    /\ \A u \in PgThreads : job[u].at \in Swapping => holds'[Space(u)] = holds[Space(u)]
    /\ job'[t].at = "copied" =>
         \A u \in PgThreads : Space(u) = Space(t) /\ tlb[u].w /\ tlb[u].f = job'[t].frame => u = t \/ job[u].at \in CloneTime

\* ... and what it leaves of a page's contents
HeldStays(q) == /\ Born(q) /\ Heap(q)' = Heap(q) /\ heapOn'[q] = heapOn[q] /\ holds'[q] = holds[q]
                /\ (q \in live' <=> q \in live)

LEMMA CalmKeeps ==
    ASSUME PgAssumption, PgBooks, PgValues, NEW t \in PgThreads, Calm(t),
           \A q \in PgProcs : Born(q)' => HeldIs(q)' \/ HeldStays(q)
    PROVE  PgValues'
<1>n. \A u \in PgThreads : Space(u) \in PgProcs
    BY PgNames
<1>0. /\ PagesHold /\ SavingIs /\ SlotAlone /\ NoTlbLeft
      /\ TlbNamed /\ StoreAlone /\ StaleStore /\ CopyAlone
    BY DEF PgValues
<1>r. /\ \A q \in PgProcs : Heap(q).k = "in" => Heap(q).at \in PgFrames /\ owners[Heap(q).at] # 0
      /\ \A u \in PgThreads : job[u].at \in Swapping => job[u].frame \in PgFrames /\ owners[job[u].frame] # 0
      /\ \A u \in PgThreads : tlb[u].f # 0 => tlb[u].f \in PgFrames /\ owners[tlb[u].f] # 0
    BY ReachedIsOwned
<1>j. /\ \A u \in PgThreads : job'[u].at \in Swapping => u # t /\ job'[u] = job[u]
      /\ \A u \in PgThreads : job[u].at \in Swapping \cup CloneTime => u # t /\ job'[u] = job[u]
      /\ \A u \in PgThreads : u # t => job'[u] = job[u]
    BY DEF Calm, OnlyJob
<1>b. slotBytes' = slotBytes /\ \A f \in PgFrames : owners[f] # 0 => bytes'[f] = bytes[f]
    BY DEF Calm
<1>w. \A u \in PgThreads : /\ tlb'[u].w => tlb[u].w /\ tlb'[u].f = tlb[u].f /\ tlb[u].f # 0
                           /\ tlb'[u].f # 0 => tlb'[u] = tlb[u]
    BY <1>0 DEF Calm, NoTlb, TlbNamed
<1>h. ASSUME NEW q \in PgProcs, NEW u \in PgThreads, tlb[u].f # 0, HeapIs(q, tlb[u].f)'
             , tlb'[u].f = tlb[u].f
      PROVE  HeapIs(q, tlb[u].f) /\ (Heap(q)'.w \/ Heap(q)' = Heap(q))
    <2>1. Heap(q)'.k = "in" /\ Heap(q)'.at = tlb[u].f
        BY <1>h DEF HeapIs, Heap
    <2> QED BY <1>h, <1>r, <2>1 DEF Calm, HeapIs
<1>1. PagesHold'
    <2> SUFFICES ASSUME NEW q \in PgProcs, HeldStays(q) PROVE HeldIs(q)'
        BY DEF PagesHold
    <2>1. HeldIs(q) /\ Heap(q)' = Heap(q) /\ heapOn'[q] = heapOn[q] /\ holds'[q] = holds[q] /\ (q \in live' <=> q \in live)
        BY <1>0 DEF PagesHold, HeldStays
    <2>2. SwapsOut(q)' <=> SwapsOut(q)
        BY <1>j DEF SwapsOut, Space
    <2>3. Heap(q).k = "in" => bytes'[Heap(q).at] = bytes[Heap(q).at]
        BY <1>r, <1>b
    <2> QED BY <1>b, <2>1, <2>2, <2>3 DEF HeldIs
<1>2. SavingIs'
    BY <1>0, <1>j, <1>b, <1>r DEF SavingIs, Calm, Space
<1>3. SlotAlone'
    <2> SUFFICES ASSUME NEW u \in PgThreads, NEW q \in PgProcs, job'[u].at \in Swapping, q # Space(u), Heap(q)'.k = "out"
                 PROVE  Heap(q)'.at # job'[u].slot
        BY DEF SlotAlone, Space
    <2>1. Heap(q)' = Heap(q) /\ job'[u] = job[u]
        BY <1>j DEF Calm
    <2> QED BY <1>0, <2>1 DEF SlotAlone
<1>4. NoTlbLeft'
    <2> SUFFICES ASSUME NEW u \in PgThreads, NEW v \in PgThreads, job'[u].at = "saving", Space(v) = Space(u)
                 PROVE  tlb'[v].f = 0
        BY DEF NoTlbLeft, Space
    <2>1. job'[u] = job[u]
        BY <1>j DEF Swapping
    <2>2. tlb[v].f = 0
        BY <1>0, <2>1 DEF NoTlbLeft
    <2> QED BY <1>w, <2>2
<1>5. TlbNamed'
    BY <1>w DEF TlbNamed
<1>6. StoreAlone'
    <2> SUFFICES ASSUME NEW u \in PgThreads, NEW q \in PgProcs, tlb'[u].w, q # Space(u), HeapIs(q, tlb[u].f)'
                 PROVE  \E z \in PgThreads : job'[z].at \in CloneTime /\ Space(z) = Space(u) /\ job'[z].child = q
        BY DEF StoreAlone, Space
    <2>1. tlb[u].w /\ HeapIs(q, tlb[u].f)
        BY <1>w, <1>h
    <2>2. PICK z \in PgThreads : job[z].at \in CloneTime /\ Space(z) = Space(u) /\ job[z].child = q
        BY <1>0, <2>1 DEF StoreAlone
    <2> QED BY <1>j, <2>2
<1>7. StaleStore'
    <2> SUFFICES ASSUME NEW u \in PgThreads, tlb'[u].w, HeapIs(Space(u), tlb[u].f)', ~Heap(Space(u))'.w
                 PROVE  \E z \in PgThreads : job'[z].at \in CloneTime /\ Space(z) = Space(u)
        BY DEF StaleStore, Space
    <2>1. tlb[u].w /\ HeapIs(Space(u), tlb[u].f) /\ Heap(Space(u))' = Heap(Space(u))
        BY <1>n, <1>w, <1>h
    <2>2. PICK z \in PgThreads : job[z].at \in CloneTime /\ Space(z) = Space(u)
        BY <1>0, <2>1 DEF StaleStore
    <2> QED BY <1>j, <2>2
<1>8. CopyAlone'
    <2> SUFFICES ASSUME NEW v \in PgThreads, NEW u \in PgThreads, job'[v].at = "copied", Space(u) = Space(v),
                        tlb'[u].w, tlb'[u].f = job'[v].frame
                 PROVE  u = v \/ job'[u].at \in CloneTime
        BY DEF CopyAlone, Space
    <2>1. tlb[u].w /\ tlb[u].f = job'[v].frame
        BY <1>w
    <2>2. u = v \/ job[u].at \in CloneTime
        BY <1>0, <1>j, <2>1 DEF CopyAlone, Calm
    <2> QED BY <1>j, <2>2
<1> QED BY <1>1, <1>2, <1>3, <1>4, <1>5, <1>6, <1>7, <1>8 DEF PgValues

\* ... when it changes no page either
LEMMA StillKeeps ==
    ASSUME PgAssumption, PgBooks, PgValues, NEW t \in PgThreads, OnlyJob(t),
           job[t].at \notin Swapping \cup CloneTime \cup {"keeping", "charging"},
           job'[t].at \notin Swapping \cup {"keeping", "charging", "copied"},
           \A q \in PgProcs : Heap(q)' = Heap(q),
           heapOn' = heapOn, holds' = holds, live' = live, slotBytes' = slotBytes,
           \A f \in PgFrames : owners[f] # 0 => bytes'[f] = bytes[f],
           \A u \in PgThreads : tlb'[u] = tlb[u] \/ tlb'[u] = NoTlb
    PROVE  PgValues'
<1>1. Calm(t)
    <2>1. job[t].at \notin Swapping \cup CloneTime /\ job'[t].at \notin Swapping /\ job'[t].at # "copied"
        OBVIOUS
    <2> QED BY <2>1 DEF Calm
<1>2. ASSUME NEW q \in PgProcs, Born(q)' PROVE HeldStays(q)
    <2>1. Born(q)
        BY <1>2 DEF Born, OnlyJob
    <2> QED BY <2>1 DEF HeldStays
<1> QED BY <1>1, <1>2, CalmKeeps

LEMMA CallHolds ==
    ASSUME PgAssumption, PgBooks, PgValues, NEW t \in PgThreads, CallBegin(t) \/ CallChecked(t) \/ CallEnd(t)
    PROVE  PgValues'
<1>1. /\ job[t].at = "idle" /\ job' = job /\ tables' = tables /\ heapOn' = heapOn /\ holds' = holds /\ live' = live
      /\ slotBytes' = slotBytes /\ bytes' = bytes /\ tlb' = tlb
    BY DEF CallBegin, CallChecked, CallEnd, Calling, Running, frameVars, swapVars, userVars
<1>2. "idle" \notin Swapping \cup CloneTime \cup {"keeping", "charging", "copied"}
    BY DEF Swapping, CloneTime
<1> QED BY <1>1, <1>2, StillKeeps DEF OnlyJob, Heap

LEMMA ShmHolds ==
    ASSUME PgAssumption, PgBooks, PgValues, NEW t \in PgThreads,
           ShmGet(t) \/ ShmAttach(t) \/ ShmRemove(t) \/ \E ok \in BOOLEAN : ShmMap(t, ok)
    PROVE  PgValues'
<1>0. PgTypeOK /\ Space(t) \in PgProcs
    BY PgNames DEF PgBooks
<1>1. /\ heapOn' = heapOn /\ holds' = holds /\ live' = live /\ slotBytes' = slotBytes /\ tlb' = tlb
      /\ job[t].at \in {"idle", "attaching"}
    BY DEF ShmGet, ShmAttach, ShmRemove, ShmMap, Calling, frameVars, swapVars, userVars
<1>2. OnlyJob(t) /\ job'[t].at \in {"idle", "attaching"}
    <2>1. CASE job' = job
        BY <1>1, <2>1 DEF OnlyJob
    <2>2. CASE ShmAttach(t)
        BY <1>0, <2>2 DEF ShmAttach, Does, NoJob, OnlyJob, PgTypeOK
    <2>3. CASE \E ok \in BOOLEAN : ShmMap(t, ok)
        BY <1>0, <2>3 DEF ShmMap, Does, NoJob, OnlyJob, PgTypeOK
    <2> QED BY <2>1, <2>2, <2>3 DEF ShmGet, ShmRemove
<1>3. \A f \in PgFrames : owners[f] # 0 => bytes'[f] = bytes[f]
    <2>1. CASE ShmGet(t)
        BY <1>0, <2>1, NewIsFree DEF ShmGet, PgTypeOK
    <2>2. CASE bytes' = bytes
        BY <2>2
    <2> QED BY <2>1, <2>2 DEF ShmAttach, ShmRemove, ShmMap, frameVars
<1>4. \A q \in PgProcs : Heap(q)' = Heap(q)
    <2>1. CASE tables' = tables
        BY <2>1 DEF Heap
    <2>2. CASE \E ok \in BOOLEAN : ShmMap(t, ok)
        BY <1>0, <2>2 DEF ShmMap, PgTypeOK, Heap, PgPages
    <2> QED BY <2>1, <2>2 DEF ShmGet, ShmAttach, ShmRemove
<1>5. \A x \in {"idle", "attaching"} : x \notin Swapping \cup CloneTime \cup {"keeping", "charging", "copied"}
    BY DEF Swapping, CloneTime
<1> QED BY <1>1, <1>2, <1>3, <1>4, <1>5, StillKeeps

\* The CPUs are told, then the frame in hand is given back
LEMMA DoneHolds ==
    ASSUME PgAssumption, PgBooks, PgValues, NEW t \in PgThreads, FreeUnmapped(t) \/ CowDone(t)
    PROVE  PgValues'
<1>0. PgTypeOK
    BY DEF PgBooks
<1>1. /\ tables' = tables /\ heapOn' = heapOn /\ holds' = holds /\ live' = live
      /\ slotBytes' = slotBytes /\ bytes' = bytes /\ job[t].at \in {"freeing", "copied"}
    BY DEF FreeUnmapped, CowDone, swapVars, userVars
<1>2. OnlyJob(t) /\ job'[t].at = "idle"
    BY <1>0 DEF FreeUnmapped, CowDone, Does, NoJob, OnlyJob, PgTypeOK
<1>3. \A u \in PgThreads : tlb'[u] = tlb[u] \/ tlb'[u] = NoTlb
    BY DEF FreeUnmapped, CowDone, process_tlb_sync
<1>5. /\ \A x \in {"freeing", "copied"} : x \notin Swapping \cup CloneTime \cup {"keeping", "charging"}
      /\ "idle" \notin Swapping \cup {"keeping", "charging", "copied"}
    BY DEF Swapping, CloneTime
<1> QED BY <1>1, <1>2, <1>3, <1>5, StillKeeps DEF Heap

LEMMA ForkBeginHolds ==
    ASSUME PgAssumption, PgBooks, PgValues, NEW t \in PgThreads, ForkBegin(t)
    PROVE  PgValues'
<1>0. PgTypeOK
    BY DEF PgBooks
<1>1. /\ tables' = tables /\ heapOn' = heapOn /\ holds' = holds /\ live' = live
      /\ slotBytes' = slotBytes /\ bytes' = bytes /\ tlb' = tlb /\ job[t].at = "idle"
    BY DEF ForkBegin, Calling, frameVars, swapVars, userVars
<1>2. OnlyJob(t) /\ job'[t].at = "cloning"
    BY <1>0 DEF ForkBegin, Does, NoJob, OnlyJob, PgTypeOK
<1>5. /\ "idle" \notin Swapping \cup CloneTime \cup {"keeping", "charging"}
      /\ "cloning" \notin Swapping \cup {"keeping", "charging", "copied"}
    BY DEF Swapping, CloneTime
<1> QED BY <1>1, <1>2, <1>5, StillKeeps DEF Heap

LEMMA BrkUpHolds ==
    ASSUME PgAssumption, PgBooks, PgValues, NEW t \in PgThreads, BrkUp(t)
    PROVE  PgValues'
<1> DEFINE p == Space(t)
<1>0. PgTypeOK /\ PgThreadsOK /\ p \in PgProcs /\ (\A q \in PgProcs : HeapOK(q)) /\ \A u \in PgThreads : u # 0
    BY PgNames DEF PgBooks, SpaceOK
<1>1. /\ tables' = tables /\ live' = live /\ slotBytes' = slotBytes /\ bytes' = bytes /\ tlb' = tlb /\ job' = job
      /\ job[t].at = "idle" /\ p \in live /\ ~heapOn[p] /\ memLock[p] = 0
    BY DEF BrkUp, Calling, frameVars, swapVars
<1>2. /\ \A q \in PgProcs : q # p => heapOn'[q] = heapOn[q] /\ holds'[q] = holds[q]
      /\ holds'[p] = 0
    BY <1>0 DEF BrkUp, PgTypeOK
<1>3. \A u \in PgThreads : job[u].at \in Swapping => Space(u) # p /\ Space(u) \in PgProcs
    BY <1>0, <1>1, PgNames DEF PgThreadsOK, LocksOK, InHand, Swapping
<1>4. Calm(t)
    BY <1>1, <1>2, <1>3 DEF Calm, OnlyJob, Heap, Swapping, CloneTime
<1>5. ASSUME NEW q \in PgProcs, Born(q)' PROVE HeldIs(q)' \/ HeldStays(q)
    <2>1. CASE q = p
        <3>1. Heap(p)'.k = "none"
            BY <1>0, <1>1 DEF HeapOK, Heap
        <3> QED BY <1>2, <2>1, <3>1 DEF HeldIs
    <2>2. CASE q # p
        <3>1. Born(q)
            BY <1>1, <1>5 DEF Born
        <3> QED BY <1>1, <1>2, <2>2, <3>1 DEF HeldStays, Heap
    <2> QED BY <2>1, <2>2
<1> QED BY <1>4, <1>5, CalmKeeps

LEMMA BrkDownHolds ==
    ASSUME PgAssumption, PgBooks, PgValues, NEW t \in PgThreads, BrkDown(t)
    PROVE  PgValues'
<1> DEFINE p == Space(t)
<1>0. PgTypeOK /\ p \in PgProcs
    BY PgNames DEF PgBooks
<1>1. /\ live' = live /\ slotBytes' = slotBytes /\ bytes' = bytes /\ tlb' = tlb /\ holds' = holds
      /\ job[t].at = "idle" /\ p \in live
    BY DEF BrkDown, Calling
<1>2. /\ \A q \in PgProcs : q # p => heapOn'[q] = heapOn[q] /\ Heap(q)' = Heap(q)
      /\ ~heapOn'[p] /\ Heap(p)'.k = "none"
    BY <1>0 DEF BrkDown, PgTypeOK, Heap, Absent, PgPages
<1>3. OnlyJob(t) /\ job'[t].at \in {"idle", "freeing"}
    BY <1>0 DEF BrkDown, Does, NoJob, OnlyJob, PgTypeOK
<1>4. Calm(t)
    BY <1>1, <1>2, <1>3 DEF Calm, Swapping, CloneTime
<1>5. ASSUME NEW q \in PgProcs, Born(q)' PROVE HeldIs(q)' \/ HeldStays(q)
    <2>1. CASE q = p
        BY <1>1, <1>2, <2>1 DEF HeldIs
    <2>2. CASE q # p
        <3>1. Born(q)
            BY <1>1, <1>3, <1>5 DEF Born, OnlyJob
        <3> QED BY <1>1, <1>2, <2>2, <3>1 DEF HeldStays
    <2> QED BY <2>1, <2>2
<1> QED BY <1>4, <1>5, CalmKeeps

LEMMA TouchHolds ==
    ASSUME PgAssumption, PgBooks, PgValues, NEW t \in PgThreads, TouchHeap(t)
    PROVE  PgValues'
<1> DEFINE p == Space(t)
<1>0. PgTypeOK /\ p \in PgProcs /\ NewFrame \in PgFrames /\ owners[NewFrame] = 0
    BY PgNames, NewIsFree DEF PgBooks, TouchHeap
<1>1. /\ live' = live /\ slotBytes' = slotBytes /\ tlb' = tlb /\ holds' = holds /\ heapOn' = heapOn /\ job' = job
      /\ job[t].at = "idle" /\ p \in live /\ heapOn[p] /\ Heap(p).k = "none"
    BY DEF TouchHeap, Running, swapVars, Heap
<1>2. /\ \A q \in PgProcs : q # p => Heap(q)' = Heap(q)
      /\ Heap(p)'.k = "in" /\ Heap(p)'.at = NewFrame
    BY <1>0 DEF TouchHeap, PgTypeOK, Heap, In, PgPages
<1>3. bytes'[NewFrame] = 0 /\ \A f \in PgFrames : f # NewFrame => bytes'[f] = bytes[f]
    BY <1>0 DEF TouchHeap, PgTypeOK
<1>4. Calm(t)
    BY <1>0, <1>1, <1>2, <1>3 DEF Calm, OnlyJob, Swapping, CloneTime
<1>5. ASSUME NEW q \in PgProcs, Born(q)' PROVE HeldIs(q)' \/ HeldStays(q)
    <2>0. Born(q)
        BY <1>1, <1>5 DEF Born
    <2>1. CASE q = p
        <3>1. holds[p] = 0
            BY <1>0, <1>1, <2>0, <2>1 DEF PgValues, PagesHold, HeldIs
        <3> QED BY <1>1, <1>2, <1>3, <2>1, <3>1 DEF HeldIs
    <2>2. CASE q # p
        BY <1>1, <1>2, <2>0, <2>2 DEF HeldStays
    <2> QED BY <2>1, <2>2
<1> QED BY <1>4, <1>5, CalmKeeps

LEMMA SwapInHolds ==
    ASSUME PgAssumption, PgBooks, PgValues, NEW t \in PgThreads, SwapIn(t)
    PROVE  PgValues'
<1> DEFINE p == Space(t)
<1>0. PgTypeOK /\ PgThreadsOK /\ p \in PgProcs /\ NewFrame \in PgFrames /\ owners[NewFrame] = 0
    BY PgNames, NewIsFree DEF PgBooks, SwapIn
<1>1. /\ live' = live /\ slotBytes' = slotBytes /\ tlb' = tlb /\ holds' = holds /\ heapOn' = heapOn /\ job' = job
      /\ job[t].at = "idle" /\ p \in live /\ Heap(p).k = "out" /\ memLock[p] = 0
    BY DEF SwapIn, Running, userVars, Heap
<1>2. /\ \A q \in PgProcs : q # p => Heap(q)' = Heap(q)
      /\ Heap(p)'.k = "in" /\ Heap(p)'.at = NewFrame
    BY <1>0 DEF SwapIn, PgTypeOK, Heap, In, PgPages
<1>3. bytes'[NewFrame] = slotBytes[Heap(p).at] /\ \A f \in PgFrames : f # NewFrame => bytes'[f] = bytes[f]
    BY <1>0 DEF SwapIn, PgTypeOK, Heap
<1>4. Calm(t)
    BY <1>0, <1>1, <1>2, <1>3 DEF Calm, OnlyJob, Swapping, CloneTime
<1>5. ASSUME NEW q \in PgProcs, Born(q)' PROVE HeldIs(q)' \/ HeldStays(q)
    <2>0. Born(q)
        BY <1>1, <1>5 DEF Born
    <2>1. CASE q = p
        <3>1. ~SwapsOut(p)
            BY <1>0, <1>1, PgNames DEF SwapsOut, PgThreadsOK, LocksOK, Swapping, InHand
        <3>2. slotBytes[Heap(p).at] = holds[p]
            BY <1>0, <1>1, <2>0, <2>1, <3>1 DEF PgValues, PagesHold, HeldIs
        <3> QED BY <1>1, <1>2, <1>3, <2>1, <3>2 DEF HeldIs
    <2>2. CASE q # p
        BY <1>1, <1>2, <2>0, <2>2 DEF HeldStays
    <2> QED BY <2>1, <2>2
<1> QED BY <1>4, <1>5, CalmKeeps

\* No process that forks has a third thread
FewThreads == \A t, u, z \in ThreadsOf(First) : t = u \/ u = z \/ t = z

\* A page is copied while another thread may write the old one only if that
\* thread is the one that forks
LEMMA CowFaultHolds ==
    ASSUME PgAssumption, FewThreads, PgBooks, PgValues, NEW t \in PgThreads, CowFault(t)
    PROVE  PgValues'
<1> DEFINE p == Space(t)
           f == Heap(p).at
<1>0. /\ PgTypeOK /\ PgThreadsOK /\ p \in PgProcs /\ StaleStore /\ TlbNamed /\ PagesHold
      /\ \A q \in PgProcs : Heap(q).k = "in" => Heap(q).at \in PgFrames /\ owners[Heap(q).at] # 0
    BY PgNames, ReachedIsOwned DEF PgBooks, PgValues
<1>1. /\ live' = live /\ slotBytes' = slotBytes /\ tlb' = tlb /\ holds' = holds /\ heapOn' = heapOn
      /\ job[t].at = "idle" /\ p \in live /\ Heap(p).k = "in" /\ ~Heap(p).w
    BY DEF CowFault, Running, userVars, swapVars, Heap
<1>f. f \in PgFrames /\ owners[f] # 0
    BY <1>0, <1>1
<1>2. \A q \in PgProcs : q # p => Heap(q)' = Heap(q)
    BY <1>0 DEF CowFault, PgTypeOK, Heap, In, PgPages
<1>3. OnlyJob(t) /\ job'[t].at = "copied" /\ (job'[t].frame = 0 \/ job'[t].frame = f)
    <2>1. CASE job' = [job EXCEPT ![t] = [NoJob EXCEPT !.at = "copied"]]
        BY <1>0, <2>1 DEF NoJob, OnlyJob, PgTypeOK
    <2>2. CASE job' = [job EXCEPT ![t] = [NoJob EXCEPT !.at = "copied", !.frame = tables[p]["heap"].at]]
        BY <1>0, <2>2 DEF NoJob, OnlyJob, PgTypeOK, Heap
    <2> QED BY <2>1, <2>2 DEF CowFault, Does
<1>4. /\ Heap(p)'.k = "in" /\ Heap(p)'.w
      /\ \/ Heap(p)'.at = f /\ bytes' = bytes
         \/ /\ Heap(p)'.at \in PgFrames /\ owners[Heap(p)'.at] = 0 /\ bytes'[Heap(p)'.at] = bytes[f]
            /\ \A g \in PgFrames : owners[g] # 0 => bytes'[g] = bytes[g]
    <2>1. CASE MayTake(tables[p]["heap"].at)
        BY <1>0, <2>1 DEF CowFault, PgTypeOK, Heap, In, PgPages
    <2>2. CASE ~MayTake(tables[p]["heap"].at)
        <3>1. NewFrame \in PgFrames /\ owners[NewFrame] = 0
            BY <2>2, NewIsFree DEF CowFault
        <3>2. /\ tables' = [tables EXCEPT ![p]["heap"] = In(NewFrame, TRUE)]
              /\ bytes' = [bytes EXCEPT ![NewFrame] = bytes[tables[p]["heap"].at]]
            BY <2>2 DEF CowFault
        <3>3. Heap(p)'.k = "in" /\ Heap(p)'.w /\ Heap(p)'.at = NewFrame
            BY <1>0, <3>2 DEF PgTypeOK, Heap, In, PgPages
        <3>4. bytes'[NewFrame] = bytes[f] /\ \A g \in PgFrames : g # NewFrame => bytes'[g] = bytes[g]
            BY <1>0, <3>1, <3>2 DEF PgTypeOK, Heap
        <3> QED BY <3>1, <3>3, <3>4
    <2> QED BY <2>1, <2>2
<1>5. ASSUME NEW u \in PgThreads, Space(u) = p, tlb[u].w, tlb[u].f = job'[t].frame
      PROVE  u = t \/ job[u].at \in CloneTime
    <2>1. HeapIs(p, tlb[u].f)
        BY <1>0, <1>1, <1>3, <1>5 DEF TlbNamed, HeapIs
    <2>2. PICK z \in PgThreads : job[z].at \in CloneTime /\ Space(z) = p
        BY <1>0, <1>1, <1>5, <2>1 DEF StaleStore
    <2>3. z # t /\ Space(z) = First
        BY <1>0, <1>1, <2>2 DEF PgThreadsOK, HandOK, CloneTime, Forking
    <2> QED BY <1>5, <2>2, <2>3 DEF FewThreads, ThreadsOf
<1>6. Calm(t)
    <2>1. "idle" \notin Swapping \cup CloneTime /\ "copied" \notin Swapping
        BY DEF Swapping, CloneTime
    <2>2. \A g \in PgFrames : owners[g] # 0 => bytes'[g] = bytes[g]
        BY <1>4
    <2>3. \/ Heap(p)'.k = "in" /\ Heap(p)'.at \in PgFrames /\ owners[Heap(p)'.at] = 0
          \/ Heap(p)'.k = "in" /\ Heap(p)'.w /\ HeapIs(p, Heap(p)'.at)
        BY <1>1, <1>4 DEF HeapIs
    <2> QED BY <1>1, <1>2, <1>3, <1>5, <2>1, <2>2, <2>3 DEF Calm
<1>7. ASSUME NEW q \in PgProcs, Born(q)' PROVE HeldIs(q)' \/ HeldStays(q)
    <2>0. Born(q)
        BY <1>1, <1>3, <1>7 DEF Born, OnlyJob
    <2>1. CASE q = p
        <3>1. bytes[f] = holds[p]
            BY <1>0, <1>1, <2>0, <2>1 DEF PagesHold, HeldIs
        <3> QED BY <1>1, <1>4, <2>1, <3>1 DEF HeldIs
    <2>2. CASE q # p
        BY <1>1, <1>2, <2>0, <2>2 DEF HeldStays
    <2> QED BY <2>1, <2>2
<1> QED BY <1>6, <1>7, CalmKeeps

\* The child of a fork under way is no process yet, and there is one at a time
LEMMA ChildIsNew ==
    ASSUME PgAssumption, PgBooks, NEW t \in PgThreads, job[t].at \in Forking
    PROVE  /\ Space(t) \in PgProcs /\ Space(t) \in live
           /\ job[t].child \in PgProcs /\ job[t].child \notin live /\ job[t].child # Space(t)
           /\ \A u \in PgThreads : u # t => job[u].at \notin Forking
<1>1. PgThreadsOK /\ OneFork
    BY DEF PgBooks
<1>2. Space(t) \in PgProcs
    BY PgNames
<1>3. job[t].at # "idle"
    BY DEF Forking
<1> QED BY <1>1, <1>2, <1>3 DEF PgThreadsOK, HandOK, OneFork

LEMMA ForkKeepHolds ==
    ASSUME PgAssumption, PgBooks, PgValues, NEW t \in PgThreads, NEW ok \in BOOLEAN, ForkKeep(t, ok)
    PROVE  PgValues'
<1> DEFINE p == Space(t)
           f == Heap(p).at
<1>0. /\ PgTypeOK /\ PagesHold /\ job[t].at = "keeping"
      /\ \A q \in PgProcs : Heap(q).k = "in" => Heap(q).at \in PgFrames /\ owners[Heap(q).at] # 0
    BY ReachedIsOwned DEF PgBooks, PgValues, ForkKeep
<1>c. /\ p \in PgProcs /\ p \in live
      /\ \A u \in PgThreads : u # t => job[u].at \notin Forking
    BY <1>0, ChildIsNew DEF Forking
<1>1. live' = live /\ slotBytes' = slotBytes /\ holds' = holds /\ heapOn' = heapOn
    BY DEF ForkKeep, userVars, swapVars
<1>2. \A u \in PgThreads : tlb'[u] = tlb[u] \/ tlb'[u] = NoTlb
    BY DEF ForkKeep, process_tlb_sync
<1>3. OnlyJob(t) /\ job'[t].at \in {"charging", "undoing"} /\ job'[t].child = job[t].child
    BY <1>0 DEF ForkKeep, Does, OnlyJob, PgTypeOK, PgJob
<1>4. /\ \A q \in PgProcs : q # p => Heap(q)' = Heap(q)
      /\ \/ Heap(p)' = Heap(p) /\ bytes' = bytes
         \/ Heap(p).k = "in" /\ Heap(p)'.k = "in" /\ Heap(p)'.w /\ Heap(p)'.at = f /\ bytes' = bytes
         \/ /\ Heap(p).k = "in" /\ Heap(p)'.k = "in" /\ Heap(p)'.at \in PgFrames /\ owners[Heap(p)'.at] = 0
            /\ bytes'[Heap(p)'.at] = bytes[f] /\ \A g \in PgFrames : owners[g] # 0 => bytes'[g] = bytes[g]
    <2> DEFINE e == tables[p]["heap"]
               keep == RangeBusy(p) /\ e.k = "in" /\ ~e.w
               copy == keep /\ ~MayTake(e.at)
    <2>1. CASE copy /\ HasFrame
        <3>1. NewFrame \in PgFrames /\ owners[NewFrame] = 0
            BY <2>1, NewIsFree
        <3>2. tables' = [tables EXCEPT ![p]["heap"] = In(NewFrame, TRUE)] /\ bytes' = [bytes EXCEPT ![NewFrame] = bytes[e.at]]
            BY <2>1 DEF ForkKeep
        <3>3. /\ \A q \in PgProcs : q # p => Heap(q)' = Heap(q)
              /\ Heap(p)'.k = "in" /\ Heap(p)'.at = NewFrame
            BY <1>0, <1>c, <3>2 DEF PgTypeOK, Heap, In, PgPages
        <3>4. bytes'[NewFrame] = bytes[f] /\ \A g \in PgFrames : g # NewFrame => bytes'[g] = bytes[g]
            BY <1>0, <3>1, <3>2 DEF PgTypeOK, Heap
        <3> QED BY <2>1, <3>1, <3>3, <3>4 DEF Heap
    <2>2. CASE keep /\ ~copy
        <3>2. tables' = [tables EXCEPT ![p]["heap"] = In(e.at, TRUE)] /\ bytes' = bytes
            BY <2>2 DEF ForkKeep
        <3>3. /\ \A q \in PgProcs : q # p => Heap(q)' = Heap(q)
              /\ Heap(p)'.k = "in" /\ Heap(p)'.w /\ Heap(p)'.at = f
            BY <1>0, <1>c, <3>2 DEF PgTypeOK, Heap, In, PgPages
        <3> QED BY <2>2, <3>2, <3>3 DEF Heap
    <2>3. CASE ~(copy /\ HasFrame) /\ ~(keep /\ ~copy)
        <3>2. tables' = tables /\ bytes' = bytes
            BY <2>3 DEF ForkKeep
        <3> QED BY <3>2 DEF Heap
    <2> QED BY <2>1, <2>2, <2>3
<1>5. Calm(t)
    <2>1. "keeping" \notin Swapping \cup CloneTime /\ \A x \in {"charging", "undoing"} : x \notin Swapping /\ x # "copied"
        BY DEF Swapping, CloneTime
    <2>2. \A g \in PgFrames : owners[g] # 0 => bytes'[g] = bytes[g]
        BY <1>4
    <2>3. \/ Heap(p)' = Heap(p)
          \/ Heap(p)'.k = "in" /\ Heap(p)'.at \in PgFrames /\ owners[Heap(p)'.at] = 0
          \/ Heap(p)'.k = "in" /\ Heap(p)'.w /\ HeapIs(p, Heap(p)'.at)
        BY <1>4 DEF HeapIs
    <2> QED BY <1>0, <1>1, <1>2, <1>3, <1>4, <2>1, <2>2, <2>3 DEF Calm
<1>6. ASSUME NEW q \in PgProcs, Born(q)' PROVE HeldIs(q)' \/ HeldStays(q)
    <2>0. Born(q)
        BY <1>0, <1>1, <1>3, <1>6 DEF Born, OnlyJob
    <2>1. CASE Heap(q)' = Heap(q)
        BY <1>1, <2>0, <2>1 DEF HeldStays
    <2>2. CASE Heap(q)' # Heap(q)
        <3>0. q = p
            BY <1>4, <2>2
        <3>1. Heap(p).k = "in" => bytes[f] = holds[p]
            BY <1>0, <2>0, <3>0 DEF PagesHold, HeldIs
        <3> QED BY <1>1, <1>4, <2>2, <3>0, <3>1 DEF HeldIs
    <2> QED BY <2>1, <2>2
<1> QED BY <1>5, <1>6, CalmKeeps

LEMMA ForkUndoHolds ==
    ASSUME PgAssumption, PgBooks, PgValues, NEW t \in PgThreads, ForkUndo(t)
    PROVE  PgValues'
<1>0. PgTypeOK /\ job[t].at = "undoing"
    BY DEF PgBooks, ForkUndo
<1>c. PICK c \in PgProcs : c = job[t].child /\ c \notin live /\ \A u \in PgThreads : u # t => job[u].at \notin Forking
    BY <1>0, ChildIsNew DEF Forking
<1>1. /\ live' = live /\ slotBytes' = slotBytes /\ holds' = holds /\ heapOn' = heapOn /\ bytes' = bytes /\ tlb' = tlb
    BY DEF ForkUndo, userVars
<1>2. OnlyJob(t) /\ job'[t].at = "idle"
    BY <1>0 DEF ForkUndo, Does, OnlyJob, PgTypeOK, NoJob
<1>3. Heap(c)'.k = "none" /\ \A q \in PgProcs : q # c => Heap(q)' = Heap(q)
    BY <1>0, <1>c DEF ForkUndo, PgTypeOK, Heap, Absent, PgPages
<1>4. Calm(t)
    BY <1>0, <1>1, <1>2, <1>3 DEF Calm, Swapping, CloneTime
<1>5. ASSUME NEW q \in PgProcs, Born(q)' PROVE HeldStays(q)
    <2>1. Born(q)
        BY <1>0, <1>1, <1>2, <1>5 DEF Born, OnlyJob
    <2>2. q # c
        BY <1>1, <1>2, <1>5, <1>c DEF Born, OnlyJob, Forking
    <2> QED BY <1>1, <1>3, <2>1, <2>2 DEF HeldStays
<1> QED BY <1>4, <1>5, CalmKeeps

LEMMA ForkChargeHolds ==
    ASSUME PgAssumption, PgBooks, PgValues, NEW t \in PgThreads, ForkCharge(t)
    PROVE  PgValues'
<1>0. PgTypeOK /\ PagesHold /\ job[t].at = "charging"
    BY DEF PgBooks, PgValues, ForkCharge
<1>c. PICK c \in PgProcs : c = job[t].child /\ c \notin live
    BY <1>0, ChildIsNew DEF Forking
<1>1. /\ live' = live \cup {c} /\ slotBytes' = slotBytes /\ holds' = holds /\ bytes' = bytes /\ tlb' = tlb
      /\ tables' = tables
    BY <1>c DEF ForkCharge, frameVars, swapVars
<1>2. OnlyJob(t) /\ job'[t].at = "idle"
    BY <1>0 DEF ForkCharge, Does, OnlyJob, PgTypeOK, NoJob
<1>3. \A q \in PgProcs : q # c => heapOn'[q] = heapOn[q]
    BY <1>0, <1>c DEF ForkCharge, PgTypeOK
<1>4. Calm(t)
    BY <1>0, <1>1, <1>2 DEF Calm, Swapping, CloneTime, Heap
<1>5. ASSUME NEW q \in PgProcs, Born(q)' PROVE HeldIs(q)' \/ HeldStays(q)
    <2>0. Born(q)
        BY <1>0, <1>1, <1>2, <1>5, <1>c DEF Born, OnlyJob
    <2>1. CASE q = c
        <3>1. HeldIs(c)
            BY <1>0, <2>0, <2>1 DEF PagesHold
        <3>2. SwapsOut(c)' <=> SwapsOut(c)
            BY <1>0, <1>2 DEF SwapsOut, OnlyJob, Space, Swapping
        <3> QED BY <1>1, <1>c, <2>1, <3>1, <3>2 DEF HeldIs, Heap
    <2>2. CASE q # c
        BY <1>1, <1>3, <2>0, <2>2 DEF HeldStays, Heap
    <2> QED BY <2>1, <2>2
<1> QED BY <1>4, <1>5, CalmKeeps

LEMMA ExitHolds ==
    ASSUME PgAssumption, PgBooks, PgValues, NEW t \in PgThreads, Exit(t)
    PROVE  PgValues'
<1> DEFINE p == Space(t)
<1>0. PgTypeOK /\ PgThreadsOK /\ p \in PgProcs
    BY PgNames DEF PgBooks
<1>1. /\ live' = live \ {p} /\ slotBytes' = slotBytes /\ holds' = holds /\ bytes' = bytes /\ job' = job
      /\ job[t].at = "idle" /\ p \in live
    BY DEF Exit, Calling
<1>2. Heap(p)'.k = "none" /\ \A q \in PgProcs : q # p => Heap(q)' = Heap(q) /\ heapOn'[q] = heapOn[q]
    BY <1>0 DEF Exit, PgTypeOK, Heap, Absent, PgPages
<1>3. \A u \in PgThreads : tlb'[u] = tlb[u] \/ tlb'[u] = NoTlb
    BY DEF Exit
<1>4. Calm(t)
    BY <1>1, <1>2, <1>3 DEF Calm, OnlyJob, Swapping, CloneTime
<1>5. ASSUME NEW q \in PgProcs, Born(q)' PROVE HeldStays(q)
    <2>1. Born(q)
        BY <1>1, <1>5 DEF Born
    <2>2. q # p
        BY <1>0, <1>1, <1>5 DEF Born, PgThreadsOK, HandOK, Forking
    <2> QED BY <1>1, <1>2, <2>1, <2>2 DEF HeldStays
<1> QED BY <1>4, <1>5, CalmKeeps

LEMMA FillHolds ==
    ASSUME PgAssumption, PgBooks, PgValues, NEW t \in PgThreads, Fill(t)
    PROVE  PgValues'
<1> DEFINE p == Space(t)
           f == Heap(p).at
<1>0. /\ PgTypeOK /\ FramesCounted /\ PgThreadsOK /\ p \in PgProcs /\ f \in PgFrames /\ f # 0 /\ WritableAlone(p)
      /\ Heap(p).k = "in"
    BY PgNames, ReachedIsOwned DEF PgBooks, SpaceOK, Fill, Heap
<1>v. /\ PagesHold /\ SavingIs /\ SlotAlone /\ NoTlbLeft
      /\ TlbNamed /\ StoreAlone /\ StaleStore /\ CopyAlone
    BY DEF PgValues
<1>1. /\ tables' = tables /\ bytes' = bytes /\ live' = live /\ slotBytes' = slotBytes /\ holds' = holds
      /\ heapOn' = heapOn /\ job' = job
    BY DEF Fill, frameVars, swapVars, userVars
<1>2. /\ \A u \in PgThreads : u # t => tlb'[u] = tlb[u]
      /\ tlb'[t].f = f /\ (tlb'[t].w <=> Heap(p).w)
    BY <1>0 DEF Fill, PgTypeOK, Heap
<1>3. ASSUME Heap(p).w
      PROVE  /\ \A q \in PgProcs : HeapIs(q, f) => q = p
             /\ \A u \in PgThreads : job[u].frame # f
    <2>1. owners[f] = 1
        BY <1>0, <1>3 DEF WritableAlone
    <2>2. HeapIs(p, f)
        BY <1>0 DEF HeapIs
    <2> QED BY <1>0, <2>1, <2>2, Holders
<1>4. PagesHold' /\ SavingIs' /\ SlotAlone'
    BY <1>1, <1>v DEF PagesHold, Born, HeldIs, SwapsOut, Heap, SavingIs, SlotAlone, Space
<1>5. NoTlbLeft'
    <2>1. \A u \in PgThreads : job[u].at = "saving" => Heap(Space(u)).k = "out"
        BY <1>0 DEF PgThreadsOK, PageOK, HeapOut, Swapping
    <2> QED BY <1>0, <1>1, <1>2, <1>v, <2>1 DEF NoTlbLeft, Space
<1>6. TlbNamed'
    BY <1>0, <1>2, <1>v DEF TlbNamed
<1>7. StoreAlone' /\ StaleStore'
    <2>1. ASSUME NEW u \in PgThreads, NEW q \in PgProcs, tlb'[u].w, q # Space(u), HeapIs(q, tlb[u].f)'
          PROVE  \E z \in PgThreads : job'[z].at \in CloneTime /\ Space(z) = Space(u) /\ job'[z].child = q
        <3>1. CASE u = t
            BY <1>1, <1>2, <1>3, <2>1, <3>1 DEF HeapIs, Heap
        <3>2. CASE u # t
            BY <1>1, <1>2, <1>v, <2>1, <3>2 DEF HeapIs, Heap, StoreAlone
        <3> QED BY <3>1, <3>2
    <2>2. ASSUME NEW u \in PgThreads, tlb'[u].w, HeapIs(Space(u), tlb[u].f)', ~Heap(Space(u))'.w
          PROVE  \E z \in PgThreads : job'[z].at \in CloneTime /\ Space(z) = Space(u)
        <3>1. CASE u = t
            BY <1>1, <1>2, <2>2, <3>1 DEF Heap
        <3>2. CASE u # t
            BY <1>1, <1>2, <1>v, <2>2, <3>2 DEF HeapIs, Heap, StaleStore
        <3> QED BY <3>1, <3>2
    <2> QED BY <2>1, <2>2 DEF StoreAlone, StaleStore, Space
<1>8. CopyAlone'
    BY <1>1, <1>2, <1>3, <1>v DEF CopyAlone, Space
<1> QED BY <1>4, <1>5, <1>6, <1>7, <1>8 DEF PgValues

\* A store goes into the process's page, or one on its way to the disk
LEMMA StoreHolds ==
    ASSUME PgAssumption, PgBooks, PgValues, NEW t \in PgThreads, StoreHeap(t)
    PROVE  PgValues'
<1> DEFINE p == Space(t)
           f == tlb[t].f
<1>n. p \in PgProcs /\ \A u \in PgThreads : Space(u) \in PgProcs
    BY PgNames
<1>0. /\ PgTypeOK /\ FramesCounted /\ PgThreadsOK /\ OneFork /\ TlbOwned(p)
      /\ job[t].at = "idle" /\ p \in live /\ tlb[t].w
    BY <1>n DEF PgBooks, SpaceOK, StoreHeap, Calling
<1>v. /\ PagesHold /\ SavingIs /\ SlotAlone /\ NoTlbLeft
      /\ TlbNamed /\ StoreAlone /\ StaleStore /\ CopyAlone
    BY DEF PgValues
<1>f. f # 0 /\ f \in PgFrames
    BY <1>0, <1>v, ReachedIsOwned DEF TlbNamed
<1>1. /\ tables' = tables /\ tlb' = tlb /\ live' = live /\ slotBytes' = slotBytes
      /\ heapOn' = heapOn /\ job' = job
    BY DEF StoreHeap, swapVars, userVars
<1>2. /\ \A g \in PgFrames : g # f => bytes'[g] = bytes[g]
      /\ \A q \in PgProcs : q # p => holds'[q] = holds[q]
      /\ bytes'[f] = holds'[p]
    BY <1>0, <1>f, <1>n DEF StoreHeap, PgTypeOK
<1>3. \/ HeapIs(p, f)
      \/ Heap(p).k = "none" /\ ~heapOn[p]
      \/ \E u \in PgThreads : Space(u) = p /\ job[u].at = "leaving" /\ job[u].frame = f
    <2>1. CASE HeapIs(p, f)
        BY <2>1
    <2>2. CASE \E u \in PgThreads : Space(u) = p /\ job[u].frame = f /\ job[u].at \in {"freeing", "leaving", "copied"}
        <3>1. PICK u \in PgThreads : Space(u) = p /\ job[u].frame = f /\ job[u].at \in {"freeing", "leaving", "copied"}
            BY <2>2
        <3>2. job[u].at = "copied" => FALSE
            BY <1>0, <1>v, <3>1 DEF CopyAlone, CloneTime
        <3>3. job[u].at = "freeing" => Heap(p).k = "none" /\ ~heapOn[p]
            BY <1>0, <3>1 DEF PgThreadsOK, PageOK
        <3> QED BY <3>1, <3>2, <3>3
    <2> QED BY <1>0, <1>f, <2>1, <2>2 DEF TlbOwned
<1>4. PagesHold'
    <2> SUFFICES ASSUME NEW q \in PgProcs, Born(q)' PROVE HeldIs(q)'
        BY DEF PagesHold
    <2>0. Born(q) /\ HeldIs(q) /\ (SwapsOut(q)' <=> SwapsOut(q))
        BY <1>1, <1>v DEF PagesHold, Born, SwapsOut, Space
    <2>1. CASE q = p
        <3>1. CASE HeapIs(p, f)
            BY <1>1, <1>2, <2>1, <3>1 DEF HeldIs, HeapIs, Heap
        <3>2. CASE Heap(p).k = "none" /\ ~heapOn[p]
            BY <1>0, <1>1, <2>1, <3>2 DEF HeldIs, Heap
        <3>3. CASE \E u \in PgThreads : Space(u) = p /\ job[u].at = "leaving" /\ job[u].frame = f
            <4>1. SwapsOut(p) /\ Heap(p).k = "out"
                BY <1>0, <3>3 DEF SwapsOut, Swapping, PgThreadsOK, PageOK, HeapOut
            <4> QED BY <1>1, <2>0, <2>1, <4>1 DEF HeldIs, Heap
        <3> QED BY <1>3, <3>1, <3>2, <3>3
    <2>2. CASE q # p
        <3>1. ~HeapIs(q, f)
            <4> SUFFICES ASSUME HeapIs(q, f) PROVE FALSE
                OBVIOUS
            <4>1. PICK z \in PgThreads : job[z].at \in CloneTime /\ job[z].child = q
                BY <1>0, <1>v, <2>2 DEF StoreAlone
            <4>2. job[z].at \in Forking /\ job[z].at \notin {"keeping", "charging"}
                BY <4>1 DEF CloneTime, Forking
            <4>3. q \notin live /\ \A u \in PgThreads : u # z => job[u].at \notin Forking
                BY <4>1, <4>2, ChildIsNew
            <4>4. {"keeping", "charging"} \subseteq Forking
                BY DEF Forking
            <4> QED BY <2>0, <4>2, <4>3, <4>4 DEF Born
        <3>2. Heap(q).k = "in" => bytes'[Heap(q).at] = bytes[Heap(q).at]
            BY <1>2, <3>1, ReachedIsOwned DEF HeapIs
        <3> QED BY <1>1, <1>2, <2>0, <2>2, <3>2 DEF HeldIs, Heap
    <2> QED BY <2>1, <2>2
<1>5. SavingIs'
    <2> SUFFICES ASSUME NEW u \in PgThreads, job[u].at \in Swapping PROVE bytes'[job[u].frame] = holds'[Space(u)]
        BY <1>1 DEF SavingIs, Space
    <2>0. job[u].frame \in PgFrames /\ owners[job[u].frame] = 1 /\ Heap(Space(u)).k = "out"
        BY <1>0, ReachedIsOwned DEF PgThreadsOK, HandOK, PageOK, HeapOut
    <2>1. CASE Space(u) = p
        <3>1. PICK y \in PgThreads : Space(y) = p /\ job[y].at = "leaving" /\ job[y].frame = f
            BY <1>3, <2>0, <2>1 DEF HeapIs
        <3>2. y = u
            BY <1>0, <2>1, <3>1 DEF PgThreadsOK, LocksOK, Swapping
        <3> QED BY <1>2, <2>1, <3>1, <3>2
    <2>2. CASE Space(u) # p
        <3>1. job[u].frame # f
            <4> SUFFICES ASSUME job[u].frame = f PROVE FALSE
                OBVIOUS
            <4>1. /\ \A q \in PgProcs : ~HeapIs(q, f)
                  /\ \A y \in PgThreads : job[y].frame = f => y = u
                BY <1>0, <2>0, Holders
            <4> QED BY <1>0, <1>f, <1>n, <2>2, <4>1 DEF TlbOwned
        <3>2. bytes[job[u].frame] = holds[Space(u)]
            BY <1>v DEF SavingIs
        <3> QED BY <1>2, <1>n, <2>0, <2>2, <3>1, <3>2
    <2> QED BY <2>1, <2>2
<1>6. SlotAlone' /\ NoTlbLeft' /\ TlbNamed' /\ StoreAlone' /\ StaleStore' /\ CopyAlone'
    BY <1>1, <1>v DEF SlotAlone, NoTlbLeft, TlbNamed, StoreAlone, StaleStore, CopyAlone, Heap, HeapIs, Space
<1> QED BY <1>4, <1>5, <1>6 DEF PgValues

LEMMA SwapOutHolds ==
    ASSUME PgAssumption, PgBooks, PgValues, NEW t \in PgThreads, NEW s \in PgSlots, SwapOut(t, s)
    PROVE  PgValues'
<1> DEFINE p == Space(t)
           f == Heap(p).at
<1>n. /\ p \in PgProcs /\ \A u \in PgThreads : Space(u) \in PgProcs
      /\ \A u \in PgThreads : u # 0
    BY PgNames
<1>0. /\ PgTypeOK /\ SlotsCounted /\ PgThreadsOK
      /\ job[t].at = "idle" /\ p \in live /\ swapLock = 0 /\ slotOwners[s] = 0 /\ Heap(p).k = "in"
    BY DEF PgBooks, SwapOut, Calling, FreeSlot, MayLeave, Heap
<1>v. /\ PagesHold /\ SavingIs /\ SlotAlone /\ NoTlbLeft
      /\ TlbNamed /\ StoreAlone /\ StaleStore /\ CopyAlone
    BY DEF PgValues
<1>s. \A u \in PgThreads : job[u].at \notin Swapping
    BY <1>0, <1>n DEF PgThreadsOK, LocksOK
<1>1. bytes' = bytes /\ slotBytes' = slotBytes /\ tlb' = tlb /\ live' = live /\ heapOn' = heapOn /\ holds' = holds
    BY DEF SwapOut, userVars
<1>2. /\ \A q \in PgProcs : q # p => Heap(q)' = Heap(q)
      /\ Heap(p)'.k = "out" /\ Heap(p)'.at = s
    BY <1>0, <1>n DEF SwapOut, PgTypeOK, Heap, Out, PgPages
<1>3. OnlyJob(t) /\ job'[t].at = "leaving" /\ job'[t].frame = f /\ job'[t].slot = s
    BY <1>0 DEF SwapOut, Does, NoJob, OnlyJob, PgTypeOK, Heap
<1>j. /\ \A u \in PgThreads : u # t => job'[u] = job[u]
      /\ \A u \in PgThreads : job'[u].at \in Swapping => u = t
      /\ \A u \in PgThreads : job[u].at \in CloneTime => job'[u] = job[u]
      /\ \A u \in PgThreads : job'[u].at \in {"copied", "keeping", "charging"} => job'[u] = job[u]
    BY <1>0, <1>s, <1>3 DEF OnlyJob, CloneTime
<1>4. PagesHold'
    <2> SUFFICES ASSUME NEW q \in PgProcs, Born(q)' PROVE HeldIs(q)'
        BY DEF PagesHold
    <2>0. Born(q) /\ HeldIs(q)
        BY <1>1, <1>j, <1>v DEF PagesHold, Born
    <2>1. CASE q = p
        <3>1. SwapsOut(p)'
            BY <1>3 DEF SwapsOut, Swapping, Space
        <3> QED BY <1>2, <2>1, <3>1 DEF HeldIs
    <2>2. CASE q # p
        <3>1. SwapsOut(q)' <=> SwapsOut(q)
            BY <1>j, <1>s, <2>2 DEF SwapsOut, Space
        <3> QED BY <1>1, <1>2, <2>0, <2>2, <3>1 DEF HeldIs
    <2> QED BY <2>1, <2>2
<1>5. SavingIs'
    <2>1. bytes[f] = holds[p]
        BY <1>0, <1>n, <1>v DEF PagesHold, Born, HeldIs
    <2> QED BY <1>1, <1>3, <1>j, <2>1 DEF SavingIs, Space
<1>6. SlotAlone'
    <2> SUFFICES ASSUME NEW q \in PgProcs, q # p, Heap(q)'.k = "out" PROVE Heap(q)'.at # s
        BY <1>3, <1>j DEF SlotAlone, Space
    <2>1. HeapOut(q, s) => slotOwners[s] > 0
        BY <1>0, SlotHolders
    <2> QED BY <1>0, <1>2, <2>1 DEF HeapOut
<1>7. NoTlbLeft' /\ TlbNamed'
    <2>1. \A u \in PgThreads : job'[u].at # "saving"
        BY <1>3, <1>j DEF Swapping
    <2> QED BY <1>1, <1>v, <2>1 DEF NoTlbLeft, TlbNamed
<1>8. StoreAlone'
    <2> SUFFICES ASSUME NEW u \in PgThreads, NEW q \in PgProcs, tlb[u].w, q # Space(u), HeapIs(q, tlb[u].f)'
                 PROVE  \E z \in PgThreads : job'[z].at \in CloneTime /\ Space(z) = Space(u) /\ job'[z].child = q
        BY <1>1 DEF StoreAlone, Space
    <2>1. HeapIs(q, tlb[u].f)
        BY <1>1, <1>2 DEF HeapIs
    <2> QED BY <1>j, <1>v, <2>1 DEF StoreAlone
<1>9. StaleStore'
    <2> SUFFICES ASSUME NEW u \in PgThreads, tlb[u].w, HeapIs(Space(u), tlb[u].f)', ~Heap(Space(u))'.w
                 PROVE  \E z \in PgThreads : job'[z].at \in CloneTime /\ Space(z) = Space(u)
        BY <1>1 DEF StaleStore, Space
    <2>1. HeapIs(Space(u), tlb[u].f) /\ ~Heap(Space(u)).w
        BY <1>1, <1>2, <1>n DEF HeapIs
    <2> QED BY <1>j, <1>v, <2>1 DEF StaleStore
<1>a. CopyAlone'
    BY <1>1, <1>j, <1>v DEF CopyAlone, Space
<1> QED BY <1>4, <1>5, <1>6, <1>7, <1>8, <1>9, <1>a DEF PgValues

LEMMA SwapSyncHolds ==
    ASSUME PgAssumption, PgBooks, PgValues, NEW t \in PgThreads, SwapSync(t)
    PROVE  PgValues'
<1>0. PgTypeOK /\ job[t].at = "leaving"
    BY DEF PgBooks, SwapSync
<1>v. /\ PagesHold /\ SavingIs /\ SlotAlone /\ NoTlbLeft
      /\ TlbNamed /\ StoreAlone /\ StaleStore /\ CopyAlone
    BY DEF PgValues
<1>1. /\ tables' = tables /\ bytes' = bytes /\ slotBytes' = slotBytes /\ live' = live /\ heapOn' = heapOn
      /\ holds' = holds
    BY DEF SwapSync, frameVars, swapVars, userVars
<1>2. /\ \A u \in PgThreads : u # t => job'[u] = job[u]
      /\ job'[t].at = "saving" /\ job'[t].frame = job[t].frame /\ job'[t].slot = job[t].slot
    BY <1>0 DEF SwapSync, Does, PgTypeOK, PgJob
<1>3. /\ \A u \in PgThreads : Space(u) = Space(t) => tlb'[u].f = 0 /\ ~tlb'[u].w
      /\ \A u \in PgThreads : Space(u) # Space(t) => tlb'[u] = tlb[u]
    BY DEF SwapSync, process_tlb_sync, ThreadsOf, NoTlb
<1>j. /\ \A u \in PgThreads : job'[u].at \in Swapping <=> job[u].at \in Swapping
      /\ \A u \in PgThreads : job'[u].frame = job[u].frame /\ job'[u].slot = job[u].slot
      /\ \A u \in PgThreads : job[u].at \in CloneTime => job'[u] = job[u]
      /\ \A u \in PgThreads : job'[u].at \in {"copied", "keeping", "charging"} => job'[u] = job[u]
    BY <1>0, <1>2 DEF Swapping, CloneTime
<1>4. PagesHold'
    BY <1>1, <1>j, <1>v DEF PagesHold, Born, HeldIs, SwapsOut, Heap, Space
<1>5. SavingIs' /\ SlotAlone'
    BY <1>1, <1>j, <1>v DEF SavingIs, SlotAlone, Heap, Space
<1>7. NoTlbLeft' /\ TlbNamed'
    BY <1>2, <1>3, <1>v DEF NoTlbLeft, TlbNamed, Space
<1>8. StoreAlone' /\ StaleStore'
    <2>1. ASSUME NEW u \in PgThreads, NEW q \in PgProcs, tlb'[u].w, q # Space(u), HeapIs(q, tlb[u].f)'
          PROVE  \E z \in PgThreads : job'[z].at \in CloneTime /\ Space(z) = Space(u) /\ job'[z].child = q
        <3>1. tlb[u].w /\ HeapIs(q, tlb[u].f)
            BY <1>1, <1>3, <2>1 DEF HeapIs, Heap
        <3> QED BY <1>j, <1>v, <2>1, <3>1 DEF StoreAlone
    <2>2. ASSUME NEW u \in PgThreads, tlb'[u].w, HeapIs(Space(u), tlb[u].f)', ~Heap(Space(u))'.w
          PROVE  \E z \in PgThreads : job'[z].at \in CloneTime /\ Space(z) = Space(u)
        <3>1. tlb[u].w /\ HeapIs(Space(u), tlb[u].f) /\ ~Heap(Space(u)).w
            BY <1>1, <1>3, <2>2 DEF HeapIs, Heap, Space
        <3> QED BY <1>j, <1>v, <3>1 DEF StaleStore
    <2> QED BY <2>1, <2>2 DEF StoreAlone, StaleStore, Space
<1>a. CopyAlone'
    BY <1>3, <1>j, <1>v DEF CopyAlone, Space
<1> QED BY <1>4, <1>5, <1>7, <1>8, <1>a DEF PgValues

LEMMA SwapSaveHolds ==
    ASSUME PgAssumption, PgBooks, PgValues, NEW t \in PgThreads, NEW ok \in BOOLEAN, SwapSave(t, ok)
    PROVE  PgValues'
<1> DEFINE p == Space(t)
<1>n. p \in PgProcs /\ \A u \in PgThreads : Space(u) \in PgProcs
    BY PgNames
<1>0. PgTypeOK /\ FramesCounted /\ PgThreadsOK /\ job[t].at = "saving" /\ \A q \in PgProcs : TlbOwned(q)
    BY DEF PgBooks, SpaceOK, SwapSave
<1>v. /\ PagesHold /\ SavingIs /\ SlotAlone /\ NoTlbLeft
      /\ TlbNamed /\ StoreAlone /\ StaleStore /\ CopyAlone
    BY DEF PgValues
<1>s. PICK s \in PgSlots : s = job[t].slot /\ HeapOut(p, s)
    BY <1>0 DEF PgThreadsOK, HandOK, PageOK, Swapping
<1>f. PICK f \in PgFrames : f = job[t].frame /\ owners[f] = 1 /\ bytes[f] = holds[p]
    BY <1>0, <1>v, ReachedIsOwned DEF PgThreadsOK, HandOK, SavingIs, Swapping
<1>1. bytes' = bytes /\ tlb' = tlb /\ live' = live /\ heapOn' = heapOn /\ holds' = holds
    BY DEF SwapSave, userVars
<1>2. \A u \in PgThreads : u # t => job'[u] = job[u] /\ job[u].at \notin Swapping
    <2>1. \A u \in PgThreads : u # t => job'[u] = job[u]
        BY <1>0 DEF SwapSave, Does, PgTypeOK
    <2>2. swapLock = t
        BY <1>0 DEF PgThreadsOK, LocksOK, Swapping
    <2> QED BY <1>0, <2>1, <2>2 DEF PgThreadsOK, LocksOK
<1>j. /\ \A u \in PgThreads : job'[u].at \notin Swapping
      /\ \A u \in PgThreads : job[u].at \in CloneTime => job'[u] = job[u]
      /\ \A u \in PgThreads : job'[u].at \in {"copied", "keeping", "charging"} => job'[u] = job[u]
    <2>1. job'[t].at = "idle"
        BY <1>0 DEF SwapSave, Does, PgTypeOK, NoJob
    <2> QED BY <1>0, <1>2, <2>1 DEF Swapping, CloneTime
<1>3. /\ \A q \in PgProcs : q # p => Heap(q)' = Heap(q)
      /\ \A x \in PgSlots : x # s => slotBytes'[x] = slotBytes[x]
      /\ \/ Heap(p)' = Heap(p) /\ slotBytes'[s] = bytes[f]
         \/ Heap(p)'.k = "in" /\ Heap(p)'.at = f /\ slotBytes' = slotBytes
    <2>1. CASE ok
        BY <1>0, <1>s, <1>f, <2>1 DEF SwapSave, PgTypeOK, Heap
    <2>2. CASE ~ok
        BY <1>0, <1>n, <1>s, <1>f, <2>2 DEF SwapSave, PgTypeOK, Heap, In, PgPages
    <2> QED BY <2>1, <2>2
<1>4. PagesHold'
    <2> SUFFICES ASSUME NEW q \in PgProcs, Born(q)' PROVE HeldIs(q)'
        BY DEF PagesHold
    <2>0. Born(q) /\ HeldIs(q)
        BY <1>1, <1>j, <1>v DEF PagesHold, Born
    <2>1. CASE q = p
        BY <1>1, <1>3, <1>s, <1>f, <2>1 DEF HeldIs, HeapOut
    <2>2. CASE q # p
        <3>1. SwapsOut(q)' <=> SwapsOut(q)
            BY <1>j, <1>2, <2>2 DEF SwapsOut, Space
        <3>2. Heap(q).k = "out" => Heap(q).at \in PgSlots /\ Heap(q).at # s
            BY <1>0, <1>s, <1>v, <2>2 DEF SlotAlone, Swapping, PgBooks, EntriesOK, EntryNames
        <3> QED BY <1>1, <1>3, <2>0, <2>2, <3>1, <3>2 DEF HeldIs
    <2> QED BY <2>1, <2>2
<1>5. SavingIs' /\ SlotAlone' /\ NoTlbLeft'
    BY <1>j DEF SavingIs, SlotAlone, NoTlbLeft, Swapping
<1>6. TlbNamed'
    BY <1>1, <1>v DEF TlbNamed
<1>t. \A u \in PgThreads : Space(u) = p => tlb[u].f = 0
    BY <1>0, <1>v DEF NoTlbLeft
<1>h. ASSUME NEW u \in PgThreads, NEW q \in PgProcs, tlb[u].w, HeapIs(q, tlb[u].f)'
      PROVE  q # p /\ HeapIs(q, tlb[u].f)
    <2>1. CASE q # p
        BY <1>1, <1>3, <1>h, <2>1 DEF HeapIs
    <2>2. CASE q = p
        <3>1. tlb[u].f = f /\ f # 0
            BY <1>1, <1>3, <1>h, <1>s, <1>v, <2>2 DEF HeapIs, HeapOut, TlbNamed
        <3>2. /\ \A r \in PgProcs : ~HeapIs(r, f)
              /\ \A y \in PgThreads : job[y].frame = f => y = t
            BY <1>0, <1>f, Holders
        <3>3. Space(u) # p
            BY <1>t, <3>1
        <3> QED BY <1>0, <1>n, <3>1, <3>2, <3>3 DEF TlbOwned
    <2> QED BY <2>1, <2>2
<1>8. StoreAlone'
    <2> SUFFICES ASSUME NEW u \in PgThreads, NEW q \in PgProcs, tlb[u].w, q # Space(u), HeapIs(q, tlb[u].f)'
                 PROVE  \E z \in PgThreads : job'[z].at \in CloneTime /\ Space(z) = Space(u) /\ job'[z].child = q
        BY <1>1 DEF StoreAlone, Space
    <2> QED BY <1>h, <1>j, <1>v DEF StoreAlone
<1>9. StaleStore'
    <2> SUFFICES ASSUME NEW u \in PgThreads, tlb[u].w, HeapIs(Space(u), tlb[u].f)', ~Heap(Space(u))'.w
                 PROVE  \E z \in PgThreads : job'[z].at \in CloneTime /\ Space(z) = Space(u)
        BY <1>1 DEF StaleStore, Space
    <2>1. HeapIs(Space(u), tlb[u].f) /\ ~Heap(Space(u)).w
        BY <1>3, <1>n, <1>h
    <2> QED BY <1>j, <1>v, <2>1 DEF StaleStore
<1>a. CopyAlone'
    BY <1>1, <1>j, <1>v DEF CopyAlone, Space
<1> QED BY <1>4, <1>5, <1>6, <1>8, <1>9, <1>a DEF PgValues

LEMMA ClonePageHolds ==
    ASSUME PgAssumption, PgBooks, PgValues, NEW t \in PgThreads, NEW v \in PgPages, ClonePage(t, v)
    PROVE  PgValues'
<1> DEFINE p == Space(t)
<1>n. p \in PgProcs /\ \A u \in PgThreads : Space(u) \in PgProcs
    BY PgNames
<1>0. PgTypeOK /\ PgThreadsOK /\ job[t].at = "cloning" /\ \A q \in PgProcs : DeadOK(q)
    BY DEF PgBooks, SpaceOK, ClonePage
<1>v. /\ PagesHold /\ SavingIs /\ SlotAlone /\ NoTlbLeft
      /\ TlbNamed /\ StoreAlone /\ StaleStore /\ CopyAlone
    BY DEF PgValues
<1>c. PICK c \in PgProcs : /\ c = job[t].child /\ c \notin live /\ c # p
                           /\ \A u \in PgThreads : u # t => job[u].at \notin Forking
    BY <1>0, ChildIsNew DEF Forking
<1>1. bytes' = bytes /\ slotBytes' = slotBytes /\ tlb' = tlb /\ live' = live /\ heapOn' = heapOn /\ holds' = holds
    BY DEF ClonePage, userVars
<1>2. /\ \A u \in PgThreads : u # t => job'[u] = job[u]
      /\ job'[t].at \in CloneTime /\ job'[t].child = c
    BY <1>0, <1>c DEF ClonePage, Does, PgTypeOK, PgJob, CloneTime
<1>3. /\ \A q \in PgProcs : q # p /\ q # c => Heap(q)' = Heap(q)
      /\ Heap(p)'.k = Heap(p).k /\ Heap(p)'.at = Heap(p).at
      /\ Heap(c)' = Heap(c) \/ (Heap(c)'.k = Heap(p).k /\ Heap(c)'.at = Heap(p).at)
    <2> DEFINE e == IF v = "heap" /\ tables[p][v].k = "in" THEN [tables[p][v] EXCEPT !.w = FALSE] ELSE tables[p][v]
    <2>1. tables' = [tables EXCEPT ![p][v] = e, ![c][v] = e]
        BY <1>c DEF ClonePage
    <2>2. tables[p][v] \in PgEntry /\ tables[p] \in [PgPages -> PgEntry] /\ tables[c] \in [PgPages -> PgEntry]
        BY <1>0, <1>n DEF PgTypeOK
    <2>3. e.k = tables[p][v].k /\ e.at = tables[p][v].at
        BY <2>2 DEF PgEntry
    <2> HIDE DEF e
    <2>4. CASE v = "heap"
        BY <1>0, <1>n, <1>c, <2>1, <2>2, <2>3, <2>4 DEF PgTypeOK, Heap, PgPages
    <2>5. CASE v = "shm"
        BY <1>0, <1>n, <1>c, <2>1, <2>2, <2>5 DEF PgTypeOK, Heap, PgPages
    <2> QED BY <2>4, <2>5 DEF PgPages
<1>j. /\ \A u \in PgThreads : job'[u].at \in Swapping <=> job[u].at \in Swapping
      /\ \A u \in PgThreads : job'[u].at \in Swapping \cup {"copied", "keeping", "charging"} => u # t /\ job'[u] = job[u]
      /\ \A u \in PgThreads : job[u].at \in CloneTime => u = t
    <2>1. \A x \in CloneTime : x \notin Swapping \cup {"copied", "keeping", "charging"} /\ x \in Forking
        BY DEF CloneTime, Swapping, Forking
    <2>2. job[t].at \in CloneTime
        BY <1>0 DEF CloneTime
    <2> QED BY <1>2, <1>c, <2>1, <2>2
<1>4. PagesHold'
    <2> SUFFICES ASSUME NEW q \in PgProcs, Born(q)' PROVE HeldIs(q)'
        BY DEF PagesHold
    <2>0. Born(q) /\ HeldIs(q)
        BY <1>1, <1>j, <1>v DEF PagesHold, Born
    <2>1. q # c
        <3>1. {"keeping", "charging"} \subseteq Forking
            BY DEF Forking
        <3>2. job[t].at \notin {"keeping", "charging"}
            BY <1>0
        <3> QED BY <1>c, <2>0, <3>1, <3>2 DEF Born
    <2>2. Heap(q)'.k = Heap(q).k /\ Heap(q)'.at = Heap(q).at
        BY <1>3, <2>1
    <2>3. SwapsOut(q)' <=> SwapsOut(q)
        BY <1>j DEF SwapsOut, Space
    <2> QED BY <1>1, <2>0, <2>2, <2>3 DEF HeldIs
<1>5. SavingIs' /\ NoTlbLeft' /\ TlbNamed'
    BY <1>1, <1>j, <1>v DEF SavingIs, NoTlbLeft, TlbNamed, Swapping, Space
<1>6. SlotAlone'
    <2> SUFFICES ASSUME NEW u \in PgThreads, NEW q \in PgProcs, job'[u].at \in Swapping, q # Space(u), Heap(q)'.k = "out"
                 PROVE  Heap(q)'.at # job'[u].slot
        BY DEF SlotAlone, Space
    <2>1. u # t /\ job'[u] = job[u] /\ job[u].at \in Swapping
        BY <1>j
    <2>2. Space(u) # p
        <3>1. memLock[p] = t
            BY <1>0 DEF PgThreadsOK, LocksOK, Cloning
        <3>2. memLock[Space(u)] = u
            BY <1>0, <2>1 DEF PgThreadsOK, LocksOK, Swapping, InHand
        <3> QED BY <2>1, <3>1, <3>2
    <2>3. \/ Heap(q).k = "out" /\ Heap(q).at = Heap(q)'.at
          \/ Heap(p).k = "out" /\ Heap(p).at = Heap(q)'.at
        BY <1>3
    <2> QED BY <1>n, <1>v, <2>1, <2>2, <2>3 DEF SlotAlone
<1>h. ASSUME NEW u \in PgThreads, NEW q \in PgProcs, HeapIs(q, tlb[u].f)'
      PROVE  HeapIs(q, tlb[u].f) \/ (q = c /\ HeapIs(p, tlb[u].f))
    BY <1>1, <1>3, <1>h DEF HeapIs
<1>8. StoreAlone'
    <2> SUFFICES ASSUME NEW u \in PgThreads, NEW q \in PgProcs, tlb[u].w, q # Space(u), HeapIs(q, tlb[u].f)'
                 PROVE  Space(u) = p /\ q = c
        BY <1>1, <1>2 DEF StoreAlone, Space
    <2>1. CASE HeapIs(q, tlb[u].f)
        <3>1. PICK z \in PgThreads : job[z].at \in CloneTime /\ Space(z) = Space(u) /\ job[z].child = q
            BY <1>v, <2>1 DEF StoreAlone
        <3> QED BY <1>c, <1>j, <3>1
    <2>2. CASE q = c /\ HeapIs(p, tlb[u].f)
        <3> SUFFICES ASSUME Space(u) # p PROVE FALSE
            BY <2>2
        <3>1. PICK z \in PgThreads : job[z].at \in CloneTime /\ Space(z) = Space(u)
            BY <1>n, <1>v, <2>2 DEF StoreAlone
        <3> QED BY <1>j, <3>1
    <2> QED BY <1>h, <2>1, <2>2
<1>9. StaleStore'
    <2> SUFFICES ASSUME NEW u \in PgThreads, tlb[u].w, HeapIs(Space(u), tlb[u].f)', ~Heap(Space(u))'.w
                 PROVE  Space(u) = p
        BY <1>1, <1>2 DEF StaleStore, Space
    <2>1. Space(u) # c
        BY <1>0, <1>c, <1>v DEF DeadOK, TlbNamed
    <2>2. CASE Space(u) # p
        <3>1. HeapIs(Space(u), tlb[u].f) /\ ~Heap(Space(u)).w
            BY <1>h, <1>n, <1>3, <2>1, <2>2
        <3>2. PICK z \in PgThreads : job[z].at \in CloneTime /\ Space(z) = Space(u)
            BY <1>v, <3>1 DEF StaleStore
        <3> QED BY <1>j, <3>2
    <2> QED BY <2>2
<1>a. CopyAlone'
    BY <1>1, <1>2, <1>j, <1>v DEF CopyAlone, Space
<1> QED BY <1>4, <1>5, <1>6, <1>8, <1>9, <1>a DEF PgValues

\* The CPUs are told: from here the child has what it has
LEMMA ForkSyncHolds ==
    ASSUME PgAssumption, PgBooks, PgValues, NEW t \in PgThreads, ForkSync(t)
    PROVE  PgValues'
<1> DEFINE p == Space(t)
<1>n. p \in PgProcs /\ \A u \in PgThreads : Space(u) \in PgProcs
    BY PgNames
<1>0. PgTypeOK /\ PgThreadsOK /\ job[t].at = "cloned"
    BY DEF PgBooks, ForkSync
<1>v. /\ PagesHold /\ SavingIs /\ SlotAlone /\ NoTlbLeft
      /\ TlbNamed /\ StoreAlone /\ StaleStore /\ CopyAlone
    BY DEF PgValues
<1>c. PICK c \in PgProcs : /\ c = job[t].child /\ c \notin live /\ c # p
                           /\ \A u \in PgThreads : u # t => job[u].at \notin Forking
    BY <1>0, ChildIsNew DEF Forking
<1>1. tables' = tables /\ bytes' = bytes /\ slotBytes' = slotBytes /\ live' = live /\ heapOn' = heapOn
    BY DEF ForkSync, frameVars, swapVars, userVars
<1>2. /\ \A u \in PgThreads : u # t => job'[u] = job[u]
      /\ job'[t].at = "keeping" /\ job'[t].child = c
    BY <1>0, <1>c DEF ForkSync, Does, PgTypeOK, PgJob
<1>3. /\ \A u \in PgThreads : Space(u) = p => tlb'[u].f = 0 /\ ~tlb'[u].w
      /\ \A u \in PgThreads : Space(u) # p => tlb'[u] = tlb[u]
    BY DEF ForkSync, process_tlb_sync, ThreadsOf, NoTlb
<1>4. /\ \A q \in PgProcs : q # c => holds'[q] = holds[q]
      /\ Heap(c).k = "in" => holds'[c] = bytes[Heap(c).at]
      /\ Heap(c).k = "out" => holds'[c] = slotBytes[Heap(c).at]
      /\ Heap(c).k = "none" => holds'[c] = 0
    BY <1>0, <1>c DEF ForkSync, PgTypeOK, Heap
<1>j. /\ \A u \in PgThreads : job'[u].at \in Swapping <=> job[u].at \in Swapping
      /\ \A u \in PgThreads : job'[u].at \in Swapping \cup {"copied", "charging"} => u # t /\ job'[u] = job[u]
      /\ \A u \in PgThreads : job[u].at \in CloneTime => u = t
    <2>1. \A x \in CloneTime : x \notin Swapping \cup {"copied", "charging"} /\ x \in Forking
        BY DEF CloneTime, Swapping, Forking
    <2>2. job[t].at \in CloneTime /\ "keeping" \notin Swapping \cup {"copied", "charging"}
        BY <1>0 DEF CloneTime, Swapping
    <2> QED BY <1>2, <1>c, <2>1, <2>2
<1>5. PagesHold'
    <2> SUFFICES ASSUME NEW q \in PgProcs, Born(q)' PROVE HeldIs(q)'
        BY DEF PagesHold
    <2>1. CASE q = c
        BY <1>1, <1>4, <2>1 DEF HeldIs, Heap
    <2>2. CASE q # c
        <3>1. Born(q) /\ HeldIs(q)
            BY <1>1, <1>2, <1>v, <2>2 DEF PagesHold, Born
        <3>2. SwapsOut(q)' <=> SwapsOut(q)
            BY <1>j DEF SwapsOut, Space
        <3> QED BY <1>1, <1>4, <2>2, <3>1, <3>2 DEF HeldIs, Heap
    <2> QED BY <2>1, <2>2
<1>6. SavingIs'
    <2>1. \A u \in PgThreads : job[u].at \in Swapping => Space(u) \in live
        BY <1>0 DEF PgThreadsOK, HandOK, Swapping
    <2>2. \A u \in PgThreads : job[u].at \in Swapping => holds'[Space(u)] = holds[Space(u)]
        BY <1>4, <1>c, <1>n, <2>1
    <2> QED BY <1>1, <1>j, <1>v, <2>2 DEF SavingIs, Space
<1>7. SlotAlone' /\ NoTlbLeft' /\ TlbNamed'
    BY <1>1, <1>3, <1>j, <1>v DEF SlotAlone, NoTlbLeft, TlbNamed, Swapping, Space, Heap
<1>8. StoreAlone' /\ StaleStore'
    <2>1. ASSUME NEW u \in PgThreads, NEW q \in PgProcs, tlb'[u].w, q # Space(u), HeapIs(q, tlb[u].f)'
          PROVE  FALSE
        <3>1. tlb[u].w /\ HeapIs(q, tlb[u].f) /\ Space(u) # p
            BY <1>1, <1>3, <2>1 DEF HeapIs, Heap
        <3> QED BY <1>j, <1>v, <2>1, <3>1 DEF StoreAlone
    <2>2. ASSUME NEW u \in PgThreads, tlb'[u].w, HeapIs(Space(u), tlb[u].f)', ~Heap(Space(u))'.w
          PROVE  FALSE
        <3>1. tlb[u].w /\ HeapIs(Space(u), tlb[u].f) /\ ~Heap(Space(u)).w /\ Space(u) # p
            BY <1>1, <1>3, <2>2 DEF HeapIs, Heap, Space
        <3> QED BY <1>j, <1>v, <3>1 DEF StaleStore
    <2> QED BY <2>1, <2>2 DEF StoreAlone, StaleStore, Space
<1>a. CopyAlone'
    BY <1>2, <1>3, <1>j, <1>v DEF CopyAlone, Space
<1> QED BY <1>5, <1>6, <1>7, <1>8, <1>a DEF PgValues

LEMMA PgValuesInit ==
    ASSUME PgAssumption, PgInit
    PROVE  PgValues
<1>1. /\ \A p \in PgProcs : Heap(p).k = "none" /\ holds[p] = 0
      /\ \A t \in PgThreads : job[t].at = "idle" /\ ~tlb[t].w
    BY DEF PgInit, Heap, PgPages, Absent, NoJob, NoTlb
<1> QED BY <1>1 DEF PgValues, PagesHold, HeldIs, SavingIs, SlotAlone, NoTlbLeft, TlbNamed, StoreAlone, StaleStore,
                    CopyAlone, Swapping

LEMMA PgValuesStep ==
    ASSUME PgAssumption, FewThreads, PgBooks, PgValues, [PgNext]_pgVars
    PROVE  PgValues'
<1>1. CASE PgNext
    <2>1. PICK t \in PgThreads :
              \/ BrkUp(t) \/ BrkDown(t) \/ FreeUnmapped(t) \/ TouchHeap(t)
              \/ Fill(t) \/ StoreHeap(t) \/ CowFault(t) \/ CowDone(t)
              \/ CallBegin(t) \/ CallChecked(t) \/ CallEnd(t)
              \/ \E s \in PgSlots : SwapOut(t, s)
              \/ SwapSync(t) \/ SwapIn(t)
              \/ \E ok \in BOOLEAN : SwapSave(t, ok) \/ ShmMap(t, ok) \/ ForkKeep(t, ok)
              \/ ForkBegin(t) \/ ForkSync(t) \/ ForkUndo(t) \/ ForkCharge(t) \/ Exit(t)
              \/ \E v \in PgPages : ClonePage(t, v)
              \/ ShmGet(t) \/ ShmAttach(t) \/ ShmRemove(t)
        BY <1>1 DEF PgNext
    <2>2. CASE BrkUp(t) \/ BrkDown(t) \/ FreeUnmapped(t) \/ CowDone(t) \/ TouchHeap(t)
        BY <2>2, BrkUpHolds, BrkDownHolds, DoneHolds, TouchHolds
    <2>3. CASE Fill(t) \/ StoreHeap(t) \/ CowFault(t)
        BY <2>3, FillHolds, StoreHolds, CowFaultHolds
    <2>4. CASE CallBegin(t) \/ CallChecked(t) \/ CallEnd(t)
        BY <2>4, CallHolds
    <2>5. CASE (\E s \in PgSlots : SwapOut(t, s)) \/ SwapSync(t) \/ SwapIn(t)
        BY <2>5, SwapOutHolds, SwapSyncHolds, SwapInHolds
    <2>6. CASE \E ok \in BOOLEAN : SwapSave(t, ok) \/ ShmMap(t, ok) \/ ForkKeep(t, ok)
        BY <2>6, SwapSaveHolds, ShmHolds, ForkKeepHolds
    <2>7. CASE ForkBegin(t) \/ ForkSync(t) \/ ForkUndo(t) \/ ForkCharge(t) \/ Exit(t)
        BY <2>7, ForkBeginHolds, ForkSyncHolds, ForkUndoHolds, ForkChargeHolds, ExitHolds
    <2>8. CASE \E v \in PgPages : ClonePage(t, v)
        BY <2>8, ClonePageHolds
    <2>9. CASE ShmGet(t) \/ ShmAttach(t) \/ ShmRemove(t)
        BY <2>9, ShmHolds
    <2> QED BY <2>1, <2>2, <2>3, <2>4, <2>5, <2>6, <2>7, <2>8, <2>9
<1>2. CASE UNCHANGED pgVars
    <2>1. /\ tables' = tables /\ bytes' = bytes /\ slotBytes' = slotBytes /\ heapOn' = heapOn /\ live' = live
          /\ tlb' = tlb /\ job' = job /\ holds' = holds
        BY <1>2 DEF pgVars
    <2>2. PagesHold' /\ SavingIs' /\ SlotAlone' /\ NoTlbLeft' /\ TlbNamed'
        BY <2>1 DEF PgValues, PagesHold, Born, HeldIs, SwapsOut, SavingIs, SlotAlone, NoTlbLeft, TlbNamed, Heap, Space
    <2>3. StoreAlone' /\ StaleStore' /\ CopyAlone'
        BY <2>1 DEF PgValues, StoreAlone, StaleStore, CopyAlone, HeapIs, Heap, Space
    <2> QED BY <2>2, <2>3 DEF PgValues
<1> QED BY <1>1, <1>2

LEMMA PgValuesSay ==
    ASSUME PgAssumption, PgBooks, PgValues
    PROVE  Isolated
<1> SUFFICES ASSUME NEW p \in live
             PROVE  /\ Heap(p).k = "in" => bytes[Heap(p).at] = holds[p]
                    /\ Heap(p).k = "out" /\ ~Leaving(p) => slotBytes[Heap(p).at] = holds[p]
    BY DEF Isolated, Heap
<1>1. p \in PgProcs
    BY DEF PgBooks, PgTypeOK
<1>2. HeldIs(p)
    BY <1>1 DEF PgValues, PagesHold, Born
<1>3. SwapsOut(p) <=> Leaving(p)
    BY DEF SwapsOut, Leaving, Swapping, ThreadsOf
<1> QED BY <1>2, <1>3 DEF HeldIs

\* For any number of processes, frames and slots, and as long as the process
\* that forks has no third thread: a process finds in its page what it stored
\* there last, or what its parent's page held at the fork, through copies,
\* swapping and other processes' stores (vmm_handle_cow_fault,
\* vmm_clone_user_space, swap_out_keeping, swap_in).
THEOREM PagesAreIsolated ==
    ASSUME PgAssumption, FewThreads
    PROVE  PgSpec => []Isolated
<1>1. PgInit => PgBooks /\ PgValues
    BY PgBooksInit, PgValuesInit
<1>2. PgBooks /\ PgValues /\ [PgNext]_pgVars => PgBooks' /\ PgValues'
    BY PgBooksStep, PgValuesStep
<1>3. PgBooks /\ PgValues => Isolated
    BY PgValuesSay
<1> QED BY <1>1, <1>2, <1>3, PTL DEF PgSpec
=============================================================================
