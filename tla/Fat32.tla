------------------------------- MODULE Fat32 -------------------------------
(***************************************************************************)
(* src/fs/fat32.c: a FAT32 volume.                                         *)
(*                                                                         *)
(* One sector to a cluster, two bytes and two directory slots to a sector, *)
(* one copy of the FAT, and one directory, the root.  Every operation that *)
(* changes the volume holds volume_mutex from its first disk write to its  *)
(* last, so it is a plan: the disk writes in the order the code makes      *)
(* them, each with what the code does instead if it fails.  Each write is  *)
(* a step: every state of the disk is one that a crash may leave.          *)
(* Readers take no lock.  They share fat_cache, the one sector of the FAT  *)
(* kept in memory, with the operation: next_cluster fills it.              *)
(***************************************************************************)
EXTENDS Integers, Sequences, FiniteSets

CONSTANTS
  FatClusters,   \* how many clusters there are, numbered from 2
  FatFiles,      \* the files and directories, as the VFS knows them
  FatNames,      \* names in use: "L" needs a long entry, the rest are short names
  FatSizes,      \* the positions a write or a truncation names
  FatRacing,     \* whether a reader may fill fat_cache while the volume changes
  FatChanges,    \* bound: how many operations
  FatFaults      \* bound: how many disk writes fail

VARIABLES
  fat,           \* the FAT: FREE, END or the next cluster
  cell,          \* what each cluster holds as data
  slot,          \* and what as directory slots
  fat_cache,     \* the sector of the FAT in memory
  alloc_hint,    \* where the search for a free cluster starts
  node,          \* the files' nodes in memory
  plan,          \* the operation under way
  reading,       \* a reader between reading a sector of the FAT and keeping it
  want,          \* history: what each file should read as
  left           \* the bounds, and whether a failed write doubled a name

fatVars == <<fat, cell, slot, fat_cache, alloc_hint, node, plan, reading, want, left>>

FREE == 0
END == 1
Clusters == 2 .. FatClusters + 1
RootCluster == 2
valid_cluster(c) == c \in Clusters
PerFatSector == 2
FatSector(c) == c \div PerFatSector

\* A directory slot.  Data read as slots is neither free nor a name.
Slot(k, short, long, first, size) ==
  [k |-> k, short |-> short, long |-> long, first |-> first, size |-> size]
Zero == Slot("zero", "", "", 0, 0)
Gone == Slot("gone", "", "", 0, 0)
Junk == Slot("junk", "", "", 0, 0)
NoNode == [name |-> "", short |-> "", dir |-> FALSE, first |-> 0, size |-> 0, at |-> 0, lfn |-> 0]
NoPlan == [todo |-> <<>>, file |-> 0, node |-> NoNode, want |-> <<>>]

SectorOfFat(F, s) == [sector |-> s, at |-> [c \in {d \in Clusters : FatSector(d) = s} |-> F[c]]]

\* What next_cluster gives, from the cached sector when it is the right one.
next_cluster(c) ==
  LET entry == IF fat_cache.sector = FatSector(c) THEN fat_cache.at[c] ELSE fat[c]
  IN  IF valid_cluster(entry) THEN entry ELSE 0
\* A chain, by what a function nxt says comes after each cluster.
ChainBy(first, nxt(_)) ==
  LET upTo[n \in 0 .. FatClusters] ==
        IF n = 0 THEN <<>>
        ELSE LET s == upTo[n - 1]
                 c == IF s = <<>> THEN first ELSE nxt(s[Len(s)])
             IN  IF Len(s) = n - 1 /\ valid_cluster(c) THEN Append(s, c) ELSE s
  IN  upTo[FatClusters]
Chain(first) == ChainBy(first, next_cluster)
\* What the walk along a chain leaves in fat_cache: the sector of its end.
Walked(s) ==
  IF s = <<>> \/ fat_cache.sector = FatSector(s[Len(s)]) THEN fat_cache
  ELSE SectorOfFat(fat, FatSector(s[Len(s)]))
Elements(s) == {s[i] : i \in DOMAIN s}

\* allocate_cluster: the first free one from the hint on, 0 if there is none.
allocate_cluster(F, hint) ==
  LET free == {c \in Clusters : F[c] = FREE}
      After(c) == (c - hint) % FatClusters
  IN  IF free = {} THEN 0 ELSE CHOOSE c \in free : \A d \in free : After(c) <= After(d)

(***************************************************************************)
(* Disk writes.  `instead': what the operation still writes, and the node  *)
(* it leaves, if the write fails; a write that is not minded goes on.      *)
(***************************************************************************)
NoInstead == [minded |-> FALSE, todo |-> <<>>, node |-> NoNode]
Instead(todo, n) == [minded |-> TRUE, todo |-> todo, node |-> n]
Write(w, at, to, bytes, s, instead) ==
  [w |-> w, at |-> at, to |-> to, bytes |-> bytes, slot |-> s, instead |-> instead]
set_fat_entry(c, v, instead) == Write("fat", c, v, <<>>, Zero, instead)
zero_cluster(c, instead) == Write("zero", c, 0, <<0, 0>>, Zero, instead)
write_data(c, bytes, instead) == Write("data", c, 0, bytes, Zero, instead)
write_slot(i, s, instead) == Write("slot", i, 0, <<>>, s, instead)
\* free_chain: nothing is done about a write that fails.
free_chain(s) == [i \in 1 .. Len(s) |-> Write("free", s[i], FREE, <<>>, Zero, NoInstead)]

RootSlot(chain, i) == <<chain[(i - 1) \div 2 + 1], 1 + ((i - 1) % 2)>>
\* update_entry: the short entry of a node, with another first cluster and size.
update_entry(n, first, size, instead) ==
  write_slot(n.at, Slot(IF n.dir THEN "dir" ELSE "short", n.short, "", first, size), instead)

(***************************************************************************)
(* Names and the root directory's slots.                                   *)
(***************************************************************************)
Long(name) == name = "L"
Aliases == <<"L~1", "L~2">>           \* the short names that are tried for "L"
TakenBy(f, short) == \E g \in FatFiles \ {f} : node[g].at # 0 /\ node[g].short = short
NameTaken(f, name) == \E g \in FatFiles \ {f} : node[g].at # 0 /\ node[g].name = name
\* The short name store_name settles on for a name, "" if there is none.
short_name(f, name) ==
  LET free == {i \in DOMAIN Aliases : ~TakenBy(f, Aliases[i])}
  IN  IF ~Long(name) THEN IF TakenBy(f, name) THEN "" ELSE name
      ELSE IF free = {} THEN "" ELSE Aliases[CHOOSE i \in free : \A j \in free : i <= j]

Slots(chain) == [i \in 1 .. 2 * Len(chain) |-> slot[RootSlot(chain, i)[1]][RootSlot(chain, i)[2]]]
\* find_free_run: where `count' slots in a row are unused, or at the end those
\* that are and clusters added for the rest (at most two clusters in all).
Unused(s) == s.k \in {"zero", "gone"}
FreeRuns(S, count) == {i \in 1 .. Len(S) - count + 1 : \A j \in i .. i + count - 1 : Unused(S[j])}
Tail1(S) == CHOOSE i \in 1 .. Len(S) + 1 :
              /\ \A j \in i .. Len(S) : Unused(S[j])
              /\ i > 1 => ~Unused(S[i - 1])
find_free_run(S, count) ==
  IF FreeRuns(S, count) # {} THEN CHOOSE i \in FreeRuns(S, count) : \A j \in FreeRuns(S, count) : i <= j
  ELSE Tail1(S)

\* Mutant of extend_root: the cluster is linked before it is zeroed
extend_untouched(last, c, undo, n) ==
  <<set_fat_entry(c, END, Instead(undo, n)),
    set_fat_entry(last, c, Instead(<<set_fat_entry(c, FREE, NoInstead)>> \o undo, n)),
    zero_cluster(c, Instead(undo, n))>>

\* The writes that add cluster c to the directory, after cluster last.
extend_root(last, c, undo, n) ==
  LET instead == Instead(<<set_fat_entry(c, FREE, NoInstead)>> \o undo, n)
  IN  <<set_fat_entry(c, END, Instead(undo, n)), zero_cluster(c, instead),
        set_fat_entry(last, c, instead)>>

\* The writes of store_name, once it is known where they go: long entry, short entry.
store_name(i, name, entry, undo, n) ==
  LET long == write_slot(i, Slot("lfn", entry.short, name, 0, 0), Instead(undo, n))
      back == <<write_slot(i, Gone, NoInstead)>>
  IN  IF Long(name) THEN <<long, write_slot(i + 1, entry, Instead(back \o undo, n))>>
      ELSE <<write_slot(i, entry, Instead(undo, n))>>

-----------------------------------------------------------------------------
(***************************************************************************)
(* The operations.  Each takes the volume lock and starts on its writes.   *)
(***************************************************************************)
Exists(f) == node[f].at # 0
NextNode(f) == ~Exists(f) /\ \A g \in FatFiles : g < f => Exists(g)
Begin(f, todo, n, wanted, walk) ==
  /\ plan.file = 0 /\ left.changes > 0 /\ (reading.sector = 0 \/ FatRacing)
  /\ plan' = [todo |-> todo, file |-> f, node |-> n, want |-> wanted]
  /\ fat_cache' = Walked(walk)
  /\ left' = [left EXCEPT !.changes = @ - 1]
  /\ UNCHANGED <<fat, cell, slot, alloc_hint, node, reading, want>>

\* The writes that put an entry into the root directory, extending it if it
\* must: Put(i, todo) is the plan with the entry at slot i after todo.
InRoot(F, hint, count, undo, n, Put(_, _)) ==
  LET chain == Chain(RootCluster)
      i == find_free_run(Slots(chain), count)
      c == allocate_cluster(F, hint)
  IN  IF i + count - 1 <= 2 * Len(chain) THEN Put(i, <<>>)
      ELSE Len(chain) < 2 /\ c # 0
           /\ Put(i, extend_root(chain[Len(chain)], c, undo, n))

fat_dir_create(f, name, dir) ==
  LET short == short_name(f, name)
      own == IF dir THEN allocate_cluster(fat, alloc_hint) ELSE 0
      F == IF own = 0 THEN fat ELSE [fat EXCEPT ![own] = END]
      undo == IF own = 0 THEN <<>> ELSE <<set_fat_entry(own, FREE, NoInstead)>>
      cluster == IF own = 0 THEN <<>>
                 ELSE <<set_fat_entry(own, END, Instead(<<>>, NoNode)),
                        zero_cluster(own, Instead(undo, NoNode))>>
      count == IF Long(name) THEN 2 ELSE 1
      Put(i, more) ==
        Begin(f, cluster \o more
                 \o store_name(i, name, Slot(IF dir THEN "dir" ELSE "short", short, "", own, 0),
                               undo, NoNode),
              [name |-> name, short |-> short, dir |-> dir, first |-> own, size |-> 0,
               at |-> i + count - 1, lfn |-> count - 1], <<>>, Chain(RootCluster))
  IN  /\ NextNode(f) /\ ~NameTaken(f, name) /\ short # "" /\ (dir => own # 0)
      /\ InRoot(F, IF own = 0 THEN alloc_hint ELSE own + 1, count, undo, NoNode, Put)

\* The slots of a node, long entry first.
Entries(n) == [i \in 1 .. n.lfn + 1 |-> n.at - n.lfn + i - 1]
delete_slots(n, instead) == [i \in 1 .. n.lfn + 1 |-> write_slot(Entries(n)[i], Gone, instead)]


fat_dir_remove(f) ==
  Exists(f) /\ LET n == node[f] IN
    Begin(f, delete_slots(n, Instead(<<>>, n)) \o free_chain(Chain(n.first)), NoNode, <<>>,
          Chain(RootCluster) \o Chain(n.first))

\* The new entries are written before the old ones are removed.
fat_dir_rename(f, name) ==
  LET n == node[f]
      short == short_name(f, name)
      old == slot[RootSlot(Chain(RootCluster), n.at)[1]][RootSlot(Chain(RootCluster), n.at)[2]]
      count == IF Long(name) THEN 2 ELSE 1
      Put(i, more) ==
        Begin(f, more \o store_name(i, name, [old EXCEPT !.short = short], <<>>, n)
                      \o delete_slots(n, NoInstead),
              [n EXCEPT !.name = name, !.short = short, !.at = i + count - 1, !.lfn = count - 1],
              want[f], Chain(RootCluster))
  IN  /\ Exists(f) /\ name # n.name /\ ~NameTaken(f, name) /\ short # ""
      /\ InRoot(fat, alloc_hint, count, <<>>, n, Put)

(***************************************************************************)
(* write_locked.  Cluster k of the file holds bytes 2k - 2 and 2k - 1.     *)
(***************************************************************************)
Larger(x, y) == IF x > y THEN x ELSE y
ByteAt(s, i) == IF i <= Len(s) THEN s[i] ELSE 0
\* What the file reads as after `done' bytes v are written at an offset.
Overlaid(s, offset, done, v) ==
  IF done = 0 THEN s
  ELSE [i \in 1 .. Larger(Len(s), offset + done) |->
          IF i \in offset + 1 .. offset + done THEN v ELSE ByteAt(s, i)]

\* The end of the loop: the entry last, if anything was written.
Finish(n, first, offset, done) ==
  IF done = 0 /\ first = n.first THEN <<>>
  ELSE <<update_entry(n, first, Larger(n.size, IF done > 0 THEN offset + done ELSE 0),
                      Instead(<<>>, [n EXCEPT !.first = first]))>>
After(n, first, offset, done) ==
  [n EXCEPT !.first = first, !.size = Larger(@, IF done > 0 THEN offset + done ELSE 0)]


FullyCovered(k, offset, end) == offset <= 2 * k - 2 /\ end >= 2 * k

\* The bytes of cluster k once the write has covered its part of it.
Covered(old, k, offset, end, v) ==
  [j \in 1 .. 2 |-> IF 2 * k - 2 + j \in offset + 1 .. end THEN v ELSE old[j]]

\* The loop up to cluster k: B.todo so far, the first cluster, the last one
\* walked, the FAT as it will be, the hint, the bytes done, and whether the
\* volume is full.
grow(n, chain, offset, end, v) ==
  LET start == [todo |-> <<>>, first |-> n.first, last |-> 0, F |-> fat, hint |-> alloc_hint,
                done |-> 0, full |-> FALSE]
      Stop(B) == Instead(Finish(n, B.first, offset, B.done), After(n, B.first, offset, B.done))
      Undo(B, c) == Instead(<<set_fat_entry(c, FREE, NoInstead)>> \o Stop(B).todo, Stop(B).node)
      Done(k) == IF end < 2 * k THEN end - offset ELSE IF 2 * k > offset THEN 2 * k - offset ELSE 0
      Data(B, c, k, old) ==
        IF Done(k) = B.done THEN B
        ELSE [B EXCEPT !.todo = Append(@, write_data(c, Covered(old, k, offset, end, v), Stop(B))),
                       !.done = Done(k)]
      Add(B, k, c) ==
        LET zeroed == IF FullyCovered(k, offset, end) THEN <<>> ELSE <<zero_cluster(c, Undo(B, c))>>
            linked == IF B.last = 0 THEN <<>> ELSE <<set_fat_entry(B.last, c, Undo(B, c))>>
            G == [B EXCEPT !.todo = @ \o <<set_fat_entry(c, END, Stop(B))>> \o zeroed \o linked,
                           !.first = IF @ = 0 THEN c ELSE @, !.last = c, !.hint = c + 1,
                           !.F = IF B.last = 0 THEN [@ EXCEPT ![c] = END]
                                 ELSE [@ EXCEPT ![c] = END, ![B.last] = c]]
        IN  Data(G, c, k, IF FullyCovered(k, offset, end) THEN cell[c] ELSE <<0, 0>>)
      Turn(B, k) ==
        LET c == IF k <= Len(chain) THEN chain[k] ELSE allocate_cluster(B.F, B.hint)
        IN  IF B.full \/ c = 0 THEN [B EXCEPT !.full = TRUE]
            ELSE IF k <= Len(chain) THEN Data([B EXCEPT !.last = c], c, k, cell[c])
            ELSE Add(B, k, c)
      upTo[k \in 0 .. FatClusters] == IF k = 0 THEN start ELSE Turn(upTo[k - 1], k)
  IN  upTo[(end + 1) \div 2]

fat_file_write(f, offset, count, v) ==
  LET n == node[f]
      Go(B) == Begin(f, B.todo \o Finish(n, B.first, offset, B.done),
                     After(n, B.first, offset, B.done),
                     Overlaid(want[f], offset, B.done, v), Chain(n.first))
  IN  Exists(f) /\ ~n.dir /\ Go(grow(n, Chain(n.first), offset, offset + count, v))


\* The rest of the last cluster kept, from byte `size' on.
CutTail(c, size, n) ==
  IF size % 2 = 0 THEN <<>> ELSE <<write_data(c, <<cell[c][1], 0>>, Instead(<<>>, n))>>

\* The entry first, then the chain is cut and the rest freed.
fat_file_truncate(f, size) ==
  LET n == node[f]
      chain == Chain(n.first)
      kept == (size + 1) \div 2
      rest == SubSeq(chain, kept + 1, Len(chain))
      first == IF size = 0 THEN 0 ELSE n.first
      cut == IF size = 0 \/ rest = <<>> THEN <<>>
             ELSE <<set_fat_entry(chain[kept], END, Instead(<<>>, n))>>
  IN  /\ Exists(f) /\ ~n.dir /\ size < n.size /\ kept <= Len(chain)
      /\ Begin(f, (IF size = 0 THEN <<>> ELSE CutTail(chain[kept], size, n))
                  \o <<update_entry(n, first, size, Instead(<<>>, n))>> \o cut \o free_chain(rest),
               [n EXCEPT !.first = first, !.size = size],
               [i \in 1 .. size |-> ByteAt(want[f], i)], chain)

-----------------------------------------------------------------------------
(***************************************************************************)
(* Carrying the plan out.                                                  *)
(***************************************************************************)
Smallest(x, y) == IF x < y THEN x ELSE y
\* The next write reaches the disk, and for the FAT the cached sector.
write_disk ==
  /\ plan.todo # <<>>
  /\ LET w == Head(plan.todo)
         at == RootSlot(Chain(RootCluster), w.at)
         F == [fat EXCEPT ![w.at] = w.to]
     IN CASE w.w \in {"fat", "free"} ->
             /\ fat' = F
             /\ fat_cache' = IF fat_cache.sector = FatSector(w.at) THEN SectorOfFat(F, FatSector(w.at))
                             ELSE fat_cache
             /\ alloc_hint' = IF w.w = "free" THEN Smallest(alloc_hint, w.at)
                              ELSE IF w.to = END /\ fat[w.at] = FREE THEN w.at + 1 ELSE alloc_hint
             /\ UNCHANGED <<cell, slot>>
        [] w.w \in {"data", "zero"} ->
             /\ cell' = [cell EXCEPT ![w.at] = w.bytes]
             /\ slot' = [slot EXCEPT ![w.at] = IF w.w = "zero" THEN <<Zero, Zero>> ELSE <<Junk, Junk>>]
             /\ UNCHANGED <<fat, fat_cache, alloc_hint>>
        [] OTHER ->
             /\ slot' = [slot EXCEPT ![at[1]][at[2]] = w.slot]
             /\ UNCHANGED <<fat, fat_cache, alloc_hint, cell>>
  /\ plan' = [plan EXCEPT !.todo = Tail(@)]
  /\ UNCHANGED <<node, reading, want, left>>

\* The next write fails.
write_fails ==
  /\ plan.todo # <<>> /\ left.faults > 0
  /\ LET w == Head(plan.todo) IN
     /\ plan' = IF w.instead.minded
                THEN [plan EXCEPT !.todo = w.instead.todo, !.node = w.instead.node]
                ELSE [plan EXCEPT !.todo = Tail(@)]
     /\ left' = [left EXCEPT !.faults = @ - 1,
                             !.doubled = @ \/ (w.w = "slot" /\ ~w.instead.minded)]
  /\ UNCHANGED <<fat, cell, slot, fat_cache, alloc_hint, node, reading, want>>

volume_unlock ==
  /\ plan.file # 0 /\ plan.todo = <<>>
  /\ node' = [node EXCEPT ![plan.file] = plan.node]
  /\ want' = [want EXCEPT ![plan.file] = plan.want]
  /\ plan' = NoPlan
  /\ UNCHANGED <<fat, cell, slot, fat_cache, alloc_hint, reading, left>>

\* fat_file_read comes to a cluster whose FAT sector is not the cached one: it
\* reads the sector, and then keeps it.
read_sector(f) ==
  /\ reading.sector = 0 /\ (FatRacing \/ plan.file = 0)
  /\ \E c \in Elements(Chain(node[f].first)) :
       /\ FatSector(c) # fat_cache.sector
       /\ reading' = SectorOfFat(fat, FatSector(c))
  /\ UNCHANGED <<fat, cell, slot, fat_cache, alloc_hint, node, plan, want, left>>
keep_sector ==
  /\ reading.sector # 0
  /\ fat_cache' = reading
  /\ reading' = [sector |-> 0, at |-> <<>>]
  /\ UNCHANGED <<fat, cell, slot, alloc_hint, node, plan, want, left>>

-----------------------------------------------------------------------------
\* A volume with one file of three bytes on it, mounted.
FirstFile == CHOOSE f \in FatFiles : \A g \in FatFiles : f <= g
FatInit ==
  /\ fat = [c \in Clusters |-> CASE c = RootCluster -> END [] c = 3 -> 4 [] c = 4 -> END [] OTHER -> FREE]
  /\ cell = [c \in Clusters |-> CASE c = 3 -> <<8, 8>> [] c = 4 -> <<8, 0>> [] OTHER -> <<9, 9>>]
  /\ slot = [c \in Clusters |-> IF c = RootCluster THEN <<Slot("short", "a", "", 3, 3), Zero>>
                                ELSE <<Junk, Junk>>]
  /\ fat_cache = [sector |-> 0, at |-> <<>>] /\ reading = [sector |-> 0, at |-> <<>>]
  /\ alloc_hint = 2
  /\ node = [f \in FatFiles |-> IF f # FirstFile THEN NoNode
                               ELSE [NoNode EXCEPT !.name = "a", !.short = "a", !.first = 3,
                                                   !.size = 3, !.at = 1]]
  /\ plan = NoPlan
  /\ want = [f \in FatFiles |-> IF f = FirstFile THEN <<8, 8, 8>> ELSE <<>>]
  /\ \E n \in 0 .. FatFaults :  \* a fault takes the place of a change in the bound
       left = [changes |-> FatChanges - n, faults |-> n, most |-> n, doubled |-> FALSE]

FatNext ==
  \/ \E f \in FatFiles :
       \/ \E name \in FatNames : (\E dir \in BOOLEAN : fat_dir_create(f, name, dir)) \/ fat_dir_rename(f, name)
       \/ fat_dir_remove(f)
       \/ \E at \in FatSizes, count \in {1, 2} : fat_file_write(f, at, count, left.changes)
       \/ \E at \in FatSizes : fat_file_truncate(f, at)
       \/ read_sector(f)
  \/ write_disk \/ write_fails \/ volume_unlock \/ keep_sector

-----------------------------------------------------------------------------
(***************************************************************************)
(* What a mount would find: fat_dir_load on the disk as it is.             *)
(***************************************************************************)
OnDisk(c) == IF valid_cluster(fat[c]) THEN fat[c] ELSE 0
DiskChain(first) == ChainBy(first, OnDisk)
DiskSlots == Slots(DiskChain(RootCluster))
\* The slots up to the first that was never used.
Read == {i \in DOMAIN DiskSlots : \A j \in 1 .. i : DiskSlots[j].k # "zero"}
Shorts == {i \in Read : DiskSlots[i].k \in {"short", "dir"}}
NameAt(i) ==
  IF i > 1 /\ DiskSlots[i - 1].k = "lfn" /\ DiskSlots[i - 1].short = DiskSlots[i].short
  THEN DiskSlots[i - 1].long ELSE DiskSlots[i].short
FirstAt(i) == IF DiskSlots[i].k = "dir" \/ DiskSlots[i].size > 0 THEN DiskSlots[i].first ELSE 0
Contents(first, size) ==
  LET chain == DiskChain(first) IN [i \in 1 .. size |-> cell[chain[(i + 1) \div 2]][1 + ((i - 1) % 2)]]

\* At no moment, a crash included, does an entry point at clusters that are
\* free or hold something else: every chain is as long as its size says, none
\* of its clusters is free, and only the two names a file has during a rename
\* share any (fat32.c:18-23, fat_dir_rename).  The root reads as a directory.
FatCrashSafe ==
  ~left.doubled =>
    /\ \A i \in Read : DiskSlots[i].k # "junk"
    /\ \A i \in Shorts :
         LET chain == DiskChain(FirstAt(i)) IN
         /\ 2 * Len(chain) >= DiskSlots[i].size
         /\ \A c \in Elements(chain) : fat[c] # FREE
         /\ Elements(chain) \cap Elements(DiskChain(RootCluster)) = {}
         /\ \A j \in Shorts \ {i} :
              \/ FirstAt(j) = FirstAt(i) /\ plan.file # 0
              \/ Elements(chain) \cap Elements(DiskChain(FirstAt(j))) = {}

\* Between operations, unless a disk write has failed, what a mount would find
\* is what the nodes say, every file reads as what was written to it with zeros
\* in the gaps, and every cluster in use belongs to somebody.
FatIsWhole ==
  plan.file = 0 /\ left.faults = left.most =>
    /\ {[name |-> NameAt(i), first |-> FirstAt(i), size |-> DiskSlots[i].size] : i \in Shorts}
         = {[name |-> node[f].name, size |-> node[f].size,
             first |-> IF node[f].dir \/ node[f].size > 0 THEN node[f].first ELSE 0]
              : f \in {g \in FatFiles : Exists(g)}}
    /\ \A f \in FatFiles : Exists(f) /\ ~node[f].dir => Contents(node[f].first, node[f].size) = want[f]
    /\ {c \in Clusters : fat[c] # FREE}
         = Elements(DiskChain(RootCluster)) \cup UNION {Elements(DiskChain(node[f].first)) : f \in FatFiles}

\* The sector of the FAT in memory is the one on the disk (set_fat_entry
\* changes an entry "in every copy of the FAT ... and in the cached sector").
FatCacheIsCurrent ==
  fat_cache.sector # 0 => fat_cache = SectorOfFat(fat, fat_cache.sector)
=============================================================================
