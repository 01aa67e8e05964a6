-------------------------------- MODULE Ext2 --------------------------------
(***************************************************************************)
(* The ext2 driver (src/fs/ext2.c): every operation as the list of disk     *)
(* writes it makes, in the order the code makes them, with the power going  *)
(* between any two of them, and the check the next mount makes              *)
(* (ext2_check).                                                            *)
(*                                                                          *)
(* Every operation holds ext2_mutex from its first read to its last write   *)
(* and the block cache is write-through, so what an operation writes is a   *)
(* function of the volume it began on: the action of an operation computes  *)
(* that list (todo), and WriteBlock carries out one entry of it.            *)
(*                                                                          *)
(* Left out: contents of files beyond who wrote them, times, owners and     *)
(* permissions (ext2_setattr, ext2_touch write nothing kept here), the      *)
(* volume's own blocks, further block groups, the doubly indirect tree (one *)
(* level of tables stands for both) and disk errors.                        *)
(***************************************************************************)
EXTENDS Integers, FiniteSets, Sequences, SequencesExt, FiniteSetsExt

CONSTANTS InodesCount, \* vol.inodes_count
          BlocksCount, \* vol.blocks_count, the volume's own blocks aside
          Names,       \* names of files
          Direct,      \* DIRECT_BLOCKS
          PerTable,    \* vol.pointers_per_block
          Room,        \* directory records a block has room for
          MaxOps,      \* bound: operations begun in one history
          TornMoves,   \* may the power go during a rename that is exposed (Exposed below)?
          Lingering    \* may a process outlive the shutdown's SIGKILL?

ASSUME SizesAssumption ==
    /\ InodesCount \in Nat \ {0} /\ BlocksCount \in Nat \ {0}
    /\ Direct \in Nat \ {0} /\ PerTable \in Nat \ {0} /\ Room \in Nat \ {0, 1} /\ MaxOps \in Nat
    /\ Names \cap {".", ".."} = {}
    /\ TornMoves \in BOOLEAN /\ Lingering \in BOOLEAN

VARIABLES
    disk,     \* what the disk holds: inode table, blocks, bitmaps, counts
    todo,     \* the writes the operation in progress has still to make
    phase,    \* "down", "mounting", "up", or "closing" (marked clean, power still on)
    exposed,  \* the operation in progress is a rename a crash can tear
    ops,      \* operations begun so far
    must      \* what has been promised: names and file contents that no
              \* operation in progress is taking away

vars == <<disk, todo, phase, exposed, ops, must>>

-----------------------------------------------------------------------------
(* The volume *)

Inodes == 1 .. InodesCount
Blocks == 1 .. BlocksCount      \* 0 is "no block"
EXT2_ROOT_INO == 1
Dots == {".", ".."}
\* What a write covers: one block of the front, the last direct block and the
\* first of the table, or the last block a file can have
Spans == {<<0, 0>>, <<Direct - 1, Direct>>, <<Direct + PerTable - 1, Direct + PerTable - 1>>}
Indices == 0 .. Direct + PerTable - 1

\* A block as alloc_block hands it out
zero_block == [sort |-> "zero", ent |-> {}, ptr |-> [k \in 0 .. PerTable - 1 |-> 0], own |-> 0]

\* A directory block, and a block of a file's contents (who wrote it)
DirBlock(ent) == [zero_block EXCEPT !.sort = "dir", !.ent = ent]
DataBlock(i) == [zero_block EXCEPT !.sort = "data", !.own = i]

\* struct ext2_inode: sizes in blocks; sectors in blocks, tables included
EmptyInode == [kind |-> "none", links |-> 0, blk |-> [x \in 0 .. Direct - 1 |-> 0],
               tab |-> 0, size |-> 0, sectors |-> 0]
NoBlocks(in) == [in EXCEPT !.blk = EmptyInode.blk, !.tab = 0, !.size = 0, !.sectors = 0]

\* A computation under ext2_mutex: the volume as written so far, and the writes
Begin == [d |-> disk, w |-> <<>>]

\* write_block, write_inode: `val` goes to `at` of one area of the volume
Put(s, area, at, val) ==
    [d |-> [s.d EXCEPT ![area][at] = val], w |-> Append(s.w, <<area, at, val>>)]

\* The superblock, then the group's descriptor, with so many more free
write_counts(s, blocks, inodes) ==
    LET More(c) == [c EXCEPT !.b = @ + blocks, !.i = @ + inodes]
    IN  Put(Put(s, "count", "super", More(s.d.count.super)),
            "count", "group", More(s.d.count.group))

\* The bitmap, the counts, then zeros over the block's old contents
alloc_block(s) ==
    LET free == Blocks \ s.d.map.blocks
        b == Min(free)
    IN  IF s.d.count.group.b = 0 \/ free = {} THEN [s |-> s, b |-> 0]
        ELSE [s |-> Put(write_counts(Put(s, "map", "blocks", s.d.map.blocks \cup {b}), -1, 0),
                        "data", b, zero_block),
              b |-> b]

free_block(s, b) ==
    IF b \notin s.d.map.blocks THEN s
    ELSE write_counts(Put(s, "map", "blocks", s.d.map.blocks \ {b}), 1, 0)

alloc_inode(s) ==
    LET free == Inodes \ (s.d.map.inodes \cup {EXT2_ROOT_INO})
        i == Min(free)
    IN  IF s.d.count.group.i = 0 \/ free = {} THEN [s |-> s, i |-> 0]
        ELSE [s |-> write_counts(Put(s, "map", "inodes", s.d.map.inodes \cup {i}), 0, -1),
              i |-> i]

free_inode(s, i) ==
    IF i = EXT2_ROOT_INO \/ i \notin s.d.map.inodes THEN s
    ELSE write_counts(Put(s, "map", "inodes", s.d.map.inodes \ {i}), 0, 1)

-----------------------------------------------------------------------------
(* A file's blocks *)

\* file_block without alloc: the block at position x of a file, 0 for a hole
BlockAt(d, in, x) ==
    CASE x < Direct -> in.blk[x]
      [] in.tab = 0 -> 0
      [] OTHER -> d.data[in.tab].ptr[x - Direct]

\* One step down the tree: slot k of the file's table, a new block if it is empty
table_entry(s, in, k) ==
    LET table == s.d.data[in.tab]
        Took(new) == IF new.b = 0 THEN [s |-> s, in |-> in, b |-> 0]
                     ELSE [s |-> Put(new.s, "data", in.tab,
                                     [table EXCEPT !.sort = "table", !.ptr[k] = new.b]),
                           in |-> [in EXCEPT !.sectors = @ + 1],
                           b |-> new.b]
    IN  IF table.ptr[k] # 0 THEN [s |-> s, in |-> in, b |-> table.ptr[k]]
        ELSE Took(alloc_block(s))

\* file_block with alloc. The inode changes in memory; the caller writes it
file_block(s, in, x) ==
    LET b == BlockAt(s.d, in, x)
        Took(new) ==
            CASE new.b = 0 -> [s |-> s, in |-> in, b |-> 0]
              [] new.b # 0 /\ x < Direct ->
                    [s |-> new.s, in |-> [in EXCEPT !.blk[x] = new.b, !.sectors = @ + 1], b |-> new.b]
              [] OTHER ->
                    table_entry(new.s, [in EXCEPT !.tab = new.b, !.sectors = @ + 1], x - Direct)
    IN  CASE b # 0 -> [s |-> s, in |-> in, b |-> b]
          [] b = 0 /\ (x < Direct \/ in.tab = 0) -> Took(alloc_block(s))
          [] OTHER -> table_entry(s, in, x - Direct)

\* Everything a file occupies, in the order free_contents gives it back:
\* direct blocks, what the table lists, the table
BlocksOf(d, in) ==
    LET direct == [k \in 1 .. Direct |-> in.blk[k - 1]]
        listed == IF in.tab = 0 THEN <<>>
                  ELSE [k \in 1 .. PerTable |-> d.data[in.tab].ptr[k - 1]]
    IN  SelectSeq(direct \o listed \o <<in.tab>>, LAMBDA b : b # 0)

free_contents(s, in) == FoldLeft(free_block, s, BlocksOf(s.d, in))

-----------------------------------------------------------------------------
(* Directories *)

\* The blocks of a directory that dir_add, dir_change and the check look at
DirBlocks(d, in) == {BlockAt(d, in, x) : x \in 0 .. in.size - 1} \ {0}
EntriesOf(d, in) == UNION {d.data[b].ent : b \in DirBlocks(d, in)}
Find(d, in, n) == {e[2] : e \in {x \in EntriesOf(d, in) : x[1] = n}}

\* Into the first block with room, else into a new block; the directory's
\* inode grows in memory
dir_add(s, dir, n, i) ==
    LET room == {x \in 0 .. dir.size - 1 :
                    LET b == BlockAt(s.d, dir, x)
                    IN  b # 0 /\ s.d.data[b].sort = "dir" /\ Cardinality(s.d.data[b].ent) < Room}
        Into(at) == [s |-> Put(s, "data", at, DirBlock(s.d.data[at].ent \cup {<<n, i>>})),
                     in |-> dir, ok |-> TRUE]
        Grown(f) == IF f.b = 0 THEN [s |-> f.s, in |-> dir, ok |-> FALSE]
                    ELSE [s |-> Put(f.s, "data", f.b, DirBlock({<<n, i>>})),
                          in |-> [f.in EXCEPT !.size = @ + 1], ok |-> TRUE]
    IN  CASE room # {} -> Into(BlockAt(s.d, dir, Min(room)))
          [] room = {} /\ dir.size \in Indices -> Grown(file_block(s, dir, dir.size))
          [] OTHER -> [s |-> s, in |-> dir, ok |-> FALSE]

\* Take the entry called n out, or (new # 0) make it name inode `new`
dir_change(s, dir, n, new) ==
    LET b == CHOOSE b \in DirBlocks(s.d, dir) : \E e \in s.d.data[b].ent : e[1] = n
        others == {e \in s.d.data[b].ent : e[1] # n}
    IN  Put(s, "data", b, DirBlock(others \cup (IF new = 0 THEN {} ELSE {<<n, new>>})))

-----------------------------------------------------------------------------
(* What the volume shows: reachable inodes, names and contents *)

Kids(d, i) == IF d.ino[i].kind # "dir" THEN {}
              ELSE {e[2] : e \in {x \in EntriesOf(d, d.ino[i]) : x[1] \notin Dots}}

Below(d, top) ==
    LET within[n \in 0 .. Cardinality(Inodes)] ==
            IF n = 0 THEN {top}
            ELSE within[n - 1] \cup UNION {Kids(d, i) : i \in within[n - 1]}
    IN  within[Cardinality(Inodes)]
Reachable(d) == Below(d, EXT2_ROOT_INO)

Dirs(d) == {i \in Reachable(d) : d.ino[i].kind = "dir"}
NamesIn(d) == UNION {{<<i, e[1], e[2]>> : e \in EntriesOf(d, d.ino[i])} : i \in Dirs(d)}
Named(d) == {e \in NamesIn(d) : e[2] \notin Dots}

\* <<file, position>> of every block of contents a reader of the volume finds
Contents(d) ==
    {<<i, x>> \in Reachable(d) \X Indices :
        /\ d.ino[i].kind = "file"
        /\ x < d.ino[i].size
        /\ BlockAt(d, d.ino[i], x) # 0
        /\ d.data[BlockAt(d, d.ino[i], x)].own = i}

View(d) == [names |-> Named(d), contents |-> Contents(d)]

Apply(d, w) == [d EXCEPT ![w[1]][w[2]] = w[3]]

-----------------------------------------------------------------------------
(* The operations: what each writes *)

\* Mutant of Make: the name before the inode, and no way back
MakeNameFirst(d, n, kind, own) ==
    LET in == [EmptyInode EXCEPT !.kind = kind, !.links = IF kind = "dir" THEN 2 ELSE 1]
        Added(a, add) == IF ~add.ok THEN <<>>
                         ELSE Put(Put(add.s, "ino", d, add.in), "ino", a.i, in).w
        Got(a) == IF a.i = 0 \/ own THEN <<>> ELSE Added(a, dir_add(a.s, disk.ino[d], n, a.i))
    IN  Got(alloc_inode(Begin))

\* Mutant of Make: an inode whose name found no room stays allocated
MakeNoUndo(d, n, kind, own) ==
    LET in == [EmptyInode EXCEPT !.kind = kind, !.links = 1]
        Added(add) == IF add.ok THEN Put(add.s, "ino", d, add.in).w ELSE add.s.w
        Got(a) == IF a.i = 0 \/ own THEN <<>>
                  ELSE Added(dir_add(Put(a.s, "ino", a.i, in), disk.ino[d], n, a.i))
    IN  Got(alloc_inode(Begin))

\* ext2_dir_create and ext2_dir_symlink: the inode, complete, then the entry
\* that names it, then the parent. `kind` is what is made, `own` whether it
\* has a block of its own from the start (a directory, a long link)
Make(d, n, kind, own) ==
    LET fresh == [EmptyInode EXCEPT !.kind = kind, !.links = IF kind = "dir" THEN 2 ELSE 1]
        Undo(s, in, i) == free_inode(free_contents(s, in), i).w
        Added(add, in, i) ==
            IF ~add.ok THEN Undo(add.s, in, i)
            ELSE Put(add.s, "ino", d, [add.in EXCEPT !.links = IF kind = "dir" THEN @ + 1 ELSE @]).w
        Complete(s, in, i) == Added(dir_add(Put(s, "ino", i, in), disk.ino[d], n, i), in, i)
        contents(i) == IF kind = "dir" THEN DirBlock({<<".", i>>, <<"..", d>>}) ELSE DataBlock(i)
        Filled(f, i) ==
            IF f.b = 0 THEN Undo(f.s, f.in, i)
            ELSE Complete(Put(f.s, "data", f.b, contents(i)), [f.in EXCEPT !.size = 1], i)
        Got(a) == CASE a.i = 0 -> <<>>
                    [] a.i # 0 /\ own -> Filled(file_block(a.s, fresh, 0), a.i)
                    [] OTHER -> Complete(a.s, fresh, a.i)
    IN  Got(alloc_inode(Begin))

\* The last name has gone: blocks, then the inode, then its bit
release_inode(s, i, in) ==
    free_inode(Put(free_contents(s, in), "ino", i, [NoBlocks(in) EXCEPT !.links = 0]), i)

\* The name, the parent, and then the inode if that was its last name
RemoveWrites(d, n, i) ==
    LET in == disk.ino[i]
        parent == disk.ino[d]
        unnamed == Put(dir_change(Begin, parent, n, 0), "ino", d,
                       [parent EXCEPT !.links = IF in.kind = "dir" THEN @ - 1 ELSE @])
    IN  IF in.kind = "dir" \/ in.links <= 1
        THEN release_inode(unnamed, i, in).w
        ELSE Put(unnamed, "ino", i, [in EXCEPT !.links = @ - 1]).w

\* Mutant of RenameWrites: the old name goes before the new one is there
RenameOutFirst(d, n, i, e, m) ==
    LET Added(add) == IF add.ok THEN Put(add.s, "ino", e, add.in).w ELSE <<>>
    IN  Added(dir_add(dir_change(Begin, disk.ino[d], n, 0), disk.ino[e], m, i))

\* The count up, the new entry, the old one out, "..", the two parents, the
\* count down
RenameWrites(d, n, i, e, m) ==
    LET in == disk.ino[i]
        across == in.kind = "dir" /\ d # e
        DotDot(s) == IF across THEN dir_change(s, in, "..", e) ELSE s
        Parents(s, from, to) ==
            LET old == Put(s, "ino", d, [from EXCEPT !.links = IF across THEN @ - 1 ELSE @])
            IN  IF d = e THEN old
                ELSE Put(old, "ino", e, [to EXCEPT !.links = IF across THEN @ + 1 ELSE @])
        Moved(s, from, to) == Parents(DotDot(dir_change(s, from, n, 0)), from, to)
        Added(add) ==
            IF add.ok THEN Moved(add.s, IF d = e THEN add.in ELSE disk.ino[d], add.in) ELSE add.s
        raised == Put(Begin, "ino", i, [in EXCEPT !.links = @ + 1])
    IN  Put(Added(dir_add(raised, disk.ino[e], m, i)), "ino", i, in).w

\* The count, then the entry; the count back if there was no room for it
LinkWrites(i, d, n) ==
    LET in == disk.ino[i]
        Added(add) == IF add.ok THEN Put(add.s, "ino", d, add.in).w ELSE Put(add.s, "ino", i, in).w
    IN  Added(dir_add(Put(Begin, "ino", i, [in EXCEPT !.links = @ + 1]), disk.ino[d], n, i))

\* Blocks and what goes into them one after the other, until one can not be
\* had; the inode last
FileWrites(i, first, last) ==
    LET Filled(c, f, x) ==
            IF f.b = 0 THEN [c EXCEPT !.s = f.s, !.in = f.in, !.full = TRUE]
            ELSE [s |-> Put(f.s, "data", f.b, DataBlock(i)), in |-> f.in,
                  done |-> x + 1, full |-> FALSE]
        One(c, x) == IF c.full THEN c ELSE Filled(c, file_block(c.s, c.in, x), x)
        Ended(c) == Put(c.s, "ino", i, [c.in EXCEPT !.size = Max({@, c.done})]).w
    IN  Ended(FoldLeft(One, [s |-> Begin, in |-> disk.ino[i], done |-> 0, full |-> FALSE],
                       [k \in 1 .. last - first + 1 |-> first + k - 1]))

\* To nothing: the inode without its blocks, and only then the blocks
truncate_to_nothing(i) ==
    free_contents(Put(Begin, "ino", i, NoBlocks(disk.ino[i])), disk.ino[i]).w

\* To `keep` blocks: the table that stays loses its entries past the cut, then
\* the inode, then the blocks are freed, then the inode's count of them
CutWrites(i, keep) ==
    LET in == disk.ino[i]
        whole == keep <= Direct
        kept == [in EXCEPT !.blk = [x \in DOMAIN @ |-> IF x < keep THEN @[x] ELSE 0],
                           !.tab = IF whole THEN 0 ELSE @, !.size = keep]
        table == disk.data[in.tab]
        cut == IF in.tab = 0 \/ whole THEN Begin
               ELSE Put(Begin, "data", in.tab,
                        [table EXCEPT !.ptr = [k \in DOMAIN @ |-> IF Direct + k < keep THEN @[k] ELSE 0]])
        gone == SelectSeq(BlocksOf(disk, in), LAMBDA b : b \notin Range(BlocksOf(cut.d, kept)))
        freed == FoldLeft(free_block, Put(cut, "ino", i, kept), gone)
    IN  Put(freed, "ino", i, [kept EXCEPT !.sectors = Max({@ - Len(gone), 0})]).w

-----------------------------------------------------------------------------
(* ext2_check: the tree is walked from the root, then bitmaps, link counts   *)
(* and free counts are made to agree with what was reached                   *)

\* One inode off the queue: its blocks are noted (a block noted before is a
\* conflict), its size and block count brought up to what its tables list,
\* and if it is a directory its entries are counted and queued
Visit(c) ==
    LET i == Head(c.queue)
        in == c.s.d.ino[i]
        blocks == BlocksOf(c.s.d, in)
        walked == in.kind \in {"file", "dir"} \/ (in.kind = "link" /\ in.sectors # 0)
        clash == walked /\ (Range(blocks) \cap c.blocks # {} \/ ~IsInjective(blocks))
        reaches == Max({0} \cup {x + 1 : x \in {y \in Indices : BlockAt(c.s.d, in, y) # 0}})
        short == IF in.kind = "dir" THEN in.size # reaches ELSE reaches > in.size
        sized == IF ~c.conflict /\ ~clash /\ in.kind \in {"file", "dir"}
                       /\ (in.sectors # Len(blocks) \/ short)
                 THEN [in EXCEPT !.sectors = Len(blocks), !.size = IF short THEN reaches ELSE @]
                 ELSE in
        here == IF in.kind = "dir" THEN DirBlocks(c.s.d, sized) ELSE {}
        named == UNION {c.s.d.data[b].ent : b \in here}
        new == {e[2] : e \in {x \in named : x[1] \notin Dots}} \ c.inodes
    IN  [s |-> IF sized = in THEN c.s ELSE Put(c.s, "ino", i, sized),
         queue |-> Tail(c.queue) \o SetToSeq(new),
         inodes |-> c.inodes \cup new,
         blocks |-> IF walked THEN c.blocks \cup Range(blocks) ELSE c.blocks,
         links |-> [k \in Inodes |-> c.links[k] + Cardinality({e \in named : e[2] = k})],
         conflict |-> c.conflict \/ clash \/ \E b \in here : c.s.d.data[b].sort # "dir"]

Walk(s) ==
    LET after[n \in 0 .. Cardinality(Inodes)] ==
            IF n = 0
            THEN [s |-> s, queue |-> <<EXT2_ROOT_INO>>, inodes |-> {EXT2_ROOT_INO}, blocks |-> {},
                  links |-> [k \in Inodes |-> 0], conflict |-> FALSE]
            ELSE IF after[n - 1].queue = <<>> THEN after[n - 1] ELSE Visit(after[n - 1])
    IN  after[Cardinality(Inodes)]

\* The pass over the inodes: what nothing names goes (its inode first, the
\* bitmap after the pass), what is named is marked in use and its links counted
CheckInodes(c) ==
    LET One(s, i) ==
            LET in == s.d.ino[i]
            IN  CASE i \notin c.inodes /\ i \in s.d.map.inodes /\ ~c.conflict ->
                        Put(s, "ino", i, [in EXCEPT !.links = 0])
                  [] i \in c.inodes /\ in.links # c.links[i] /\ c.links[i] # 0 ->
                        Put(s, "ino", i, [in EXCEPT !.links = c.links[i]])
                  [] OTHER -> s
        Bits(s, used) == IF used = s.d.map.inodes THEN s ELSE Put(s, "map", "inodes", used)
        Passed(s) == Bits(s, IF c.conflict THEN s.d.map.inodes \cup c.inodes ELSE c.inodes)
    IN  Passed(FoldLeft(One, c.s, [i \in 1 .. Cardinality(Inodes) |-> i]))

\* The pass over the blocks, on what the walk found (c)
CheckBlocks(s, c) ==
    LET used == IF c.conflict THEN s.d.map.blocks \cup c.blocks ELSE c.blocks
    IN  IF used = s.d.map.blocks THEN s ELSE Put(s, "map", "blocks", used)

\* The counts, if anything was out when the check began
CheckCounts(s, d) ==
    LET free == [b |-> Cardinality(Blocks \ s.d.map.blocks), i |-> Cardinality(Inodes \ s.d.map.inodes)]
        right == /\ s.d.map = d.map /\ d.count.group = free
                 /\ d.count.super.b = free.b /\ d.count.super.i = free.i
    IN  IF right THEN s
        ELSE Put(Put(s, "count", "super", [s.d.count.super EXCEPT !.b = free.b, !.i = free.i]),
                 "count", "group", free)

ext2_check(s) ==
    LET Passes(c) == CheckBlocks(CheckInodes(c), c)
    IN  CheckCounts(Passes(Walk(s)), s.d)

\* ext2_mount: the clean mark goes, and without it the volume is checked
MountWrites ==
    LET marked == Put(Begin, "count", "super", [disk.count.super EXCEPT !.valid = FALSE])
    IN  IF disk.count.super.valid THEN marked.w ELSE ext2_check(marked).w

-----------------------------------------------------------------------------
(* The system *)

Promise(v, w) == [names |-> v.names \cap w.names, contents |-> v.contents \cap w.contents]

\* ext2_mutex is free and a process may ask for something
Idle == todo = <<>> /\ ops < MaxOps /\ (phase = "up" \/ (phase = "closing" /\ Lingering))

\* An operation begins: it will make these writes
Start(writes, tearable) ==
    /\ todo' = writes
    /\ exposed' = tearable
    /\ ops' = ops + 1
    /\ must' = Promise(View(disk), View(FoldLeft(Apply, disk, writes)))
    /\ UNCHANGED <<disk, phase>>

\* The names in a directory a process can give, and one that is not there yet
Entry(d, n, i) == d \in Dirs(disk) /\ i \in Find(disk, disk.ino[d], n)
FreeName(d, n) == d \in Dirs(disk) /\ Find(disk, disk.ino[d], n) = {}

Create(d, n, kind) ==
    Idle /\ FreeName(d, n) /\ Start(Make(d, n, kind, kind = "dir"), FALSE)

Symlink(d, n, long) ==
    Idle /\ FreeName(d, n) /\ Start(Make(d, n, "link", long), FALSE)

\* vfs_unlink has seen that a directory is empty
Unlink(d, n, i) ==
    /\ Idle /\ Entry(d, n, i)
    /\ disk.ino[i].kind = "dir" => Kids(disk, i) = {}
    /\ Start(RemoveWrites(d, n, i), FALSE)

\* A rename a crash can tear: of a directory (two names, or a ".." left
\* behind), or into a directory that has to grow for it (the old entry goes
\* before the inode that lists the new one's block is written)
Exposed(i, e) ==
    \/ disk.ino[i].kind = "dir"
    \/ dir_add(Begin, disk.ino[e], "", i).in # disk.ino[e]

\* vfs_rename: nothing is replaced, no directory goes below itself
Rename(d, n, i, e, m) ==
    /\ Idle /\ Entry(d, n, i) /\ FreeName(e, m)
    /\ e \notin Below(disk, i)
    /\ Start(RenameWrites(d, n, i, e, m), Exposed(i, e))

\* vfs_link: files only
Link(i, d, n) ==
    /\ Idle /\ i \in Reachable(disk) /\ disk.ino[i].kind = "file" /\ FreeName(d, n)
    /\ Start(LinkWrites(i, d, n), FALSE)

Write(i, first, last) ==
    /\ Idle /\ i \in Reachable(disk) /\ disk.ino[i].kind = "file"
    /\ Start(FileWrites(i, first, last), FALSE)

Truncate(i, keep) ==
    /\ Idle /\ i \in Reachable(disk) /\ disk.ino[i].kind = "file"
    /\ keep < disk.ino[i].size
    /\ Start(IF keep = 0 THEN truncate_to_nothing(i) ELSE CutWrites(i, keep), FALSE)

Mount ==
    /\ phase = "down"
    /\ phase' = "mounting" /\ todo' = MountWrites
    /\ UNCHANGED <<disk, exposed, ops, must>>

\* system_shutdown, every process it could end ended: ext2_mark_clean
Shutdown ==
    /\ phase = "up" /\ todo = <<>>
    /\ phase' = "closing"
    /\ todo' = Put(Begin, "count", "super", [disk.count.super EXCEPT !.valid = TRUE]).w
    /\ UNCHANGED <<disk, exposed, ops, must>>

\* One block reaches the disk; with the last one the operation returns
WriteBlock ==
    /\ todo # <<>>
    /\ disk' = Apply(disk, Head(todo))
    /\ todo' = Tail(todo)
    /\ IF Tail(todo) = <<>>
       THEN /\ phase' = (IF phase = "mounting" THEN "up" ELSE phase)
            /\ exposed' = FALSE
            /\ must' = (IF phase = "mounting" THEN must ELSE View(disk'))
       ELSE UNCHANGED <<phase, exposed, must>>
    /\ UNCHANGED ops

\* A crash, a power cut, or the power-off that ends a shutdown
PowerGoes ==
    /\ phase # "down"
    /\ exposed => TornMoves
    /\ phase' = "down" /\ todo' = <<>> /\ exposed' = FALSE
    /\ UNCHANGED <<disk, ops, must>>

\* A volume as mke2fs makes it: an empty root directory in one block
Fresh ==
    LET root == [EmptyInode EXCEPT !.kind = "dir", !.links = 2, !.blk[0] = 1, !.size = 1, !.sectors = 1]
        free == [b |-> Cardinality(Blocks) - 1, i |-> Cardinality(Inodes) - 1]
    IN  [ino |-> [i \in Inodes |-> IF i = EXT2_ROOT_INO THEN root ELSE EmptyInode],
         data |-> [b \in Blocks |-> IF b = 1 THEN DirBlock({<<".", 1>>, <<"..", 1>>}) ELSE zero_block],
         map |-> [inodes |-> {EXT2_ROOT_INO}, blocks |-> {1}],
         count |-> [super |-> [b |-> free.b, i |-> free.i, valid |-> TRUE], group |-> free]]

Init ==
    /\ disk = Fresh
    /\ todo = <<>> /\ phase = "down" /\ exposed = FALSE /\ ops = 0
    /\ must = View(Fresh)

Next ==
    \/ \E d \in Inodes, n \in Names, kind \in {"file", "dir"} : Create(d, n, kind)
    \/ \E d \in Inodes, n \in Names, long \in BOOLEAN : Symlink(d, n, long)
    \/ \E d \in Inodes, n \in Names, i \in Inodes : Unlink(d, n, i)
    \/ \E d, e, i \in Inodes, n, m \in Names : Rename(d, n, i, e, m)
    \/ \E i, d \in Inodes, n \in Names : Link(i, d, n)
    \/ \E i \in Inodes, s \in Spans : Write(i, s[1], s[2])
    \/ \E i \in Inodes, keep \in Indices : Truncate(i, keep)
    \/ Mount \/ Shutdown \/ WriteBlock \/ PowerGoes

Spec == Init /\ [][Next]_vars

-----------------------------------------------------------------------------
(* Properties *)

\* The variables have the shapes the driver gives them.
TypeOK ==
    /\ phase \in {"down", "mounting", "up", "closing"}
    /\ exposed \in BOOLEAN /\ ops \in 0 .. MaxOps
    /\ disk.map.inodes \subseteq Inodes /\ disk.map.blocks \subseteq Blocks
    /\ disk.count.group \in [b : 0 .. BlocksCount, i : 0 .. InodesCount]
    /\ \A i \in Inodes : /\ disk.ino[i].kind \in {"none", "file", "dir", "link"}
                         /\ disk.ino[i].links \in Nat
                         /\ Range(disk.ino[i].blk) \cup {disk.ino[i].tab} \subseteq Blocks \cup {0}
    /\ \A b \in Blocks : disk.data[b].sort \in {"zero", "dir", "table", "data"}
    /\ todo # <<>> => phase # "down"

\* Whenever the power goes, no name on the disk points at nothing: the inode
\* behind every name that can be reached is marked in use, has been written
\* and has links (the order of writes ext2.c's head promises). A file has a link
\* for each of its names, so removing one of them never frees it under another.
NamesAreReal ==
    \A e \in Named(disk) :
        LET in == disk.ino[e[3]]
            names == {f \in Named(disk) : f[3] = e[3]}
        IN  /\ e[3] \in disk.map.inodes
            /\ in.kind # "none"
            /\ in.links >= IF in.kind = "dir" THEN 1 ELSE Cardinality(names)

\* Whenever the power goes, what a file or directory that can be reached
\* lists is marked in use, and no block is listed twice, by it or by two of
\* them (truncation and removal free blocks in opposite orders).
BlocksAreOwned ==
    LET reach == Reachable(disk)
        owned(i) == BlocksOf(disk, disk.ino[i])
    IN  /\ \A i \in reach : IsInjective(owned(i)) /\ Range(owned(i)) \subseteq disk.map.blocks
        /\ \A i, j \in reach : i # j => Range(owned(i)) \cap Range(owned(j)) = {}

\* A block a reader finds in a file holds zeros or what was written to that
\* file, never what another file left there (alloc_block zeroes it first).
NoStaleContents ==
    \A i \in Reachable(disk) : disk.ino[i].kind = "file" =>
        \A x \in 0 .. disk.ino[i].size - 1 :
            LET b == BlockAt(disk, disk.ino[i], x)
            IN  b # 0 => disk.data[b].sort \in {"zero", "data"} /\ disk.data[b].own \in {0, i}

\* Whenever the power goes, the volume can be used as it is (the order of
\* writes ext2.c's head promises).
CrashSound == TypeOK /\ NamesAreReal /\ BlocksAreOwned /\ NoStaleContents

\* Nothing leaks and every count is right.
Whole(d) ==
    LET reach == Reachable(d)
    IN  /\ d.map.inodes = reach
        /\ d.map.blocks = UNION {Range(BlocksOf(d, d.ino[i])) : i \in reach}
        /\ \A i \in reach : /\ d.ino[i].links = Cardinality({e \in NamesIn(d) : e[3] = i})
                            /\ d.ino[i].sectors = Len(BlocksOf(d, d.ino[i]))
        /\ d.count.group = [b |-> Cardinality(Blocks \ d.map.blocks), i |-> Cardinality(Inodes \ reach)]
        /\ d.count.super.b = d.count.group.b /\ d.count.super.i = d.count.group.i

\* Whenever the volume is mounted and no operation is under way (those that
\* ran out of room and undid their work, and the check after a crash,
\* included), bitmaps, link counts and free counts are exactly right.
IdleIsWhole == phase \in {"up", "closing"} /\ todo = <<>> => Whole(disk)

\* The clean mark is on the disk only while the volume needs no check: a
\* mount that trusts it loses nothing (ext2_mount, system_shutdown).
CleanMeansWhole == disk.count.super.valid => Whole(disk)

\* What the driver's own interrupted writes leave behind is damage its check
\* repairs: it never meets a conflict and gives up freeing.
CheckRepairs == phase = "down" => ~Walk(Begin).conflict

\* A volume that is trusted has nothing to repair, and one that is not can be
\* repaired (ext2_mount, ext2_check).
BooksSound == IdleIsWhole /\ CleanMeansWhole /\ CheckRepairs

\* What an operation that returned has put on the disk, names and contents,
\* is there after every later crash and through the check that follows, unless
\* the operation the crash cut short was taking it away.
NothingLost ==
    todo = <<>> \/ phase = "mounting" => /\ must.names \subseteq Named(disk)
                                         /\ must.contents \subseteq Contents(disk)
=============================================================================
