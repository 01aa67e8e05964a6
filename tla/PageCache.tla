----------------------------- MODULE PageCache -----------------------------
(***************************************************************************)
(* The page cache and the mappings of a file (mm/pcache.c, and the file    *)
(* half of mm/region.c): one page of one file of a disk volume, mapped     *)
(* privately (read-only; the copy on write is Paging's) or shared by the   *)
(* threads of several processes, while others write(), truncate() and      *)
(* remove the file.                                                        *)
(*                                                                         *)
(* The page is Cells; a file may end inside it or beyond it (size), and    *)
(* one cell after it stands for the rest of the file.  What the code does  *)
(* under pcache_lock, under mem_lock or inside the volume's lock is one    *)
(* step; reading the file, writing it, and telling the cache of the write  *)
(* are steps of their own, as no lock spans them.                          *)
(*                                                                         *)
(* Bounds: PcCalls calls in all, each store and write() with a value of    *)
(* its own.                                                                *)
(***************************************************************************)
EXTENDS Naturals, FiniteSets, FiniteSetsExt

CONSTANTS PcThreads, PcProcs, PcProcOf, PcFrames, PcTries, PcCalls

\* Frame 0 and thread 0 stand for none.
PcAssumption ==
    /\ IsFiniteSet(PcThreads) /\ 0 \notin PcThreads
    /\ IsFiniteSet(PcProcs) /\ PcProcOf \in [PcThreads -> PcProcs]
    /\ PcFrames \subseteq Nat \ {0}
    /\ PcTries \in Nat /\ PcCalls \in Nat

Cells == {0, 1}
PageEnd == 2                                   \* The first cell past the page
Blank == [c \in Cells |-> 0]                    \* Zeros
NoEntry == [frame |-> 0, shared |-> FALSE, dirty |-> FALSE]
AtRest == [at |-> "idle", frame |-> 0, gen |-> 0, tries |-> 0, kind |-> "none",
           len |-> 0, ok |-> TRUE, cell |-> 0, val |-> 0, older |-> {}]

VARIABLES
    pcFile,      \* [size, data, gen, pins, removed]: the vnode and its disk blocks
    entry,       \* the cache's entry for the page
    mem,         \* frame -> contents
    ref,         \* frame -> owners (0: free)
    region,      \* process -> "none", "private" or "shared"
    pte,         \* process -> the frame its page table maps, or 0
    users,       \* process -> faults working on the file (file_users)
    mapper,      \* process -> the thread holding map_mutex, or 0
    seen,        \* process -> seen_truncations
    truncs,      \* pcache_truncations
    th,          \* thread -> what it is doing
    calls,       \* calls made (PcCalls)
    last,        \* for the properties: cell -> values that may be the last written
    raced        \* for the properties: a write-back met another change

pcVars == <<pcFile, entry, mem, ref, region, pte, users, mapper, seen, truncs, th, calls, last, raced>>
pageVars == <<pcFile, entry, mem, ref, last>>
procVars == <<region, pte, users, mapper, seen>>

PcInit ==
    /\ pcFile = [size |-> 2, data |-> Blank, gen |-> 0, pins |-> 0, removed |-> FALSE]
    /\ entry = NoEntry
    /\ mem = [f \in PcFrames |-> Blank]
    /\ ref = [f \in PcFrames |-> 0]
    /\ region = [p \in PcProcs |-> "none"]
    /\ pte = [p \in PcProcs |-> 0]
    /\ users = [p \in PcProcs |-> 0]
    /\ mapper = [p \in PcProcs |-> 0]
    /\ seen = [p \in PcProcs |-> 0]
    /\ truncs = 0
    /\ th = [t \in PcThreads |-> AtRest]
    /\ calls = 0
    /\ last = [c \in Cells |-> {0}]
    /\ raced = FALSE

-----------------------------------------------------------------------------
(* Frames and the entry.                                                   *)

\* pmm_ref_frame and pmm_unref_frame, on the counts r.
Ref(r, f) == [r EXCEPT ![f] = @ + 1]
Unref(r, f) == IF f = 0 THEN r ELSE [r EXCEPT ![f] = @ - 1]

\* pmm_alloc_frame: any frame nobody owns.
FreeFrames(r) == {f \in DOMAIN r : r[f] = 0}

\* Nobody but the cache has the page, and it is not the only copy of a write.
Unmapped(e, r) == e.frame # 0 /\ r[e.frame] = 1 /\ ~e.dirty

mark_shared(e, kind) == IF kind = "shared" THEN [e EXCEPT !.shared = TRUE, !.dirty = TRUE] ELSE e

\* What the file's blocks hold, as vfs_read gives it: zeros past the end.
FileCells(file) == [c \in Cells |-> IF c < file.size THEN file.data[c] ELSE 0]

\* pcache_read_overlay: what a read() of the file sees.
read_overlay(file, e, m) == IF e.shared THEN m[e.frame] ELSE FileCells(file)


\* The file has not changed since the page began to be read.
Current(t) == pcFile.gen = th[t].gen


\* pcache_writeback's last look: clean only if the cache and the writer are
\* the frame's only owners.
CleanAfter(t) == th[t].ok /\ ref[th[t].frame] = 2

\* Mutant of NoFileUsers: the file is let go under a fault that reads it.
NeverWait(p) == TRUE

\* wait_for_file_users.
NoFileUsers(p) == users[p] = 0

-----------------------------------------------------------------------------
(* The steps of a call.                                                    *)

PcGoes(t, r) == th' = [th EXCEPT ![t] = r]
Moves(t, at) == PcGoes(t, [th[t] EXCEPT !.at = at])
Calls(t) == th[t].at = "idle" /\ calls < PcCalls /\ calls' = calls + 1
Alone == UNCHANGED <<truncs, calls>>

\* mmap (region_map): the file is pinned by the region.
Map(t, kind) ==
    LET p == PcProcOf[t] IN
    /\ Calls(t)
    /\ mapper[p] = 0 /\ region[p] = "none" /\ ~pcFile.removed
    /\ region' = [region EXCEPT ![p] = kind]
    /\ pcFile' = [pcFile EXCEPT !.pins = @ + 1]
    /\ UNCHANGED <<entry, mem, ref, last, pte, users, mapper, seen, truncs, th>>

\* A touch of a page that is not there: fault_once up to releasing mem_lock.
\* (Wholly past the file's end, a shared mapping's page is SIGBUS.)
Touch(t) ==
    LET p == PcProcOf[t] IN
    /\ th[t].at = "idle"
    /\ region[p] # "none" /\ pte[p] = 0
    /\ ~(region[p] = "shared" /\ pcFile.size = 0)
    /\ users' = [users EXCEPT ![p] = @ + 1]
    /\ PcGoes(t, [AtRest EXCEPT !.at = "find", !.kind = region[p]])
    /\ UNCHANGED <<pageVars, region, pte, mapper, seen>> /\ Alone

\* get, the first look: a hit takes a reference of the caller's; a miss notes
\* the generation and allocates a frame.  With none (cached pages that nobody
\* maps are given back first: Reclaim), the fault fails.
Find(t) ==
    /\ th[t].at = "find"
    /\ IF entry.frame # 0
       THEN /\ ref' = Ref(ref, entry.frame)
            /\ entry' = mark_shared(entry, th[t].kind)
            /\ PcGoes(t, [th[t] EXCEPT !.at = "install", !.frame = entry.frame])
       ELSE /\ entry' = entry
            /\ IF FreeFrames(ref) = {}
               THEN PcGoes(t, [th[t] EXCEPT !.at = "install", !.frame = 0]) /\ ref' = ref
               ELSE LET f == Min(FreeFrames(ref)) IN
                    /\ ref' = Ref(ref, f)
                    /\ PcGoes(t, [th[t] EXCEPT !.at = "read", !.frame = f, !.gen = pcFile.gen])
    /\ UNCHANGED <<pcFile, mem, last, procVars>> /\ Alone

\* The page is read from the file, with no lock held.
ReadIn(t) ==
    /\ th[t].at = "read"
    /\ mem' = [mem EXCEPT ![th[t].frame] = FileCells(pcFile)]
    /\ Moves(t, "insert")
    /\ UNCHANGED <<pcFile, entry, ref, last, procVars>> /\ Alone

\* get, the second look: somebody else's entry is used instead; a page that
\* changed meanwhile is a private mapping's own, or read again for a shared
\* one (PcTries times); otherwise it goes in, with the cache's reference.
Insert(t) ==
    LET f == th[t].frame
        again == th[t].tries + 1 IN
    /\ th[t].at = "insert"
    /\ \/ /\ entry.frame # 0
          /\ ref' = Ref(Unref(ref, f), entry.frame)
          /\ entry' = mark_shared(entry, th[t].kind)
          /\ PcGoes(t, [th[t] EXCEPT !.at = "install", !.frame = entry.frame])
       \/ /\ entry.frame = 0 /\ Current(t)
          /\ ref' = Ref(ref, f)
          /\ entry' = mark_shared([NoEntry EXCEPT !.frame = f], th[t].kind)
          /\ Moves(t, "install")
       \/ /\ entry.frame = 0 /\ ~Current(t) /\ entry' = entry
          /\ IF th[t].kind = "private"
             THEN ref' = ref /\ Moves(t, "install")
             ELSE /\ ref' = Unref(ref, f)
                  /\ PcGoes(t, [th[t] EXCEPT !.at = IF again < PcTries THEN "find" ELSE "install",
                                           !.frame = 0, !.tries = again])
    /\ UNCHANGED <<pcFile, mem, last, procVars>> /\ Alone

\* fault_once's second half: mapped if the region and the empty entry are
\* still there, else the reference is given back (and the touch repeated).
Install(t) ==
    LET p == PcProcOf[t]
        fits == th[t].frame # 0 /\ region[p] # "none" /\ pte[p] = 0 IN
    /\ th[t].at = "install"
    /\ users' = [users EXCEPT ![p] = @ - 1]
    /\ pte' = IF fits THEN [pte EXCEPT ![p] = th[t].frame] ELSE pte
    /\ ref' = IF fits THEN ref ELSE Unref(ref, th[t].frame)
    /\ PcGoes(t, AtRest)
    /\ UNCHANGED <<pcFile, entry, mem, last, region, mapper, seen>> /\ Alone

\* A store through a shared mapping: the file's, if the file reaches there
\* and a truncation has not cut the page off.
Store(t, c) ==
    LET p == PcProcOf[t] IN
    /\ Calls(t)
    /\ region[p] = "shared" /\ pte[p] # 0
    /\ mem' = [mem EXCEPT ![pte[p]][c] = calls + 1]
    /\ last' = IF c < pcFile.size /\ pte[p] = entry.frame THEN [last EXCEPT ![c] = {calls + 1}] ELSE last
    /\ UNCHANGED <<pcFile, entry, ref, procVars, truncs, th>>

-----------------------------------------------------------------------------
(* munmap, exit, msync: writing back.                                      *)

\* munmap, or the end of the process: the region and the page-table entry go
\* under mem_lock; a shared one's file is held for the writing.
Unmap(t) ==
    LET p == PcProcOf[t] IN
    /\ Calls(t)
    /\ mapper[p] = 0 /\ region[p] # "none"
    /\ mapper' = [mapper EXCEPT ![p] = t]
    /\ region' = [region EXCEPT ![p] = "none"]
    /\ pte' = [pte EXCEPT ![p] = 0]
    /\ ref' = Unref(ref, pte[p])
    /\ PcGoes(t, [AtRest EXCEPT !.at = "wait", !.kind = region[p]])
    /\ UNCHANGED <<pcFile, entry, mem, last, users, seen, truncs>>

\* No fault uses the file any more: the region's pin goes (a shared
\* mapping's writing has one of its own, released at the end).
Waited(t) ==
    LET p == PcProcOf[t] IN
    /\ th[t].at = "wait" /\ NoFileUsers(p)
    /\ IF th[t].kind = "shared"
       THEN Moves(t, "collect") /\ UNCHANGED <<pcFile, mapper>>
       ELSE /\ PcGoes(t, AtRest)
            /\ pcFile' = [pcFile EXCEPT !.pins = @ - 1]
            /\ mapper' = [mapper EXCEPT ![p] = 0]
    /\ UNCHANGED <<entry, mem, ref, last, region, pte, users, seen>> /\ Alone

\* msync: the same with the page still mapped.
Sync(t) ==
    LET p == PcProcOf[t] IN
    /\ Calls(t)
    /\ mapper[p] = 0 /\ region[p] = "shared"
    /\ mapper' = [mapper EXCEPT ![p] = t]
    /\ PcGoes(t, [AtRest EXCEPT !.at = "collect", !.kind = "sync"])
    /\ UNCHANGED <<pageVars, region, pte, users, seen, truncs>>

\* pcache_writeback: the dirty page is collected with a reference ...
Collect(t) ==
    LET p == PcProcOf[t] IN
    /\ th[t].at = "collect"
    /\ IF entry.dirty
       THEN /\ ref' = Ref(ref, entry.frame)
            /\ PcGoes(t, [th[t] EXCEPT !.at = "measure", !.frame = entry.frame])
       ELSE ref' = ref /\ Moves(t, "done")
    /\ UNCHANGED <<pcFile, entry, mem, last, procVars>> /\ Alone

\* ... the length of it that is the file's is found (write_page) ...
Measure(t) ==
    /\ th[t].at = "measure"
    /\ PcGoes(t, [th[t] EXCEPT !.len = Min({pcFile.size, PageEnd}),
                             !.at = IF pcFile.size = 0 THEN "clean" ELSE "save"])
    /\ UNCHANGED <<pageVars, procVars>> /\ Alone

\* ... and written, which may fail ...
Save(t, ok) ==
    LET n == th[t].len
        m == mem[th[t].frame] IN
    /\ th[t].at = "save"
    /\ pcFile' = IF ok THEN [pcFile EXCEPT !.size = Max({@, n}),
                                           !.data = [c \in Cells |-> IF c < n THEN m[c] ELSE @[c]]]
                       ELSE pcFile
    /\ PcGoes(t, [th[t] EXCEPT !.ok = ok, !.at = IF ok THEN "saved" ELSE "clean"])
    /\ UNCHANGED <<entry, mem, ref, last, procVars>> /\ Alone

\* ... the cache told of it (a private page is dropped, this one is its own
\* source and stays) ...
Saved(t) ==
    /\ th[t].at = "saved"
    /\ pcFile' = [pcFile EXCEPT !.gen = @ + 1]
    /\ entry' = IF entry.shared THEN entry ELSE NoEntry
    /\ ref' = IF entry.shared THEN ref ELSE Unref(ref, entry.frame)
    /\ Moves(t, "clean")
    /\ UNCHANGED <<mem, last, procVars>> /\ Alone

\* ... and the page marked clean if nobody can write it any more.
Clean(t) ==
    /\ th[t].at = "clean"
    /\ entry' = IF entry.frame = th[t].frame /\ CleanAfter(t) THEN [entry EXCEPT !.dirty = FALSE] ELSE entry
    /\ ref' = Unref(ref, th[t].frame)
    /\ PcGoes(t, [th[t] EXCEPT !.at = "done", !.frame = 0])
    /\ UNCHANGED <<pcFile, mem, last, procVars>> /\ Alone

\* The file is let go, and map_mutex.
Done(t) ==
    LET p == PcProcOf[t] IN
    /\ th[t].at = "done"
    /\ pcFile' = IF th[t].kind = "shared" THEN [pcFile EXCEPT !.pins = @ - 1] ELSE pcFile
    /\ mapper' = [mapper EXCEPT ![p] = 0]
    /\ PcGoes(t, AtRest)
    /\ UNCHANGED <<entry, mem, ref, last, region, pte, users, seen>> /\ Alone

-----------------------------------------------------------------------------
(* write(), truncate(), unlink() of the file, and memory pressure.         *)

\* pcache_file_gap: the rest of a shared page holding the old end reads zeros.
file_gap(old, c) ==
    IF entry.shared /\ c > old /\ 0 < old /\ old < PageEnd
    THEN [mem EXCEPT ![entry.frame] = [d \in Cells |-> IF d < old THEN @[d] ELSE 0]]
    ELSE mem

\* write() of one cell through a descriptor: pcache_file_gap, then the file
\* system's write.  A gap left after the old end reads zeros.
Write(t, c) ==
    LET gap == {d \in Cells : pcFile.size <= d /\ d < c} IN
    /\ Calls(t) /\ ~pcFile.removed
    /\ pcFile' = [pcFile EXCEPT !.size = Max({@, c + 1}),
                  !.data = [d \in Cells |-> IF d = c THEN calls + 1 ELSE IF d \in gap THEN 0 ELSE @[d]]]
    /\ mem' = file_gap(pcFile.size, c)
    /\ last' = [d \in Cells |-> IF d \in gap THEN {0} ELSE last[d]]
    /\ th' = [u \in PcThreads |->
                IF u = t THEN [AtRest EXCEPT !.at = "written", !.cell = c, !.val = calls + 1,
                                             !.older = IF c \in Cells THEN last[c] ELSE {}]
                ELSE IF th[u].at = "written" /\ th[u].cell \in gap THEN [th[u] EXCEPT !.older = {}]
                ELSE th[u]]
    /\ UNCHANGED <<entry, ref, procVars, truncs>>

\* pcache_file_written: a shared page takes the write in place, any other is
\* dropped.
Written(t) ==
    LET c == th[t].cell IN
    /\ th[t].at = "written"
    /\ pcFile' = [pcFile EXCEPT !.gen = @ + 1]
    /\ entry' = IF entry.shared THEN entry ELSE NoEntry
    /\ ref' = IF entry.shared THEN ref ELSE Unref(ref, entry.frame)
    /\ mem' = IF entry.shared /\ c \in Cells THEN [mem EXCEPT ![entry.frame][c] = th[t].val] ELSE mem
    /\ last' = IF c \in Cells THEN [last EXCEPT ![c] = (@ \ th[t].older) \cup {th[t].val}] ELSE last
    /\ PcGoes(t, AtRest)
    /\ UNCHANGED procVars /\ Alone

\* vfs_truncate, under the tree lock: first the file system's ...
Truncate(t, n) ==
    /\ Calls(t) /\ ~pcFile.removed /\ n < pcFile.size
    /\ \A u \in PcThreads : th[u].at # "cut"
    /\ pcFile' = [pcFile EXCEPT !.size = n, !.data = [c \in Cells |-> IF c < n THEN @[c] ELSE 0]]
    /\ PcGoes(t, [AtRest EXCEPT !.at = "cut"])
    /\ UNCHANGED <<entry, mem, ref, last, procVars, truncs>>

\* ... then pcache_file_truncated: a private page goes, a shared one past the
\* end goes (its mappings let go of it at their next safe point), and the page
\* the file ends in reads zeros past the end.
Cut(t) ==
    LET n == pcFile.size
        goes == ~entry.shared \/ n = 0 IN
    /\ th[t].at = "cut"
    /\ pcFile' = [pcFile EXCEPT !.gen = @ + 1]
    /\ entry' = IF goes THEN NoEntry ELSE entry
    /\ ref' = IF goes THEN Unref(ref, entry.frame) ELSE ref
    /\ mem' = IF goes THEN mem
              ELSE [mem EXCEPT ![entry.frame] = [c \in Cells |-> IF c < n THEN @[c] ELSE 0]]
    /\ truncs' = IF entry.shared /\ goes THEN truncs + 1 ELSE truncs
    /\ PcGoes(t, AtRest)
    /\ UNCHANGED <<last, procVars, calls>>

\* region_revalidate, at a thread's safe point: pages of shared mappings past
\* the end are given up.
Revalidate(t) ==
    LET p == PcProcOf[t]
        past == region[p] = "shared" /\ pcFile.size = 0 IN
    /\ th[t].at = "idle" /\ mapper[p] = 0 /\ seen[p] # truncs
    /\ seen' = [seen EXCEPT ![p] = truncs]
    /\ pte' = IF past THEN [pte EXCEPT ![p] = 0] ELSE pte
    /\ ref' = IF past THEN Unref(ref, pte[p]) ELSE ref
    /\ UNCHANGED <<pcFile, entry, mem, last, region, users, mapper, th>> /\ Alone

\* pcache_reclaim, and what the cache evicts at its capacity.
Reclaim ==
    /\ Unmapped(entry, ref)
    /\ entry' = NoEntry
    /\ ref' = Unref(ref, entry.frame)
    /\ UNCHANGED <<pcFile, mem, last, procVars, th>> /\ Alone

\* unlink of a file nobody holds: pcache_drop_file, and the node is freed.
Remove ==
    /\ pcFile.pins = 0 /\ ~pcFile.removed
    /\ \A t \in PcThreads : th[t].at \notin {"written", "cut"}
    /\ pcFile' = [pcFile EXCEPT !.removed = TRUE, !.gen = @ + 1]
    /\ entry' = NoEntry
    /\ ref' = Unref(ref, entry.frame)
    /\ UNCHANGED <<mem, last, procVars, th>> /\ Alone

-----------------------------------------------------------------------------

\* A write-back or a truncation is under way while another change of the
\* page is, or a truncation while a fault is.
Saving == {"measure", "save", "saved", "clean"}
Changing == {"written", "cut", "wait"}
Faulting == {"find", "read", "insert", "install"}
Racing == \E t, u \in PcThreads :
            \/ t # u /\ th[t].at \in Saving \cup {"cut"} /\ th[u].at \in Saving \cup Changing
            \/ th[t].at = "cut" /\ th[u].at \in Faulting

PcStep ==
    \/ \E t \in PcThreads :
        \/ \E kind \in {"private", "shared"} : Map(t, kind)
        \/ Touch(t) \/ Find(t) \/ ReadIn(t) \/ Insert(t) \/ Install(t)
        \/ \E c \in Cells : Store(t, c)
        \/ Unmap(t) \/ Waited(t) \/ Sync(t) \/ Collect(t) \/ Measure(t)
        \/ \E ok \in BOOLEAN : Save(t, ok)
        \/ Saved(t) \/ Clean(t) \/ Done(t)
        \/ \E c \in Cells \cup {PageEnd} : Write(t, c)
        \/ Written(t)
        \/ \E n \in 0 .. 1 : Truncate(t, n)
        \/ Cut(t) \/ Revalidate(t)
    \/ Reclaim
    \/ Remove

PcNext == PcStep /\ raced' = (raced \/ Racing')

PcSpec == PcInit /\ [][PcNext]_pcVars

-----------------------------------------------------------------------------
(* Properties.                                                             *)

\* Who owns a frame: the cache, every page table that maps it, every fault
\* that has it in hand and every write-back of it.
Owners(f) ==
      (IF entry.frame = f THEN 1 ELSE 0)
    + Cardinality({p \in PcProcs : pte[p] = f})
    + Cardinality({t \in PcThreads : th[t].frame = f})

\* Every owner of a frame is counted and nobody else, through hits, races to
\* put a page in, truncations under a mapping and write-backs of a page that
\* is no longer cached; and while a fault or a write-back uses the file, it is
\* pinned, so that it cannot be removed (wait_for_file_users).
PageCacheSound ==
    /\ \A f \in PcFrames : ref[f] = Owners(f)
    /\ \A t \in PcThreads :
         th[t].at \in {"find", "read", "insert", "collect", "measure", "save", "saved"}
            => pcFile.pins > 0 /\ ~pcFile.removed

Quiet == \A t \in PcThreads : th[t].at \notin Saving \cup Changing

\* With no write in progress, a page cached for private mappings is what the
\* file holds (one read while the file changed is not put in), and what a
\* read() sees of a page is the last thing written there, by write() or
\* through a shared mapping, even after the page has been given back; unless
\* a write-back or a truncation overlapped another change of the page, or a
\* truncation a fault on it.
CacheIsCurrent ==
    Quiet =>
      /\ entry.frame # 0 /\ ~entry.shared => mem[entry.frame] = FileCells(pcFile)
      /\ raced \/ pcFile.removed \/ \A c \in Cells : c < pcFile.size => read_overlay(pcFile, entry, mem)[c] \in last[c]

\* "A page mapped writable is dirty until pcache_writeback has written it to
\* the file with no mapping left that could write it again": a page of shared
\* mappings that is clean, and so may be given back, is what the file holds.
CleanMeansSaved ==
    Quiet /\ entry.shared /\ ~entry.dirty =>
        \A c \in Cells : c < pcFile.size => mem[entry.frame][c] = pcFile.data[c]
=============================================================================
