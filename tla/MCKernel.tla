-------------------------- MODULE MCKernel --------------------------
(***************************************************************************)
(* The rest of the kernel for TLC, part by part.  The parts below share no  *)
(* state in the models, so a behaviour runs one of them (focus) and leaves  *)
(* the variables of the others alone; the run's states are the sum of the   *)
(* parts' states.  KernelParts chooses the parts.                           *)
(***************************************************************************)
EXTENDS Naturals, Sequences, FiniteSets, TLC, Sync, Timers, Signals, PageCache,
  KernelStacks, Paging, Disk

CONSTANTS
  KernelParts,  \* the parts that are run
  FrameCount, PageUnits, InitialPages, GrowMin, TrimThreshold, TrimKeep, AskSizes, CacheUnits,
    PerSlab,
  FlThreads, FlProcs, FlChild, FlChildThreads, FlDupers, FlSlots, FlFiles, FlListeners, FlBacklog,
    FlCalls,
  FtProcs, FtNodes, FtNames, FtMaxLinks, FtCalls,
  MfBytes, MfCapacity, MfMaxSize, MfChunk, MfWrites,
  PfReaders, PfPids, PfSpare, PfChanges, PfCalls,
  FatClusters, FatFiles, FatNames, FatSizes, FatRacing, FatChanges, FatFaults,
  ImPage, ImEnd, ImMin, ImWrap, ImFileSize, ImMaxSegment, ImLazyMax, ImBases, ImEntries,
    ImArgBytes, ImArgMax, ImStack, ImWord

VARIABLES
  focus,  \* the part that is run
  kheap, slabs, objs,
  file, fds, flNode, flRuns, listener, call, flCalls,
  vnode, cwd, opened, ftCalls,
  ramdisk, data, size, says, writes,
  ptask, pfile, proc_dir, plook, popen, ptree, pleft,
  fat, cell, slot, fat_cache, alloc_hint, node, plan, reading, want, left,
  elf, image, runner, imPromised, execCount, writeCount, spaces

heapVars == <<kheap, slabs, objs>>
flVars == <<file, fds, flNode, flRuns, listener, call, flCalls>>
ftVars == <<vnode, cwd, opened, ftCalls>>
mfVars == <<ramdisk, data, size, says, writes>>
pfVars == <<ptask, pfile, proc_dir, plook, popen, ptree, pleft>>
fatVars == <<fat, cell, slot, fat_cache, alloc_hint, node, plan, reading, want, left>>
imVars == <<elf, image, runner, imPromised, execCount, writeCount, spaces>>

\* Whose threads are whose: two of the first process, one of the second.
MCPcProcOf == [t \in PcThreads |-> IF t < 3 THEN 1 ELSE 2]
MCPgProcOf == [t \in PgThreads |-> IF t < 3 THEN 1 ELSE 2]

\* One process is root's, the others are a user's.
FtUid == [p \in FtProcs |-> p - 1]
PfUid == [r \in PfReaders |-> 1]
MfInitrd == <<1>>

\* Two requests at a time, one, and a queue that holds less than the slots.
MCDiskSizes == {[slots |-> 2, queue |-> 6], [slots |-> 1, queue |-> 6], [slots |-> 2, queue |-> 3]}

\* ELF files of two segments: code, and one that may overlap it, begin or end
\* inside its last page, have a part to be zeroed or lie outside the file.
Segment(o, f, v, m, w, x) == [off |-> o, fsz |-> f, va |-> v, msz |-> m, w |-> w, x |-> x]
ImFirst == {Segment(0, 2, 2, 2, FALSE, TRUE), Segment(0, 3, 2, 3, FALSE, TRUE), Segment(1, 2, 3, 2, FALSE, TRUE)}
ImSecond ==
  {Segment(o, f, v, m, w, FALSE) :
     o \in {0, 3}, f \in {0, 1, 2}, v \in {2, 4, 5, 7}, m \in {1, 3}, w \in BOOLEAN}
ImPlaces ==
  {[table |-> 0, at |-> 0, any |-> FALSE], [table |-> 2, at |-> 4, any |-> TRUE],
   [table |-> 4, at |-> 2, any |-> TRUE]}
ImArgs == {<<>>, <<1, 2>>, <<3, 1, 1>>}

KernelHeapPart == INSTANCE KernelHeap
FilesPart == INSTANCE Files
FileTreePart == INSTANCE FileTree
ProcFsPart == INSTANCE ProcFs
Fat32Part == INSTANCE Fat32
ProgramImagePart == INSTANCE ProgramImage

\* What the parts assume of their constants.
ASSUME PartsAssumption ==
  /\ KernelHeapPart!KernelHeapAssumption
  /\ KsAssumption
  /\ PcAssumption
  /\ PgAssumption
  /\ SignalsAssumption
  /\ TimersAssumption
  /\ SyncAssumption
  /\ DiskAssumption
  /\ ProgramImagePart!ImAssumption

Parts == {"paging", "pageCache", "heap", "stacks", "signals", "timers", "sync", "files", "tree",
    "memFile", "procfs", "fat", "disk", "image"}

\* The part x is not run: its variables have no value of interest.
NotRun(x) ==
  CASE x = "paging" -> tables = 0 /\ owners = 0 /\ bytes = 0 /\ slotOwners = 0 /\ slotBytes = 0
          /\ heapOn = 0 /\ promised = 0 /\ segment = 0 /\ live = 0 /\ mapLock = 0 /\ memLock = 0
          /\ swapLock = 0 /\ tlb = 0 /\ job = 0 /\ inCall = 0 /\ pgCalls = 0 /\ holds = 0
    [] x = "pageCache" -> pcFile = 0 /\ entry = 0 /\ mem = 0 /\ ref = 0 /\ region = 0 /\ pte = 0
          /\ users = 0 /\ mapper = 0 /\ seen = 0 /\ truncs = 0 /\ th = 0 /\ calls = 0 /\ last = 0
          /\ raced = 0
    [] x = "heap" -> kheap = 0 /\ slabs = 0 /\ objs = 0
    [] x = "stacks" -> slot_used = 0 /\ ktable = 0 /\ kfree = 0 /\ kcall = 0 /\ kstacks = 0
    [] x = "signals" -> at = 0 /\ blockedSet = 0 /\ pendingSet = 0 /\ killP = 0 /\ stopP = 0
          /\ stopFrom = 0 /\ result = 0 /\ sigFrames = 0 /\ action = 0 /\ asked = 0 /\ lastJob = 0
          /\ sigCount = 0
    [] x = "timers" -> clock = 0 /\ timer = 0 /\ runs = 0 /\ halted = 0 /\ asleepOn = 0 /\ key = 0
          /\ dirty = 0 /\ lastShown = 0
    [] x = "sync" -> pc = 0 /\ owner = 0 /\ depth = 0 /\ waking = 0 /\ semValue = 0 /\ word = 0
          /\ inside = 0 /\ marked = 0 /\ doomed = 0
    [] x = "files" -> file = 0 /\ fds = 0 /\ flNode = 0 /\ flRuns = 0 /\ listener = 0 /\ call = 0
          /\ flCalls = 0
    [] x = "tree" -> vnode = 0 /\ cwd = 0 /\ opened = 0 /\ ftCalls = 0
    [] x = "memFile" -> ramdisk = 0 /\ data = 0 /\ size = 0 /\ says = 0 /\ writes = 0
    [] x = "procfs" -> ptask = 0 /\ pfile = 0 /\ proc_dir = 0 /\ plook = 0 /\ popen = 0
          /\ ptree = 0 /\ pleft = 0
    [] x = "fat" -> fat = 0 /\ cell = 0 /\ slot = 0 /\ fat_cache = 0 /\ alloc_hint = 0 /\ node = 0
          /\ plan = 0 /\ reading = 0 /\ want = 0 /\ left = 0
    [] x = "disk" -> vq = 0 /\ avail = 0 /\ used = 0 /\ slots = 0 /\ slot_of = 0 /\ cache = 0
          /\ disk = 0 /\ req = 0 /\ diskLeft = 0
    [] x = "image" -> elf = 0 /\ image = 0 /\ runner = 0 /\ imPromised = 0 /\ execCount = 0
          /\ writeCount = 0 /\ spaces = 0

\* The part x stays as it is.
Stays(x) ==
  CASE x = "paging" -> UNCHANGED pgVars
    [] x = "pageCache" -> UNCHANGED pcVars
    [] x = "heap" -> UNCHANGED heapVars
    [] x = "stacks" -> UNCHANGED ksVars
    [] x = "signals" -> UNCHANGED sigVars
    [] x = "timers" -> UNCHANGED tmVars
    [] x = "sync" -> UNCHANGED syVars
    [] x = "files" -> UNCHANGED flVars
    [] x = "tree" -> UNCHANGED ftVars
    [] x = "memFile" -> UNCHANGED mfVars
    [] x = "procfs" -> UNCHANGED pfVars
    [] x = "fat" -> UNCHANGED fatVars
    [] x = "disk" -> UNCHANGED diskVars
    [] x = "image" -> UNCHANGED imVars

AtStart(x) == focus = x /\ \A y \in Parts \ {x} : NotRun(y)
Only(x) == focus = x /\ UNCHANGED focus /\ \A y \in Parts \ {x} : Stays(y)

Init ==
  /\ focus \in KernelParts
  /\ \/ AtStart("paging") /\ PgInit
     \/ AtStart("pageCache") /\ PcInit
     \/ AtStart("heap") /\ KernelHeapPart!HeapInit
     \/ AtStart("stacks") /\ KsInit
     \/ AtStart("signals") /\ SigInit
     \/ AtStart("timers") /\ TmInit
     \/ AtStart("sync") /\ SyInit
     \/ AtStart("files") /\ FilesPart!FlInit
     \/ AtStart("tree") /\ FileTreePart!FtInit
     \/ AtStart("memFile") /\ FileTreePart!MfInit
     \/ AtStart("procfs") /\ ProcFsPart!PfInit
     \/ AtStart("fat") /\ Fat32Part!FatInit
     \/ AtStart("disk") /\ DiskInit
     \/ AtStart("image") /\ ProgramImagePart!ImInit

Next ==
  \/ Only("paging") /\ PgNext
  \/ Only("pageCache") /\ PcNext
  \/ Only("heap") /\ KernelHeapPart!HeapNext
  \/ Only("stacks") /\ KsNext
  \/ Only("signals") /\ SigNext
  \/ Only("timers") /\ TmNext
  \/ Only("sync") /\ SyNext
  \/ Only("files") /\ FilesPart!FlNext
  \/ Only("tree") /\ FileTreePart!FtNext
  \/ Only("memFile") /\ FileTreePart!MfNext
  \/ Only("procfs") /\ ProcFsPart!PfNext
  \/ Only("fat") /\ Fat32Part!FatNext
  \/ Only("disk") /\ DiskNext
  \/ Only("image") /\ ProgramImagePart!ImNext

kernelVars == <<focus, pgVars, pcVars, heapVars, ksVars, sigVars, tmVars, syVars, flVars, ftVars,
    mfVars, pfVars, fatVars, diskVars, imVars>>

Spec == Init /\ [][Next]_kernelVars

------------------------------------------------------------
\* No frame or swap slot is owned by fewer than map it, no process sees or
\* changes another's private page, and a page the kernel copies to or from for
\* a call stays where it is until the copy ends (region.c, swap.c, shm.c, vmm.c).
PagesAreSound ==
  focus = "paging" => FramesOwned /\ Isolated /\ BufferStays /\ TranslationsOwned

\* Every reference to a cached page is counted, and read() and the mappings of
\* a file agree on its latest bytes, across faults, truncation, write-back and
\* reclaim (pcache.c, region.c).
CacheSound ==
  focus = "pageCache" => PageCacheSound /\ CacheIsCurrent

\* The heap's blocks tile its pages and are on the free list they belong to,
\* freed memory keeps its poison until it is given out, every frame is free or
\* has one owner (heap.c, slab.c, pmm.c), and a kernel stack has its pages, a
\* guard below it and nobody else in its slot (kstack.c).
AllocatorsSound ==
  /\ focus = "heap" => KernelHeapPart!HeapIsSound /\ KernelHeapPart!PoisonIsKept
                       /\ KernelHeapPart!FramesAccounted
  /\ focus = "stacks" => StacksAreWhole

\* No thread sleeps through a signal it would act on, handlers return to what
\* they interrupted with the mask it had, and the later of a stop and a
\* continue is the one that counts (signal.c).
SignalsSound ==
  focus = "signals" => SignalNotSleptThrough /\ HandlersNest
                       /\ StopAndContinueCancel

\* Who sleeps on a mutex, a semaphore or a futex has something to wait for, a
\* lock built on futexes has one holder (sync.c, sys_futex), and some CPU's
\* timer fires by the time the next sleeper is due (timer.c).
SleepersSound ==
  /\ focus = "sync" => KernelSleepersWait /\ UserLockKept
  /\ focus = "timers" => DeadlineHasATimer

\* The references to an open file, the counts of its node and the connections
\* of a listener are those of who holds them, and nobody sleeps in accept or
\* connect whom the other side has answered (file.c, localsock.c).
FilesSound ==
  focus = "files" => FilesPart!FilesSound /\ FilesPart!LocalSleepersWait

\* The tree stays a tree whose nodes in use stay (vfs.c), a file in memory
\* reads as it was written and as zeros where it was not (initrd, vfs_write),
\* and /proc shows one moment of the processes that may be shown (procfs.c).
TreeSound ==
  /\ focus = "tree" => FileTreePart!FileTreeSound
  /\ focus = "memFile" => FileTreePart!ReadsAsWritten
  /\ focus = "procfs" => ProcFsPart!ProcFsSound

\* At every crash the volume's names lead to whole chains of their own, and
\* between calls nothing is lost and nothing is left over (fat32.c).
FatSound ==
  focus = "fat" => Fat32Part!FatCrashSafe /\ Fat32Part!FatIsWhole

\* The descriptors are free or in one chain, no two requests share a slot the
\* device still writes to, and a read gives the sector's latest bytes, timeouts
\* and late answers included (virtio_blk.c, bcache.c).
DiskSound ==
  focus = "disk" => DescriptorsSound /\ SlotsApart /\ ReadIsCurrent

\* A program that runs has its file's bytes, permissions and arguments where
\* the file says, and one that cannot be loaded leaves nothing (elf.c, exec.c).
ImageSound ==
  focus = "image" => ProgramImagePart!ProgramIsTheFile /\ ProgramImagePart!NothingLeftBehind

============================================================
