---------------------------- MODULE KernelProofs ----------------------------
(***************************************************************************)
(* What the parts' proofs say of the kernel of module MCKernel, where a    *)
(* behaviour runs one part: a behaviour of the whole whose focus is a part *)
(* is a behaviour of that part.                                            *)
(***************************************************************************)
EXTENDS MCKernel, WaitingProofs, PagingProofs

\* The part that is run stays the same
LEMMA FocusStays == [Next]_kernelVars => UNCHANGED focus
BY DEF Next, kernelVars, Only

\* A behaviour that runs mutexes, semaphores and futexes is one of module Sync
LEMMA SyncRuns ==
    /\ Init /\ focus = "sync" => SyInit
    /\ [Next]_kernelVars /\ focus = "sync" => [SyNext]_syVars /\ (focus = "sync")'
    /\ [Next]_kernelVars /\ ~(focus = "sync") => ~(focus = "sync")'
<1>1. Init /\ focus = "sync" => SyInit
    BY DEF Init, AtStart
<1>2. [Next]_kernelVars /\ focus = "sync" => [SyNext]_syVars
    BY DEF Next, kernelVars, Only
<1> QED BY <1>1, <1>2, FocusStays

\* ... one that runs timers is one of module Timers
LEMMA TimersRun ==
    /\ Init /\ focus = "timers" => TmInit
    /\ [Next]_kernelVars /\ focus = "timers" => [TmNext]_tmVars /\ (focus = "timers")'
    /\ [Next]_kernelVars /\ ~(focus = "timers") => ~(focus = "timers")'
<1>1. Init /\ focus = "timers" => TmInit
    BY DEF Init, AtStart
<1>2. [Next]_kernelVars /\ focus = "timers" => [TmNext]_tmVars
    BY DEF Next, kernelVars, Only
<1> QED BY <1>1, <1>2, FocusStays

\* ... one that runs signals is one of module Signals
LEMMA SignalsRun ==
    /\ Init /\ focus = "signals" => SigInit
    /\ [Next]_kernelVars /\ focus = "signals" => [SigNext]_sigVars /\ (focus = "signals")'
    /\ [Next]_kernelVars /\ ~(focus = "signals") => ~(focus = "signals")'
<1>1. Init /\ focus = "signals" => SigInit
    BY DEF Init, AtStart
<1>2. [Next]_kernelVars /\ focus = "signals" => [SigNext]_sigVars
    BY DEF Next, kernelVars, Only
<1> QED BY <1>1, <1>2, FocusStays

\* ... and one that runs the page cache is one of module PageCache
LEMMA PageCacheRuns ==
    /\ Init /\ focus = "pageCache" => PcInit
    /\ [Next]_kernelVars /\ focus = "pageCache" => [PcNext]_pcVars /\ (focus = "pageCache")'
    /\ [Next]_kernelVars /\ ~(focus = "pageCache") => ~(focus = "pageCache")'
<1>1. Init /\ focus = "pageCache" => PcInit
    BY DEF Init, AtStart
<1>2. [Next]_kernelVars /\ focus = "pageCache" => [PcNext]_pcVars
    BY DEF Next, kernelVars, Only
<1> QED BY <1>1, <1>2, FocusStays

\* ... as one that runs address spaces is one of module Paging
LEMMA PagingRuns ==
    /\ Init /\ focus = "paging" => PgInit
    /\ [Next]_kernelVars /\ focus = "paging" => [PgNext]_pgVars /\ (focus = "paging")'
    /\ [Next]_kernelVars /\ ~(focus = "paging") => ~(focus = "paging")'
<1>1. Init /\ focus = "paging" => PgInit
    BY DEF Init, AtStart
<1>2. [Next]_kernelVars /\ focus = "paging" => [PgNext]_pgVars
    BY DEF Next, kernelVars, Only
<1> QED BY <1>1, <1>2, FocusStays

\* ... and one that runs the disk is one of module Disk
LEMMA DiskRuns ==
    /\ Init /\ focus = "disk" => DiskInit
    /\ [Next]_kernelVars /\ focus = "disk" => [DiskNext]_diskVars /\ (focus = "disk")'
    /\ [Next]_kernelVars /\ ~(focus = "disk") => ~(focus = "disk")'
<1>1. Init /\ focus = "disk" => DiskInit
    BY DEF Init, AtStart
<1>2. [Next]_kernelVars /\ focus = "disk" => [DiskNext]_diskVars
    BY DEF Next, kernelVars, Only
<1> QED BY <1>1, <1>2, FocusStays

\* Who sleeps on a mutex, a semaphore or a futex has something to wait for, a
\* lock built on futexes has one holder, and some CPU's timer is set for the
\* earliest deadline (sync.c, syscall.c, timer.c)
THEOREM KernelSleepersAreSound == Spec => []SleepersSound
<1>1. SyncAssumption /\ TimersAssumption
    BY PartsAssumption
<1>2. Spec => [](focus = "sync" => KernelSleepersWait /\ UserLockKept)
    BY <1>1, SyncRuns, SleepersHaveAReason, PTL DEF Spec, SySpec
<1>3. Spec => [](focus = "timers" => DeadlineHasATimer)
    BY <1>1, TimersRun, DeadlinesHaveTimers, PTL DEF Spec, TmSpec
<1>4. (focus = "sync" => KernelSleepersWait /\ UserLockKept) /\ (focus = "timers" => DeadlineHasATimer) => SleepersSound
    BY DEF SleepersSound
<1> QED BY <1>2, <1>3, <1>4, PTL

\* No thread sleeps through a signal it would take, handlers nest and return to
\* where they came from, and stops and continues cancel each other (signal.c)
THEOREM KernelSignalsAreSound == Spec => []SignalsSound
<1>1. SignalsAssumption
    BY PartsAssumption
<1>2. Spec => [](focus = "signals" => SignalNotSleptThrough /\ StopAndContinueCancel)
    BY <1>1, SignalsRun, SignalsAreSound, PTL DEF Spec, SigSpec
<1>3. Spec => [](focus = "signals" => HandlersNest)
    BY <1>1, SignalsRun, HandlersAlwaysNest, PTL DEF Spec, SigSpec
<1>4. (focus = "signals" => SignalNotSleptThrough /\ StopAndContinueCancel) /\ (focus = "signals" => HandlersNest)
      => SignalsSound
    BY DEF SignalsSound
<1> QED BY <1>2, <1>3, <1>4, PTL

\* Every owner of a cached page is counted, the file is there for who uses it,
\* and what is read of it is the last written (pcache.c, region.c)
THEOREM KernelCacheIsSound == Spec => []CacheSound
<1>1. PcAssumption
    BY PartsAssumption
<1>2. Spec => [](focus = "pageCache" => PageCacheSound)
    BY <1>1, PageCacheRuns, CachedPagesAreCounted, PTL DEF Spec, PcSpec
<1>3. Spec => [](focus = "pageCache" => CacheIsCurrent)
    BY <1>1, PageCacheRuns, CachedPagesAreCurrent, PTL DEF Spec, PcSpec
<1>4. (focus = "pageCache" => PageCacheSound) /\ (focus = "pageCache" => CacheIsCurrent) => CacheSound
    BY DEF CacheSound
<1> QED BY <1>2, <1>3, <1>4, PTL

\* Every owner of a frame or a slot is counted, a buffer a call has checked
\* stays, no CPU reaches a frame its process has given up, and a page holds what
\* its process stored (vmm.c, swap.c, shm.c), if the process that forks has no
\* third thread: with one, a store may go into a page that has been copied
THEOREM KernelPagesAreSound ==
    ASSUME FewThreads
    PROVE  Spec => []PagesAreSound
<1>1. PgAssumption
    BY PartsAssumption
<1>2. Spec => [](focus = "paging" => FramesOwned)
    BY <1>1, PagingRuns, PagesAreCounted, PTL DEF Spec, PgSpec
<1>3. Spec => [](focus = "paging" => BufferStays)
    BY <1>1, PagingRuns, BuffersStay, PTL DEF Spec, PgSpec
<1>4. Spec => [](focus = "paging" => TranslationsOwned)
    BY <1>1, PagingRuns, TranslationsAreOwned, PTL DEF Spec, PgSpec
<1>5. Spec => [](focus = "paging" => Isolated)
    BY <1>1, PagingRuns, PagesAreIsolated, PTL DEF Spec, PgSpec
<1>6. (focus = "paging" => FramesOwned) /\ (focus = "paging" => BufferStays) /\ (focus = "paging" => TranslationsOwned)
      /\ (focus = "paging" => Isolated) => PagesAreSound
    BY DEF PagesAreSound
<1> QED BY <1>2, <1>3, <1>4, <1>5, <1>6, PTL

\* Descriptors and slots belong to one request each, however the device orders
\* its answers and whichever come late, and what a read returns was on the disk
\* while it was read (virtqueue.c, virtio_blk.c, bcache.c)
THEOREM KernelDiskIsSound == Spec => []DiskSound
<1>1. DiskAssumption
    BY PartsAssumption
<1>2. Spec => [](focus = "disk" => DescriptorsSound /\ SlotsApart)
    BY <1>1, DiskRuns, RequestsStayApart, PTL DEF Spec, DiskSpec
<1>3. Spec => [](focus = "disk" => ReadIsCurrent)
    BY <1>1, DiskRuns, ReadsAreCurrent, PTL DEF Spec, DiskSpec
<1>4. (focus = "disk" => DescriptorsSound /\ SlotsApart) /\ (focus = "disk" => ReadIsCurrent) => DiskSound
    BY DEF DiskSound
<1> QED BY <1>2, <1>3, <1>4, PTL
=============================================================================
