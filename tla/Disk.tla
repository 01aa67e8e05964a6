-------------------------------- MODULE Disk --------------------------------
(***************************************************************************)
(* Disk requests: the virtqueue they are handed to the device through      *)
(* (src/drivers/virtio/virtqueue.c), the driver's slots and its waiting    *)
(* (src/drivers/block/virtio_blk.c), and the cache of sectors above it     *)
(* (src/drivers/block/bcache.c).                                           *)
(*                                                                         *)
(* A step is one hold of the disk's lock or of cache_lock, or one step of  *)
(* the device, which answers in any order, may fail a request, and may     *)
(* answer after the driver has given the request up.  A request is one     *)
(* sector long and a sector is a value.  Writers are kept apart, as        *)
(* bcache.h asks of its callers; readers come at any time.                 *)
(***************************************************************************)
EXTENDS Integers, FiniteSets, Sequences

CONSTANTS Requesters,  \* tasks that read and write
          DiskSizes,   \* [slots, queue]: BLK_SLOTS and the device's descriptors; one is chosen
          Sectors,     \* sectors of the disk, as numbers
          CacheSize,   \* BCACHE_SECTORS
          Values,      \* what a sector can hold, 0 at first
          MaxWrites,   \* how many writes are made
          MaxReads,    \* and reads
          MaxTimeouts  \* how many requests the device answers too late

DiskAssumption ==
  /\ DiskSizes \subseteq [slots : Nat \ {0}, queue : Nat \ {0}] /\ Sectors \subseteq Nat
  /\ CacheSize \in Nat \ {0} /\ {MaxWrites, MaxReads, MaxTimeouts} \subseteq Nat

VARIABLES vq,      \* the descriptors and their free list
          avail,   \* requests (their first descriptors) the device has
          used,    \* the used ring: requests answered and not collected
          slots,   \* the slots, with the pages the device reads and writes
          slot_of, \* slot_of_request
          cache,   \* entries, write_count, and whether the memory is there
          disk,    \* what the disk holds
          req,     \* where each requester is
          diskLeft     \* how many more reads, writes and timeouts there are

diskVars == <<vq, avail, used, slots, slot_of, cache, disk, req, diskLeft>>

Slots == DOMAIN slots
Descs == 0 .. vq.size - 1
CHAIN == 3                          \* header, data, status

NoTask == [pc |-> "idle", op |-> "read", lba |-> 0, value |-> 0, slot |-> 0, id |-> -1,
           writes |-> 0, ok |-> FALSE, answered |-> FALSE, direct |-> FALSE, seen |-> {}]
FreeRequest == [in_use |-> FALSE, done |-> FALSE, op |-> "read", lba |-> 0, data |-> 0, status |-> 1]

-----------------------------------------------------------------------------
(* virtqueue.c *)

After(q, d) == IF d \in Descs THEN q.next[d] ELSE q.size
\* The descriptors of a chain, from its first.
Chain(q, id) == <<id, After(q, id), After(q, After(q, id))>>

virtqueue_setup(size) ==
  LET descs == 0 .. size - 1
  IN  [size |-> size, next |-> [d \in descs |-> d + 1], more |-> [d \in descs |-> FALSE],
       addr |-> [d \in descs |-> 0], head |-> 0, count |-> size]

\* A chain off the free list: the links are there already.
virtqueue_add(q, slot) ==
  LET c == Chain(q, q.head)
      chain == {c[1], c[2], c[3]}
  IN  [q EXCEPT !.more = [d \in Descs |-> IF d \in chain THEN d # c[3] ELSE q.more[d]],
                !.addr = [d \in Descs |-> IF d \in chain THEN slot ELSE q.addr[d]],
                !.head = After(q, c[3]), !.count = q.count - CHAIN]

\* The last descriptor of the chain that starts at id leads back to the free list.
ChainEnd(q, id) == LET c == Chain(q, id)
                       n == CHOOSE i \in 1 .. CHAIN :
                              ~q.more[c[i]] /\ \A j \in 1 .. i - 1 : q.more[c[j]]
                   IN  [last |-> c[n], freed |-> n]
virtqueue_collect(q, id) ==
  LET e == ChainEnd(q, id)
  IN  [q EXCEPT !.next[e.last] = q.head, !.head = id, !.count = q.count + e.freed]

-----------------------------------------------------------------------------
(* virtio_blk.c *)

\* Everything answered is taken off the used ring and its slot marked.
Collected[i \in 0 .. Len(used)] ==
  IF i = 0 THEN vq ELSE virtqueue_collect(Collected[i - 1], used[i])
collect_finished ==
  LET answered == {slot_of[used[i]] : i \in DOMAIN used}
  IN  /\ vq' = Collected[Len(used)]
      /\ used' = <<>>
      /\ slots' = [s \in Slots |-> IF s \in answered /\ slots[s].in_use
                                   THEN [slots[s] EXCEPT !.done = TRUE] ELSE slots[s]]

Go(t, where) == req' = [req EXCEPT ![t].pc = where]

\* A slot of its own, the first that is free; or sleep until one is.
claim(t) ==
  /\ req[t].pc = "claim"
  /\ IF \A s \in Slots : slots[s].in_use
     THEN Go(t, "sleep") /\ UNCHANGED slots
     ELSE LET s == CHOOSE s \in Slots : ~slots[s].in_use /\ \A z \in Slots : z < s => slots[z].in_use
          IN  /\ slots' = [slots EXCEPT ![s].in_use = TRUE, ![s].done = FALSE]
              /\ req' = [req EXCEPT ![t].pc = "submit", ![t].slot = s]
  /\ UNCHANGED <<vq, avail, used, slot_of, cache, disk, diskLeft>>

\* The slot is filled without the lock, and the request handed over under it.
submit(t) ==
  /\ req[t].pc = "submit"
  /\ LET s == req[t].slot IN
     /\ slots' = [slots EXCEPT ![s].op = req[t].op, ![s].lba = req[t].lba, ![s].status = 1,
                               ![s].data = IF req[t].op = "write" THEN req[t].value ELSE slots[s].data]
     /\ IF vq.count >= CHAIN
        THEN /\ vq' = virtqueue_add(vq, s)
             /\ slot_of' = [slot_of EXCEPT ![vq.head] = s]
             /\ avail' = avail \cup {vq.head}
             /\ req' = [req EXCEPT ![t].pc = "wait", ![t].id = vq.head]
        ELSE /\ req' = [req EXCEPT ![t].pc = "release", ![t].id = -1]
             /\ UNCHANGED <<vq, slot_of, avail>>
  /\ UNCHANGED <<used, cache, disk, diskLeft>>

\* One turn of the loop that waits for the answer: the one-tick timeout makes
\* it come round even when the interrupt was lost.
await(t) ==
  /\ req[t].pc = "wait"
  /\ IF slots[req[t].slot].done
     THEN /\ req' = [req EXCEPT ![t].pc = "release", ![t].answered = TRUE,
                              ![t].ok = slots[req[t].slot].status = 0]
          /\ UNCHANGED <<vq, used, slots>>
     ELSE used # <<>> /\ collect_finished /\ UNCHANGED req
  /\ UNCHANGED <<avail, slot_of, cache, disk, diskLeft>>

\* Five seconds without an answer, or with one that nobody collected.
time_out(t) ==
  /\ req[t].pc = "wait" /\ ~slots[req[t].slot].done
  /\ diskLeft.timeouts > 0
  /\ diskLeft' = [diskLeft EXCEPT !.timeouts = @ - 1]
  /\ Go(t, "release")
  /\ UNCHANGED <<vq, avail, used, slots, slot_of, cache, disk>>

\* virtio_blk_irq and virtio_blk_msi.
blk_interrupt ==
  /\ used # <<>> /\ collect_finished
  /\ UNCHANGED <<avail, slot_of, cache, disk, req, diskLeft>>

\* Mutant of GivenBack: a slot always goes back
AlwaysGivenBack(t) == TRUE

\* A slot goes back when its request was answered or never handed over: else
\* the device may still write into its pages.
GivenBack(t) == req[t].answered \/ req[t].id < 0

release_slot(t) ==
  /\ req[t].pc = "release"
  /\ slots' = IF GivenBack(t) THEN [slots EXCEPT ![req[t].slot].in_use = FALSE] ELSE slots
  /\ req' = [u \in Requesters |->
               IF u = t THEN [req[t] EXCEPT
                   !.pc = IF req[t].op = "write" THEN "update" ELSE IF req[t].ok THEN "store" ELSE "failed",
                   !.value = IF req[t].op = "read" /\ req[t].ok THEN slots[req[t].slot].data ELSE req[t].value]
               ELSE IF GivenBack(t) /\ req[u].pc = "sleep" THEN [req[u] EXCEPT !.pc = "claim"] ELSE req[u]]
  /\ UNCHANGED <<vq, avail, used, slot_of, cache, disk, diskLeft>>

\* The device answers one of its requests: it carries it out, or fails it.
\* Whoever reads the sector just now may be told the new contents.
device_answers(id) ==
  /\ id \in avail
  /\ \E ok \in BOOLEAN :
       LET s == vq.addr[id]
           r == slots[s]
       IN  /\ slots' = [slots EXCEPT ![s].status = IF ok THEN 0 ELSE 2,
                                     ![s].data = IF ok /\ r.op = "read" THEN disk[r.lba] ELSE r.data]
           /\ disk' = IF ok /\ r.op = "write" THEN [disk EXCEPT ![r.lba] = r.data] ELSE disk
  /\ avail' = avail \ {id}
  /\ used' = Append(used, id)
  /\ req' = [t \in Requesters |-> IF req[t].pc = "idle" THEN req[t]
                                  ELSE [req[t] EXCEPT !.seen = @ \cup {disk'[req[t].lba]}]]
  /\ UNCHANGED <<vq, slot_of, cache, diskLeft>>

-----------------------------------------------------------------------------
(* bcache.c *)

Place(lba) == lba % CacheSize
Holds(lba) == cache.entries[Place(lba)].valid /\ cache.entries[Place(lba)].lba = lba
store(C, lba, value) == [C EXCEPT !.entries[Place(lba)] = [valid |-> TRUE, lba |-> lba, data |-> value]]

\* A new request.  It may see what the disk holds, what it comes to hold, and,
\* while a write of the sector is going on, what it held before that.
Writing(lba) == {u \in Requesters : req[u].op = "write" /\ req[u].pc # "idle" /\ req[u].lba = lba}
NewRequest(op, lba, v) == [NoTask EXCEPT !.pc = "claim", !.op = op, !.lba = lba, !.value = v,
                                         !.seen = {disk[lba]} \cup UNION {req[u].seen : u \in Writing(lba)}]

\* A read: from the cache, or from the disk, past the cache when there is no
\* memory for one.
bcache_read(t, lba) ==
  /\ req[t].pc = "idle" /\ diskLeft.reads > 0
  /\ \E memory \in {cache.ready, TRUE} :
       /\ cache' = [cache EXCEPT !.ready = memory]
       /\ req' = [req EXCEPT ![t] =
            IF memory /\ Holds(lba)
            THEN [NewRequest("read", lba, cache.entries[Place(lba)].data) EXCEPT !.pc = "read"]
            ELSE [NewRequest("read", lba, 0) EXCEPT !.writes = cache.writes, !.direct = ~memory]]
  /\ diskLeft' = [diskLeft EXCEPT !.reads = @ - 1]
  /\ UNCHANGED <<vq, avail, used, slots, slot_of, disk>>

\* What was fetched is kept only if nobody has written since.
KeepRead(t) == ~req[t].direct /\ cache.writes = req[t].writes

store_read(t) ==
  /\ req[t].pc = "store"
  /\ cache' = IF KeepRead(t) THEN store(cache, req[t].lba, req[t].value) ELSE cache
  /\ Go(t, "read")
  /\ UNCHANGED <<vq, avail, used, slots, slot_of, disk, diskLeft>>

return_read(t) ==
  /\ req[t].pc \in {"read", "failed"}
  /\ req' = [req EXCEPT ![t] = NoTask]
  /\ UNCHANGED <<vq, avail, used, slots, slot_of, cache, disk, diskLeft>>

\* A write: to the disk first.
bcache_write(t, lba, v) ==
  /\ req[t].pc = "idle" /\ diskLeft.writes > 0
  /\ \A u \in Requesters : req[u].op = "write" => req[u].pc = "idle"
  /\ diskLeft' = [diskLeft EXCEPT !.writes = @ - 1]
  /\ req' = [req EXCEPT ![t] = NewRequest("write", lba, v)]
  /\ UNCHANGED <<vq, avail, used, slots, slot_of, cache, disk>>

\* Then into the cache, or what is cached is dropped if the disk failed.
update_cache(t) ==
  /\ req[t].pc = "update"
  /\ LET C == [cache EXCEPT !.writes = @ + 1]
         lba == req[t].lba
     IN  cache' = IF ~cache.ready THEN cache
                  ELSE IF req[t].ok THEN store(C, lba, req[t].value)
                  ELSE IF Holds(lba) THEN [C EXCEPT !.entries[Place(lba)].valid = FALSE]
                  ELSE C
  /\ req' = [req EXCEPT ![t] = NoTask]
  /\ UNCHANGED <<vq, avail, used, slots, slot_of, disk, diskLeft>>

-----------------------------------------------------------------------------

DiskInit ==
  /\ \E size \in DiskSizes : /\ vq = virtqueue_setup(size.queue)
                             /\ slots = [s \in 1 .. size.slots |-> FreeRequest]
                             /\ slot_of = [d \in 0 .. size.queue - 1 |-> 0]
  /\ avail = {} /\ used = <<>>
  /\ cache = [entries |-> [p \in 0 .. CacheSize - 1 |-> [valid |-> FALSE, lba |-> 0, data |-> 0]],
              writes |-> 0, ready |-> FALSE]
  /\ disk = [s \in Sectors |-> 0]
  /\ req = [t \in Requesters |-> NoTask]
  /\ \E n \in 0 .. MaxTimeouts :  \* a timeout takes the place of a read in the bound
       diskLeft = [reads |-> MaxReads - n, writes |-> MaxWrites, timeouts |-> n, most |-> n]

DiskNext ==
  \/ \E t \in Requesters : \/ claim(t) \/ submit(t) \/ await(t) \/ time_out(t) \/ release_slot(t)
                           \/ store_read(t) \/ return_read(t) \/ update_cache(t)
                           \/ \E lba \in Sectors : bcache_read(t, lba)
                           \/ \E lba \in Sectors, v \in Values : bcache_write(t, lba, v)
  \/ \E id \in Descs : device_answers(id)
  \/ blk_interrupt

DiskSpec == DiskInit /\ [][DiskNext]_diskVars

-----------------------------------------------------------------------------

HeldBy(id) == LET c == Chain(vq, id) IN {c[1], c[2], c[3]}
InQueue == avail \cup {used[i] : i \in DOMAIN used}
FreeAt[i \in 1 .. vq.size] == IF i = 1 THEN vq.head ELSE After(vq, FreeAt[i - 1])
FreeList == {FreeAt[i] : i \in 1 .. vq.count}

\* However the device orders its answers, every descriptor is in exactly one
\* place: on the free list, as long as free_count says, or in the chain of one
\* request (virtqueue_add, virtqueue_collect).
DescriptorsSound ==
  /\ vq.count \in 0 .. vq.size /\ FreeList \subseteq Descs /\ Cardinality(FreeList) = vq.count
  /\ \A id \in InQueue : HeldBy(id) \cap FreeList = {} /\ Cardinality(HeldBy(id)) = CHAIN
  /\ \A a, b \in InQueue : a # b => HeldBy(a) \cap HeldBy(b) = {}
  /\ vq.count + CHAIN * Cardinality(InQueue) = vq.size

\* A slot the device may still write into belongs to nobody new: at most one
\* request in the queue names it, it is in use, and whoever works with it is
\* the one that made that request (do_request's late answers).
SlotsApart ==
  /\ \A a, b \in InQueue : vq.addr[a] = vq.addr[b] => a = b
  /\ \A id \in InQueue : slots[vq.addr[id]].in_use /\ slot_of[id] = vq.addr[id]
  /\ \A t, u \in Requesters : /\ req[t].pc \in {"submit", "wait", "release"}
                              /\ req[u].pc \in {"submit", "wait", "release"}
                              /\ req[t].slot = req[u].slot
                              => t = u
  /\ \A t \in Requesters : req[t].pc = "submit" => \A id \in InQueue : vq.addr[id] # req[t].slot
  /\ \A t \in Requesters : req[t].pc = "sleep" => \A s \in Slots : slots[s].in_use

\* A write that was given up and that the device still has, or had at some
\* time: only that may leave the cache behind the disk.
MayLandLate == diskLeft.timeouts < diskLeft.most

\* What a read returns, from the cache or not, is what the disk held at some
\* moment while it was read, or before a write that was then going on: a
\* reader never puts back what a writer replaced (bcache.c's write_count).
ReadIsCurrent ==
  \A t \in Requesters : req[t].pc = "read" /\ ~MayLandLate => req[t].value \in req[t].seen
=============================================================================
