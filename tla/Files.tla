-------------------------------- MODULE Files --------------------------------
(***************************************************************************)
(* Open files and descriptors (file.c, the descriptor calls of syscall.c)  *)
(* and the named local listeners (localsock.c).  A step is what runs under *)
(* one lock: the descriptor slots' spinlock, the tree lock, the table of   *)
(* listeners, or one atomic change of a reference count.  Offsets, data    *)
(* and the close-on-exec bits are abstracted: exec closes some set of      *)
(* descriptors.  One node of the tree stands for all of them.              *)
(***************************************************************************)
EXTENDS Naturals, Sequences, FiniteSets
LOCAL INSTANCE FiniteSetsExt

CONSTANTS
    FlThreads, FlProcs,  \* threads and processes
    FlChild,             \* the process made by fork
    FlChildThreads,      \* its threads (one); the others belong to process 1
    FlDupers,            \* the threads that call dup
    FlSlots,             \* descriptor numbers (TASK_MAX_FDS)
    FlFiles,             \* memory for file_t's
    FlListeners,         \* numbers of listeners made: 1 .. FlListeners
    FlBacklog,           \* connections a listener's queue takes
    FlCalls              \* bound: calls made

FlProcOf == [t \in FlThreads |-> IF t \in FlChildThreads THEN FlChild ELSE 1]

VARIABLES
    file,      \* file_t: kind, references, what it is of
    fds,       \* process_t.fds
    flNode,    \* the vnode: in the tree, open_count, write_count, exec_count
    flRuns,    \* the processes whose program is read from the node
    listener,  \* local_listener_t by number: open, queue
    call,      \* where each thread is, and the files it has in hand
    flCalls    \* calls made (bound)

flVars == <<file, fds, flNode, flRuns, listener, call, flCalls>>

NoFile == 0
NoMemory == [kind |-> "free", refs |-> 0, writable |-> FALSE, listener |-> 0]

\* mine: files made and not yet in a slot; done: <<slot, file>> installed by
\* this call; todo: file_close calls to come; held: task_t.call_files; after:
\* where the thread goes when todo is empty.
InUser == [at |-> "user", mine |-> <<>>, done |-> <<>>, todo |-> <<>>, held |-> <<>>,
           after |-> "user", id |-> 0, next |-> 0]
Gone == [InUser EXCEPT !.at = "gone"]

\* file_alloc: any free block of the cache, with one reference.
file_alloc(kind, writable, l) ==
    [kind |-> kind, refs |-> 1, writable |-> writable, listener |-> l]

FlInit ==
    /\ \/ /\ file = [f \in FlFiles |-> NoMemory]
          /\ fds = [p \in FlProcs |-> [s \in FlSlots |-> NoFile]]
          /\ flRuns = {} /\ listener = <<>>
       \/ \* a server: it runs from the node and listens
          /\ file = [f \in FlFiles |-> IF f = 1 THEN file_alloc("listener", TRUE, 1) ELSE NoMemory]
          /\ fds = [p \in FlProcs |-> [s \in FlSlots |-> IF p # FlChild /\ s = 1 THEN 1 ELSE NoFile]]
          /\ flRuns = FlProcs \ {FlChild} /\ listener = <<[open |-> TRUE, queue |-> <<>>]>>
    /\ flNode = [here |-> TRUE, open |-> Cardinality(flRuns), write |-> 0, exec |-> Cardinality(flRuns)]
    /\ call = [t \in FlThreads |-> IF FlProcOf[t] = FlChild THEN Gone ELSE InUser]
    /\ flCalls = 0

-----------------------------------------------------------------------------
(* Steps that the calls share. *)

\* The memory a file_t is made in: the first free block (blocks are alike), and
\* the next one for the second file of a pair.
FreeMemory == {f \in FlFiles : file[f].kind = "free"}
FirstOf(S) == {f \in S : \A g \in S : f <= g}

Table(t) == fds[FlProcOf[t]]
EmptySlots(t) == {s \in FlSlots : Table(t)[s] = NoFile}
LowestEmpty(t) == CHOOSE s \in EmptySlots(t) : \A r \in EmptySlots(t) : s <= r

Begin(t) == /\ call[t].at = "user"
            /\ flCalls < FlCalls
            /\ flCalls' = flCalls + 1

\* With nothing left to close the thread goes on.
Resumed(c) == CASE c.todo # <<>> -> [c EXCEPT !.at = "closing"]
                [] c.after = "user" -> InUser
                [] OTHER -> [c EXCEPT !.at = c.after]

\* The call returns: it closes what it has to, then its looked-up files
\* (syscall_handler, process_call_files_release).
Ending(c, closes) == Resumed([InUser EXCEPT !.todo = closes \o c.held])

\* The files are closed and the call goes on.
Pausing(c, closes) == Resumed([c EXCEPT !.mine = <<>>, !.todo = closes, !.after = c.at])

\* sched_wakeup on a listener's number: every thread asleep on it goes on.
Woken(cs, id) == [t \in FlThreads |-> IF cs[t].at = "asleep" /\ cs[t].id = id
                                      THEN [cs[t] EXCEPT !.at = cs[t].after] ELSE cs[t]]

\* fd_to_file: the file in the slot, with a reference for the call.
fd_to_file(t, s, at) ==
    /\ Table(t)[s] # NoFile
    /\ file' = [file EXCEPT ![Table(t)[s]].refs = @ + 1]
    /\ call' = [call EXCEPT ![t].at = at, ![t].held = Append(@, Table(t)[s]), ![t].next = s]

-----------------------------------------------------------------------------
(* Closing. *)

\* file_close: one reference less.
drop_reference(f) == [file[f] EXCEPT !.refs = @ - 1]

\* file_close, its first step; the holder of the last reference goes on.
file_close(t) ==
    /\ call[t].at = "closing"
    /\ LET f == Head(call[t].todo) IN
       /\ file' = [file EXCEPT ![f] = drop_reference(f)]
       /\ call' = [call EXCEPT ![t] = IF drop_reference(f).refs = 0
                                      THEN [@ EXCEPT !.at = "last"]
                                      ELSE Resumed([@ EXCEPT !.todo = Tail(@)])]
    /\ UNCHANGED <<fds, flNode, flRuns, listener, flCalls>>


\* file_close of a node, under the tree lock.
CloseNode(f) == [flNode EXCEPT !.open = @ - 1,
                             !.write = IF file[f].writable THEN @ - 1 ELSE @]


\* local_listener_close wakes the connects that wait for room.
CloseListener(cs, id) == Woken(cs, id)

\* The last file_close gives back what the file is of, and its memory.  The
\* connections a listener still has are closed in turn.
file_close_last(t) ==
    /\ call[t].at = "last"
    /\ LET f == Head(call[t].todo)
           l == file[f].listener
           back == IF file[f].kind = "listener" THEN listener[l].queue ELSE <<>>
           mine == [call EXCEPT ![t] = Resumed([@ EXCEPT !.todo = back \o Tail(@)])] IN
       /\ file' = [file EXCEPT ![f] = NoMemory]
       /\ flNode' = IF file[f].kind = "node" THEN CloseNode(f) ELSE flNode
       /\ listener' = IF file[f].kind = "listener"
                      THEN [listener EXCEPT ![l] = [open |-> FALSE, queue |-> <<>>]]
                      ELSE listener
       /\ call' = IF file[f].kind = "listener" THEN CloseListener(mine, l) ELSE mine
    /\ UNCHANGED <<fds, flRuns, flCalls>>

sys_close(t, s) ==
    /\ Begin(t)
    /\ Table(t)[s] # NoFile
    /\ fds' = [fds EXCEPT ![FlProcOf[t]][s] = NoFile]
    /\ call' = [call EXCEPT ![t] = Ending(@, <<Table(t)[s]>>)]
    /\ UNCHANGED <<file, flNode, flRuns, listener>>

-----------------------------------------------------------------------------
(* Opening. *)

\* open_as_locked: ETXTBSY.
MayOpen(writable) == ~(writable /\ flNode.exec > 0)

\* file_open_as, under the tree lock; O_CREAT makes the node when it is not there.
sys_open(t, writable, f) ==
    /\ Begin(t)
    /\ MayOpen(writable)
    /\ f \in FirstOf(FreeMemory)
    /\ file' = [file EXCEPT ![f] = file_alloc("node", writable, 0)]
    /\ flNode' = [flNode EXCEPT !.here = TRUE, !.open = @ + 1, !.write = IF writable THEN @ + 1 ELSE @]
    /\ call' = [call EXCEPT ![t].at = "install", ![t].mine = <<f>>]
    /\ UNCHANGED <<fds, flRuns, listener>>

\* socketpair; pipe() is the same but for what the two files are of.
sys_socketpair(t, f, g) ==
    /\ Begin(t)
    /\ f \in FirstOf(FreeMemory) /\ g \in FirstOf(FreeMemory \ {f})
    /\ file' = [file EXCEPT ![f] = file_alloc("local", TRUE, 0), ![g] = file_alloc("local", TRUE, 0)]
    /\ call' = [call EXCEPT ![t].at = "install", ![t].mine = <<f, g>>]
    /\ UNCHANGED <<fds, flNode, flRuns, listener>>

\* local_listen: the listener, its file, its descriptor; the name comes last.
sys_local_listen(t, f) ==
    /\ Begin(t)
    /\ f \in FirstOf(FreeMemory)
    /\ Len(listener) < FlListeners
    /\ listener' = Append(listener, [open |-> TRUE, queue |-> <<>>])
    /\ file' = [file EXCEPT ![f] = file_alloc("listener", TRUE, Len(listener) + 1)]
    /\ call' = [call EXCEPT ![t].at = "install", ![t].mine = <<f>>, ![t].id = Len(listener) + 1]
    /\ UNCHANGED <<fds, flNode, flRuns>>

\* fd_install: the lowest empty slot.
fd_install(t) ==
    /\ call[t].at = "install"
    /\ EmptySlots(t) # {}
    /\ LET f == Head(call[t].mine)
           s == LowestEmpty(t) IN
       /\ fds' = [fds EXCEPT ![FlProcOf[t]][s] = f]
       /\ call' = [call EXCEPT ![t] =
              CASE Len(@.mine) > 1 -> [@ EXCEPT !.mine = Tail(@), !.done = Append(@, <<s, f>>)]
                [] @.id # 0 /\ file[f].kind = "listener"
                     -> [@ EXCEPT !.at = "name", !.mine = <<>>, !.done = <<<<s, f>>>>]
                [] OTHER -> Ending(@, <<>>)]
    /\ UNCHANGED <<file, flNode, flRuns, listener, flCalls>>

\* No slot: what was installed is taken back, the rest is closed.
install_fails(t) ==
    /\ call[t].at = "install"
    /\ EmptySlots(t) = {}
    /\ call' = [call EXCEPT ![t] = IF @.done = <<>> THEN Ending(@, @.mine) ELSE [@ EXCEPT !.at = "undo"]]
    /\ UNCHANGED <<file, fds, flNode, flRuns, listener, flCalls>>

\* The socket's name is made in the tree, or is refused.
name_socket(t) ==
    /\ call[t].at = "name"
    /\ \/ call' = [call EXCEPT ![t] = Ending(@, <<>>)]
       \/ call' = [call EXCEPT ![t].at = "undo"]
    /\ UNCHANGED <<file, fds, flNode, flRuns, listener, flCalls>>

\* Mutant of StillThere: the slot is emptied and the file closed whatever is there.
SurelyThere(t, s, f) == TRUE

\* fd_take_back: another thread may have closed or replaced the descriptor.
StillThere(t, s, f) == Table(t)[s] = f

fd_take_back(t) ==
    /\ call[t].at = "undo"
    /\ LET s == call[t].done[1][1]
           f == call[t].done[1][2] IN
       IF StillThere(t, s, f)
       THEN /\ fds' = [fds EXCEPT ![FlProcOf[t]][s] = NoFile]
            /\ call' = [call EXCEPT ![t] = Ending(@, <<f>> \o @.mine)]
       ELSE /\ fds' = fds
            /\ call' = [call EXCEPT ![t] = Ending(@, @.mine)]
    /\ UNCHANGED <<file, flNode, flRuns, listener, flCalls>>

-----------------------------------------------------------------------------
(* Using a descriptor. *)

\* read, write, fstat, ... : the file is used until the call returns.
sys_use(t, s) == Begin(t) /\ fd_to_file(t, s, "using") /\ UNCHANGED <<fds, flNode, flRuns, listener>>

used(t) ==
    /\ call[t].at = "using"
    /\ call' = [call EXCEPT ![t] = Ending(@, <<>>)]
    /\ UNCHANGED <<file, fds, flNode, flRuns, listener, flCalls>>

sys_dup2(t, s) == Begin(t) /\ fd_to_file(t, s, "dup2") /\ UNCHANGED <<fds, flNode, flRuns, listener>>

\* dup2 gives the file its reference before the slot is filled.
dup2_sets(t, s) ==
    /\ call[t].at = "dup2"
    /\ s # call[t].next
    /\ LET f == Head(call[t].held) IN
       /\ file' = [file EXCEPT ![f].refs = @ + 1]
       /\ fds' = [fds EXCEPT ![FlProcOf[t]][s] = f]
       /\ call' = [call EXCEPT ![t] = Ending(@, IF Table(t)[s] = NoFile THEN <<>> ELSE <<Table(t)[s]>>)]
    /\ UNCHANGED <<flNode, flRuns, listener, flCalls>>

sys_dup(t, s) ==
    /\ t \in FlDupers
    /\ Begin(t)
    /\ fd_to_file(t, s, "dup")
    /\ UNCHANGED <<fds, flNode, flRuns, listener>>

\* dup installs the file first and gives it the slot's reference afterwards.
dup_installs(t) ==
    /\ call[t].at = "dup"
    /\ IF EmptySlots(t) = {}
       THEN call' = [call EXCEPT ![t] = Ending(@, <<>>)] /\ fds' = fds
       ELSE /\ fds' = [fds EXCEPT ![FlProcOf[t]][LowestEmpty(t)] = Head(call[t].held)]
            /\ call' = [call EXCEPT ![t].at = "dup_count"]
    /\ UNCHANGED <<file, flNode, flRuns, listener, flCalls>>

dup_counts(t) ==
    /\ call[t].at = "dup_count"
    /\ file' = [file EXCEPT ![Head(call[t].held)].refs = @ + 1]
    /\ call' = [call EXCEPT ![t] = Ending(@, <<>>)]
    /\ UNCHANGED <<fds, flNode, flRuns, listener, flCalls>>

-----------------------------------------------------------------------------
(* The tree and programs. *)

\* vfs_unlink: EBUSY while someone holds it open.
MayUnlink == flNode.here /\ flNode.open = 0

sys_unlink(t) ==
    /\ Begin(t)
    /\ MayUnlink
    /\ flNode' = [flNode EXCEPT !.here = FALSE]
    /\ UNCHANGED <<file, fds, flRuns, listener, call>>

\* fork: the child's table, one descriptor at a time; the child's program is
\* a region of the node too (region_fork pins it).
sys_fork(t) ==
    /\ Begin(t)
    /\ FlProcOf[t] # FlChild
    /\ \A c \in FlThreads : FlProcOf[c] = FlChild => call[c].at = "gone"
    /\ \A c \in FlThreads : call[c].at # "fork"
    /\ call' = [call EXCEPT ![t].at = "fork", ![t].next = 1]
    /\ IF FlProcOf[t] \in flRuns
       THEN flRuns' = flRuns \cup {FlChild} /\ flNode' = [flNode EXCEPT !.open = @ + 1, !.exec = @ + 1]
       ELSE UNCHANGED <<flRuns, flNode>>
    /\ UNCHANGED <<file, fds, listener>>

\* fd_slot_dup, and when the table is whole the child is there.
fork_copies(t) ==
    /\ call[t].at = "fork"
    /\ LET s == call[t].next
           f == Table(t)[s] IN
       IF s \in FlSlots
       THEN /\ fds' = [fds EXCEPT ![FlChild][s] = f]
            /\ file' = IF f = NoFile THEN file ELSE [file EXCEPT ![f].refs = @ + 1]
            /\ call' = [call EXCEPT ![t].next = s + 1]
       ELSE /\ call' = [c \in FlThreads |-> IF c = t \/ FlProcOf[c] = FlChild THEN InUser ELSE call[c]]
            /\ UNCHANGED <<fds, file>>
    /\ UNCHANGED <<flNode, flRuns, listener, flCalls>>

\* load_user_image_locked: not while the file is open for writing.
MayRun == flNode.here /\ flNode.write = 0

\* exec by a process of one thread: it holds the new program's file, lets the
\* old one's go and closes the descriptors marked for it, one at a time.
sys_execve(t) ==
    /\ FlProcOf[t] = FlChild
    /\ Begin(t)
    /\ MayRun
    /\ flRuns' = flRuns \cup {FlChild}
    /\ flNode' = IF FlChild \in flRuns THEN flNode ELSE [flNode EXCEPT !.open = @ + 1, !.exec = @ + 1]
    /\ call' = [call EXCEPT ![t].at = "exec", ![t].next = 1]
    /\ UNCHANGED <<file, fds, listener>>

\* exit: every descriptor is closed, then the program's file is let go.
sys_exit(t) ==
    /\ FlProcOf[t] = FlChild
    /\ Begin(t)
    /\ call' = [call EXCEPT ![t].at = "exit", ![t].next = 1]
    /\ UNCHANGED <<file, fds, flNode, flRuns, listener>>

\* file_close_all, and exec's loop over the marked descriptors.
close_all(t) ==
    /\ call[t].at \in {"exec", "exit"}
    /\ call[t].next \in FlSlots
    /\ LET s == call[t].next
           f == Table(t)[s] IN
       \/ /\ f # NoFile
          /\ fds' = [fds EXCEPT ![FlChild][s] = NoFile]
          /\ call' = [call EXCEPT ![t] = Pausing([@ EXCEPT !.next = s + 1], <<f>>)]
       \/ /\ f = NoFile \/ call[t].at = "exec"      \* not marked
          /\ call' = [call EXCEPT ![t].next = s + 1]
          /\ fds' = fds
    /\ UNCHANGED <<file, flNode, flRuns, listener, flCalls>>

\* The new program starts, or the process is gone and its regions with it.
all_closed(t) ==
    /\ call[t].at \in {"exec", "exit"}
    /\ call[t].next \notin FlSlots
    /\ call' = [call EXCEPT ![t] = IF @.at = "exit" THEN Gone ELSE InUser]
    /\ IF call[t].at = "exit" /\ FlChild \in flRuns
       THEN flRuns' = flRuns \ {FlChild} /\ flNode' = [flNode EXCEPT !.open = @ - 1, !.exec = @ - 1]
       ELSE UNCHANGED <<flRuns, flNode>>
    /\ UNCHANGED <<file, fds, listener, flCalls>>

-----------------------------------------------------------------------------
(* Local connections. *)

\* local_connect with the number found under some name, perhaps long ago.
sys_local_connect(t, id) ==
    /\ Begin(t)
    /\ EmptySlots(t) # {}
    /\ call' = [call EXCEPT ![t].at = "connect", ![t].id = id]
    /\ UNCHANGED <<file, fds, flNode, flRuns, listener>>

\* sched_sleep on the listener's number, unless a signal is there.
Sleep(t) ==
    \/ call' = [call EXCEPT ![t] = [@ EXCEPT !.after = call[t].at, !.at = "asleep"]]
    \/ call' = [call EXCEPT ![t] = Ending(@, <<>>)]

\* The wake-up an accept waits for.
Queued(cs, id) == Woken(cs, id)

HasRoom(id) == Len(listener[id].queue) < FlBacklog

\* One turn of local_connect's loop, under the lock of the table.
local_connect(t) ==
    /\ call[t].at = "connect"
    /\ LET id == call[t].id
           mine == call[t].mine IN
       \/ /\ ~listener[id].open
          /\ call' = [call EXCEPT ![t] = Ending(@, mine)]
          /\ UNCHANGED listener
       \/ /\ listener[id].open /\ HasRoom(id) /\ mine = <<>>
          /\ call' = [call EXCEPT ![t].at = "pair"]
          /\ UNCHANGED listener
       \/ /\ listener[id].open /\ HasRoom(id) /\ mine # <<>>
          /\ listener' = [listener EXCEPT ![id].queue = Append(@, mine[2])]
          /\ call' = Queued([call EXCEPT ![t].at = "install", ![t].mine = <<mine[1]>>], id)
       \/ /\ listener[id].open /\ ~HasRoom(id) /\ mine # <<>>
          /\ call' = [call EXCEPT ![t] = Pausing(@, mine)]
          /\ UNCHANGED listener
       \/ /\ listener[id].open /\ ~HasRoom(id) /\ mine = <<>>
          /\ Sleep(t)
          /\ UNCHANGED listener
    /\ UNCHANGED <<file, fds, flNode, flRuns, flCalls>>

\* file_open_local_pair, outside the lock; it may fail.
connect_pair(t) ==
    /\ call[t].at = "pair"
    /\ \/ \E f \in FirstOf(FreeMemory) : \E g \in FirstOf(FreeMemory \ {f}) :
             /\ file' = [file EXCEPT ![f] = file_alloc("local", TRUE, 0), ![g] = file_alloc("local", TRUE, 0)]
             /\ call' = [call EXCEPT ![t].at = "connect", ![t].mine = <<f, g>>]
       \/ call' = [call EXCEPT ![t] = Ending(@, <<>>)] /\ file' = file
    /\ UNCHANGED <<fds, flNode, flRuns, listener, flCalls>>

sys_accept(t, s) ==
    /\ Begin(t)
    /\ Table(t)[s] # NoFile /\ file[Table(t)[s]].kind = "listener"
    /\ fd_to_file(t, s, "accept_look")
    /\ UNCHANGED <<fds, flNode, flRuns, listener>>

\* The descriptor is looked up once more as a TCP socket's: another reference,
\* of whatever is there now.
accept_looks(t) ==
    /\ call[t].at = "accept_look"
    /\ LET f == Table(t)[call[t].next]
           c == [call[t] EXCEPT !.held = IF f = NoFile THEN @ ELSE Append(@, f)] IN
       /\ file' = IF f = NoFile THEN file ELSE [file EXCEPT ![f].refs = @ + 1]
       /\ call' = [call EXCEPT ![t] =
              IF EmptySlots(t) = {} THEN Ending(c, <<>>)
              ELSE [c EXCEPT !.at = "accept", !.id = file[c.held[1]].listener]]
    /\ UNCHANGED <<fds, flNode, flRuns, listener, flCalls>>

local_accept(t) ==
    /\ call[t].at = "accept"
    /\ LET id == call[t].id IN
       IF listener[id].queue = <<>>
       THEN Sleep(t) /\ UNCHANGED listener
       ELSE /\ listener' = [listener EXCEPT ![id].queue = Tail(@)]
            /\ call' = Woken([call EXCEPT ![t].at = "install", ![t].mine = <<Head(listener[id].queue)>>], id)
    /\ UNCHANGED <<file, fds, flNode, flRuns, flCalls>>

\* A signal wakes the sleeper; a kill ends it where it is, and what the call
\* had looked up is closed for it (task_free).
signalled(t) ==
    /\ call[t].at = "asleep"
    /\ \/ call' = [call EXCEPT ![t].at = call[t].after]
       \/ call' = [call EXCEPT ![t] = Ending(@, <<>>)]
    /\ UNCHANGED <<file, fds, flNode, flRuns, listener, flCalls>>

FlNext ==
    \E t \in FlThreads :
        \/ file_close(t) \/ file_close_last(t)
        \/ fd_install(t) \/ install_fails(t) \/ name_socket(t) \/ fd_take_back(t)
        \/ used(t) \/ dup_installs(t) \/ dup_counts(t)
        \/ sys_unlink(t) \/ sys_fork(t) \/ fork_copies(t) \/ sys_execve(t) \/ sys_exit(t)
        \/ close_all(t) \/ all_closed(t)
        \/ local_connect(t) \/ connect_pair(t) \/ accept_looks(t) \/ local_accept(t) \/ signalled(t)
        \/ \E s \in FlSlots : \/ sys_close(t, s) \/ sys_use(t, s) \/ sys_dup(t, s) \/ sys_accept(t, s)
                              \/ sys_dup2(t, s) \/ dup2_sets(t, s)
        \/ \E f \in FlFiles : \/ \E w \in BOOLEAN : sys_open(t, w, f)
                              \/ sys_local_listen(t, f)
                              \/ \E g \in FlFiles : sys_socketpair(t, f, g)
        \/ \E id \in DOMAIN listener : sys_local_connect(t, id)

-----------------------------------------------------------------------------
(* Properties. *)

Times(s, f) == Cardinality({i \in DOMAIN s : s[i] = f})

\* How many own a reference to f: slots, the files calls have in hand, have
\* looked up or are about to close, and the queues of listeners.
OwnersOf(f) ==
    LET inSlots == Cardinality({ps \in FlProcs \X FlSlots : fds[ps[1]][ps[2]] = f})
        inCall(t) == Times(call[t].mine, f) + Times(call[t].held, f)
                     + Times(IF call[t].at = "last" THEN Tail(call[t].todo) ELSE call[t].todo, f)
        inQueue(l) == Times(listener[l].queue, f)
        uncounted == Cardinality({t \in FlThreads : call[t].at = "dup_count" /\ Head(call[t].held) = f})
    IN inSlots + MapThenSumSet(inCall, FlThreads) + MapThenSumSet(inQueue, DOMAIN listener) - uncounted

\* Closing f for the last time.
Dying(f) == \E t \in FlThreads : call[t].at = "last" /\ Head(call[t].todo) = f

\* A file's count is the number of its owners (dup's own window apart), and
\* its memory is free just when it has none: nothing leaks when a call fails,
\* is killed in its sleep or loses its descriptor to another thread, and
\* nothing is closed twice.
RefsAreOwners ==
    \A f \in FlFiles : /\ file[f].refs = OwnersOf(f)
                       /\ (file[f].kind = "free") <=> (file[f].refs = 0 /\ ~Dying(f))

\* "another thread's close cannot free it under the caller" (fd_to_file): a
\* file a call has looked up is there until the call returns.
FileStaysForTheCall ==
    \A t \in FlThreads : \A i \in DOMAIN call[t].held :
        LET f == call[t].held[i] IN file[f].refs > 0

\* The node's counts are those who hold it: it is not removed while open, and
\* it is never open for writing while a program runs from it.
NodeIsHeld ==
    LET holders == {f \in FlFiles : file[f].kind = "node"} IN
    /\ flNode.open = Cardinality(holders) + Cardinality(flRuns)
    /\ flNode.write = Cardinality({f \in holders : file[f].writable})
    /\ flNode.exec = Cardinality(flRuns)
    /\ flNode.open > 0 => flNode.here
    /\ ~(flNode.write > 0 /\ flNode.exec > 0)

\* Nobody sleeps on a listener that has what they wait for, and a connect
\* does not sleep on one that is gone.
LocalSleepersWait ==
    \A t \in FlThreads : call[t].at = "asleep" =>
        LET l == listener[call[t].id] IN
        /\ l.open
        /\ IF call[t].after = "connect" THEN Len(l.queue) = FlBacklog ELSE l.queue = <<>>

\* A listener that is gone has no connections left in its queue, and one that
\* is there has a file.
ListenersHaveFiles ==
    \A id \in DOMAIN listener :
        listener[id].open <=> \E f \in FlFiles : file[f].kind = "listener" /\ file[f].listener = id

\* Files, the node and the listeners agree on who holds what.
FilesSound == RefsAreOwners /\ NodeIsHeld /\ ListenersHaveFiles
=============================================================================
