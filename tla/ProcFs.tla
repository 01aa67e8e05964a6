------------------------------- MODULE ProcFs -------------------------------
(***************************************************************************)
(* /proc (procfs.c): the directories of the processes, brought in step     *)
(* with the task list each time somebody looks inside, under the tree      *)
(* lock, from a copy made under the scheduler lock; and the texts that are *)
(* made when a file there is read (read_snapshot of file.c).  Meanwhile    *)
(* the processes start, end, change user, close their descriptor and give  *)
(* back the file they map.  A text is the moment it was made at, read in   *)
(* two pieces.  The flag `refreshing` only stops a refresh from starting   *)
(* another within itself: a refresh is one look here.                      *)
(***************************************************************************)
EXTENDS Naturals, Sequences, FiniteSets

CONSTANTS
    PfReaders,   \* those who look inside /proc, each with one file open there
    PfUid,       \* the user of a reader
    PfPids,      \* pids are 1 .. PfPids, given in this order and never again
    PfSpare,     \* room for tasks that start while the list is copied (16)
    PfChanges,   \* bound: changes of user and descriptors opened anew
    PfCalls      \* bound: looks and reads

VARIABLES
    ptask,     \* the tasks: state, user, descriptor, file behind it, mapping
    pfile,     \* the file they map: pins (open_count) and whether it exists
    proc_dir,  \* the tree under /proc
    plook,     \* the call each reader is in
    popen,     \* the open file of each reader
    ptree,     \* who holds the tree lock ({}: nobody)
    pleft      \* changes and calls left (bounds)

pfVars == <<ptask, pfile, proc_dir, plook, popen, ptree, pleft>>

Pids == 1 .. PfPids
Uids == {0, 1}
Pieces == 2

NoTask == [state |-> "none", uid |-> 0, fd |-> FALSE, refs |-> 0, region |-> FALSE, pinned |-> FALSE]
NoLook == [at |-> "idle", pid |-> 0, what |-> "none", room |-> 0, list |-> {}, uid |-> [p \in Pids |-> 0], mask |-> FALSE,
           lived |-> FALSE, owners |-> {}, node |-> FALSE, moment |-> 0]
NoFile == [what |-> "none", pid |-> 0, text |-> 0, offset |-> 0, got |-> <<>>, since |-> 0]

PfInit ==
    /\ ptask = [p \in Pids |-> IF p = 1 THEN [NoTask EXCEPT !.state = "alive", !.uid = 1] ELSE NoTask]
    /\ pfile = [pins |-> 0, exists |-> TRUE]
    /\ proc_dir = [pids |-> {}, owner |-> [p \in Pids |-> 0], fds |-> {}]
    /\ plook = [r \in PfReaders |-> NoLook]
    /\ popen = [r \in PfReaders |-> NoFile]
    /\ ptree = {}
    /\ \E n \in 0 .. PfChanges :  \* a change takes the place of a call in the bound
         pleft = [changes |-> n, calls |-> PfCalls - n, now |-> 0]

Alive(p) == ptask[p].state = "alive"

-----------------------------------------------------------------------------
(* What the processes do meanwhile (external to procfs.c). *)

\* What a look of another must know of a change of p: who it belonged to, whether it lived throughout.
Noted(p, uid, lives) ==
    plook' = [r \in PfReaders |->
                IF plook[r].pid = p THEN [plook[r] EXCEPT !.owners = @ \cup {uid}, !.lived = @ /\ lives]
                ELSE plook[r]]

task_starts(p) ==
    /\ ptask[p].state = "none" /\ \A q \in 1 .. p - 1 : ptask[q].state # "none"
    /\ ptask' = [ptask EXCEPT ![p] = [NoTask EXCEPT !.state = "alive", !.uid = 1, !.fd = TRUE, !.refs = 1]]
    /\ Noted(p, 1, FALSE)
    /\ UNCHANGED <<pfile, proc_dir, popen, ptree, pleft>>

\* It is taken off the list when its files and memory are given back.
task_ends(p) ==
    /\ Alive(p) /\ ~ptask[p].fd /\ ~ptask[p].region /\ ~ptask[p].pinned
    /\ ptask' = [ptask EXCEPT ![p].state = "gone"]
    /\ Noted(p, ptask[p].uid, FALSE)
    /\ UNCHANGED <<pfile, proc_dir, popen, ptree, pleft>>

task_setuid(p, uid) ==
    /\ Alive(p) /\ uid # ptask[p].uid /\ pleft.changes > 0
    /\ ptask' = [ptask EXCEPT ![p].uid = uid]
    /\ Noted(p, uid, TRUE)
    /\ pleft' = [pleft EXCEPT !.changes = @ - 1]
    /\ UNCHANGED <<pfile, proc_dir, popen, ptree>>

\* close(): the slot is emptied, then its reference dropped; the last one frees the file.
task_closes(p) ==
    /\ Alive(p) /\ ptask[p].fd
    /\ ptask' = [ptask EXCEPT ![p].fd = FALSE, ![p].refs = @ - 1]
    /\ UNCHANGED <<pfile, proc_dir, plook, popen, ptree, pleft>>

task_opens(p) ==
    /\ Alive(p) /\ ~ptask[p].fd /\ ptask[p].refs = 0 /\ pleft.changes > 0
    /\ ptask' = [ptask EXCEPT ![p].fd = TRUE, ![p].refs = 1]
    /\ pleft' = [pleft EXCEPT !.changes = @ - 1]
    /\ UNCHANGED <<pfile, proc_dir, plook, popen, ptree>>

\* map_locked: the file is pinned, under the tree lock, before the region appears ...
region_pins(p) ==
    /\ Alive(p) /\ ~ptask[p].pinned /\ pfile.exists /\ ptree = {} /\ pleft.changes > 0
    /\ ptask' = [ptask EXCEPT ![p].pinned = TRUE, ![p].region = TRUE]
    /\ pfile' = [pfile EXCEPT !.pins = @ + 1]
    /\ pleft' = [pleft EXCEPT !.changes = @ - 1]
    /\ UNCHANGED <<proc_dir, plook, popen, ptree>>

\* ... and unpinned, under it again, after its entry is cleared, which takes no such lock.
region_cleared(p) ==
    /\ Alive(p) /\ ptask[p].region
    /\ ptask' = [ptask EXCEPT ![p].region = FALSE]
    /\ UNCHANGED <<pfile, proc_dir, plook, popen, ptree, pleft>>
region_unpins(p) ==
    /\ ptask[p].pinned /\ ~ptask[p].region /\ ptree = {}
    /\ ptask' = [ptask EXCEPT ![p].pinned = FALSE]
    /\ pfile' = [pfile EXCEPT !.pins = @ - 1]
    /\ UNCHANGED <<proc_dir, plook, popen, ptree, pleft>>

\* vfs_unlink of the mapped file: not while it is pinned.
file_removed ==
    /\ ptree = {} /\ pfile.exists /\ pfile.pins = 0
    /\ pfile' = [pfile EXCEPT !.exists = FALSE]
    /\ UNCHANGED <<ptask, proc_dir, plook, popen, ptree, pleft>>

-----------------------------------------------------------------------------
(* Looking inside /proc. *)

\* What can be looked for: a process's directory, its files for everybody (status, cmdline, threads:
\* read alike), its maps and its descriptor's file, which are its owner's; or it is to be removed.
\* "tasks" stands for the files of /proc itself, which are always there.
Kinds == {"tasks", "dir", "status", "maps", "fd", "rmdir"}

\* pid_node_in_use: of the directory or anything under it.
pid_node_in_use(p) == \E r \in PfReaders : popen[r].pid = p /\ popen[r].what \notin {"none", "tasks"}
fd_in_use(p) == \E r \in PfReaders : popen[r].pid = p /\ popen[r].what = "fd"

\* A lookup takes the tree lock; proc_refresh first counts the tasks ...
look(r, p, what) ==
    /\ plook[r].at = "idle" /\ ptree = {} /\ pleft.calls > 0 /\ (what \in {"tasks", "rmdir"} => p = 1)
    /\ ptree' = {r}
    /\ plook' = [plook EXCEPT ![r] = [NoLook EXCEPT !.at = "counted", !.pid = p, !.what = what, !.lived = Alive(p),
                                        !.room = Cardinality({q \in Pids : Alive(q)}) + PfSpare,
                                        !.owners = {ptask[p].uid}]]
    /\ pleft' = [pleft EXCEPT !.calls = @ - 1]
    /\ UNCHANGED <<ptask, pfile, proc_dir, popen>>

\* ... then copies as many as there is room for, oldest first.
Listed(room) == {p \in Pids : Alive(p) /\ Cardinality({q \in 1 .. p : Alive(q)}) <= room}
copy_tasks(r) ==
    /\ plook[r].at = "counted"
    /\ plook' = [plook EXCEPT ![r].at = "copied", ![r].room = 0, ![r].list = Listed(plook[r].room),
                               ![r].uid = [p \in Pids |-> ptask[p].uid]]
    /\ UNCHANGED <<ptask, pfile, proc_dir, popen, ptree, pleft>>

\* Without memory for the copy the tree stays as it is.
no_memory(r) ==
    /\ plook[r].at = "counted"
    /\ plook' = [plook EXCEPT ![r].at = "refreshed", ![r].room = 0, ![r].owners = Uids, ![r].lived = FALSE]
    /\ UNCHANGED <<ptask, pfile, proc_dir, popen, ptree, pleft>>

\* Mutant of Removed: without asking who has it open.
RemovedInUse(list) == proc_dir.pids \ list

\* The directories that go: of tasks that are gone, unless in use.
Removed(list) == {p \in proc_dir.pids \ list : ~pid_node_in_use(p)}

\* remove_pid_node: a directory goes with everything in it.  add_pid_dir: a new one has an empty fd/.
remove_pid_node(dir, gone) == [dir EXCEPT !.pids = @ \ gone, !.fds = @ \ gone]
add_pid_dir(dir, list) == [dir EXCEPT !.pids = @ \cup list]

\* The rest of proc_refresh: the tree is changed to match the copy, owners that changed included.
refresh(r) ==
    LET list == plook[r].list
        gone == Removed(list)
    IN /\ plook[r].at = "copied"
       /\ proc_dir' = [add_pid_dir(remove_pid_node(proc_dir, gone), list) EXCEPT
                         !.owner = [p \in Pids |-> IF p \in list THEN plook[r].uid[p]
                                                   ELSE IF p \in gone THEN 0 ELSE @[p]]]
       /\ plook' = [plook EXCEPT ![r].at = "refreshed", ![r].list = {}, ![r].uid = NoLook.uid]
       /\ UNCHANGED <<ptask, pfile, popen, ptree, pleft>>

\* Who may look there: root, or the owner the node shows.
Permits(r, uid) == PfUid[r] \in {0, uid}

\* The end of a look: the lock is given back and, if found, the file opened
\* (and closed at once by a reader that keeps another one open).
Opens(r, ok) ==
    /\ ptree' = {}
    /\ plook' = [plook EXCEPT ![r] = NoLook]
    /\ popen' = [popen EXCEPT ![r] = IF ok /\ @.what = "none" THEN [NoFile EXCEPT !.what = plook[r].what, !.pid = plook[r].pid]
                                     ELSE @]

found(r) ==
    LET p == plook[r].pid
        what == plook[r].what
    IN /\ plook[r].at = "refreshed" /\ what \in {"tasks", "dir", "status", "maps"}
       /\ Opens(r, what = "tasks" \/ (p \in proc_dir.pids /\ (what = "maps" => Permits(r, proc_dir.owner[p]))))
       /\ UNCHANGED <<ptask, pfile, proc_dir, pleft>>

\* refuse_remove: nothing in /proc is anybody's to remove (tearing_down is set only within a refresh,
\* under the tree lock).
refuse_remove(r) ==
    /\ plook[r].at = "refreshed" /\ plook[r].what = "rmdir"
    /\ Opens(r, FALSE)
    /\ UNCHANGED <<ptask, pfile, proc_dir, pleft>>

\* fd_dir_refresh: which descriptors are open, and whose, again copied first.
fd_mask(r) ==
    LET p == plook[r].pid
        ok == p \in proc_dir.pids /\ Permits(r, proc_dir.owner[p])
    IN /\ plook[r].at = "refreshed" /\ plook[r].what = "fd"
       /\ \/ /\ ok
             /\ plook' = [plook EXCEPT ![r].at = "masked", ![r].mask = Alive(p) /\ ptask[p].fd,
                                       ![r].uid = [q \in Pids |-> IF Alive(q) THEN ptask[q].uid ELSE proc_dir.owner[q]]]
             /\ UNCHANGED <<popen, ptree>>
          \/ ~ok /\ Opens(r, FALSE)
       /\ UNCHANGED <<ptask, pfile, proc_dir, pleft>>

\* add_pid_node: the file of a descriptor, with its directory's owner.
add_pid_node(p) == proc_dir.fds \cup {p}


\* The file of a closed descriptor goes unless open itself; one that was opened gets its file.
ShownFds(p, mask) ==
    IF mask THEN add_pid_node(p) ELSE IF fd_in_use(p) THEN proc_dir.fds ELSE proc_dir.fds \ {p}

fd_dir_refresh(r) ==
    LET p == plook[r].pid
        uid == plook[r].uid[p]
    IN /\ plook[r].at = "masked"
       /\ proc_dir' = [proc_dir EXCEPT !.fds = ShownFds(p, plook[r].mask), !.owner[p] = uid]
       /\ Opens(r, p \in ShownFds(p, plook[r].mask) /\ Permits(r, uid))
       /\ UNCHANGED <<ptask, pfile, pleft>>

-----------------------------------------------------------------------------
(* Reading a file: read_snapshot and the snapshot operations. *)

\* A new text is made if there is none or the position is 0.
TakesText(f) == f.text = 0 \/ f.offset = 0

\* Copy the next piece from the text kept with the open file and move the position.
Piece(f) ==
    IF f.offset < Pieces THEN [f EXCEPT !.offset = @ + 1, !.got = Append(@, f.text)] ELSE f

read(r) ==
    /\ plook[r].at = "idle" /\ popen[r].what \notin {"none", "dir"} /\ pleft.calls > 0
    /\ pleft' = [pleft EXCEPT !.calls = @ - 1]
    /\ IF TakesText(popen[r])
       THEN /\ plook' = [plook EXCEPT ![r].at = "snapshot"]
            /\ UNCHANGED popen
       ELSE /\ popen' = [popen EXCEPT ![r] = Piece(@)]
            /\ UNCHANGED plook
    /\ UNCHANGED <<ptask, pfile, proc_dir, ptree>>

\* The text is made (give_text; -ENOENT if the task is gone): it is what is true now.
Gives(r, ok) ==
    /\ plook' = [plook EXCEPT ![r] = IF ok THEN [NoLook EXCEPT !.at = "text", !.moment = pleft.now + 1] ELSE NoLook]
    /\ pleft' = [pleft EXCEPT !.now = IF ok THEN @ + 1 ELSE @]

\* snapshot_text: what a generator writes, under the locks it needs.
snapshot_text(r) ==
    /\ plook[r].at = "snapshot" /\ popen[r].what = "tasks"
    /\ Gives(r, TRUE)
    /\ UNCHANGED <<ptask, pfile, proc_dir, popen, ptree>>

\* snapshot_status, snapshot_cmdline, snapshot_threads: whole, under the scheduler lock.
snapshot_status(r) ==
    /\ plook[r].at = "snapshot" /\ popen[r].what = "status"
    /\ Gives(r, Alive(popen[r].pid))
    /\ UNCHANGED <<ptask, pfile, proc_dir, popen, ptree>>

\* snapshot_maps: the regions are copied under the scheduler lock and described after it, all
\* under the tree lock.
copy_maps(r) ==
    LET p == popen[r].pid
    IN /\ plook[r].at = "snapshot" /\ popen[r].what = "maps" /\ ptree = {}
       /\ ptree' = {r}
       /\ plook' = [plook EXCEPT ![r].at = "maps", ![r].lived = Alive(p), ![r].node = Alive(p) /\ ptask[p].region]
       /\ UNCHANGED <<ptask, pfile, proc_dir, popen, pleft>>
snapshot_maps(r) ==
    /\ plook[r].at = "maps"
    /\ Gives(r, plook[r].lived)
    /\ ptree' = {}
    /\ UNCHANGED <<ptask, pfile, proc_dir, popen>>


\* snapshot_fd: the file gets a reference of the reader's own while it is described.
fd_slot_dup(p) == 1
dup_fd(r) ==
    LET p == popen[r].pid
        has == Alive(p) /\ ptask[p].fd
    IN /\ plook[r].at = "snapshot" /\ popen[r].what = "fd"
       /\ ptask' = [ptask EXCEPT ![p].refs = @ + (IF has THEN fd_slot_dup(p) ELSE 0)]
       /\ plook' = [plook EXCEPT ![r] = IF has THEN [@ EXCEPT !.at = "describe"] ELSE NoLook]
       /\ UNCHANGED <<pfile, proc_dir, popen, ptree, pleft>>
describe_file(r) ==
    /\ plook[r].at = "describe"
    /\ ptask' = [ptask EXCEPT ![popen[r].pid].refs = @ - fd_slot_dup(popen[r].pid)]
    /\ Gives(r, TRUE)
    /\ UNCHANGED <<pfile, proc_dir, popen, ptree>>

\* The second half of read_snapshot: the text is kept with the file and a piece of it copied.
read_snapshot(r) ==
    /\ plook[r].at = "text"
    /\ popen' = [popen EXCEPT ![r] = Piece([@ EXCEPT !.text = plook[r].moment])]
    /\ plook' = [plook EXCEPT ![r] = NoLook]
    /\ UNCHANGED <<ptask, pfile, proc_dir, ptree, pleft>>

\* lseek to the beginning, and close.
rewinds(r) ==
    /\ plook[r].at = "idle" /\ popen[r].text # 0 /\ popen[r].offset # 0
    /\ popen' = [popen EXCEPT ![r].offset = 0, ![r].got = <<>>, ![r].since = pleft.now]
    /\ UNCHANGED <<ptask, pfile, proc_dir, plook, ptree, pleft>>
closes(r) ==
    /\ plook[r].at = "idle" /\ popen[r].what # "none"
    /\ popen' = [popen EXCEPT ![r] = NoFile]
    /\ UNCHANGED <<ptask, pfile, proc_dir, plook, ptree, pleft>>

PfNext ==
    \/ \E p \in Pids :
          \/ task_starts(p) \/ task_ends(p) \/ task_closes(p) \/ task_opens(p)
          \/ region_pins(p) \/ region_cleared(p) \/ region_unpins(p)
          \/ \E uid \in Uids : task_setuid(p, uid)
    \/ file_removed
    \/ \E r \in PfReaders :
          \/ \E p \in Pids, what \in Kinds : look(r, p, what)
          \/ copy_tasks(r) \/ no_memory(r) \/ refresh(r) \/ found(r) \/ refuse_remove(r) \/ fd_mask(r) \/ fd_dir_refresh(r)
          \/ read(r) \/ snapshot_text(r) \/ snapshot_status(r) \/ copy_maps(r) \/ snapshot_maps(r) \/ dup_fd(r) \/ describe_file(r)
          \/ read_snapshot(r) \/ rewinds(r) \/ closes(r)

-----------------------------------------------------------------------------
(* Properties. *)

\* A node of /proc that somebody has open is not removed under them by a refresh.
OpenNodesStay ==
    \A r \in PfReaders : popen[r].what \notin {"none", "tasks"} =>
        /\ popen[r].pid \in proc_dir.pids
        /\ popen[r].what = "fd" => popen[r].pid \in proc_dir.fds

\* Whoever looks, after the refresh, for a process that lives throughout the look finds it, whatever started,
\* ended or is removed meanwhile, and the owner its nodes show is one it had during the look.
LivingAreFound ==
    \A r \in PfReaders : plook[r].at \in {"refreshed", "masked"} /\ plook[r].lived =>
        /\ plook[r].pid \in proc_dir.pids
        /\ proc_dir.owner[plook[r].pid] \in plook[r].owners

\* snapshot_maps and snapshot_fd look only at a file that is still there.
DescribedIsThere ==
    \A r \in PfReaders : /\ plook[r].at = "maps" /\ plook[r].node => pfile.exists
                         /\ plook[r].at = "describe" => ptask[popen[r].pid].refs > 0

\* A reader that takes a /proc file in pieces gets one moment of it, and one not older than its beginning.
OneMoment ==
    \A r \in PfReaders : \A i \in 1 .. Len(popen[r].got) :
        popen[r].got[i] = popen[r].got[1] /\ popen[r].got[i] > popen[r].since

\* What /proc promises its readers.
ProcFsSound == OpenNodesStay /\ LivingAreFound /\ DescribedIsThere /\ OneMoment
=============================================================================
