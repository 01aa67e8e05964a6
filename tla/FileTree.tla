------------------------------ MODULE FileTree ------------------------------
(***************************************************************************)
(* The tree of nodes of vfs.c and the calls of syscall.c that change it,   *)
(* for directories kept in memory.  Every operation runs under the tree    *)
(* lock from its lookup to its last change, so each is one step; what      *)
(* lasts between steps are the holds on nodes: open files and working      *)
(* directories.  A mode is what everyone but the owner and root may do     *)
(* (all or nothing) and the sticky bit; a path is a sequence of names.     *)
(***************************************************************************)
EXTENDS Naturals, Sequences, FiniteSets

CONSTANTS
    FtProcs,     \* processes
    FtUid,       \* the user of a process; 0 is root
    FtNodes,     \* memory for nodes: 1 .. FtNodes; 1 is the root
    FtNames,     \* names of entries
    FtMaxLinks,  \* VFS_MAX_LINKS
    FtCalls,     \* bound: calls made
    MfBytes,      \* the bytes programs write; 0 is the zero byte
    MfInitrd,     \* what the initial ram disk has for the file
    MfCapacity,   \* the first capacity of a buffer (64 in the code)
    MfMaxSize,    \* bound: the largest size asked for
    MfChunk,      \* zeros written at a time by a growing truncate (4096)
    MfWrites      \* bound: writes and truncations made

VARIABLES
    vnode,     \* the nodes
    cwd,       \* process_t.cwd (the root: 1, which is not counted)
    opened,    \* the node each process has open, or 0
    ftCalls,   \* calls made (bound)
    ramdisk,   \* the bytes of the initial ram disk
    data,      \* the node's buffer (owns_data), Unowned before there is one
    size,      \* vnode_t.size
    says,      \* what the file is to read as: the writes applied to a sequence
    writes     \* writes and truncations made (bound)

ftVars == <<vnode, cwd, opened, ftCalls>>

Root == 1
Nodes == 1 .. FtNodes
Up == ".."

NoNode == [type |-> "free", parent |-> 0, name |-> Up, uid |-> 0, others |-> FALSE, sticky |-> FALSE,
           open_count |-> 0, mount |-> FALSE, covered |-> 0, linked |-> FALSE, target |-> <<>>]

FtInit ==
    /\ vnode = [n \in Nodes |-> IF n = Root THEN [NoNode EXCEPT !.type = "dir", !.others = TRUE, !.linked = TRUE]
                                ELSE NoNode]
    /\ cwd = [p \in FtProcs |-> Root]
    /\ opened = [p \in FtProcs |-> 0]
    /\ ftCalls = 0

-----------------------------------------------------------------------------
(* Lookups. *)

\* The children of a directory, and the one of a name (0: none).
children(d) == {n \in Nodes : vnode[n].linked /\ vnode[n].parent = d}
find_child(d, name) ==
    LET found == {n \in children(d) : vnode[n].name = name}
    IN IF found = {} THEN 0 ELSE CHOOSE n \in found : TRUE

\* auth_permits, for reading, writing and searching alike.
auth_permits(uid, n) == uid = 0 \/ uid = vnode[n].uid \/ vnode[n].others

\* auth_may_remove: in a sticky directory each takes away only their own.
auth_may_remove(uid, d, n) ==
    \/ uid = 0
    \/ /\ auth_permits(uid, d)
       /\ vnode[d].sticky => uid \in {vnode[n].uid, vnode[d].uid}

\* At most VFS_MAX_LINKS links per walk.
MayFollow(links) == links < FtMaxLinks

\* walk: from node n, what is left of the path, the links followed so far.
\* 0 when there is no such node or no right to look for it.
walk(start, whole, follow_last, uid) ==
    LET from[n \in Nodes, path \in Seq(FtNames \cup {Up}), links \in Nat] ==
            IF path = <<>> THEN n
            ELSE IF vnode[n].type # "dir" \/ ~auth_permits(uid, n) THEN 0
            ELSE IF Head(path) = Up
            THEN from[IF vnode[n].parent = 0 THEN n ELSE vnode[n].parent, Tail(path), links]
            ELSE LET c == find_child(n, Head(path)) IN
                 IF c = 0 THEN 0
                 ELSE IF vnode[c].type = "link" /\ (Len(path) > 1 \/ follow_last)
                 THEN IF MayFollow(links) THEN from[n, vnode[c].target \o Tail(path), links + 1] ELSE 0
                 ELSE from[c, Tail(path), links]
    IN from[start, whole, 0]

Lookup(p, path, follow_last) == walk(cwd[p], path, follow_last, FtUid[p])

\* vfs_find_parent_as: the directory of the last name, which must be searchable.
find_parent(p, path) ==
    LET d == walk(cwd[p], SubSeq(path, 1, Len(path) - 1), TRUE, FtUid[p])
    IN IF d = 0 \/ vnode[d].type # "dir" \/ ~auth_permits(FtUid[p], d) THEN 0 ELSE d

\* The paths a call is made with, and those that can name a new entry.
Paths == UNION {[1 .. k -> FtNames \cup {Up}] : k \in 1 .. 2}
Leaf(path) == path[Len(path)]
EntryPaths == {path \in Paths : Leaf(path) # Up}
\* Short ones are enough where a call looks one node up and changes only it.
ShortPaths == {path \in Paths : Len(path) = 1}
Targets == ShortPaths
NewPaths == EntryPaths \cup [1 .. 3 -> FtNames]

\* vfs_path_of: the names from the root down.
vfs_path_of(n) ==
    LET path[k \in Nodes] == IF vnode[k].parent = 0 THEN <<>> ELSE Append(path[vnode[k].parent], vnode[k].name)
    IN path[n]

-----------------------------------------------------------------------------
(* Changes. *)

FtBegin == ftCalls < FtCalls /\ ftCalls' = ftCalls + 1

FreeNodes == {n \in Nodes : vnode[n].type = "free"}
NewNode == CHOOSE n \in FreeNodes : \A k \in FreeNodes : n <= k

\* vfs_attach: a node of the caller's.
vfs_attach(d, name, type, uid) ==
    [NoNode EXCEPT !.type = type, !.parent = d, !.name = name, !.uid = uid, !.linked = TRUE]

\* vfs_create, called where the caller may write: the name must be new.
MayCreate(p, path) ==
    LET d == find_parent(p, path) IN
    /\ d # 0
    /\ auth_permits(FtUid[p], d)
    /\ find_child(d, Leaf(path)) = 0
    /\ FreeNodes # {}

\* mkdir, and the O_CREAT of an open.
sys_mkdir(p, path, type) ==
    /\ FtBegin
    /\ MayCreate(p, path)
    /\ vnode' = [vnode EXCEPT ![NewNode] = vfs_attach(find_parent(p, path), Leaf(path), type, FtUid[p])]
    /\ UNCHANGED <<cwd, opened>>

\* symlink: the target is stored as it is given.
sys_symlink(p, path, target) ==
    /\ FtBegin
    /\ MayCreate(p, path)
    /\ vnode' = [vnode EXCEPT ![NewNode] =
                   [vfs_attach(find_parent(p, path), Leaf(path), "link", FtUid[p]) EXCEPT !.target = target]]
    /\ UNCHANGED <<cwd, opened>>


\* vfs_unlink: not a mount point, not with entries, not held.
MayUnlinkNode(n) == ~vnode[n].mount /\ children(n) = {} /\ vnode[n].open_count = 0

sys_unlink(p, path) ==
    LET d == find_parent(p, path) IN
    /\ FtBegin
    /\ d # 0
    /\ find_child(d, Leaf(path)) # 0
    /\ auth_may_remove(FtUid[p], d, find_child(d, Leaf(path)))
    /\ MayUnlinkNode(find_child(d, Leaf(path)))
    /\ vnode' = [vnode EXCEPT ![find_child(d, Leaf(path))] = NoNode]
    /\ UNCHANGED <<cwd, opened>>

\* n is d or above d.
Above(n, d) ==
    LET above[k \in Nodes] == n = k \/ (vnode[k].parent # 0 /\ above[vnode[k].parent])
    IN above[d]

\* Mutant of MayMove: the directory's own subtree is not looked at.
MoveAnywhere(n, d) == n # d

\* vfs_rename: a directory is not moved into itself or anything below it.
MayMove(n, d) == ~Above(n, d)

\* rename: a working directory stays where it is, and nothing is replaced.
sys_rename(p, old, new) ==
    LET d == find_parent(p, old)
        e == find_parent(p, new) IN
    /\ FtBegin
    /\ d # 0 /\ e # 0
    /\ LET n == find_child(d, Leaf(old)) IN
       /\ n # 0
       /\ auth_may_remove(FtUid[p], d, n)
       /\ auth_permits(FtUid[p], e)
       /\ ~(vnode[n].open_count > 0 /\ vnode[n].type = "dir")
       /\ ~vnode[n].mount
       /\ find_child(e, Leaf(new)) = 0
       /\ MayMove(n, e)
       /\ vnode' = [vnode EXCEPT ![n].parent = e, ![n].name = Leaf(new)]
    /\ UNCHANGED <<cwd, opened>>

\* chmod, by the owner or root.
sys_chmod(p, path, others, sticky) ==
    LET n == Lookup(p, path, TRUE) IN
    /\ FtBegin
    /\ n # 0
    /\ FtUid[p] \in {0, vnode[n].uid}
    /\ vnode' = [vnode EXCEPT ![n].others = others, ![n].sticky = sticky]
    /\ UNCHANGED <<cwd, opened>>

\* chown, by root.
sys_chown(p, path, uid) ==
    LET n == Lookup(p, path, TRUE) IN
    /\ FtBegin
    /\ FtUid[p] = 0
    /\ n # 0
    /\ vnode' = [vnode EXCEPT ![n].uid = uid]
    /\ UNCHANGED <<cwd, opened>>

\* A node is held: counted up before what was held is let go.
Held(nodes, n, by) == IF n \in {0, Root} THEN nodes ELSE [nodes EXCEPT ![n].open_count = @ + by]
LetGo(nodes, n) == IF n \in {0, Root} THEN nodes ELSE [nodes EXCEPT ![n].open_count = @ - 1]

\* chdir (task_set_cwd): the new directory counts as open, the old one no longer.
sys_chdir(p, path) ==
    LET n == Lookup(p, path, TRUE) IN
    /\ FtBegin
    /\ n # 0
    /\ vnode[n].type = "dir"
    /\ auth_permits(FtUid[p], n)
    /\ vnode' = LetGo(Held(vnode, n, 1), cwd[p])
    /\ cwd' = [cwd EXCEPT ![p] = n]
    /\ UNCHANGED opened

\* open of what is there, and the last close of it.
sys_open_node(p, path) ==
    LET n == Lookup(p, path, TRUE) IN
    /\ FtBegin
    /\ opened[p] = 0
    /\ n \notin {0, Root}
    /\ auth_permits(FtUid[p], n)
    /\ vnode' = Held(vnode, n, 1)
    /\ opened' = [opened EXCEPT ![p] = n]
    /\ UNCHANGED cwd

close_node(p) ==
    /\ opened[p] # 0
    /\ vnode' = LetGo(vnode, opened[p])
    /\ opened' = [opened EXCEPT ![p] = 0]
    /\ UNCHANGED <<cwd, ftCalls>>

\* The process ends: its working directory is let go (its files are closed by
\* close_node), and another process takes its place.
exit_cwd(p) ==
    /\ cwd[p] # Root
    /\ vnode' = LetGo(vnode, cwd[p])
    /\ cwd' = [cwd EXCEPT ![p] = Root]
    /\ UNCHANGED <<opened, ftCalls>>

\* vfs_mount_dir hides an unused directory of that name, if there is one.
MayHide(n) == n # 0 => /\ vnode[n].type = "dir"
                       /\ ~vnode[n].mount
                       /\ vnode[n].open_count = 0
                       /\ children(n) = {}

vfs_mount_dir(d, name) ==
    LET hidden == find_child(d, name)
        made == [vfs_attach(d, name, "dir", 0) EXCEPT !.mount = TRUE, !.covered = hidden, !.others = TRUE] IN
    /\ FtBegin
    /\ vnode[d].linked /\ vnode[d].type = "dir"
    /\ MayHide(hidden)
    /\ FreeNodes # {}
    /\ vnode' = IF hidden = 0 THEN [vnode EXCEPT ![NewNode] = made]
                ELSE [vnode EXCEPT ![NewNode] = [made EXCEPT !.uid = vnode[hidden].uid, !.others = vnode[hidden].others,
                                                             !.sticky = vnode[hidden].sticky],
                                   ![hidden].linked = FALSE]
    /\ UNCHANGED <<cwd, opened>>

\* vfs_unmount_dir brings back what was hidden.
vfs_unmount_dir(n) ==
    /\ FtBegin
    /\ vnode[n].mount
    /\ vnode[n].open_count = 0
    /\ children(n) = {}
    /\ vnode' = [k \in Nodes |-> IF k = n THEN NoNode
                                 ELSE IF k = vnode[n].covered THEN [vnode[k] EXCEPT !.linked = TRUE]
                                 ELSE vnode[k]]
    /\ UNCHANGED <<cwd, opened>>

FtNext ==
    \/ \E p \in FtProcs, path \in EntryPaths :
          \/ \E type \in {"dir", "file"} : sys_mkdir(p, path, type)
          \/ \E target \in Targets : sys_symlink(p, path, target)
          \/ sys_unlink(p, path)
    \/ \E p \in FtProcs, name \in FtNames, new \in NewPaths : sys_rename(p, <<name>>, new)
    \/ \E p \in FtProcs, path \in Paths : sys_chdir(p, path)
    \/ \E p \in FtProcs, path \in ShortPaths :
          \/ sys_open_node(p, path)
          \/ \E mode \in {<<TRUE, TRUE>>, <<FALSE, FALSE>>} : sys_chmod(p, path, mode[1], mode[2])
          \/ \E q \in FtProcs : sys_chown(p, path, FtUid[q])
    \/ \E p \in FtProcs : close_node(p) \/ exit_cwd(p)
    \/ \E d \in Nodes : (\E name \in FtNames : vfs_mount_dir(d, name)) \/ vfs_unmount_dir(d)

-----------------------------------------------------------------------------
(* Properties. *)

\* n is reached from the root: its chain of parents is linked and ends there.
ReachesRoot(n, most) ==
    LET reaches[k \in Nodes, steps \in Nat] ==
            \/ k = Root
            \/ /\ steps > 0
               /\ vnode[k].linked
               /\ vnode[k].parent \in Nodes
               /\ reaches[vnode[k].parent, steps - 1]
    IN reaches[n, most]

\* The nodes form one tree whatever order of creations, moves, mounts and
\* removals: each linked node hangs below the root under directories, no two
\* entries of a directory share a name, and a hidden directory is just what
\* one mount point covers.
TreeIsATree ==
    /\ \A n \in Nodes : vnode[n].linked => /\ ReachesRoot(n, FtNodes)
                                           /\ n # Root => vnode[vnode[n].parent].type = "dir"
    /\ \A n, k \in Nodes : /\ vnode[n].linked /\ vnode[k].linked /\ n # k
                           => <<vnode[n].parent, vnode[n].name>> # <<vnode[k].parent, vnode[k].name>>
    /\ \A n \in Nodes : (vnode[n].type # "free" /\ ~vnode[n].linked)
                        <=> Cardinality({k \in Nodes : vnode[k].covered = n}) = 1

\* A node someone holds (an open file, a working directory) is in the tree
\* and counted once for each hold, so the path of a working directory leads
\* back to it (getcwd) until it is let go.
HeldNodesStay ==
    /\ \A n \in Nodes \ {Root} : vnode[n].open_count =
          Cardinality({p \in FtProcs : cwd[p] = n}) + Cardinality({p \in FtProcs : opened[p] = n})
    /\ \A p \in FtProcs : walk(Root, vfs_path_of(cwd[p]), TRUE, 0) = cwd[p]
    /\ \A p \in FtProcs : opened[p] # 0 => vnode[opened[p]].linked

\* Both.
FileTreeSound == TreeIsATree /\ HeldNodesStay

-----------------------------------------------------------------------------
(* The contents of a file kept in memory: bytes that belong to the initial *)
(* ram disk until the first write, then a buffer the node owns, which      *)
(* grows by doubling and is not cleared when the file is cut.  One file,   *)
(* apart from the tree; each operation runs under the tree lock.           *)

mfVars == <<ramdisk, data, size, says, writes>>

Unowned == <<>>
Garbage == 99   \* memory kmalloc gives is as it was left

MfInit ==
    /\ ramdisk = MfInitrd
    /\ data = Unowned
    /\ size = Len(MfInitrd)
    /\ says = MfInitrd
    /\ writes = 0

owns_data == data # Unowned
Bytes == IF owns_data THEN data ELSE ramdisk

\* The capacity for `end` bytes: doubled until it is enough.
Doubled(capacity, end) ==
    LET enough[c \in Nat] == IF c >= end /\ c >= size THEN c ELSE enough[2 * c] IN enough[capacity]

\* A buffer with room for `end` bytes, with the contents so far.
Grown(end) ==
    IF owns_data /\ end <= Len(data) THEN data
    ELSE LET old == IF owns_data THEN Len(data) ELSE 0
             new == Doubled(IF old < MfCapacity THEN MfCapacity ELSE old, end)
         IN [i \in 1 .. new |-> IF i <= size THEN Bytes[i] ELSE Garbage]

\* Mutant of GapZeroed: what was there before a cut shows again.
GapAsItIs(buffer, offset) == buffer

\* A gap reads as zeros.
GapZeroed(buffer, offset) == [i \in DOMAIN buffer |-> IF size < i /\ i <= offset THEN 0 ELSE buffer[i]]

\* vfs_write_unlocked: the buffer after the bytes are put at `offset`.
Written(offset, bytes) ==
    LET b == GapZeroed(Grown(offset + Len(bytes)), offset)
    IN [i \in DOMAIN b |-> IF offset < i /\ i <= offset + Len(bytes) THEN bytes[i - offset] ELSE b[i]]

\* The reference: a sequence with the bytes laid over it.
Laid(s, offset, bytes) ==
    [i \in 1 .. (IF offset + Len(bytes) > Len(s) THEN offset + Len(bytes) ELSE Len(s)) |->
        IF offset < i /\ i <= offset + Len(bytes) THEN bytes[i - offset]
        ELSE IF i <= Len(s) THEN s[i] ELSE 0]

MfBegin == writes < MfWrites /\ writes' = writes + 1

vfs_write(offset, bytes) ==
    /\ MfBegin
    /\ offset + Len(bytes) <= MfMaxSize
    /\ data' = Written(offset, bytes)
    /\ size' = IF offset + Len(bytes) > size THEN offset + Len(bytes) ELSE size
    /\ says' = Laid(says, offset, bytes)
    /\ UNCHANGED ramdisk

\* vfs_truncate_unlocked, shorter: only the size changes.
vfs_cut(n) ==
    /\ MfBegin
    /\ n < size
    /\ size' = n
    /\ says' = SubSeq(says, 1, n)
    /\ UNCHANGED <<ramdisk, data>>

\* Longer: zeros are written a chunk at a time, each a write.  When memory
\* runs out on the way the file is cut back to what it was.
Zeroed(buffer, start, n) ==
    LET zeros[at \in Nat] ==
            IF at >= n THEN {}
            ELSE LET end == IF at + MfChunk < n THEN at + MfChunk ELSE n IN (at + 1 .. end) \cup zeros[end]
    IN [i \in DOMAIN buffer |-> IF i \in zeros[start] THEN 0 ELSE buffer[i]]

vfs_extend(n) ==
    /\ MfBegin
    /\ n > size
    /\ n <= MfMaxSize
    /\ data' = Zeroed(Grown(n), size, n)
    /\ size' = n
    /\ says' = Laid(says, n, <<>>)
    /\ UNCHANGED ramdisk

extend_fails(n, done) ==
    /\ MfBegin
    /\ n > size /\ n <= MfMaxSize
    /\ done \in size .. n - 1
    /\ data' = IF done = size THEN data ELSE Zeroed(Grown(done), size, done)
    /\ UNCHANGED <<ramdisk, size, says>>

MfNext ==
    \/ \E offset \in 0 .. MfMaxSize, k \in 1 .. 2 : \E bytes \in [1 .. k -> MfBytes] : vfs_write(offset, bytes)
    \/ \E n \in 0 .. MfMaxSize : vfs_cut(n) \/ vfs_extend(n) \/ \E done \in 0 .. MfMaxSize : extend_fails(n, done)

\* vfs_read: what the node holds up to its size is what was written, zeros
\* where nothing was, through every regrowth after a cut; and the initial ram
\* disk, which the node's first contents are, is never written.
ReadsAsWritten ==
    /\ size = Len(says)
    /\ \A i \in 1 .. size : Bytes[i] = says[i]
    /\ ramdisk = MfInitrd
=============================================================================
