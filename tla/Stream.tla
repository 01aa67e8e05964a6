------------------------------- MODULE Stream -------------------------------
(***************************************************************************)
(* A pipe between threads of two processes (fs/pipe.c), the open files of  *)
(* its two ends (fs/file.c) and poll on them (fs/poll.c).  It is also one  *)
(* direction of a local stream, whose writing end shutdown can close while *)
(* the file stays open.                                                    *)
(*                                                                         *)
(* A step is one hold of the pipe's lock, of the poll lock, or one atomic  *)
(* access.  poll_notify under the pipe's lock is part of that hold.        *)
(*                                                                         *)
(* The bytes a writer hands over are marked 0, 1, 2 ... modulo Marks, in   *)
(* the order in which they get into the pipe: more marks than the buffer   *)
(* has bytes tell apart any two that could be taken for each other.        *)
(*                                                                         *)
(* Abstracted: other files a poll looks at; the counter of notifications   *)
(* becomes `fresh`, whether there was none since a poller noted it; a      *)
(* signal with a handler, a kill and a time limit all cut a sleep short    *)
(* and end the call (`sig`).                                               *)
(***************************************************************************)
EXTENDS Integers, Sequences, FiniteSets, TLC

CONSTANTS
    Writers, Readers,   \* the threads on either side
    Marks,              \* how many kinds of bytes are told apart
    Size,               \* PIPE_BUFFER_SIZE
    MaxWrite,           \* the most bytes sys_write passes on at once
    Local               \* is it a local stream?  (Otherwise a pipe)

ASSUME StreamAssumption ==
    /\ IsFiniteSet(Writers) /\ IsFiniteSet(Readers) /\ Writers \cap Readers = {}
    /\ Marks \in Nat \ {0}
    /\ Size \in Nat \ {0} /\ MaxWrite \in Nat \ {0} /\ Local \in BOOLEAN

VARIABLES
    ring, head, tail, count,    \* the pipe's buffer
    next,                       \* the mark of the next byte written to it
    reader_open, writer_open,
    freed,                      \* the pipe has been given back
    slot,       \* slot[s]: the descriptor of side s is in its process's table
    refs,       \* refs[s]: holders of the open file of side s
    shut,       \* local_shut of the writing side's file
    stage,      \* stage[s]: how far the closing of the end s has got
    pc,         \* pc[t]: where thread t is
    left,       \* left[t]: bytes it still has to write
    fresh,      \* fresh[t]: no notification since poll noted the counter
    asleep,     \* asleep[t]: on the pipe, in poll, or not
    sig,        \* sig[t]: something that cuts its sleep short
    eof         \* a reader has been told that this is the end

pipeVars == <<ring, head, tail, count, next, reader_open, writer_open, freed>>
fileVars == <<slot, refs, shut, stage>>
threadVars == <<pc, left, fresh, asleep, sig>>
vars == <<pipeVars, fileVars, threadVars, eof>>

-----------------------------------------------------------------------------
Sides == {"w", "r"}
Threads == Writers \cup Readers
Side(t) == IF t \in Writers THEN "w" ELSE "r"

Locations == {"out", "check", "write", "read", "shutdown", "shutting", "end",
              "note", "dup", "pcheck", "look", "relook", "psleep"}

TypeOK ==
    /\ ring \in [0 .. Size - 1 -> 0 .. Marks - 1] /\ next \in 0 .. Marks - 1
    /\ head \in 0 .. Size - 1 /\ tail \in 0 .. Size - 1 /\ count \in 0 .. Size
    /\ reader_open \in BOOLEAN /\ writer_open \in BOOLEAN /\ freed \in BOOLEAN
    /\ slot \in [Sides -> BOOLEAN]
    /\ refs \in [Sides -> 0 .. Cardinality(Threads) + 1]
    /\ shut \in BOOLEAN
    /\ stage \in [Sides -> {"open", "close", "notify", "free", "done"}]
    /\ pc \in [Threads -> Locations]
    /\ left \in [Threads -> 0 .. MaxWrite]
    /\ fresh \in [Threads -> BOOLEAN]
    /\ asleep \in [Threads -> {"no", "pipe", "poll"}]
    /\ sig \in [Threads -> BOOLEAN]
    /\ eof \in BOOLEAN

\* pipe_create and file_open_pipe, or file_open_local_pair
Init ==
    /\ ring = [i \in 0 .. Size - 1 |-> 0]
    /\ next = 0 /\ head = 0 /\ tail = 0 /\ count = 0
    /\ reader_open = TRUE /\ writer_open = TRUE /\ freed = FALSE
    /\ slot = [s \in Sides |-> TRUE]
    /\ refs = [s \in Sides |-> 1]
    /\ shut = FALSE
    /\ stage = [s \in Sides |-> "open"]
    /\ pc = [t \in Threads |-> "out"]
    /\ left = [t \in Threads |-> 0]
    /\ fresh = [t \in Threads |-> FALSE]
    /\ asleep = [t \in Threads |-> "no"]
    /\ sig = [t \in Threads |-> FALSE]
    /\ eof = FALSE

Goto(t, l) == pc' = [pc EXCEPT ![t] = l]

\* Is at l and may go on
At(t, l) == pc[t] = l /\ asleep[t] = "no"

\* sched_wakeup on the pipe, and poll_notify
Woken(a, w) == [t \in Threads |-> IF a[t] \in w THEN "no" ELSE a[t]]
Stale == [t \in Threads |-> FALSE]

-----------------------------------------------------------------------------
(* The pipe.                                                               *)

Least(a, b) == IF a < b THEN a ELSE b

Room == Size - count

\* Mutant of Filled: the ring does not come round
FilledStraight(k) ==
    [i \in 0 .. Size - 1 |->
        IF i - head \in 0 .. k - 1 THEN (next + i - head) % Marks ELSE ring[i]]

\* The ring with k more bytes put in at head
Filled(k) ==
    [i \in 0 .. Size - 1 |->
        LET j == (i - head) % Size IN IF j < k THEN (next + j) % Marks ELSE ring[i]]

\* pipe_write, from taking the lock to leaving it or going to sleep.  It
\* does not look at writer_open: it is the writer.  When all of it is in,
\* sys_write may have another piece
Write(t) ==
    /\ At(t, "write") /\ ~freed
    /\ LET k == IF reader_open THEN Least(left[t], Room) ELSE 0
           done == reader_open /\ k = left[t]
           over == ~reader_open \/ k = left[t] \/ sig[t]
       IN
       /\ ring' = Filled(k)
       /\ next' = (next + k) % Marks
       /\ head' = (head + k) % Size
       /\ count' = count + k
       /\ \E more \in IF done THEN 0 .. MaxWrite ELSE {0} :
              /\ left' = [left EXCEPT ![t] = IF over THEN more ELSE @ - k]
              /\ Goto(t, IF ~over THEN "write" ELSE IF more > 0 THEN "check" ELSE "end")
       /\ asleep' = [Woken(asleep, IF k > 0 THEN {"pipe", "poll"} ELSE {})
                     EXCEPT ![t] = IF over THEN "no" ELSE "pipe"]
       /\ fresh' = IF k > 0 THEN Stale ELSE fresh
    /\ UNCHANGED <<tail, reader_open, writer_open, freed, fileVars, sig, eof>>

\* pipe_read finds nothing: it sleeps, or is interrupted
ReadNothing(t) ==
    /\ At(t, "read") /\ ~freed /\ count = 0 /\ writer_open
    /\ Goto(t, IF sig[t] THEN "end" ELSE "read")
    /\ asleep' = [asleep EXCEPT ![t] = IF sig[t] THEN "no" ELSE "pipe"]
    /\ UNCHANGED <<pipeVars, fileVars, left, fresh, sig, eof>>

\* pipe_read takes what there is, up to the n bytes it wants; nothing and no
\* writer is the end of the file
Read(t) ==
    /\ At(t, "read") /\ ~freed /\ (count > 0 \/ ~writer_open)
    /\ \E n \in 1 .. Size :
       LET k == Least(n, count) IN
       /\ tail' = (tail + k) % Size
       /\ count' = count - k
       /\ eof' = (eof \/ k = 0)
       /\ asleep' = Woken(asleep, IF k > 0 THEN {"pipe", "poll"} ELSE {})
       /\ fresh' = IF k > 0 THEN Stale ELSE fresh
    /\ Goto(t, "end")
    /\ UNCHANGED <<ring, head, next, reader_open, writer_open, freed, fileVars, left, sig>>

\* Mutant of CloseEnd: nobody is woken
CloseQuietly(s) ==
    LET r == reader_open /\ s # "r"
        w == writer_open /\ s # "w"
    IN
    /\ stage[s] = "close" /\ ~freed
    /\ reader_open' = r /\ writer_open' = w
    /\ stage' = [stage EXCEPT ![s] = IF r \/ w THEN "notify" ELSE "free"]
    /\ UNCHANGED <<ring, head, tail, count, next, freed, slot, refs, shut, threadVars, eof>>

\* close_end, under the lock
CloseEnd(s) ==
    LET r == reader_open /\ s # "r"
        w == writer_open /\ s # "w"
    IN
    /\ stage[s] = "close" /\ ~freed
    /\ reader_open' = r /\ writer_open' = w
    /\ stage' = [stage EXCEPT ![s] = IF r \/ w THEN "notify" ELSE "free"]
    /\ asleep' = IF r \/ w THEN Woken(asleep, {"pipe"}) ELSE asleep
    /\ UNCHANGED <<ring, head, tail, count, next, freed, slot, refs, shut, pc, left,
                   fresh, sig, eof>>

\* ... and after it
CloseNotify(s) ==
    /\ stage[s] = "notify"
    /\ stage' = [stage EXCEPT ![s] = "done"]
    /\ asleep' = Woken(asleep, {"poll"})
    /\ fresh' = Stale
    /\ UNCHANGED <<pipeVars, slot, refs, shut, pc, left, sig, eof>>

CloseFree(s) ==
    /\ stage[s] = "free"
    /\ stage' = [stage EXCEPT ![s] = "done"]
    /\ freed' = TRUE
    /\ UNCHANGED <<ring, head, tail, count, next, reader_open, writer_open, slot, refs,
                   shut, threadVars, eof>>

-----------------------------------------------------------------------------
(* The open files and their descriptors.                                   *)

\* Mutant of Drop: every reference is taken for the last
DropAny(s, r) ==
    /\ refs' = [refs EXCEPT ![s] = r]
    /\ shut' = (shut \/ (Local /\ s = "w"))
    /\ stage' = IF (s = "w" /\ shut) \/ stage[s] # "open" THEN stage
                ELSE [stage EXCEPT ![s] = "close"]

\* file_close brings the references of side s to r; the last one closes the
\* end, unless shutdown has
Drop(s, r) ==
    /\ refs' = [refs EXCEPT ![s] = r]
    /\ shut' = (shut \/ (Local /\ r = 0 /\ s = "w"))
    /\ stage' = IF r > 0 \/ (s = "w" /\ shut) THEN stage
                ELSE [stage EXCEPT ![s] = "close"]

\* sys_close, by any thread, or the end of the process
Close(s) ==
    /\ slot[s]
    /\ slot' = [slot EXCEPT ![s] = FALSE]
    /\ Drop(s, refs[s] - 1)
    /\ UNCHANGED <<pipeVars, threadVars, eof>>

\* A call looks its file up (fd_to_file) and keeps a reference to it
Take(t, l) ==
    /\ At(t, "out") /\ slot[Side(t)]
    /\ refs' = [refs EXCEPT ![Side(t)] = @ + 1]
    /\ Goto(t, l)
    /\ UNCHANGED <<pipeVars, slot, shut, stage, fresh, asleep, sig, eof>>

StartWrite(t) ==
    /\ t \in Writers
    /\ Take(t, "check")
    /\ \E n \in 1 .. MaxWrite : left' = [left EXCEPT ![t] = n]

StartRead(t) == t \in Readers /\ Take(t, "read") /\ UNCHANGED left

StartShutdown(t) ==
    Local /\ t \in Writers /\ Take(t, "shutdown") /\ UNCHANGED left

\* file_write looks whether the stream has been shut down
CheckShut(t) ==
    /\ At(t, "check")
    /\ Goto(t, IF shut THEN "end" ELSE "write")     \* (never, for a pipe)
    /\ left' = [left EXCEPT ![t] = IF shut THEN 0 ELSE @]
    /\ UNCHANGED <<pipeVars, fileVars, fresh, asleep, sig, eof>>

\* file_local_shutdown: the first one closes the end
Shutdown(t) ==
    /\ At(t, "shutdown")
    /\ shut' = TRUE
    /\ stage' = IF shut THEN stage ELSE [stage EXCEPT !["w"] = "close"]
    /\ Goto(t, IF shut THEN "end" ELSE "shutting")
    /\ UNCHANGED <<pipeVars, slot, refs, left, fresh, asleep, sig, eof>>

EndShutdown(t) ==
    /\ At(t, "shutting") /\ stage["w"] = "done"
    /\ Goto(t, "end")
    /\ UNCHANGED <<pipeVars, fileVars, left, fresh, asleep, sig, eof>>

\* The call is over (syscall_handler, or task_end of a thread killed in it):
\* process_call_files_release
EndCall(t) ==
    /\ At(t, "end")
    /\ Drop(Side(t), refs[Side(t)] - 1)
    /\ Goto(t, "out")
    /\ sig' = [sig EXCEPT ![t] = FALSE]
    /\ UNCHANGED <<pipeVars, slot, left, fresh, asleep, eof>>

\* A signal arrives, or a kill, or the time is up: the sleep ends
Interrupt(t) ==
    /\ pc[t] # "out" /\ ~sig[t]
    /\ sig' = [sig EXCEPT ![t] = TRUE]
    /\ asleep' = [asleep EXCEPT ![t] = "no"]
    /\ UNCHANGED <<pipeVars, fileVars, pc, left, fresh, eof>>

\* Killed in its sleep: sleep_on does not return, and task_end releases what
\* the call held
Killed(t) ==
    /\ pc[t] \in {"write", "read", "note"} /\ asleep[t] = "no" /\ sig[t]
    /\ left' = [left EXCEPT ![t] = 0]
    /\ Goto(t, IF pc[t] = "note" THEN "out" ELSE "end")
    /\ sig' = [sig EXCEPT ![t] = pc[t] # "note"]
    /\ UNCHANGED <<pipeVars, fileVars, fresh, asleep, eof>>

-----------------------------------------------------------------------------
(* poll_wait, on the one file of the thread's side.                        *)

StartPoll(t) ==
    /\ At(t, "out")
    /\ Goto(t, "note")
    /\ UNCHANGED <<pipeVars, fileVars, left, fresh, asleep, sig, eof>>

\* The counter is noted
PollNote(t) ==
    /\ At(t, "note")
    /\ fresh' = [fresh EXCEPT ![t] = TRUE]
    /\ Goto(t, "dup")
    /\ UNCHANGED <<pipeVars, fileVars, left, asleep, sig, eof>>

\* scan: the file is looked up; without one it is POLLNVAL
PollDup(t) ==
    /\ At(t, "dup")
    /\ refs' = [refs EXCEPT ![Side(t)] = IF slot[Side(t)] THEN @ + 1 ELSE @]
    /\ Goto(t, IF slot[Side(t)] THEN "pcheck" ELSE "out")
    /\ sig' = [sig EXCEPT ![t] = slot[Side(t)] /\ @]
    /\ UNCHANGED <<pipeVars, slot, shut, stage, left, fresh, asleep, eof>>

\* file_poll: what has been shut down is not looked at
PollCheck(t) ==
    /\ At(t, "pcheck")
    /\ Goto(t, IF Local /\ Side(t) = "w" /\ shut THEN "relook" ELSE "look")
    /\ UNCHANGED <<pipeVars, fileVars, left, fresh, asleep, sig, eof>>

\* pipe_poll
Ready(s) ==
    IF s = "r" THEN count > 0 \/ ~writer_open
    ELSE ~reader_open \/ count < Size

PollLook(t) ==
    /\ At(t, "look") /\ ~freed
    /\ Goto(t, IF Ready(Side(t)) THEN "end" ELSE "relook")
    /\ UNCHANGED <<pipeVars, fileVars, left, fresh, asleep, sig, eof>>

\* Nothing yet: scan gives its reference back
PollDrop(t) ==
    /\ At(t, "relook")
    /\ Drop(Side(t), refs[Side(t)] - 1)
    /\ Goto(t, IF sig[t] THEN "out" ELSE "psleep")
    /\ sig' = [sig EXCEPT ![t] = FALSE]
    /\ UNCHANGED <<pipeVars, slot, left, fresh, asleep, eof>>

\* Mutant of PollSleep: it does not look whether there was a notification
PollSleepAnyway(t) ==
    /\ At(t, "psleep")
    /\ Goto(t, "note")
    /\ asleep' = [asleep EXCEPT ![t] = IF ~sig[t] THEN "poll" ELSE "no"]
    /\ UNCHANGED <<pipeVars, fileVars, left, fresh, sig, eof>>

\* Asleep only if nothing was notified since the counter was noted
PollSleep(t) ==
    /\ At(t, "psleep")
    /\ Goto(t, "note")
    /\ asleep' = [asleep EXCEPT ![t] = IF fresh[t] /\ ~sig[t] THEN "poll" ELSE "no"]
    /\ UNCHANGED <<pipeVars, fileVars, left, fresh, sig, eof>>

-----------------------------------------------------------------------------
\* A call that has begun goes on
Work(t) ==
    \/ CheckShut(t) \/ Write(t) \/ ReadNothing(t) \/ Read(t)
    \/ Shutdown(t) \/ EndShutdown(t) \/ EndCall(t) \/ Killed(t)
    \/ PollNote(t) \/ PollDup(t) \/ PollCheck(t) \/ PollLook(t) \/ PollDrop(t)
    \/ PollSleep(t)

Closing(s) == CloseEnd(s) \/ CloseNotify(s) \/ CloseFree(s)

Demand ==
    \/ \E s \in Sides : Close(s)
    \/ \E t \in Threads : \/ StartWrite(t) \/ StartRead(t) \/ StartShutdown(t)
                          \/ StartPoll(t) \/ Interrupt(t)

Next == Demand \/ (\E s \in Sides : Closing(s)) \/ \E t \in Threads : Work(t)

Spec == Init /\ [][Next]_vars

-----------------------------------------------------------------------------
(* What makes it correct.                                                  *)

\* A reader sleeps in pipe_read only while the pipe is empty and the write
\* end is open; a writer in pipe_write only while it is full and the read end
\* is open ("Close the read end. Wakes the writer")
NobodyStuck ==
    \A t \in Threads : asleep[t] = "pipe" =>
        IF pc[t] = "read" THEN count = 0 /\ writer_open
                          ELSE count = Size /\ reader_open

\* A poller whose descriptor is open sleeps only while its end is not ready,
\* or a notification is about to come (poll_wait, poll_notify)
PollerNotStuck ==
    \A t \in Threads :
        asleep[t] = "poll" /\ slot[Side(t)] /\ ~(Local /\ Side(t) = "w" /\ shut)
            => ~Ready(Side(t)) \/ \E s \in Sides : stage[s] = "notify"

\* Nobody sleeps, in read, write or poll, for what is already there
\* (pipe_read, pipe_write, poll_wait)
NobodyLeftAsleep == NobodyStuck /\ PollerNotStuck

\* Nobody is inside a pipe that has been given back, and only one end gave
\* it: a call's reference to its file keeps the pipe ("another thread's close
\* cannot free them under it")
FreedUnused ==
    /\ freed => \A t \in Threads : pc[t] \notin {"write", "read", "look"}
    /\ freed => \A s \in Sides : stage[s] \in {"notify", "done"}

\* Once a reader has been told that this is the end, nothing more comes
\* ("nothing more will be written")
EndIsEnd == [][eof => count' <= count]_vars

\* The ring is the first-in, first-out stream it should be
Contents == [i \in 1 .. count |-> ring[(tail + i - 1) % Size]]
Abstract == INSTANCE AbstractStream WITH buf <- Contents
IsAStream == Abstract!Spec

-----------------------------------------------------------------------------
(* Liveness.                                                               *)

Fairness ==
    /\ \A t \in Threads : WF_vars(Work(t))
    /\ \A s \in Sides : WF_vars(Closing(s))
FairSpec == Spec /\ Fairness

\* "A reader at the other end of a pipe must see end-of-file as soon as the
\* writer dies" (task_end), in read or in poll; and a writer comes to see
\* that its reader has gone (poll leaves out a direction that was shut down)
EndIsSeen ==
    /\ \A t \in Readers : pc[t] # "out" /\ ~writer_open ~> pc[t] = "out"
    /\ \A t \in Writers : pc[t] # "out" /\ ~reader_open /\ ~shut ~> pc[t] = "out"

\* The end of the stream comes to whoever waits for it, and is the end
\* (pipe_read, pipe_close_writer, pipe_close_reader)
StreamEnds == EndIsEnd /\ EndIsSeen

-----------------------------------------------------------------------------
\* Which thread of a side it is makes no difference (for TLC)
StreamSymmetry == Permutations(Writers) \cup Permutations(Readers)

=============================================================================
