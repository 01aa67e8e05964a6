---------------------------- MODULE StreamProofs ----------------------------
(***************************************************************************)
(* What a pipe promises, for any number of readers and writers and any     *)
(* size: nobody is inside it once it has been given back, nobody sleeps    *)
(* for what is there, the end is the end, and the bytes come out as they   *)
(* went in.  (A local stream is not one of the two: shutdown closes the    *)
(* end under those who hold its file.)                                     *)
(*                                                                         *)
(* Everything rests on RefsCount: the references of an open file are its   *)
(* slot and the calls that are under way on it, so that an end is closed   *)
(* only when nobody is in a call on it.                                    *)
(***************************************************************************)
EXTENDS Stream, FiniteSetTheorems, SequenceTheorems, TLAPS

-----------------------------------------------------------------------------
\* A call there has a reference to its file
Holding == {"check", "write", "read", "shutdown", "shutting", "end",
            "pcheck", "look", "relook"}

Holders(s) == {t \in Threads : Side(t) = s /\ pc[t] \in Holding}

\* The references of a file are its slot and the calls under way on it
RefsCount ==
    \A s \in Sides :
        refs[s] = Cardinality(Holders(s)) + (IF slot[s] THEN 1 ELSE 0)

\* An end is open until its last reference goes, and is then closed, in order
Stages ==
    /\ ~shut
    /\ \A s \in Sides : refs[s] > 0 <=> stage[s] = "open"
    /\ reader_open <=> stage["r"] \in {"open", "close"}
    /\ writer_open <=> stage["w"] \in {"open", "close"}

\* The one that closes last, and it alone, gives the pipe back
Frees ==
    /\ freed => \A s \in Sides : stage[s] \in {"notify", "done"}
    /\ \A s, o \in Sides : stage[s] = "free" /\ o # s => stage[o] \in {"notify", "done"}

\* A thread is where its side can be, and asleep where it can sleep
Places ==
    \A t \in Threads :
        /\ pc[t] \notin {"shutdown", "shutting"}
        /\ pc[t] \in {"check", "write"} => t \in Writers
        /\ pc[t] = "read" => t \in Readers
        /\ asleep[t] = "pipe" => pc[t] \in {"read", "write"}
        /\ asleep[t] = "poll" => pc[t] = "note"

\* A poller that sleeps, or is about to, has missed nothing
PollersWait ==
    \A t \in Threads :
        (asleep[t] = "poll" \/ (pc[t] \in {"relook", "psleep"} /\ fresh[t])) /\ slot[Side(t)]
            => ~Ready(Side(t)) \/ \E s \in Sides : stage[s] = "notify"

EofInv == eof => ~writer_open

RingInv == head = (tail + count) % Size

PipeInv ==
    /\ TypeOK /\ RefsCount /\ Stages /\ Frees /\ Places
    /\ NobodyStuck /\ PollersWait /\ EofInv /\ RingInv

-----------------------------------------------------------------------------
(* Helpers: remainders, sides and the counting of holders.                 *)

\* One turn round a ring of n, forwards or backwards
LEMMA Turn ==
    ASSUME NEW n \in Nat \ {0}, NEW x \in Int
    PROVE  /\ x % n \in 0 .. n - 1
           /\ 0 <= x /\ x < n => x % n = x
           /\ n <= x /\ x < n + n => x % n = x - n
           /\ -n <= x /\ x < 0 => x % n = x + n
BY SMT

\* The numbers of the pipe, and how they go round
LEMMA Numbers ==
    /\ Size \in Nat /\ Size > 0 /\ Marks \in Nat /\ Marks > 0 /\ MaxWrite \in Nat
    /\ \A x \in Int : /\ x % Size \in 0 .. Size - 1 /\ x % Marks \in 0 .. Marks - 1
                      /\ 0 <= x /\ x < Size => x % Size = x
                      /\ Size <= x /\ x < Size + Size => x % Size = x - Size
                      /\ -Size <= x /\ x < 0 => x % Size = x + Size
<1>1. Size \in Nat \ {0} /\ Marks \in Nat \ {0} /\ MaxWrite \in Nat \ {0}
    BY StreamAssumption
<1>2. ASSUME NEW x \in Int
      PROVE  /\ x % Size \in 0 .. Size - 1 /\ x % Marks \in 0 .. Marks - 1
             /\ 0 <= x /\ x < Size => x % Size = x
             /\ Size <= x /\ x < Size + Size => x % Size = x - Size
             /\ -Size <= x /\ x < 0 => x % Size = x + Size
    BY <1>1, Turn
<1> QED BY <1>1, <1>2

LEMMA SideFacts ==
    /\ Sides = {"w", "r"} /\ "w" \in Sides /\ "r" \in Sides
    /\ \A t \in Threads : Side(t) \in Sides
    /\ \A t \in Threads : t \in Writers <=> Side(t) = "w"
    /\ \A t \in Threads : t \in Readers <=> Side(t) = "r"
BY StreamAssumption DEF Sides, Side, Threads

\* There are no more holders than threads
LEMMA SomeThreads ==
    ASSUME NEW S \in SUBSET Threads
    PROVE  IsFiniteSet(S) /\ Cardinality(S) \in 0 .. Cardinality(Threads)
<1>1. IsFiniteSet(Threads)
    BY StreamAssumption, FS_Union DEF Threads
<1>2. IsFiniteSet(S) /\ Cardinality(S) <= Cardinality(Threads)
    BY <1>1, FS_Subset
<1> QED BY <1>1, <1>2, FS_CardinalityType

\* A thread in a call has a reference, and so has a slot: the file is open
LEMMA HeldIsOpen ==
    ASSUME PipeInv
    PROVE  /\ \A t \in Threads : pc[t] \in Holding => refs[Side(t)] > 0 /\ stage[Side(t)] = "open"
           /\ \A s \in Sides : slot[s] => refs[s] > 0 /\ stage[s] = "open"
<1>1. ASSUME NEW s \in Sides
      PROVE  IsFiniteSet(Holders(s)) /\ Cardinality(Holders(s)) \in Nat
    <2>1. Holders(s) \in SUBSET Threads
        BY DEF Holders
    <2> QED BY <2>1, SomeThreads, FS_CardinalityType
<1>2. ASSUME NEW t \in Threads, pc[t] \in Holding
      PROVE  refs[Side(t)] > 0 /\ stage[Side(t)] = "open"
    <2>1. t \in Holders(Side(t)) /\ Side(t) \in Sides
        BY <1>2, SideFacts DEF Holders
    <2>2. Cardinality(Holders(Side(t))) # 0
        BY <2>1, <1>1, FS_EmptySet
    <2>3. refs[Side(t)] > 0
        BY <2>1, <2>2, <1>1 DEF PipeInv, RefsCount
    <2> QED BY <2>1, <2>3 DEF PipeInv, Stages
<1>3. ASSUME NEW s \in Sides, slot[s]
      PROVE  refs[s] > 0 /\ stage[s] = "open"
    <2>1. refs[s] > 0
        BY <1>1, <1>3 DEF PipeInv, RefsCount
    <2> QED BY <2>1 DEF PipeInv, Stages
<1> QED BY <1>2, <1>3

\* A thread that stays in its call, or out of it
LEMMA RefsStay ==
    ASSUME TypeOK, RefsCount, UNCHANGED <<refs, slot>>,
           NEW t \in Threads, NEW l, Goto(t, l), l \in Holding <=> pc[t] \in Holding
    PROVE  RefsCount'
<1>1. ASSUME NEW s \in Sides PROVE Holders(s)' = Holders(s)
    BY DEF Goto, TypeOK, Holders
<1> QED BY <1>1 DEF RefsCount

\* A thread that begins a call takes a reference
LEMMA RefsGrow ==
    ASSUME TypeOK, RefsCount, slot' = slot,
           NEW t \in Threads, NEW l \in Holding, Goto(t, l), pc[t] \notin Holding,
           refs' = [refs EXCEPT ![Side(t)] = @ + 1]
    PROVE  RefsCount'
<1>1. ASSUME NEW s \in Sides
      PROVE  refs'[s] = Cardinality(Holders(s)') + (IF slot'[s] THEN 1 ELSE 0)
    <2>1. Holders(s) \in SUBSET Threads
        BY DEF Holders
    <2>2. IsFiniteSet(Holders(s)) /\ Cardinality(Holders(s)) \in Nat
        BY <2>1, SomeThreads, FS_CardinalityType
    <2>3. CASE s = Side(t)
        <3>1. Holders(s)' = Holders(s) \cup {t} /\ t \notin Holders(s)
            BY <2>3 DEF Goto, TypeOK, Holders
        <3>2. Cardinality(Holders(s)') = Cardinality(Holders(s)) + 1
            BY <3>1, <2>2, FS_AddElement
        <3> QED BY <3>2, <2>2, <2>3 DEF RefsCount, TypeOK
    <2>4. CASE s # Side(t)
        <3>1. Holders(s)' = Holders(s)
            BY <2>4 DEF Goto, TypeOK, Holders
        <3> QED BY <3>1, <2>4 DEF RefsCount, TypeOK
    <2> QED BY <2>3, <2>4
<1> QED BY <1>1 DEF RefsCount

\* A thread that ends its call gives it back
LEMMA RefsShrink ==
    ASSUME TypeOK, RefsCount, slot' = slot,
           NEW t \in Threads, NEW l, l \notin Holding, Goto(t, l), pc[t] \in Holding,
           refs' = [refs EXCEPT ![Side(t)] = refs[Side(t)] - 1]
    PROVE  RefsCount'
<1>1. ASSUME NEW s \in Sides
      PROVE  refs'[s] = Cardinality(Holders(s)') + (IF slot'[s] THEN 1 ELSE 0)
    <2>1. Holders(s) \in SUBSET Threads
        BY DEF Holders
    <2>2. IsFiniteSet(Holders(s)) /\ Cardinality(Holders(s)) \in Nat
        BY <2>1, SomeThreads, FS_CardinalityType
    <2>3. CASE s = Side(t)
        <3>1. Holders(s)' = Holders(s) \ {t} /\ t \in Holders(s)
            BY <2>3 DEF Goto, TypeOK, Holders
        <3>2. Cardinality(Holders(s)') = Cardinality(Holders(s)) - 1
            BY <3>1, <2>2, FS_RemoveElement
        <3> QED BY <3>2, <2>2, <2>3 DEF RefsCount, TypeOK
    <2>4. CASE s # Side(t)
        <3>1. Holders(s)' = Holders(s)
            BY <2>4 DEF Goto, TypeOK, Holders
        <3> QED BY <3>1, <2>4 DEF RefsCount, TypeOK
    <2> QED BY <2>3, <2>4
<1> QED BY <1>1 DEF RefsCount

LEMMA RefsStayFew ==
    ASSUME RefsCount', slot' \in [Sides -> BOOLEAN]
    PROVE  \A s \in Sides : refs'[s] \in 0 .. Cardinality(Threads) + 1
<1>1. ASSUME NEW s \in Sides PROVE refs'[s] \in 0 .. Cardinality(Threads) + 1
    <2>1. Holders(s)' \in SUBSET Threads
        BY DEF Holders
    <2>2. /\ Cardinality(Holders(s)') \in 0 .. Cardinality(Threads)
          /\ Cardinality(Threads) \in Nat
        BY <2>1, SomeThreads
    <2> QED BY <2>2 DEF RefsCount
<1> QED BY <1>1

\* A reference is given back: the last one begins to close its end
LEMMA DropStep ==
    ASSUME PipeInv, ~Local, NEW s \in Sides, refs[s] > 0, Drop(s, refs[s] - 1),
           UNCHANGED pipeVars, \A o \in Sides : refs'[o] \in Nat
    PROVE  /\ Stages' /\ Frees'
           /\ stage' \in [Sides -> {"open", "close", "notify", "free", "done"}]
           /\ shut' \in BOOLEAN
           /\ \A o \in Sides : stage[o] = "notify" => stage'[o] = "notify"
<1>1. stage[s] = "open" /\ ~shut /\ refs[s] \in Nat
    BY DEF PipeInv, Stages, TypeOK
<1>2. /\ refs' = [refs EXCEPT ![s] = refs[s] - 1] /\ ~shut'
      /\ stage' = IF refs[s] - 1 > 0 THEN stage ELSE [stage EXCEPT ![s] = "close"]
    BY <1>1 DEF Drop
<1>3. stage' \in [Sides -> {"open", "close", "notify", "free", "done"}]
    BY <1>2 DEF PipeInv, TypeOK
<1>4. \A o \in Sides : stage'[o] = stage[o] \/ (o = s /\ stage'[o] = "close")
    BY <1>2 DEF PipeInv, TypeOK
<1>5. \A o \in Sides : refs'[o] > 0 <=> stage'[o] = "open"
    BY <1>1, <1>2 DEF PipeInv, TypeOK, Stages
<1>6. Stages'
    BY <1>1, <1>2, <1>4, <1>5, SideFacts DEF PipeInv, Stages, pipeVars
<1>7. Frees'
    BY <1>1, <1>4 DEF PipeInv, Frees, pipeVars
<1>8. shut' \in BOOLEAN
    BY <1>1 DEF Drop
<1> QED BY <1>1, <1>3, <1>4, <1>6, <1>7, <1>8

-----------------------------------------------------------------------------
(* The pipe's own steps.                                                   *)

LEMMA PipeInit == ASSUME ~Local, Init PROVE PipeInv
<1> USE DEF Init
<1>1. TypeOK
    <2>1. Cardinality(Threads) \in Nat
        BY SomeThreads, FS_CardinalityType
    <2>2. refs \in [Sides -> 0 .. Cardinality(Threads) + 1]
        BY <2>1
    <2>3. 0 \in 0 .. Size - 1 /\ 0 \in 0 .. Size /\ 0 \in 0 .. Marks - 1 /\ 0 \in 0 .. MaxWrite
        BY Numbers
    <2> QED BY <2>2, <2>3 DEF TypeOK, Locations
<1>2. RefsCount
    <2>1. \A s \in Sides : Holders(s) = {}
        BY DEF Holders, Holding
    <2>2. Cardinality({}) = 0
        BY FS_EmptySet
    <2> QED BY <2>1, <2>2 DEF RefsCount
<1>3. Stages /\ Frees
    BY SideFacts DEF Stages, Frees
<1>4. Places /\ NobodyStuck /\ PollersWait /\ EofInv
    BY DEF Places, NobodyStuck, PollersWait, EofInv
<1>5. RingInv
    BY Numbers DEF RingInv
<1> QED BY <1>1, <1>2, <1>3, <1>4, <1>5 DEF PipeInv

\* The ring after k more bytes, place by place
LEMMA FilledRing ==
    ASSUME TypeOK, NEW k \in Nat
    PROVE  /\ Filled(k) \in [0 .. Size - 1 -> 0 .. Marks - 1]
           /\ \A i \in 0 .. Size - 1 :
                 Filled(k)[i] = IF (i - head) % Size < k THEN (next + ((i - head) % Size)) % Marks
                                ELSE ring[i]
<1>1. next \in Int /\ head \in Int /\ ring \in [0 .. Size - 1 -> 0 .. Marks - 1]
    BY DEF TypeOK
<1>2. \A i \in 0 .. Size - 1 :
          Filled(k)[i] = IF (i - head) % Size < k THEN (next + ((i - head) % Size)) % Marks
                         ELSE ring[i]
    BY DEF Filled
<1>3. ASSUME NEW i \in 0 .. Size - 1 PROVE Filled(k)[i] \in 0 .. Marks - 1
    <2>1. (i - head) % Size \in Int
        BY <1>1, Numbers
    <2>2. (next + ((i - head) % Size)) % Marks \in 0 .. Marks - 1
        BY <1>1, <2>1, Numbers
    <2>3. ring[i] \in 0 .. Marks - 1
        BY <1>1
    <2> QED BY <1>2, <2>2, <2>3
<1>4. Filled(k) \in [0 .. Size - 1 -> 0 .. Marks - 1]
    <2>1. Filled(k) = [i \in 0 .. Size - 1 |-> Filled(k)[i]]
        BY DEF Filled
    <2> HIDE DEF Filled
    <2> QED BY <2>1, <1>3
<1> QED BY <1>2, <1>4

\* pipe_write: whoever was asleep in the pipe or in poll is told of what has
\* come, and the writer sleeps only when the pipe is full
LEMMA WriteStep ==
    ASSUME PipeInv, ~Local, NEW t \in Threads, Write(t)
    PROVE  PipeInv'
<1> DEFINE k == IF reader_open THEN Least(left[t], Room) ELSE 0
           done == reader_open /\ k = left[t]
           over == ~reader_open \/ k = left[t] \/ sig[t]
<1>1. PICK more \in IF done THEN 0 .. MaxWrite ELSE {0} :
          /\ left' = [left EXCEPT ![t] = IF over THEN more ELSE @ - k]
          /\ Goto(t, IF ~over THEN "write" ELSE IF more > 0 THEN "check" ELSE "end")
    BY DEF Write
<1>2. /\ pc[t] = "write" /\ ~freed /\ asleep[t] = "no"
      /\ ring' = Filled(k) /\ next' = (next + k) % Marks
      /\ head' = (head + k) % Size /\ count' = count + k
      /\ asleep' = [Woken(asleep, IF k > 0 THEN {"pipe", "poll"} ELSE {})
                     EXCEPT ![t] = IF over THEN "no" ELSE "pipe"]
      /\ fresh' = IF k > 0 THEN Stale ELSE fresh
      /\ UNCHANGED <<tail, reader_open, writer_open, freed, fileVars, sig, eof>>
    BY DEF Write, At
<1>3. /\ k \in 0 .. Size - count /\ k \in 0 .. left[t] /\ k \in Nat
      /\ ~over => reader_open /\ k = Size - count
    <2>1. /\ left[t] \in Nat /\ count \in 0 .. Size /\ Size \in Nat
          /\ reader_open \in BOOLEAN
        BY Numbers DEF PipeInv, TypeOK
    <2> QED BY <2>1 DEF Least, Room
<1>4. t \in Writers /\ stage["w"] = "open" /\ writer_open
    BY <1>2, HeldIsOpen, SideFacts DEF PipeInv, Places, Stages, Holding
<1>5. more \in 0 .. MaxWrite
    BY <1>1, StreamAssumption
<1> HIDE DEF k, done, over
<1>6. RefsCount'
    <2>1. pc[t] \in Holding /\ "write" \in Holding /\ "check" \in Holding /\ "end" \in Holding
        BY <1>2 DEF Holding
    <2> QED BY <1>1, <1>2, <2>1, RefsStay DEF PipeInv, fileVars
<1>7. TypeOK'
    <2>1. ring' \in [0 .. Size - 1 -> 0 .. Marks - 1] /\ next' \in 0 .. Marks - 1
        <3>1. next + k \in Int
            BY <1>3 DEF PipeInv, TypeOK
        <3> QED BY <1>2, <1>3, <3>1, FilledRing, Numbers DEF PipeInv
    <2>2. head' \in 0 .. Size - 1 /\ count' \in 0 .. Size
        BY <1>2, <1>3, Numbers DEF PipeInv, TypeOK
    <2>3. pc' \in [Threads -> Locations]
        BY <1>1 DEF PipeInv, TypeOK, Goto, Locations
    <2>4. left' \in [Threads -> 0 .. MaxWrite]
        BY <1>1, <1>3, <1>5, StreamAssumption DEF PipeInv, TypeOK
    <2>5. fresh' \in [Threads -> BOOLEAN] /\ asleep' \in [Threads -> {"no", "pipe", "poll"}]
        BY <1>2 DEF PipeInv, TypeOK, Woken, Stale
    <2> QED BY <1>2, <2>1, <2>2, <2>3, <2>4, <2>5 DEF PipeInv, TypeOK, fileVars
<1>8. Stages' /\ Frees'
    BY <1>2 DEF PipeInv, Stages, Frees, fileVars
<1>9. \A u \in Threads \ {t} :
          /\ pc'[u] = pc[u]
          /\ asleep'[u] = asleep[u] \/ asleep'[u] = "no"
          /\ k > 0 => asleep'[u] = "no"
    BY <1>1, <1>2 DEF PipeInv, TypeOK, Goto, Woken
<1>10. /\ pc'[t] \in {"write", "check", "end"} /\ asleep'[t] \in {"no", "pipe"}
       /\ asleep'[t] = "pipe" => ~over /\ pc'[t] = "write"
    <2>1. pc'[t] = IF ~over THEN "write" ELSE IF more > 0 THEN "check" ELSE "end"
        BY <1>1 DEF PipeInv, TypeOK, Goto
    <2>2. asleep'[t] = IF over THEN "no" ELSE "pipe"
        BY <1>2 DEF Woken
    <2> QED BY <2>1, <2>2
<1>11. Places'
    BY <1>4, <1>9, <1>10 DEF PipeInv, Places
<1>12. NobodyStuck'
    <2>1. asleep'[t] = "pipe" => pc'[t] # "read" /\ count' = Size /\ reader_open'
        <3>1. count \in Nat /\ Size \in Nat
            BY Numbers DEF PipeInv, TypeOK
        <3> QED BY <1>2, <1>3, <1>10, <3>1
    <2>2. ASSUME NEW u \in Threads \ {t}, asleep'[u] = "pipe"
          PROVE  IF pc'[u] = "read" THEN count' = 0 /\ writer_open'
                                    ELSE count' = Size /\ reader_open'
        <3>1. k = 0 /\ asleep[u] = "pipe" /\ pc'[u] = pc[u]
            BY <1>3, <1>9, <2>2
        <3>2. count' = count
            BY <1>2, <3>1 DEF PipeInv, TypeOK
        <3> QED BY <1>2, <3>1, <3>2 DEF PipeInv, NobodyStuck
    <2> QED BY <2>1, <2>2 DEF NobodyStuck
<1>13. PollersWait'
    <2>1. CASE k > 0
        BY <1>2, <1>9, <1>10, <2>1 DEF PollersWait, Stale
    <2>2. CASE k = 0
        <3>1. count' = count
            BY <1>2, <2>2 DEF PipeInv, TypeOK
        <3> QED BY <1>2, <1>9, <1>10, <2>2, <3>1 DEF PipeInv, PollersWait, Ready, fileVars
    <2> QED BY <1>3, <2>1, <2>2
<1>14. EofInv'
    BY <1>2 DEF PipeInv, EofInv
<1>15. RingInv'
    <2>1. /\ tail \in 0 .. Size - 1 /\ count \in 0 .. Size /\ Size \in Nat \ {0}
          /\ head = (tail + count) % Size
        BY Numbers DEF PipeInv, TypeOK, RingInv
    <2>2. (((tail + count) % Size) + k) % Size = (tail + (count + k)) % Size
        <3>1. CASE tail + count < Size
            <4>1. (tail + count) % Size = tail + count
                BY <2>1, <3>1, Numbers
            <4>2. tail + count + k = tail + (count + k)
                BY <2>1, <1>3
            <4> QED BY <4>1, <4>2
        <3>2. CASE tail + count >= Size
            <4>1. /\ (tail + count) % Size = tail + count - Size
                  /\ 0 <= tail + count - Size + k /\ tail + count - Size + k < Size
                BY <2>1, <1>3, <3>2, Numbers
            <4>2. (tail + count - Size + k) % Size = tail + count - Size + k
                BY <4>1, <2>1, <1>3, Numbers
            <4>3. (tail + (count + k)) % Size = tail + (count + k) - Size
                BY <2>1, <1>3, <3>2, Numbers
            <4> QED BY <4>1, <4>2, <4>3, <2>1, <1>3
        <3> QED BY <3>1, <3>2, <2>1
    <2> QED BY <1>2, <2>1, <2>2 DEF RingInv
<1> QED BY <1>6, <1>7, <1>8, <1>11, <1>12, <1>13, <1>14, <1>15 DEF PipeInv

\* pipe_read with nothing to read
LEMMA ReadNothingStep ==
    ASSUME PipeInv, ~Local, NEW t \in Threads, ReadNothing(t)
    PROVE  PipeInv'
<1> USE DEF ReadNothing, At, Goto, pipeVars, fileVars
<1>1. RefsCount'
    <2>1. pc[t] \in Holding /\ "read" \in Holding /\ "end" \in Holding
        BY DEF Holding
    <2> QED BY <2>1, RefsStay DEF PipeInv
<1>2. TypeOK'
    BY DEF PipeInv, TypeOK, Locations
<1>3. Places' /\ NobodyStuck' /\ PollersWait'
    BY DEF PipeInv, TypeOK, Places, NobodyStuck, PollersWait, Ready
<1>4. Stages' /\ Frees' /\ EofInv' /\ RingInv'
    BY DEF PipeInv, Stages, Frees, EofInv, RingInv
<1> QED BY <1>1, <1>2, <1>3, <1>4 DEF PipeInv

\* pipe_read
LEMMA ReadStep ==
    ASSUME PipeInv, ~Local, NEW t \in Threads, Read(t)
    PROVE  PipeInv'
<1>1. PICK n \in 1 .. Size :
          LET k == Least(n, count) IN
          /\ tail' = (tail + k) % Size /\ count' = count - k
          /\ eof' = (eof \/ k = 0)
          /\ asleep' = Woken(asleep, IF k > 0 THEN {"pipe", "poll"} ELSE {})
          /\ fresh' = IF k > 0 THEN Stale ELSE fresh
    BY DEF Read
<1> DEFINE k == Least(n, count)
<1>2. /\ tail' = (tail + k) % Size /\ count' = count - k
      /\ eof' = (eof \/ k = 0)
      /\ asleep' = Woken(asleep, IF k > 0 THEN {"pipe", "poll"} ELSE {})
      /\ fresh' = IF k > 0 THEN Stale ELSE fresh
      /\ pc[t] = "read" /\ asleep[t] = "no" /\ ~freed /\ (count > 0 \/ ~writer_open)
      /\ pc' = [pc EXCEPT ![t] = "end"]
      /\ UNCHANGED <<ring, head, next, reader_open, writer_open, freed, fileVars, left, sig>>
    BY <1>1 DEF Read, At, Goto
<1>3. k \in 0 .. count /\ k \in Nat /\ (k = 0 <=> count = 0) /\ count \in 0 .. Size
    <2>1. count \in 0 .. Size /\ Size \in Nat /\ n \in 1 .. Size
        BY Numbers DEF PipeInv, TypeOK
    <2> QED BY <2>1 DEF Least
<1> HIDE DEF k
<1>4. RefsCount'
    <2>1. pc[t] \in Holding /\ "end" \in Holding
        BY <1>2 DEF Holding
    <2> QED BY <1>2, <2>1, RefsStay DEF PipeInv, Goto, fileVars
<1>5. \A u \in Threads : /\ u # t => pc'[u] = pc[u]
                         /\ asleep'[u] = asleep[u] \/ asleep'[u] = "no"
                         /\ k > 0 => asleep'[u] \notin {"pipe", "poll"}
    BY <1>2 DEF PipeInv, TypeOK, Woken
<1>6. asleep'[t] = "no" /\ pc'[t] = "end"
    BY <1>2, <1>5 DEF PipeInv, TypeOK
<1>7. TypeOK'
    <2>1. tail' \in 0 .. Size - 1 /\ count' \in 0 .. Size
        BY <1>2, <1>3, Numbers DEF PipeInv, TypeOK
    <2>2. pc' \in [Threads -> Locations]
        BY <1>2 DEF PipeInv, TypeOK, Locations
    <2>3. fresh' \in [Threads -> BOOLEAN] /\ asleep' \in [Threads -> {"no", "pipe", "poll"}]
        BY <1>2 DEF PipeInv, TypeOK, Woken, Stale
    <2>4. eof' \in BOOLEAN
        BY <1>2 DEF PipeInv, TypeOK
    <2> QED BY <1>2, <2>1, <2>2, <2>3, <2>4 DEF PipeInv, TypeOK, fileVars
<1>8. Stages' /\ Frees'
    BY <1>2 DEF PipeInv, Stages, Frees, fileVars
<1>9. Places'
    BY <1>2, <1>5, <1>6 DEF PipeInv, Places
<1>10. NobodyStuck' /\ PollersWait'
    <2>1. CASE k > 0
        BY <1>2, <1>5, <2>1 DEF NobodyStuck, PollersWait, Stale
    <2>2. CASE k = 0
        <3>1. count' = count /\ fresh' = fresh
            BY <1>2, <1>3, <2>2
        <3> QED BY <1>2, <1>5, <1>6, <3>1
                DEF PipeInv, NobodyStuck, PollersWait, Ready, fileVars
    <2> QED BY <1>3, <2>1, <2>2
<1>11. EofInv'
    <2>1. eof' => eof \/ k = 0
        BY <1>2
    <2>2. k = 0 => ~writer_open
        BY <1>2, <1>3
    <2> QED BY <1>2, <2>1, <2>2 DEF PipeInv, EofInv
<1>12. RingInv'
    <2>1. /\ tail \in 0 .. Size - 1 /\ count \in 0 .. Size /\ Size \in Nat /\ Size > 0
          /\ head = (tail + count) % Size
        BY Numbers DEF PipeInv, TypeOK, RingInv
    <2>2. (((tail + k) % Size) + (count - k)) % Size = (tail + count) % Size
        <3>1. CASE tail + k < Size
            <4>1. (tail + k) % Size = tail + k
                BY <2>1, <1>3, <3>1, Numbers
            <4>2. tail + k + (count - k) = tail + count
                BY <2>1, <1>3
            <4> QED BY <4>1, <4>2
        <3>2. CASE tail + k >= Size
            <4>1. /\ (tail + k) % Size = tail + k - Size
                  /\ tail + k - Size + (count - k) = tail + count - Size
                  /\ 0 <= tail + count - Size /\ tail + count - Size < Size
                BY <2>1, <1>3, <3>2, Numbers
            <4>2. (tail + count - Size) % Size = tail + count - Size
                BY <4>1, <2>1, Numbers
            <4>3. (tail + count) % Size = tail + count - Size
                BY <4>1, <2>1, Numbers
            <4> QED BY <4>1, <4>2, <4>3
        <3> QED BY <3>1, <3>2, <2>1, <1>3
    <2> QED BY <1>2, <2>1, <2>2 DEF RingInv
<1> QED BY <1>4, <1>7, <1>8, <1>9, <1>10, <1>11, <1>12 DEF PipeInv

\* close_end: the one that is left is woken; when nobody is left, nobody
\* can be asleep
LEMMA CloseEndStep ==
    ASSUME PipeInv, ~Local, NEW s \in Sides, CloseEnd(s)
    PROVE  PipeInv'
<1> DEFINE r == reader_open /\ s # "r"
           w == writer_open /\ s # "w"
<1>1. /\ stage[s] = "close" /\ ~freed
      /\ reader_open' = r /\ writer_open' = w
      /\ stage' = [stage EXCEPT ![s] = IF r \/ w THEN "notify" ELSE "free"]
      /\ asleep' = IF r \/ w THEN Woken(asleep, {"pipe"}) ELSE asleep
      /\ UNCHANGED <<ring, head, tail, count, next, freed, slot, refs, shut, pc, left,
                     fresh, sig, eof>>
    BY DEF CloseEnd
<1>2. r \in BOOLEAN /\ w \in BOOLEAN
    BY DEF PipeInv, TypeOK
<1>3. /\ stage'[s] \in {"notify", "free"} /\ (r \/ w => stage'[s] = "notify")
      /\ stage'[s] = "free" => ~r /\ ~w
      /\ \A o \in Sides : o # s => stage'[o] = stage[o]
    BY <1>1 DEF PipeInv, TypeOK
<1>4. /\ r <=> stage["r"] \in {"open", "close"} /\ s # "r"
      /\ w <=> stage["w"] \in {"open", "close"} /\ s # "w"
    BY DEF PipeInv, Stages
<1>5. w => writer_open
    OBVIOUS
<1> HIDE DEF r, w
<1>6. TypeOK'
    BY <1>1, <1>2 DEF PipeInv, TypeOK, Woken
<1>7. RefsCount'
    <2>1. \A o \in Sides : Holders(o)' = Holders(o)
        BY <1>1 DEF Holders
    <2> QED BY <1>1, <2>1 DEF PipeInv, RefsCount
<1>8. Stages'
    <2>1. \A o \in Sides : refs'[o] > 0 <=> stage'[o] = "open"
        BY <1>1, <1>3 DEF PipeInv, Stages
    <2>2. /\ r <=> stage'["r"] \in {"open", "close"}
          /\ w <=> stage'["w"] \in {"open", "close"}
        BY <1>3, <1>4, SideFacts
    <2> QED BY <1>1, <2>1, <2>2 DEF PipeInv, Stages
<1>9. Frees'
    <2>1. ASSUME NEW o \in Sides, o # s, stage'[s] = "free"
          PROVE  stage'[o] \in {"notify", "done"}
        <3>1. stage[o] \notin {"open", "close"}
            BY <1>3, <1>4, <2>1, SideFacts
        <3>2. stage[o] # "free"
            BY <1>1, <2>1 DEF PipeInv, Frees
        <3> QED BY <1>3, <2>1, <3>1, <3>2 DEF PipeInv, TypeOK
    <2>2. ASSUME NEW o \in Sides, o # s, stage'[o] = "free"
          PROVE  FALSE
        BY <1>1, <1>3, <2>2 DEF PipeInv, Frees
    <2> QED BY <1>1, <2>1, <2>2 DEF Frees
<1>10. Places'
    BY <1>1 DEF PipeInv, TypeOK, Places, Woken
<1>11. EofInv'
    BY <1>1, <1>5 DEF PipeInv, EofInv
<1>12. CASE r \/ w
    <2>1. NobodyStuck'
        <3>1. \A t \in Threads : asleep'[t] # "pipe"
            BY <1>1, <1>12 DEF Woken
        <3> QED BY <3>1 DEF NobodyStuck
    <2>2. PollersWait'
        BY <1>3, <1>12 DEF PollersWait
    <2> QED BY <2>1, <2>2, <1>1, <1>4, <1>6, <1>7, <1>8, <1>9, <1>10, <1>11 DEF PipeInv, RingInv
<1>13. CASE ~r /\ ~w
    <2>1. \A o \in Sides : stage[o] # "open"
        BY <1>1, <1>4, <1>13, SideFacts
    <2>2. NobodyStuck'
        <3>1. \A t \in Threads : asleep[t] # "pipe"
            BY <2>1, HeldIsOpen, SideFacts DEF PipeInv, Places, Holding
        <3> QED BY <1>1, <1>13, <3>1 DEF NobodyStuck
    <2>3. PollersWait'
        BY <1>1, <2>1, HeldIsOpen, SideFacts DEF PollersWait
    <2> QED BY <2>2, <2>3, <1>1, <1>6, <1>7, <1>8, <1>9, <1>10, <1>13, <1>11 DEF PipeInv, RingInv
<1> QED BY <1>12, <1>13

\* poll_notify after it: every poller looks again
LEMMA CloseNotifyStep ==
    ASSUME PipeInv, ~Local, NEW s \in Sides, CloseNotify(s)
    PROVE  PipeInv'
<1> USE DEF CloseNotify, pipeVars
<1>1. TypeOK'
    BY DEF PipeInv, TypeOK, Woken, Stale
<1>2. RefsCount'
    <2>1. \A o \in Sides : Holders(o)' = Holders(o)
        BY DEF Holders
    <2> QED BY <2>1 DEF PipeInv, RefsCount
<1>3. Stages' /\ Frees'
    BY SideFacts DEF PipeInv, TypeOK, Stages, Frees
<1>4. Places' /\ NobodyStuck'
    BY DEF PipeInv, TypeOK, Places, NobodyStuck, Woken
<1>5. PollersWait'
    BY DEF PollersWait, Woken, Stale
<1> QED BY <1>1, <1>2, <1>3, <1>4, <1>5 DEF PipeInv, EofInv, RingInv

\* The pipe is given back
LEMMA CloseFreeStep ==
    ASSUME PipeInv, ~Local, NEW s \in Sides, CloseFree(s)
    PROVE  PipeInv'
<1> USE DEF CloseFree, threadVars
<1>1. TypeOK'
    BY DEF PipeInv, TypeOK
<1>2. RefsCount'
    <2>1. \A o \in Sides : Holders(o)' = Holders(o)
        BY DEF Holders
    <2> QED BY <2>1 DEF PipeInv, RefsCount
<1>3. Stages' /\ Frees'
    BY SideFacts DEF PipeInv, TypeOK, Stages, Frees
<1>4. \A o \in Sides : stage[o] = "notify" => stage'[o] = "notify"
    BY DEF PipeInv, TypeOK
<1>5. Places' /\ NobodyStuck'
    BY DEF PipeInv, Places, NobodyStuck
<1>6. PollersWait'
    BY <1>4 DEF PipeInv, PollersWait, Ready
<1> QED BY <1>1, <1>2, <1>3, <1>5, <1>6 DEF PipeInv, EofInv, RingInv

-----------------------------------------------------------------------------
(* The steps that take a reference or give one back.                       *)

\* sys_close
LEMMA CloseStep ==
    ASSUME PipeInv, ~Local, NEW s \in Sides, Close(s)
    PROVE  PipeInv'
<1>1. /\ slot[s] /\ slot' = [slot EXCEPT ![s] = FALSE] /\ Drop(s, refs[s] - 1)
      /\ UNCHANGED <<pipeVars, threadVars, eof>>
    BY DEF Close
<1>2. refs' = [refs EXCEPT ![s] = refs[s] - 1] /\ refs[s] > 0
    BY <1>1, HeldIsOpen DEF Drop
<1>3. RefsCount'
    <2>1. \A o \in Sides : Holders(o)' = Holders(o)
        BY <1>1 DEF Holders, threadVars
    <2>2. \A o \in Sides : Holders(o) \in SUBSET Threads
        BY DEF Holders
    <2>3. \A o \in Sides : Cardinality(Holders(o)) \in Nat
        BY <2>2, SomeThreads
    <2> QED BY <1>1, <1>2, <2>1, <2>3 DEF PipeInv, RefsCount, TypeOK
<1>4. slot' \in [Sides -> BOOLEAN]
    BY <1>1 DEF PipeInv, TypeOK
<1>5. \A o \in Sides : refs'[o] \in 0 .. Cardinality(Threads) + 1 /\ refs'[o] \in Nat
    BY <1>3, <1>4, RefsStayFew
<1>6. /\ Stages' /\ Frees' /\ shut' \in BOOLEAN
      /\ stage' \in [Sides -> {"open", "close", "notify", "free", "done"}]
      /\ \A o \in Sides : stage[o] = "notify" => stage'[o] = "notify"
    BY <1>1, <1>2, <1>5, DropStep
<1>7. TypeOK'
    BY <1>1, <1>2, <1>4, <1>5, <1>6 DEF PipeInv, TypeOK, pipeVars, threadVars
<1>8. Places' /\ NobodyStuck' /\ EofInv' /\ RingInv'
    BY <1>1 DEF PipeInv, Places, NobodyStuck, EofInv, RingInv, pipeVars, threadVars
<1>9. PollersWait'
    <2>1. \A o \in Sides : slot'[o] => slot[o]
        BY <1>1 DEF PipeInv, TypeOK
    <2>2. \A o \in Sides : Ready(o)' <=> Ready(o)
        BY <1>1 DEF Ready, pipeVars
    <2> QED BY <1>1, <1>6, <2>1, <2>2, SideFacts DEF PipeInv, PollersWait, threadVars
<1> QED BY <1>3, <1>6, <1>7, <1>8, <1>9 DEF PipeInv

\* A call that looks its file up, by read, write or poll
LEMMA HoldStep ==
    ASSUME PipeInv, ~Local, NEW t \in Threads, NEW l \in {"check", "read", "pcheck"},
           pc[t] \in {"out", "dup"}, asleep[t] = "no", slot[Side(t)],
           l = "check" => t \in Writers, l = "read" => t \in Readers,
           refs' = [refs EXCEPT ![Side(t)] = @ + 1], Goto(t, l),
           left' \in [Threads -> 0 .. MaxWrite], sig' \in [Threads -> BOOLEAN],
           UNCHANGED <<pipeVars, slot, shut, stage, fresh, asleep, eof>>
    PROVE  PipeInv'
<1>1. RefsCount'
    <2>1. l \in Holding /\ pc[t] \notin Holding
        BY DEF Holding
    <2> QED BY <2>1, RefsGrow DEF PipeInv
<1>2. \A s \in Sides : refs'[s] \in 0 .. Cardinality(Threads) + 1
    BY <1>1, RefsStayFew DEF PipeInv, TypeOK
<1>3. TypeOK'
    <2>1. refs' \in [Sides -> 0 .. Cardinality(Threads) + 1]
        BY <1>2 DEF PipeInv, TypeOK
    <2>2. pc' \in [Threads -> Locations]
        BY DEF PipeInv, TypeOK, Goto, Locations
    <2> QED BY <2>1, <2>2 DEF PipeInv, TypeOK, pipeVars
<1>4. Stages'
    <2>1. Side(t) \in Sides /\ stage[Side(t)] = "open" /\ refs[Side(t)] > 0
        BY HeldIsOpen, SideFacts
    <2>2. \A s \in Sides : refs'[s] > 0 <=> refs[s] > 0
        BY <2>1 DEF PipeInv, TypeOK
    <2> QED BY <2>2 DEF PipeInv, Stages, pipeVars
<1>5. Frees' /\ EofInv' /\ RingInv'
    BY DEF PipeInv, Frees, EofInv, RingInv, pipeVars
<1>6. pc'[t] = l /\ \A u \in Threads \ {t} : pc'[u] = pc[u]
    BY DEF PipeInv, TypeOK, Goto
<1>7. Places' /\ NobodyStuck' /\ PollersWait'
    BY <1>6 DEF PipeInv, Places, NobodyStuck, PollersWait, Ready, pipeVars
<1> QED BY <1>1, <1>3, <1>4, <1>5, <1>7 DEF PipeInv

\* A call that gives its file back, at its end or before poll sleeps
LEMMA ReleaseStep ==
    ASSUME PipeInv, ~Local, NEW t \in Threads, NEW l \in {"out", "psleep"},
           pc[t] \in {"end", "relook"}, asleep[t] = "no", l = "psleep" => pc[t] = "relook",
           Drop(Side(t), refs[Side(t)] - 1), Goto(t, l), sig' \in [Threads -> BOOLEAN],
           UNCHANGED <<pipeVars, slot, left, fresh, asleep, eof>>
    PROVE  PipeInv'
<1>1. pc[t] \in Holding /\ l \notin Holding
    BY DEF Holding
<1>2. /\ refs[Side(t)] > 0 /\ Side(t) \in Sides
      /\ refs' = [refs EXCEPT ![Side(t)] = refs[Side(t)] - 1]
    BY <1>1, HeldIsOpen, SideFacts DEF Drop
<1>3. RefsCount'
    BY <1>1, <1>2, RefsShrink DEF PipeInv
<1>4. \A s \in Sides : refs'[s] \in 0 .. Cardinality(Threads) + 1 /\ refs'[s] \in Nat
    BY <1>3, RefsStayFew DEF PipeInv, TypeOK
<1>5. /\ Stages' /\ Frees' /\ shut' \in BOOLEAN
      /\ stage' \in [Sides -> {"open", "close", "notify", "free", "done"}]
      /\ \A o \in Sides : stage[o] = "notify" => stage'[o] = "notify"
    BY <1>2, <1>4, DropStep
<1>6. TypeOK'
    <2>1. refs' \in [Sides -> 0 .. Cardinality(Threads) + 1]
        BY <1>2, <1>4 DEF PipeInv, TypeOK
    <2>2. pc' \in [Threads -> Locations]
        BY DEF PipeInv, TypeOK, Goto, Locations
    <2> QED BY <1>5, <2>1, <2>2 DEF PipeInv, TypeOK, pipeVars
<1>7. pc'[t] = l /\ \A u \in Threads \ {t} : pc'[u] = pc[u]
    BY DEF PipeInv, TypeOK, Goto
<1>8. Places' /\ NobodyStuck'
    BY <1>7 DEF PipeInv, Places, NobodyStuck, pipeVars
<1>9. PollersWait'
    <2>1. \A o \in Sides : Ready(o)' <=> Ready(o)
        BY DEF Ready, pipeVars
    <2> QED BY <1>5, <1>7, <2>1, SideFacts DEF PipeInv, PollersWait
<1>10. EofInv' /\ RingInv'
    BY DEF PipeInv, EofInv, RingInv, pipeVars
<1> QED BY <1>3, <1>5, <1>6, <1>8, <1>9, <1>10 DEF PipeInv

-----------------------------------------------------------------------------
(* The steps of a thread that leave the pipe and the files alone.          *)

\* What such a step may do: a poller that goes on towards its sleep has just
\* found nothing
LEMMA QuietStep ==
    ASSUME PipeInv, ~Local, NEW t \in Threads, NEW l \in Locations, Goto(t, l),
           l \in Holding <=> pc[t] \in Holding,
           l \notin {"shutdown", "shutting", "read"}, l \in {"check", "write"} => t \in Writers,
           UNCHANGED <<pipeVars, fileVars, eof>>,
           left' \in [Threads -> 0 .. MaxWrite], sig' \in [Threads -> BOOLEAN],
           fresh' \in [Threads -> BOOLEAN], asleep' \in [Threads -> {"no", "pipe", "poll"}],
           \A u \in Threads \ {t} : fresh'[u] = fresh[u] /\ asleep'[u] = asleep[u],
           asleep'[t] # "pipe", asleep'[t] = "poll" => l = "note",
           asleep'[t] = "poll" \/ (l \in {"relook", "psleep"} /\ fresh'[t])
               => \/ pc[t] = "psleep" /\ fresh[t]
                  \/ ~Ready(Side(t))
    PROVE  PipeInv'
<1>1. RefsCount'
    BY RefsStay DEF PipeInv, fileVars
<1>2. pc'[t] = l /\ \A u \in Threads \ {t} : pc'[u] = pc[u]
    BY DEF PipeInv, TypeOK, Goto
<1>3. pc' \in [Threads -> Locations]
    BY DEF PipeInv, TypeOK, Goto
<1>4. TypeOK'
    BY <1>3 DEF PipeInv, TypeOK, pipeVars, fileVars
<1>5. Stages' /\ Frees' /\ EofInv' /\ RingInv'
    BY DEF PipeInv, Stages, Frees, EofInv, RingInv, pipeVars, fileVars
<1>6. Places' /\ NobodyStuck'
    BY <1>2 DEF PipeInv, Places, NobodyStuck, pipeVars
<1>7. PollersWait'
    <2>1. \A s \in Sides : Ready(s)' <=> Ready(s)
        BY DEF Ready, pipeVars
    <2>2. ASSUME NEW u \in Threads, slot'[Side(u)],
                 asleep'[u] = "poll" \/ (pc'[u] \in {"relook", "psleep"} /\ fresh'[u])
          PROVE  ~Ready(Side(u))' \/ \E s \in Sides : stage'[s] = "notify"
        <3>1. CASE u = t
            BY <1>2, <2>1, <2>2, <3>1, SideFacts DEF PipeInv, PollersWait, fileVars
        <3>2. CASE u # t
            BY <1>2, <2>1, <2>2, <3>2, SideFacts DEF PipeInv, PollersWait, fileVars
        <3> QED BY <3>1, <3>2
    <2> QED BY <2>2 DEF PollersWait
<1> QED BY <1>1, <1>4, <1>5, <1>6, <1>7 DEF PipeInv

\* A thread looks whether the stream was shut down: a pipe never is
LEMMA CheckShutStep ==
    ASSUME PipeInv, ~Local, NEW t \in Threads, CheckShut(t)
    PROVE  PipeInv'
<1>1. /\ pc[t] = "check" /\ asleep[t] = "no" /\ ~shut /\ t \in Writers
      /\ Goto(t, "write") /\ left' = left
      /\ UNCHANGED <<pipeVars, fileVars, fresh, asleep, sig, eof>>
    BY DEF CheckShut, At, PipeInv, Stages, Places, TypeOK
<1> QED BY <1>1, QuietStep DEF PipeInv, TypeOK, Holding, Locations

\* A step of a call that has begun keeps the invariant
LEMMA WorkStep ==
    ASSUME PipeInv, ~Local, NEW t \in Threads, Work(t)
    PROVE  PipeInv'
<1>1. CASE CheckShut(t)
    BY <1>1, CheckShutStep
<1>2. CASE Write(t)
    BY <1>2, WriteStep
<1>3. CASE ReadNothing(t)
    BY <1>3, ReadNothingStep
<1>4. CASE Read(t)
    BY <1>4, ReadStep
<1>5. CASE Shutdown(t) \/ EndShutdown(t)
    BY <1>5 DEF Shutdown, EndShutdown, At, PipeInv, Places
<1>6. CASE EndCall(t)
    <2>1. sig' \in [Threads -> BOOLEAN]
        BY <1>6 DEF EndCall, PipeInv, TypeOK
    <2> QED BY <1>6, <2>1, ReleaseStep DEF EndCall, At
<1>7. CASE Killed(t)
    <2>1. /\ left' \in [Threads -> 0 .. MaxWrite] /\ sig' \in [Threads -> BOOLEAN]
          /\ asleep[t] = "no" /\ pc[t] \in {"write", "read", "note"}
          /\ Goto(t, IF pc[t] = "note" THEN "out" ELSE "end")
          /\ UNCHANGED <<pipeVars, fileVars, fresh, asleep, eof>>
        BY <1>7, Numbers DEF Killed, PipeInv, TypeOK
    <2>2. CASE pc[t] = "note"
        BY <2>1, <2>2, QuietStep DEF PipeInv, TypeOK, Holding, Locations
    <2>3. CASE pc[t] # "note"
        BY <2>1, <2>3, QuietStep DEF PipeInv, TypeOK, Holding, Locations
    <2> QED BY <2>2, <2>3
<1>8. CASE PollNote(t)
    <2>1. fresh' \in [Threads -> BOOLEAN] /\ \A u \in Threads \ {t} : fresh'[u] = fresh[u]
        BY <1>8 DEF PollNote, PipeInv, TypeOK
    <2> QED BY <1>8, <2>1, QuietStep DEF PollNote, At, PipeInv, TypeOK, Holding, Locations
<1>9. CASE PollDup(t)
    <2>1. /\ pc[t] = "dup" /\ asleep[t] = "no" /\ Side(t) \in Sides
          /\ sig' \in [Threads -> BOOLEAN] /\ left' \in [Threads -> 0 .. MaxWrite]
          /\ UNCHANGED <<pipeVars, slot, shut, stage, left, fresh, asleep, eof>>
        BY <1>9, SideFacts DEF PollDup, At, PipeInv, TypeOK
    <2>2. CASE slot[Side(t)]
        <3>1. refs' = [refs EXCEPT ![Side(t)] = @ + 1] /\ Goto(t, "pcheck")
            BY <1>9, <2>2 DEF PollDup
        <3> QED BY <2>1, <2>2, <3>1, HoldStep
    <2>3. CASE ~slot[Side(t)]
        <3>1. refs' = refs /\ Goto(t, "out")
            BY <1>9, <2>1, <2>3 DEF PollDup, PipeInv, TypeOK
        <3> QED BY <2>1, <3>1, QuietStep DEF PipeInv, TypeOK, Holding, Locations, fileVars
    <2> QED BY <2>2, <2>3
<1>10. CASE PollCheck(t)
    <2>1. Goto(t, "look")
        BY <1>10 DEF PollCheck
    <2> QED BY <1>10, <2>1, QuietStep DEF PollCheck, At, PipeInv, TypeOK, Holding, Locations
<1>11. CASE PollLook(t)
    <2>1. CASE Ready(Side(t))
        BY <1>11, <2>1, QuietStep DEF PollLook, At, PipeInv, TypeOK, Holding, Locations
    <2>2. CASE ~Ready(Side(t))
        BY <1>11, <2>2, QuietStep DEF PollLook, At, PipeInv, TypeOK, Holding, Locations
    <2> QED BY <2>1, <2>2
<1>12. CASE PollDrop(t)
    <2>1. sig' \in [Threads -> BOOLEAN]
        BY <1>12 DEF PollDrop, PipeInv, TypeOK
    <2> QED BY <1>12, <2>1, ReleaseStep DEF PollDrop, At
<1>13. CASE PollSleep(t)
    <2>1. /\ asleep' \in [Threads -> {"no", "pipe", "poll"}]
          /\ \A u \in Threads \ {t} : asleep'[u] = asleep[u]
          /\ asleep'[t] # "pipe" /\ (asleep'[t] = "poll" => fresh[t])
        BY <1>13 DEF PollSleep, PipeInv, TypeOK
    <2> QED BY <1>13, <2>1, QuietStep DEF PollSleep, At, PipeInv, TypeOK, Holding, Locations
<1> QED BY <1>1, <1>2, <1>3, <1>4, <1>5, <1>6, <1>7, <1>8, <1>9, <1>10, <1>11, <1>12, <1>13
        DEF Work

\* A call begins, a descriptor is closed, a sleep is cut short
LEMMA DemandStep ==
    ASSUME PipeInv, ~Local, Demand
    PROVE  PipeInv'
<1>1. CASE \E s \in Sides : Close(s)
    BY <1>1, CloseStep
<1>2. ASSUME NEW t \in Threads, StartWrite(t) PROVE PipeInv'
    <2>1. left' \in [Threads -> 0 .. MaxWrite]
        BY <1>2, Numbers DEF StartWrite, PipeInv, TypeOK
    <2> QED BY <1>2, <2>1, HoldStep DEF StartWrite, Take, At, PipeInv, TypeOK
<1>3. ASSUME NEW t \in Threads, StartRead(t) PROVE PipeInv'
    BY <1>3, HoldStep DEF StartRead, Take, At, PipeInv, TypeOK
<1>4. ASSUME NEW t \in Threads, StartPoll(t) PROVE PipeInv'
    BY <1>4, QuietStep DEF StartPoll, At, PipeInv, TypeOK, Holding, Locations
<1>5. ASSUME NEW t \in Threads, Interrupt(t) PROVE PipeInv'
    <2> USE <1>5 DEF Interrupt
    <2>1. TypeOK'
        BY DEF PipeInv, TypeOK, pipeVars, fileVars
    <2>2. RefsCount'
        <3>1. \A s \in Sides : Holders(s)' = Holders(s)
            BY DEF Holders
        <3> QED BY <3>1 DEF PipeInv, RefsCount, fileVars
    <2>3. \A u \in Threads : asleep'[u] = asleep[u] \/ asleep'[u] = "no"
        BY DEF PipeInv, TypeOK
    <2>4. Places' /\ NobodyStuck' /\ PollersWait'
        BY <2>3 DEF PipeInv, Places, NobodyStuck, PollersWait, Ready, pipeVars, fileVars
    <2>5. Stages' /\ Frees' /\ EofInv' /\ RingInv'
        BY DEF PipeInv, Stages, Frees, EofInv, RingInv, pipeVars, fileVars
    <2> QED BY <2>1, <2>2, <2>4, <2>5 DEF PipeInv
<1> QED BY <1>1, <1>2, <1>3, <1>4, <1>5 DEF Demand, StartShutdown

LEMMA PipeStutter == ASSUME PipeInv, UNCHANGED vars PROVE PipeInv'
<1> USE DEF vars, pipeVars, fileVars, threadVars
<1>1. TypeOK'
    BY DEF PipeInv, TypeOK
<1>2. RefsCount'
    <2>1. \A s \in Sides : Holders(s)' = Holders(s)
        BY DEF Holders
    <2> QED BY <2>1 DEF PipeInv, RefsCount
<1>3. Places' /\ NobodyStuck' /\ PollersWait'
    BY DEF PipeInv, Places, NobodyStuck, PollersWait, Ready
<1>4. Stages' /\ Frees' /\ EofInv' /\ RingInv'
    BY DEF PipeInv, Stages, Frees, EofInv, RingInv
<1> QED BY <1>1, <1>2, <1>3, <1>4 DEF PipeInv

LEMMA PipeNext == ASSUME PipeInv, ~Local, [Next]_vars PROVE PipeInv'
<1>1. CASE Demand
    BY <1>1, DemandStep
<1>2. ASSUME NEW s \in Sides, Closing(s) PROVE PipeInv'
    BY <1>2, CloseEndStep, CloseNotifyStep, CloseFreeStep DEF Closing
<1>3. ASSUME NEW t \in Threads, Work(t) PROVE PipeInv'
    BY <1>3, WorkStep
<1>4. CASE UNCHANGED vars
    BY <1>4, PipeStutter
<1> QED BY <1>1, <1>2, <1>3, <1>4 DEF Next

\* The invariant of a pipe (pipe.c, file.c, poll.c)
THEOREM PipeIsSound == ASSUME ~Local PROVE Spec => []PipeInv
<1>1. Init => PipeInv
    BY PipeInit
<1>2. PipeInv /\ [Next]_vars => PipeInv'
    BY PipeNext
<1> QED BY <1>1, <1>2, PTL DEF Spec

-----------------------------------------------------------------------------
(* What it gives.                                                          *)

\* A pipe that has been given back is not used, and is given back once: a
\* call's reference keeps it (file_close, pipe_close_reader)
THEOREM FreedIsUnused == ASSUME ~Local PROVE Spec => []FreedUnused
<1>1. ASSUME PipeInv PROVE FreedUnused
    <2>1. ASSUME freed, NEW t \in Threads PROVE pc[t] \notin {"write", "read", "look"}
        BY <1>1, <2>1, HeldIsOpen, SideFacts DEF PipeInv, Frees, Holding
    <2>2. freed => \A s \in Sides : stage[s] \in {"notify", "done"}
        BY <1>1 DEF PipeInv, Frees
    <2> QED BY <2>1, <2>2 DEF FreedUnused
<1> QED BY <1>1, PipeIsSound, PTL

\* Nobody sleeps in read, write or poll for what is already there: every
\* wakeup reaches whoever looked before it came (pipe_read, pipe_write,
\* close_end, poll_wait)
THEOREM NobodyIsLeftAsleep == ASSUME ~Local PROVE Spec => []NobodyLeftAsleep
<1>1. ASSUME PipeInv PROVE NobodyLeftAsleep
    BY <1>1 DEF PipeInv, PollersWait, NobodyLeftAsleep, PollerNotStuck
<1> QED BY <1>1, PipeIsSound, PTL

\* Once read has returned 0 nothing is written any more: whoever still could
\* write keeps the writing end open (pipe_read)
THEOREM TheEndIsTheEnd == ASSUME ~Local PROVE Spec => EndIsEnd
<1>1. ASSUME PipeInv, [Next]_vars, eof PROVE count' <= count
    <2>1. count \in Nat /\ ~writer_open
        BY <1>1 DEF PipeInv, TypeOK, EofInv
    <2>2. ASSUME NEW t \in Threads, Write(t) PROVE FALSE
        BY <1>1, <2>1, <2>2, HeldIsOpen, SideFacts
           DEF Write, At, PipeInv, Places, Stages, Holding
    <2>3. ASSUME NEW t \in Threads, Read(t) PROVE count' <= count
        <3>1. PICK n \in 1 .. Size : count' = count - Least(n, count)
            BY <2>3 DEF Read
        <3>2. Least(n, count) \in Nat
            BY <2>1, <3>1, Numbers DEF Least
        <3> QED BY <2>1, <3>1, <3>2
    <2>4. ASSUME NEW t \in Threads, Work(t), ~Write(t), ~Read(t) PROVE count' = count
        BY <2>4 DEF Work, CheckShut, ReadNothing, Shutdown, EndShutdown, EndCall, Killed,
           PollNote, PollDup, PollCheck, PollLook, PollDrop, PollSleep, pipeVars
    <2>5. ASSUME NEW s \in Sides, Closing(s) PROVE count' = count
        BY <2>5 DEF Closing, CloseEnd, CloseNotify, CloseFree, pipeVars
    <2>6. ASSUME Demand PROVE count' = count
        BY <2>6 DEF Demand, Close, StartWrite, StartRead, StartShutdown, StartPoll,
           Interrupt, Take, pipeVars
    <2>7. Demand \/ (\E s \in Sides : Closing(s)) \/ (\E t \in Threads : Work(t)) \/ count' = count
        BY <1>1 DEF Next, vars, pipeVars
    <2>8. count' = count => count' <= count
        BY <2>1
    <2> QED BY <2>2, <2>3, <2>4, <2>5, <2>6, <2>7, <2>8, Zenon
<1>2. PipeInv /\ [Next]_vars => [eof => count' <= count]_vars
    BY <1>1
<1> QED BY <1>2, PipeIsSound, PTL DEF Spec, EndIsEnd

-----------------------------------------------------------------------------
(* The ring is the stream.                                                 *)

\* A function on 1 .. n is a sequence
LEMMA Row ==
    ASSUME NEW S, NEW n \in Nat, NEW f \in [1 .. n -> S]
    PROVE  f \in Seq(S) /\ Len(f) = n
OBVIOUS

\* Two sequences put together
LEMMA Joined ==
    ASSUME NEW f \in Seq(0 .. Marks - 1), NEW g \in Seq(0 .. Marks - 1),
           NEW h \in Seq(0 .. Marks - 1), Len(h) = Len(f) + Len(g),
           \A i \in 1 .. Len(f) : h[i] = f[i],
           \A i \in 1 .. Len(g) : h[Len(f) + i] = g[i]
    PROVE  h = f \o g
<1>1. Len(f) \in Nat /\ Len(g) \in Nat
    OBVIOUS
<1>2. ASSUME NEW i \in 1 .. Len(h) PROVE h[i] = IF i <= Len(f) THEN f[i] ELSE g[i - Len(f)]
    <2>1. CASE i <= Len(f)
        BY <1>1, <2>1
    <2>2. CASE i > Len(f)
        <3>1. i - Len(f) \in 1 .. Len(g) /\ Len(f) + (i - Len(f)) = i
            BY <1>1, <2>2
        <3>2. h[Len(f) + (i - Len(f))] = g[i - Len(f)]
            BY <3>1
        <3> QED BY <1>1, <2>2, <3>1, <3>2
    <2> QED BY <1>1, <2>1, <2>2
<1>3. /\ f \o g \in Seq(0 .. Marks - 1) /\ Len(f \o g) = Len(h)
      /\ \A i \in 1 .. Len(h) : (f \o g)[i] = IF i <= Len(f) THEN f[i] ELSE g[i - Len(f)]
    BY ConcatProperties
<1>4. \A i \in 1 .. Len(h) : h[i] = (f \o g)[i]
    BY <1>2, <1>3
<1> QED BY <1>3, <1>4, SeqEqual

\* ... and one with its front taken off
LEMMA Shortened ==
    ASSUME NEW S, NEW n \in Nat, NEW k \in 1 .. n,
           NEW f \in [1 .. n -> S], NEW h \in [1 .. n - k -> S],
           \A i \in 1 .. n - k : h[i] = f[i + k]
    PROVE  h = SubSeq(f, k + 1, Len(f))
<1>1. f \in Seq(S) /\ Len(f) = n /\ h \in Seq(S) /\ Len(h) = n - k
    OBVIOUS
<1> QED BY <1>1

\* How far behind head the place is that lies x after tail
LEMMA Distance ==
    ASSUME TypeOK, RingInv, NEW x \in 0 .. Size - 1
    PROVE  /\ (tail + x) % Size \in 0 .. Size - 1
           /\ (((tail + x) % Size) - head) % Size = IF x < count THEN x - count + Size ELSE x - count
<1>1. /\ tail \in 0 .. Size - 1 /\ count \in 0 .. Size /\ Size \in Nat /\ Size > 0
      /\ head = (tail + count) % Size
    BY Numbers DEF TypeOK, RingInv
<1>2. /\ (tail + x) % Size = IF tail + x < Size THEN tail + x ELSE tail + x - Size
      /\ (tail + x) % Size \in 0 .. Size - 1
    BY <1>1, Numbers
<1>3. head = IF tail + count < Size THEN tail + count ELSE tail + count - Size
    BY <1>1, Numbers
<1> DEFINE d == ((tail + x) % Size) - head
<1>4. d \in {x - count, x - count + Size, x - count - Size} /\ d \in Int /\ -Size < d /\ d < Size
    BY <1>1, <1>2, <1>3
<1>5. d % Size = IF d < 0 THEN d + Size ELSE d
    <2> HIDE DEF d
    <2> QED BY <1>1, <1>4, Numbers
<1>6. d % Size = IF x < count THEN x - count + Size ELSE x - count
    <2> HIDE DEF d
    <2> QED BY <1>1, <1>4, <1>5
<1> QED BY <1>2, <1>6

\* What is in the pipe is a sequence of marks
LEMMA ContentsType ==
    ASSUME TypeOK
    PROVE  /\ Contents \in [1 .. count -> 0 .. Marks - 1] /\ Contents \in Seq(0 .. Marks - 1)
           /\ Len(Contents) = count /\ count \in Nat
<1>1. count \in Nat /\ tail \in Int /\ ring \in [0 .. Size - 1 -> 0 .. Marks - 1]
    BY DEF TypeOK
<1>2. \A i \in 1 .. count : (tail + i - 1) % Size \in 0 .. Size - 1
    BY <1>1, Numbers
<1>3. Contents \in [1 .. count -> 0 .. Marks - 1]
    BY <1>1, <1>2 DEF Contents
<1>4. ASSUME NEW S, NEW n \in Nat, NEW f \in [1 .. n -> S] PROVE f \in Seq(S) /\ Len(f) = n
    OBVIOUS
<1> QED BY <1>1, <1>3, <1>4

LEMMA ContentsStayTyped ==
    ASSUME TypeOK'
    PROVE  /\ Contents' \in Seq(0 .. Marks - 1) /\ Len(Contents') = count' /\ count' \in Nat
           /\ Contents' = [i \in 1 .. count' |-> ring'[(tail' + i - 1) % Size]]
<1>1. count' \in Nat /\ tail' \in Int /\ ring' \in [0 .. Size - 1 -> 0 .. Marks - 1]
    BY DEF TypeOK
<1>2. \A i \in 1 .. count' : tail' + i - 1 \in Int
    BY <1>1
<1>3. \A i \in 1 .. count' : (tail' + i - 1) % Size \in 0 .. Size - 1
    BY <1>2, Numbers, Zenon
<1>4. Contents' = [i \in 1 .. count' |-> ring'[(tail' + i - 1) % Size]]
    BY DEF Contents
<1>5. Contents' \in [1 .. count' -> 0 .. Marks - 1]
    BY <1>1, <1>3, <1>4
<1> QED BY <1>1, <1>4, <1>5, Row

\* pipe_write puts its bytes behind what is there
LEMMA WritePuts ==
    ASSUME PipeInv, ~Local, PipeInv', NEW t \in Threads, Write(t)
    PROVE  [Abstract!Put]_(Abstract!streamVars)
<1> DEFINE k == IF reader_open THEN Least(left[t], Room) ELSE 0
<1>1. /\ pc[t] = "write" /\ ring' = Filled(k) /\ next' = (next + k) % Marks
      /\ count' = count + k
      /\ UNCHANGED <<tail, reader_open, writer_open>>
    BY DEF Write, At
<1>2. /\ k \in 0 .. Size - count /\ k \in Nat /\ (k > 0 => reader_open)
      /\ count \in 0 .. Size /\ tail \in 0 .. Size - 1 /\ Size \in Nat
      /\ next \in 0 .. Marks - 1 /\ Marks \in Nat
    <2>1. left[t] \in Nat /\ count \in 0 .. Size /\ Size \in Nat
        BY Numbers DEF PipeInv, TypeOK
    <2> QED BY <2>1, Numbers DEF Least, Room, PipeInv, TypeOK
<1> HIDE DEF k
<1>3. writer_open
    BY <1>1, HeldIsOpen, SideFacts DEF PipeInv, Places, Stages, Holding
<1>4. ASSUME NEW x \in 0 .. Size - 1
      PROVE  /\ x < count => ring'[(tail + x) % Size] = ring[(tail + x) % Size]
             /\ count <= x /\ x < count + k
                   => ring'[(tail + x) % Size] = (next + (x - count)) % Marks
    <2> DEFINE q == (tail + x) % Size
    <2>1. /\ q \in 0 .. Size - 1
          /\ (q - head) % Size = IF x < count THEN x - count + Size ELSE x - count
        BY Distance DEF PipeInv
    <2> HIDE DEF q
    <2>2. ring'[q] = IF (q - head) % Size < k THEN (next + ((q - head) % Size)) % Marks ELSE ring[q]
        BY <1>1, <1>2, <2>1, FilledRing DEF PipeInv
    <2>3. x < count => ring'[q] = ring[q]
        BY <1>2, <2>1, <2>2
    <2>4. count <= x /\ x < count + k => ring'[q] = (next + (x - count)) % Marks
        BY <1>2, <2>1, <2>2
    <2> QED BY <2>3, <2>4 DEF q
<1>5. \A x \in 0 .. count - 1 : ring'[(tail + x) % Size] = ring[(tail + x) % Size]
    BY <1>2, <1>4
<1>6. ASSUME NEW x \in 0 .. k - 1 PROVE ring'[(tail + (count + x)) % Size] = (next + x) % Marks
    <2>1. /\ count + x \in 0 .. Size - 1 /\ count <= count + x /\ count + x < count + k
          /\ count + x - count = x
        BY <1>2
    <2>2. PICK y \in 0 .. Size - 1 : y = count + x
        BY <2>1
    <2>3. ring'[(tail + y) % Size] = (next + (y - count)) % Marks
        BY <1>4, <2>1, <2>2
    <2> QED BY <1>2, <2>1, <2>2, <2>3
<1>7. /\ Contents = [i \in 1 .. count |-> ring[(tail + i - 1) % Size]]
      /\ Contents' = [i \in 1 .. count + k |-> ring'[(tail + i - 1) % Size]]
    BY <1>1 DEF Contents
<1>8. /\ Contents \in Seq(0 .. Marks - 1) /\ Len(Contents) = count
      /\ Contents' \in Seq(0 .. Marks - 1) /\ Len(Contents') = count + k
    BY <1>1, ContentsType, ContentsStayTyped DEF PipeInv
<1>9. Contents' = Contents \o [j \in 1 .. k |-> (next + j - 1) % Marks]
    <2> DEFINE g == [j \in 1 .. k |-> (next + j - 1) % Marks]
    <2>1. g \in Seq(0 .. Marks - 1) /\ Len(g) = k
        <3>1. \A j \in 1 .. k : next + j - 1 \in Int
            BY <1>2
        <3>2. \A j \in 1 .. k : (next + j - 1) % Marks \in 0 .. Marks - 1
            BY <3>1, Numbers, Zenon
        <3>3. g \in [1 .. k -> 0 .. Marks - 1]
            BY <3>2
        <3> HIDE DEF g
        <3> QED BY <1>2, <3>3, Row
    <2>2. ASSUME NEW i \in 1 .. count PROVE Contents'[i] = Contents[i]
        <3>1. i - 1 \in 0 .. count - 1 /\ tail + (i - 1) = tail + i - 1 /\ i \in 1 .. count + k
            BY <1>2
        <3>2. ring'[(tail + (i - 1)) % Size] = ring[(tail + (i - 1)) % Size]
            BY <1>5, <3>1
        <3> QED BY <1>7, <3>1, <3>2
    <2>3. ASSUME NEW i \in 1 .. k PROVE Contents'[count + i] = g[i]
        <3>1. /\ i - 1 \in 0 .. k - 1 /\ tail + (count + (i - 1)) = tail + (count + i) - 1
              /\ next + (i - 1) = next + i - 1 /\ count + i \in 1 .. count + k
            BY <1>2
        <3>2. ring'[(tail + (count + (i - 1))) % Size] = (next + (i - 1)) % Marks
            BY <1>6, <3>1
        <3>3. /\ Contents'[count + i] = ring'[(tail + (count + i) - 1) % Size]
              /\ g[i] = (next + i - 1) % Marks
            BY <1>7, <3>1
        <3> QED BY <3>1, <3>2, <3>3
    <2>4. /\ \A i \in 1 .. Len(Contents) : Contents'[i] = Contents[i]
          /\ \A i \in 1 .. Len(g) : Contents'[Len(Contents) + i] = g[i]
          /\ Len(Contents') = Len(Contents) + Len(g)
        BY <1>8, <2>1, <2>2, <2>3
    <2> HIDE DEF g
    <2>5. Contents' = Contents \o g
        BY <1>8, <2>1, <2>4, Joined
    <2> QED BY <2>5 DEF g
<1>10. Len(Contents) = count
    BY ContentsType DEF PipeInv
<1>11. CASE k > 0
    <2>1. k \in 1 .. Size - Len(Contents)
        BY <1>2, <1>10, <1>11
    <2> QED BY <1>1, <1>2, <1>3, <1>9, <1>11, <2>1 DEF Abstract!Put
<1>12. CASE k = 0
    <2>1. next' = next
        <3>1. next % Marks = next
            BY <1>2, StreamAssumption, Turn
        <3> QED BY <1>1, <1>2, <1>12, <3>1
    <2>2. Contents' = Contents
        <3>1. \A i \in 1 .. count : i - 1 \in 0 .. count - 1 /\ tail + (i - 1) = tail + i - 1
            BY <1>2
        <3>2. \A i \in 1 .. count : ring'[(tail + i - 1) % Size] = ring[(tail + i - 1) % Size]
            BY <1>5, <3>1
        <3>3. count + k = count
            BY <1>2, <1>12
        <3> QED BY <1>7, <3>2, <3>3
    <2> QED BY <1>1, <2>1, <2>2 DEF Abstract!streamVars
<1> QED BY <1>2, <1>11, <1>12

\* pipe_read takes what is at the front
LEMMA ReadTakes ==
    ASSUME PipeInv, ~Local, PipeInv', NEW t \in Threads, Read(t)
    PROVE  [Abstract!Take]_(Abstract!streamVars)
<1>1. PICK n \in 1 .. Size :
          tail' = (tail + Least(n, count)) % Size /\ count' = count - Least(n, count)
    BY DEF Read
<1> DEFINE k == Least(n, count)
<1>2. /\ k \in 0 .. count /\ k \in Nat /\ count \in 0 .. Size /\ tail \in 0 .. Size - 1
      /\ Size \in Nat /\ Size > 0
    <2>1. count \in 0 .. Size /\ Size \in Nat /\ n \in Nat
        BY Numbers DEF PipeInv, TypeOK
    <2> QED BY <2>1, Numbers DEF Least, PipeInv, TypeOK
<1>3. /\ tail' = (tail + k) % Size /\ count' = count - k /\ pc[t] = "read"
      /\ UNCHANGED <<ring, next, reader_open, writer_open>>
    BY <1>1 DEF Read, At
<1> HIDE DEF k
<1>4. reader_open
    BY <1>3, HeldIsOpen, SideFacts DEF PipeInv, Places, Stages, Holding
<1>5. ASSUME NEW i \in 1 .. count - k
      PROVE  (tail' + i - 1) % Size = (tail + (i + k) - 1) % Size
    <2>1. CASE tail + k < Size
        <3>1. tail' = tail + k
            BY <1>2, <1>3, <2>1, Numbers
        <3>2. tail + k + i - 1 = tail + (i + k) - 1
            BY <1>2
        <3> QED BY <3>1, <3>2
    <2>2. CASE tail + k >= Size
        <3>1. tail' = tail + k - Size
            BY <1>2, <1>3, <2>2, Numbers
        <3>2. /\ tail + k - Size + i - 1 = tail + (i + k) - 1 - Size
              /\ 0 <= tail + (i + k) - 1 - Size /\ tail + (i + k) - 1 - Size < Size
            BY <1>2, <2>2
        <3>3. (tail + (i + k) - 1 - Size) % Size = tail + (i + k) - 1 - Size
            BY <1>2, <3>2, Numbers
        <3>4. (tail + (i + k) - 1) % Size = tail + (i + k) - 1 - Size
            BY <1>2, <3>2, Numbers
        <3> QED BY <3>1, <3>2, <3>3, <3>4
    <2> QED BY <1>2, <2>1, <2>2
<1>6. Contents' = [i \in 1 .. count - k |-> ring[(tail' + i - 1) % Size]]
    BY <1>3 DEF Contents
<1>7. /\ Contents \in [1 .. count -> 0 .. Marks - 1] /\ Len(Contents) = count
      /\ ring \in [0 .. Size - 1 -> 0 .. Marks - 1] /\ tail' \in Int
    <2>1. TypeOK /\ ring \in [0 .. Size - 1 -> 0 .. Marks - 1]
        BY DEF PipeInv, TypeOK
    <2>2. tail' \in Int
        BY <1>2, <1>3, Numbers
    <2> QED BY <2>1, <2>2, ContentsType
<1>8. Contents' \in [1 .. count - k -> 0 .. Marks - 1]
    <2>1. \A i \in 1 .. count - k : tail' + i - 1 \in Int
        BY <1>2, <1>7
    <2>2. \A i \in 1 .. count - k : (tail' + i - 1) % Size \in 0 .. Size - 1
        BY <2>1, Numbers, Zenon
    <2> QED BY <1>6, <1>7, <2>2
<1>9. ASSUME NEW i \in 1 .. count - k PROVE Contents'[i] = Contents[i + k]
    <2>1. i + k \in 1 .. count
        BY <1>2
    <2> QED BY <1>5, <1>6, <2>1 DEF Contents
<1>10. CASE k > 0
    <2>1. k \in 1 .. Len(Contents) /\ k \in 1 .. count
        BY <1>2, <1>7, <1>10
    <2>2. Contents' = SubSeq(Contents, k + 1, Len(Contents))
        BY <1>2, <1>7, <1>8, <1>9, <2>1, Shortened
    <2> QED BY <1>3, <1>4, <2>1, <2>2 DEF Abstract!Take
<1>11. CASE k = 0
    <2>1. count - k = count /\ \A i \in 1 .. count : i + k = i
        BY <1>2, <1>11
    <2>2. Contents' = Contents
        BY <1>7, <1>8, <1>9, <2>1
    <2> QED BY <1>3, <2>2 DEF Abstract!streamVars
<1> QED BY <1>2, <1>10, <1>11

\* close_end closes one end; the other steps change nothing of it
LEMMA OthersKeep ==
    ASSUME UNCHANGED <<ring, tail, count, next, reader_open, writer_open>>
    PROVE  UNCHANGED Abstract!streamVars
BY DEF Abstract!streamVars, Contents

LEMMA CloseCloses ==
    ASSUME NEW s \in Sides, CloseEnd(s), PipeInv
    PROVE  Abstract!Close
<1>1. UNCHANGED <<ring, tail, count, next>>
    BY DEF CloseEnd
<1>2. Contents' = Contents
    BY <1>1 DEF Contents
<1>3. CASE s = "w"
    BY <1>1, <1>2, <1>3 DEF CloseEnd, Abstract!Close, PipeInv, TypeOK
<1>4. CASE s = "r"
    BY <1>1, <1>2, <1>4 DEF CloseEnd, Abstract!Close, PipeInv, TypeOK
<1> QED BY <1>3, <1>4, SideFacts

\* A pipe is a stream: the bytes come out in the order they went in, at most
\* Size are on their way, and nothing goes in at a closed end (pipe_read,
\* pipe_write, close_end)
THEOREM ThePipeIsAStream == ASSUME ~Local PROVE Spec => IsAStream
<1>1. Init => Abstract!Init
    BY DEF Init, Abstract!Init, Contents
<1>2. ASSUME PipeInv, PipeInv', [Next]_vars
      PROVE  [Abstract!Put \/ Abstract!Take \/ Abstract!Close]_(Abstract!streamVars)
    <2>1. ASSUME NEW t \in Threads, Work(t)
          PROVE  [Abstract!Put \/ Abstract!Take \/ Abstract!Close]_(Abstract!streamVars)
        <3>1. CASE Write(t)
            BY <1>2, <3>1, WritePuts
        <3>2. CASE Read(t)
            BY <1>2, <3>2, ReadTakes
        <3>3. CASE ~Write(t) /\ ~Read(t)
            <4>1. UNCHANGED <<ring, tail, count, next, reader_open, writer_open>>
                BY <2>1, <3>3 DEF Work, CheckShut, ReadNothing, Shutdown, EndShutdown, EndCall,
                   Killed, PollNote, PollDup, PollCheck, PollLook, PollDrop, PollSleep, pipeVars
            <4> QED BY <4>1, OthersKeep
        <3> QED BY <3>1, <3>2, <3>3
    <2>2. ASSUME NEW s \in Sides, Closing(s)
          PROVE  [Abstract!Put \/ Abstract!Take \/ Abstract!Close]_(Abstract!streamVars)
        <3>1. CASE CloseEnd(s)
            BY <1>2, <3>1, CloseCloses
        <3>2. CASE CloseNotify(s) \/ CloseFree(s)
            BY <3>2, OthersKeep DEF CloseNotify, CloseFree, pipeVars
        <3> QED BY <2>2, <3>1, <3>2 DEF Closing
    <2>3. ASSUME Demand
          PROVE  UNCHANGED Abstract!streamVars
        BY <2>3, OthersKeep DEF Demand, Close, StartWrite, StartRead, StartShutdown, StartPoll,
           Interrupt, Take, pipeVars
    <2>4. CASE UNCHANGED vars
        BY <2>4, OthersKeep DEF vars, pipeVars
    <2> QED BY <1>2, <2>1, <2>2, <2>3, <2>4 DEF Next
<1> QED BY <1>1, <1>2, PipeIsSound, PTL DEF Spec, IsAStream, Abstract!Spec

=============================================================================
