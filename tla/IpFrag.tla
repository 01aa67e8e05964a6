------------------------------- MODULE IpFrag -------------------------------
(***************************************************************************)
(* Reassembly of IPv4 fragments (src/net/ipfrag.c) and the receive thread  *)
(* that gives up incomplete datagrams in time (netd in src/net/net.c,      *)
(* waiting in src/drivers/net/virtio_net.c).                               *)
(*                                                                         *)
(* Fragments reach ipfrag_input in two ways: from the card, through netd,  *)
(* and from any thread that sends to this machine itself (ipv4_send_parts  *)
(* calls ipv4_input), which must wake netd for the new deadline.  Each     *)
(* step is one hold of frag_lock or card_lock.  Offsets and lengths are in *)
(* units of 8 bytes; what a fragment carries is left out, since a piece is *)
(* known by its place.                                                     *)
(***************************************************************************)
EXTENDS Integers, FiniteSets, FiniteSetsExt

CONSTANTS FragKeys,    \* addresses, protocol and identification together
          FragSlots,   \* IPFRAG_SLOTS
          FragMemory,  \* IPFRAG_MEMORY, where a piece costs 1 + its length
          PayloadMax,  \* IPV4_PAYLOAD_MAX
          FragTimeout, \* timeout_ticks
          MaxNow       \* how far the clock goes

FragAssumption ==
  /\ FragSlots # {} /\ FragSlots \subseteq Nat /\ FragMemory \in Nat /\ PayloadMax \in Nat
  /\ FragTimeout \in Nat \ {0} /\ MaxNow \in Nat

VARIABLES slot,       \* the datagrams in progress
          memory,     \* memory_used
          handed,     \* the datagram handed on last: its pieces and its length
          now,        \* timer_ticks
          netd,       \* "run", "wait" (past ipfrag_expire) or "asleep"
          until,      \* the deadline netd waits for, 0 for none
          rx_woken,   \* virtio_net_wake_rx was called
          sender      \* a thread sending to this machine: "idle" or about to "wake" netd

fragVars == <<slot, memory, handed, now, netd, until, rx_woken, sender>>

NoDatagram == [used |-> FALSE, key |-> 0, pieces |-> {}, total |-> 0, deadline |-> 0]
End(p) == p.off + p.len
PieceCost(p) == 1 + p.len
TotalOf(pieces, f(_)) == FoldSet(LAMBDA p, sum : sum + f(p), 0, pieces)
CostOf(r) == TotalOf(r.pieces, PieceCost)

Used(S) == {i \in FragSlots : S[i].used}
release(S, i) == [S EXCEPT ![i] = NoDatagram]

\* The datagram oldest in time, the first of several.
Older(S, i, j) == S[i].deadline < S[j].deadline \/ (S[i].deadline = S[j].deadline /\ i < j)
oldest(S, among) == CHOOSE i \in among : \A j \in among \ {i} : Older(S, i, j)

\* The state of reassembly, as one record: the slots, the memory, and what was
\* handed on.
Nothing == [pieces |-> {}, total |-> 0]
Reassembly(S, mem, out) == [slots |-> S, memory |-> mem, out |-> out]
GiveUp(S, mem, i) == Reassembly(release(S, i), mem - CostOf(S[i]), Nothing)

\* Room for a piece of datagram i: the oldest others go, as few as it takes; if
\* it is this one that is too large, it goes itself.
evicted(S, mem, i, cost) ==
  LET byAge(n) == {j \in Used(S) \ {i} :
                     Cardinality({k \in Used(S) \ {i} : Older(S, k, j)}) < n}
      Freed(n) == TotalOf(byAge(n), LAMBDA j : CostOf(S[j]))
      n == CHOOSE m \in 0 .. Cardinality(FragSlots) :
             /\ mem - Freed(m) + cost <= FragMemory \/ m = Cardinality(FragSlots)
             /\ \A k \in 0 .. m - 1 : mem - Freed(k) + cost > FragMemory
  IN  Reassembly([j \in FragSlots |-> IF j \in byAge(n) THEN NoDatagram ELSE S[j]],
                 mem - Freed(n), Nothing)

\* A fragment that fits the datagram it belongs to: i is its slot.
add_piece(R, i, f) ==
  LET r == R.slots[i]
      p == [off |-> f.off, len |-> f.len]
      pieces == r.pieces \cup {p}
      total == IF f.more THEN r.total ELSE End(f)
  IN  IF R.memory + PieceCost(p) > FragMemory THEN GiveUp(R.slots, R.memory, i)
      ELSE IF total # 0 /\ TotalOf(pieces, LAMBDA q : q.len) = total
      THEN Reassembly(release(R.slots, i), R.memory - CostOf(r),
                      [pieces |-> pieces, total |-> total])
      ELSE Reassembly([R.slots EXCEPT ![i].pieces = pieces, ![i].total = total],
                      R.memory + PieceCost(p), Nothing)

Repeats(r, f) ==
  /\ [off |-> f.off, len |-> f.len] \in r.pieces
  /\ f.more \/ r.total = End(f)
\* Mutant of Overlaps: only the piece before it is looked at
OverlapsBefore(r, f) == \E p \in r.pieces : p.off < f.off /\ End(p) > f.off
Overlaps(r, f) ==
  \/ \E p \in r.pieces : p.off < f.off /\ End(p) > f.off
  \/ \E p \in r.pieces : p.off >= f.off /\ p.off < End(f)
     /\ \A q \in r.pieces : q.off >= f.off => q.off >= p.off
\* The last fragment says where the datagram ends.
Contradicts(r, f) ==
  \/ r.total # 0 /\ End(f) > r.total
  \/ ~f.more /\ r.total # 0 /\ End(f) # r.total
  \/ ~f.more /\ r.total = 0 /\ \E p \in r.pieces : p.off >= f.off /\ End(p) > End(f)

\* A fragment of the datagram in slot i of S.
place(S, mem, i, f) ==
  IF Repeats(S[i], f) THEN Reassembly(S, mem, Nothing)
  ELSE IF Overlaps(S[i], f) \/ Contradicts(S[i], f) THEN GiveUp(S, mem, i)
  ELSE add_piece(evicted(S, mem, i, PieceCost(f)), i, f)

Malformed(f) == (f.more /\ f.len = 0) \/ End(f) > PayloadMax
Mine(f) == {i \in FragSlots : slot[i].used /\ slot[i].key = f.key}
Begun(f) == [NoDatagram EXCEPT !.used = TRUE, !.key = f.key, !.deadline = now + FragTimeout]

\* The whole of ipfrag_input; it starts a datagram if Starts.
Starts(f) == ~Malformed(f) /\ Mine(f) = {}
ipfrag_input(f) ==
  LET free == FragSlots \ Used(slot)
      victim == IF free # {} THEN CHOOSE i \in free : TRUE ELSE oldest(slot, FragSlots)
  IN  IF Malformed(f)
      THEN IF Mine(f) = {} THEN Reassembly(slot, memory, Nothing)
           ELSE GiveUp(slot, memory, CHOOSE i \in Mine(f) : TRUE)
      ELSE IF Mine(f) # {} THEN place(slot, memory, CHOOSE i \in Mine(f) : TRUE, f)
      ELSE place([slot EXCEPT ![victim] = Begun(f)], memory - CostOf(slot[victim]), victim, f)

Becomes(R) == slot' = R.slots /\ memory' = R.memory /\ handed' = R.out
TakeIn(f) == Becomes(ipfrag_input(f))

(***************************************************************************)
(* netd: take frames until there are none, give up what is late, wait.     *)
(***************************************************************************)
FromCard(f) ==
  /\ netd = "run" /\ TakeIn(f)
  /\ rx_woken' = (rx_woken \/ Starts(f))      \* it wakes itself: it looks again
  /\ UNCHANGED <<now, netd, until, sender>>

\* Another thread sends a fragment to this machine; waking netd is a second step.
FromHere(f) ==
  /\ sender = "idle" /\ TakeIn(f)
  /\ sender' = IF Starts(f) THEN "wake" ELSE "idle"
  /\ UNCHANGED <<now, netd, until, rx_woken>>

virtio_net_wake_rx ==
  /\ sender = "wake" /\ sender' = "idle" /\ rx_woken' = TRUE
  /\ netd' = IF netd = "asleep" THEN "wait" ELSE netd
  /\ UNCHANGED <<slot, memory, handed, now, until>>

\* What is late goes; the next deadline is what netd then waits for.
ipfrag_expire ==
  LET late == {i \in Used(slot) : slot[i].deadline <= now}
      rest == {slot[i].deadline : i \in Used(slot) \ late}
  IN /\ netd = "run" /\ netd' = "wait"
     /\ slot' = [i \in FragSlots |-> IF i \in late THEN NoDatagram ELSE slot[i]]
     /\ memory' = memory - TotalOf(late, LAMBDA i : CostOf(slot[i]))
     /\ until' = IF rest = {} THEN 0 ELSE Min(rest)
     /\ handed' = Nothing /\ UNCHANGED <<now, rx_woken, sender>>

\* netd waits only while nobody called for it and the deadline is ahead.
virtio_net_wait_rx ==
  /\ netd = "wait"
  /\ IF ~rx_woken /\ (until = 0 \/ now < until)
     THEN netd' = "asleep" /\ UNCHANGED rx_woken
     ELSE netd' = "run" /\ rx_woken' = FALSE
  /\ UNCHANGED <<slot, memory, handed, now, until, sender>>

\* The card's interrupt: a frame has come.
NetdWakes ==
  /\ netd = "asleep" /\ netd' = "run" /\ rx_woken' = FALSE
  /\ UNCHANGED <<slot, memory, handed, now, until, sender>>

FragTick ==
  /\ now < MaxNow /\ now' = now + 1
  /\ netd' = IF netd = "asleep" /\ until # 0 /\ until <= now + 1 THEN "wait" ELSE netd
  /\ UNCHANGED <<slot, memory, handed, until, rx_woken, sender>>

FragInit ==
  /\ slot = [i \in FragSlots |-> NoDatagram] /\ memory = 0 /\ handed = Nothing
  /\ now = 0 /\ netd = "run" /\ until = 0 /\ rx_woken = FALSE /\ sender = "idle"

Fragments == [key : FragKeys, off : 0 .. PayloadMax, len : 0 .. 2, more : BOOLEAN]
IsFragment(f) == f.more \/ f.off # 0

FragNext ==
  \/ \E f \in {g \in Fragments : IsFragment(g)} : FromCard(f) \/ FromHere(f)
  \/ virtio_net_wake_rx \/ ipfrag_expire \/ virtio_net_wait_rx \/ NetdWakes \/ FragTick

(***************************************************************************)
(* Properties.                                                             *)
(***************************************************************************)
\* A datagram is handed on only when its pieces cover it from its first byte to
\* its last and none of them overlap, whatever fragments were repeated, out of
\* order, contradictory or of a datagram given up in between.
HandedOnWhole ==
  handed # Nothing =>
    /\ \A b \in 0 .. handed.total - 1 :
         Cardinality({p \in handed.pieces : p.off <= b /\ b < End(p)}) = 1
    /\ \A p \in handed.pieces : End(p) <= handed.total

\* memory_used is what the datagrams in progress are charged, and stays in its
\* limit, through evictions, refusals and completions.
MemoryIsCharged ==
  /\ memory = TotalOf(Used(slot), LAMBDA i : CostOf(slot[i])) /\ memory <= FragMemory
  /\ \A i, j \in Used(slot) : i # j => slot[i].key # slot[j].key

\* netd never sleeps past the deadline of a datagram in progress, also when it
\* was begun by another thread between netd's look and its sleep (rx_woken):
\* unless the wake-up is on its way.
DeadlineKept ==
  netd = "asleep" /\ sender = "idle" =>
    \A i \in Used(slot) : until # 0 /\ until <= slot[i].deadline
=============================================================================
