---------------------------- MODULE TcpRecovery ----------------------------
(***************************************************************************)
(* Loss recovery of one sender (src/net/tcp.c): the list of stretches that *)
(* serves as reassembly list and as SACK scoreboard, and the congestion    *)
(* window with NewReno's recovery, driven by the acknowledgements of a     *)
(* receiver that holds any part of what was sent.  Tcp leaves both to a    *)
(* choice; here they are what is checked.  A byte is a sequence number, a  *)
(* segment has Smss of them, and the network is whatever the receiver      *)
(* reports.                                                                *)
(***************************************************************************)
EXTENDS Integers, Sequences, FiniteSets

CONSTANTS RecMod,      \* sequence numbers are modulo RecMod
          Smss,        \* bytes of a segment
          Ranges,      \* TCP_OOO_RANGES
          CwndMax,     \* TCP_CWND_MAX
          MaxSpan,     \* bytes outstanding at most
          MaxSent,     \* bytes sent in all
          MaxDup       \* where the count of duplicates stops (255)

RecAssumption ==
  RecMod \in Nat /\ Smss \in Nat \ {0} /\ Ranges \in Nat \ {0} /\ CwndMax >= 8 * Smss
  /\ 2 * MaxSpan < RecMod /\ MaxSent \in Nat /\ MaxDup > 3

VARIABLES una,      \* oldest byte not acknowledged
          span,     \* how many bytes from una on have been sent: snd_max - snd_una
          sacked,   \* the scoreboard: stretches <<start, end>>, in order
          said,     \* the bytes it should hold: reported and not forgotten since
          cc,       \* the congestion window
          dupacks,  \* duplicate acknowledgements in a row
          resend,   \* rexmit_next: holes below it have been sent again
          allSent   \* bytes sent so far

recVars == <<una, span, sacked, said, cc, dupacks, resend, allSent>>

Lt(x, y) == (x - y) % RecMod >= RecMod \div 2
Leq(x, y) == x = y \/ Lt(x, y)
Dist(x, y) == (x - y) % RecMod
At(n) == (una + n) % RecMod
Least(x, y) == IF x < y THEN x ELSE y
Most(x, y) == IF x > y THEN x ELSE y

(***************************************************************************)
(* The list of stretches.                                                  *)
(***************************************************************************)
\* The new stretch joined with every one it touches, between those before and
\* those after it; without room nothing changes.
tcp_ooo_add(q, start, end) ==
  LET before == SelectSeq(q, LAMBDA r : Lt(r[2], start))
      joined == SelectSeq(q, LAMBDA r : ~Lt(r[2], start) /\ Leq(r[1], end))
      after == SelectSeq(q, LAMBDA r : ~Lt(r[2], start) /\ ~Leq(r[1], end))
      low == IF joined # <<>> /\ Lt(joined[1][1], start) THEN joined[1][1] ELSE start
      high == IF joined # <<>> /\ Lt(end, joined[Len(joined)][2])
              THEN joined[Len(joined)][2] ELSE end
  IN  IF Len(before) + 1 + Len(after) > Ranges THEN q
      ELSE before \o <<<<low, high>>>> \o after

\* Stretches acknowledged in full are gone, one acknowledged in part is cut.
tcp_sack_prune(q, ack) ==
  LET kept == SelectSeq(q, LAMBDA r : Lt(ack, r[2]))
  IN  [i \in 1 .. Len(kept) |-> <<IF Lt(kept[i][1], ack) THEN ack ELSE kept[i][1], kept[i][2]>>]

\* The stretch with the latest segment first, then the others in order.
tcp_sack_blocks(q, recent, max) ==
  LET Has(r) == Leq(r[1], recent) /\ Lt(recent, r[2])
      all == SelectSeq(q, Has) \o SelectSeq(q, LAMBDA r : ~Has(r))
  IN  SubSeq(all, 1, Least(max, Len(all)))

sumTo[f \in Seq(Int), n \in Nat] == IF n = 0 THEN 0 ELSE f[n] + sumTo[f, n - 1]
tcp_sack_bytes(q) == sumTo[[i \in 1 .. Len(q) |-> Dist(q[i][2], q[i][1])], Len(q)]

\* The first gap before a stretch, at or after `from': <<start, length>>, or
\* <<>> if nothing is reported beyond.
tcp_sack_next_hole(q, from) ==
  LET beyond == SelectSeq(q, LAMBDA r : Lt(from, r[2])) IN
  IF beyond = <<>> THEN <<>>
  ELSE IF Lt(from, beyond[1][1]) THEN <<from, Dist(beyond[1][1], from)>>
  ELSE IF Len(beyond) = 1 THEN <<>>
  ELSE <<beyond[1][2], Dist(beyond[2][1], beyond[1][2])>>

\* The loop over the holes from `from' on ends after as many as there are
\* stretches.
holesFrom[q \in Seq(Seq(Int)), from \in Int, n \in Nat] ==
  LET hole == tcp_sack_next_hole(q, from) IN
  IF n = 0 \/ hole = <<>> THEN 0
  ELSE hole[2] + holesFrom[q, (hole[1] + hole[2]) % RecMod, n - 1]
tcp_sack_hole_bytes(q, from) == holesFrom[q, from, Len(q)]

(***************************************************************************)
(* The congestion window.                                                  *)
(***************************************************************************)
\* Mutant of half_flight: without the least of two segments
half_flight_any(flight) == flight \div 2
half_flight(flight) == Most(flight \div 2, 2 * Smss)
grown(cwnd, by) == Least(CwndMax, cwnd + by)
tcp_cc_init(iss) == [cwnd |-> Least(4 * Smss, CwndMax), ssthresh |-> CwndMax,
                     in_recovery |-> FALSE, recover |-> iss]

\* A full acknowledgement ends the recovery; a partial one asks for the next
\* hole; otherwise the window grows, by a segment in slow start and by about
\* one per round trip after it.
IsPartial(c, ack) == c.in_recovery /\ ~Lt(c.recover, ack)
tcp_cc_new_ack(c, acked, ack, flight) ==
  IF IsPartial(c, ack)
  THEN [c EXCEPT !.cwnd = Most(Most(@ - acked, 0) + (IF acked >= Smss THEN Smss ELSE 0), Smss)]
  ELSE IF c.in_recovery
  THEN [c EXCEPT !.in_recovery = FALSE, !.cwnd = Least(c.ssthresh, Most(flight, Smss) + Smss)]
  ELSE IF c.cwnd < c.ssthresh THEN [c EXCEPT !.cwnd = grown(@, Least(acked, Smss))]
  ELSE [c EXCEPT !.cwnd = grown(@, Most((Smss * Smss) \div @, 1))]

\* The third duplicate starts a recovery, unless it answers data sent before
\* the last one.
StartsRecovery(c, count, ack) == ~c.in_recovery /\ count = 3 /\ Lt(c.recover, ack)
tcp_cc_dup_ack(c, count, ack, max, flight) ==
  IF c.in_recovery THEN [c EXCEPT !.cwnd = grown(@, Smss)]
  ELSE IF ~StartsRecovery(c, count, ack) THEN c
  ELSE [cwnd |-> grown(half_flight(flight), 3 * Smss), ssthresh |-> half_flight(flight),
        in_recovery |-> TRUE, recover |-> (max - 1) % RecMod]

tcp_cc_timeout(c, flight, max, first) ==
  [cwnd |-> Smss, ssthresh |-> IF first THEN half_flight(flight) ELSE c.ssthresh,
   in_recovery |-> FALSE, recover |-> (max - 1) % RecMod]

(***************************************************************************)
(* The sender (with SACK agreed).                                          *)
(***************************************************************************)
\* RFC 6675's estimate of what is still in the network.
From == IF Lt(una, resend) THEN resend ELSE una
pipe == Most(0, span - tcp_sack_bytes(sacked) - tcp_sack_hole_bytes(sacked, From))

\* Limited transmit: one segment more for each of the first two duplicates.
Congestion == cc.cwnd + (IF ~cc.in_recovery /\ dupacks \in 1 .. 2 THEN dupacks * Smss ELSE 0)

\* New data, when a segment fits the window.
SendNew ==
  /\ IF cc.in_recovery THEN tcp_sack_next_hole(sacked, From) = <<>> /\ pipe < cc.cwnd
                       ELSE span < Congestion
  /\ span + Smss <= MaxSpan /\ allSent + Smss <= MaxSent
  /\ span' = span + Smss /\ allSent' = allSent + Smss
  /\ UNCHANGED <<una, sacked, said, cc, dupacks, resend>>

\* In recovery, the next hole the scoreboard shows.
SendHole ==
  LET hole == tcp_sack_next_hole(sacked, From) IN
  /\ cc.in_recovery /\ hole # <<>> /\ pipe < cc.cwnd
  /\ resend' = (hole[1] + Least(hole[2], Smss)) % RecMod
  /\ UNCHANGED <<una, span, sacked, said, cc, dupacks, allSent>>

\* A segment that reports stretch [start, end) as held and acknowledges up to
\* ack: blocks outside what is outstanding are not believed.
ReportBlock(start, end, ack) ==
  Lt(start, end) /\ Lt(ack, start) /\ ~Lt(At(span), end)

\* Bytes of a stretch that starts at s and ends before e.
Span(s, e) == {(s + i) % RecMod : i \in 0 .. Dist(e, s) - 1}
Forget(bytes, ack) == {b \in bytes : ~Lt(b, ack)}

\* A duplicate acknowledgement with a block.
DupAck(start, end) ==
  /\ span > 0 /\ ReportBlock(start, end, una)
  /\ LET q == tcp_ooo_add(sacked, start, end) IN
     /\ sacked' = q
     /\ said' = IF q = sacked /\ ~(Span(start, end) \subseteq said) THEN said
                ELSE said \cup Span(start, end)
  /\ dupacks' = Least(dupacks + 1, MaxDup)
  /\ LET starts == StartsRecovery(cc, dupacks', una)
         c == tcp_cc_dup_ack(cc, dupacks', una, At(span), span)
     IN IF cc.in_recovery THEN UNCHANGED <<cc, resend>>
        ELSE /\ cc' = IF starts THEN [c EXCEPT !.cwnd = c.ssthresh] ELSE c
             \* the segment at una goes again at once (retransmit_one)
             /\ resend' = IF starts THEN (una + Smss) % RecMod ELSE resend
  /\ UNCHANGED <<una, span, allSent>>

\* An acknowledgement of n bytes more (process_ack).
NewAck(n) ==
  LET ack == At(n) IN
  /\ n \in 1 .. span
  /\ ack \notin said                    \* what the receiver holds it acknowledges
  /\ una' = ack /\ span' = span - n /\ dupacks' = 0
  /\ sacked' = tcp_sack_prune(sacked, ack) /\ said' = Forget(said, ack)
  /\ cc' = IF IsPartial(cc, ack) THEN cc ELSE tcp_cc_new_ack(cc, n, ack, span - n)
  \* in recovery with no hole left to repair, what ack points at goes again
  /\ resend' = IF IsPartial(cc, ack) /\ n < span
                  /\ tcp_sack_next_hole(sacked', ack) = <<>>
               THEN (ack + Smss) % RecMod ELSE resend
  /\ UNCHANGED allSent

\* The timer: everything goes again, and the receiver may have dropped what it
\* had reported.
Timeout(first) ==
  /\ span > 0
  /\ cc' = tcp_cc_timeout(cc, span, At(span), first)
  /\ dupacks' = 0 /\ sacked' = <<>> /\ said' = {}
  /\ UNCHANGED <<una, span, resend, allSent>>

RecInit ==
  /\ una = RecMod - 3 /\ span = 0 /\ sacked = <<>> /\ said = {} /\ dupacks = 0
  /\ cc = tcp_cc_init((RecMod - 4) % RecMod) /\ resend = 0 /\ allSent = 0

RecNext ==
  \/ SendNew \/ SendHole
  \/ \E i \in 1 .. span - 1 : \E j \in i + 1 .. span : DupAck(At(i), At(j))
  \/ \E n \in 1 .. span : NewAck(n)
  \/ \E first \in BOOLEAN : Timeout(first)

(***************************************************************************)
(* Properties.                                                             *)
(***************************************************************************)
\* The scoreboard holds exactly the bytes reported and not forgotten (as long
\* as its stretches were enough for the reports), in stretches in order that
\* neither touch nor overlap and lie in what is outstanding; and the holes it
\* shows, their sum, and the blocks made from it, are what those bytes say
\* (tcp_ooo_add, tcp_sack_prune, tcp_sack_next_hole, tcp_sack_hole_bytes).
ScoreboardIsTrue ==
  LET held == UNION {Span(sacked[i][1], sacked[i][2]) : i \in 1 .. Len(sacked)}
      Missing(n) == {i \in n .. span - 1 : At(i) \notin said /\ \E j \in i .. span - 1 : At(j) \in said}
  IN /\ held = said
     /\ Len(sacked) <= Ranges /\ tcp_sack_bytes(sacked) = Cardinality(said)
     /\ \A i \in 1 .. Len(sacked) - 1 : Lt(sacked[i][2], sacked[i + 1][1])
     /\ \A n \in 0 .. span :
          LET hole == tcp_sack_next_hole(sacked, At(n)) IN
          /\ (hole = <<>>) <=> (Missing(n) = {})
          /\ hole # <<>> =>
               /\ \A i \in 0 .. hole[2] - 1 : (hole[1] + i) % RecMod \notin said
               /\ (hole[1] + hole[2]) % RecMod \in said
          /\ tcp_sack_hole_bytes(sacked, At(n)) = Cardinality(Missing(n))
     /\ \A b \in said : LET blocks == tcp_sack_blocks(sacked, b, 2) IN
          b \in Span(blocks[1][1], blocks[1][2])

\* The congestion window never shuts and never overflows: there is always room
\* for a segment when nothing is in flight, so a timeout or an
\* acknowledgement can always get the sender going (tcp_cc_new_ack,
\* tcp_cc_dup_ack, tcp_cc_timeout).
WindowStaysOpen ==
  /\ cc.cwnd >= Smss /\ cc.cwnd <= CwndMax /\ cc.ssthresh >= 2 * Smss
  /\ span = 0 => tcp_sack_next_hole(sacked, From) = <<>> /\ pipe < cc.cwnd
=============================================================================
