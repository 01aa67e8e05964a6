-------------------------------- MODULE Tcp --------------------------------
(***************************************************************************)
(* One TCP connection of src/net/tcp.c between two machines that both run  *)
(* it, over a network that loses, repeats and reorders segments.           *)
(*                                                                         *)
(* Socket "a" connects from machine A; "l" listens on machine B and "c" is *)
(* the one slot B has for a connection made by "l".  A step is one hold of *)
(* tcp_lock: one call by an owner, one segment handled by tcp_input, one   *)
(* turn of the loop of send_what_is_due with the segment it puts on the    *)
(* wire, or one timer that expires.                                        *)
(*                                                                         *)
(* Left out of the data: the rings are sequences of bytes and a byte is    *)
(* its place in the stream; the congestion window, the count of duplicate  *)
(* acknowledgements and the SACK scoreboard only choose WHEN something     *)
(* beyond the first outstanding segment goes, or goes again, so they are a *)
(* choice here; deadlines are armed or not, and expire at any time.  The   *)
(* growth of the rings and the scaling of windows are not modelled.        *)
(***************************************************************************)
EXTENDS Integers, Sequences, FiniteSets

CONSTANTS Mod,         \* sequence numbers are modulo Mod (2^32 in the code)
          Mss,         \* most bytes in a segment
          Room,        \* size of a receive or transmit ring
          MaxRetries,  \* TCP_MAX_RETRIES
          MaxFlight,   \* segments the network holds before a sender waits
          Lives,       \* how many connections "l" can make in the slot "c"
          Scenarios    \* names of what the owners and the network may do;
                       \* one is chosen for each behaviour (see Scenario)

TcpAssumption ==
  /\ Mod \in Nat /\ Mss \in Nat \ {0} /\ Room \in Nat \ {0}
  /\ 2 * Room + 4 < Mod           \* a window is less than half of the numbers
  /\ MaxRetries \in Nat /\ MaxFlight \in Nat /\ Lives \in Nat
  /\ Scenarios \subseteq {"opening", "one way", "hasty", "sleeping", "closing", "waiting"}

VARIABLES sk,      \* the sockets
          net,     \* the segments on their way
          sent,    \* the bytes write() has accepted, per stream
          got,     \* the bytes read() has returned, per stream
          faults,  \* faults the network may still commit
          sc,      \* the scenario of this behaviour; never changes
          lives    \* connections made in the slot "c" so far

tcpVars == <<sk, net, sent, got, faults, sc, lives>>

(***************************************************************************)
(* What the owners of the two ends and the network do in a behaviour: the  *)
(* pairs of a call and a socket that occur in it; how many bytes each side *)
(* writes; how many segments are lost, repeated or refused; and whether    *)
(* the timers are patient.  Each behaviour follows one scenario, so that   *)
(* every call meets every other without one graph that holds them all.     *)
(***************************************************************************)
Scenario ==
  LET Does(calls, a, c, faulty, patient) ==
        [calls |-> calls, bytes |-> [a |-> a, c |-> c], faults |-> faulty, patient |-> patient]
      stream == {<<"write", "a">>, <<"read", "c">>, <<"shutdown", "a">>}
  IN       \* The handshake, with everything its two ends may do meanwhile.
      CASE sc = "opening" ->
             Does({<<"read", "a">>, <<"close", "c">>} \cup ({"sleep", "signal", "close"} \X {"a", "l"}), 0, 0, 1, FALSE)
           \* A stream from a to c, repackaged and lost on its way.
        [] sc = "one way" -> Does(stream, 3, 0, 1, TRUE)
           \* Timers that expire too early.
        [] sc = "hasty" -> Does(stream, 2, 0, 0, FALSE)
           \* Readers and writers that sleep.
        [] sc = "sleeping" ->
             Does({<<"write", "a">>, <<"read", "c">>, <<"sleep", "a">>, <<"sleep", "c">>, <<"signal", "c">>,
                   <<"close", "c">>}, 3, 0, 0, TRUE)
           \* Both sides talk and close.
        [] sc = "closing" ->
             Does(({"shutdown", "close"} \X {"a", "c"}) \cup {<<"write", "a">>, <<"read", "c">>}, 1, 0, 1, TRUE)
           \* The client waits for the other end to speak first.
        [] sc = "waiting" -> Does({<<"sleep", "a">>, <<"read", "a">>}, 0, 1, 1, TRUE)

Smaller(x, y) == IF x < y THEN x ELSE y

\* Sequence numbers compare by the sign of their difference.
SEQ_LT(x, y) == (x - y) % Mod >= Mod \div 2
SEQ_GT(x, y) == SEQ_LT(y, x)
Plus(x, n) == (x + n) % Mod
Ahead(x, y) == (x - y) % Mod      \* how far x is after y

(***************************************************************************)
(* The sockets.  tx holds the bytes from snd_una on, rx what is in order   *)
(* and unread, held what is kept beyond a gap: pairs of a sequence number  *)
(* and a byte.  waits names the calls asleep on the socket.                *)
(***************************************************************************)
NoSocket ==
  [used |-> FALSE, user_open |-> FALSE, state |-> "CLOSED", error |-> FALSE,
   iss |-> 0, snd_una |-> 0, snd_nxt |-> 0, snd_max |-> 0, snd_wnd |-> 0,
   syn_acked |-> FALSE, fin_queued |-> FALSE, tx |-> <<>>,
   retransmit_one |-> FALSE, irs |-> 0, rcv_nxt |-> 0, peer_fin |-> FALSE,
   ack_pending |-> FALSE, rx |-> <<>>, held |-> {}, fin_known |-> FALSE,
   fin_seq |-> 0, rto |-> FALSE, retries |-> 0, reap |-> FALSE,
   listener |-> FALSE, waits |-> {}]

\* A slot set up as a closed socket.
alloc_socket == [NoSocket EXCEPT !.used = TRUE]

\* The first sequence number is random: another one for every connection.
Iss(s, life) == IF s = "a" THEN Mod - 2 ELSE (Mod \div 2 + 3 * life) % Mod
start_sequence(k, iss) ==
  [k EXCEPT !.iss = iss, !.snd_una = iss, !.snd_nxt = iss, !.snd_max = iss]

wake(S, s) == [S EXCEPT ![s].waits = {}]
free_socket(S, s) == [S EXCEPT ![s] = NoSocket]
rx_free(k) == Room - Len(k.rx)

\* The connection is over, now; nobody will ask about one that was not
\* accepted or whose owner has closed it.
abort_connection(S, s) ==
  LET Gone(T) == IF T[s].listener \/ ~T[s].user_open THEN free_socket(T, s) ELSE T
      Told(T) == IF T[s].listener THEN wake(T, "l") ELSE T
  IN  Gone(Told(wake([S EXCEPT ![s].error = TRUE, ![s].state = "CLOSED",
                               ![s].rto = FALSE, ![s].ack_pending = FALSE], s)))

Peer(s) == IF s = "a" THEN "c" ELSE "a"      \* machine B is addressed as "c"

(***************************************************************************)
(* Segments.                                                               *)
(***************************************************************************)
Segment(s, flags, seq, ack, wnd, data) ==
  [to |-> Peer(s), flags |-> flags, seq |-> seq, ack |-> ack, wnd |-> wnd,
   data |-> data]

\* What machine s answers to a segment it has no connection for.
reset_for_segment(s, g) ==
  IF "RST" \in g.flags THEN {}
  ELSE IF "ACK" \in g.flags THEN {Segment(s, {"RST"}, g.ack, 0, 0, <<>>)}
  ELSE {Segment(s, {"RST", "ACK"}, 0,
                Plus(g.seq, Len(g.data) + Cardinality(g.flags \cap {"SYN", "FIN"})),
                0, <<>>)}

(***************************************************************************)
(* Sending: one turn of the loop of send_what_is_due.                      *)
(***************************************************************************)
\* The segment goes to the network with the acknowledgement and the window
\* of the socket as it now is (k: after the assignments of the turn).
transmit(s, k, flags, seq, data) ==
  /\ net' = net \cup {Segment(s, flags, seq, IF "ACK" \in flags THEN k.rcv_nxt ELSE 0,
                              rx_free(k), data)}
  /\ sk' = [sk EXCEPT ![s] = IF "ACK" \in flags THEN [k EXCEPT !.ack_pending = FALSE]
                                                  ELSE k]
  /\ UNCHANGED <<sent, got, faults, sc, lives>>

\* Mutant of Outstanding: the timer is not started
OutstandingUntimed(k) == [k EXCEPT !.snd_max = IF SEQ_GT(k.snd_nxt, @) THEN k.snd_nxt ELSE @]
\* What takes sequence space moves snd_max and starts the timer.
Outstanding(k) ==
  [k EXCEPT !.snd_max = IF SEQ_GT(k.snd_nxt, @) THEN k.snd_nxt ELSE @, !.rto = TRUE]

MaySend(s) ==
  /\ sk[s].used /\ sk[s].state \notin {"CLOSED", "LISTEN"}
  /\ Cardinality(net) < MaxFlight

\* Fast retransmit of the segment at snd_una, or with SACK of one that starts
\* at a hole beyond it.
SendAgain(s) ==
  LET k == sk[s] IN
  /\ MaySend(s) /\ k.retransmit_one
  /\ \E off \in 0 .. Len(k.tx) - 1 :
       /\ off = 0 \/ SEQ_LT(Plus(k.snd_una, off), k.snd_max)
       /\ transmit(s, [k EXCEPT !.retransmit_one = FALSE], {"ACK"}, Plus(k.snd_una, off),
                   SubSeq(k.tx, off + 1, Smaller(off + Mss, Len(k.tx))))

\* While the connection opens the only thing to send is the SYN.
SendSyn(s) ==
  LET k == sk[s] IN
  /\ MaySend(s) /\ ~k.retransmit_one /\ ~k.syn_acked /\ k.snd_nxt = k.iss
  /\ transmit(s, Outstanding([k EXCEPT !.snd_nxt = Plus(k.iss, 1)]),
              IF k.state = "SYN_RECEIVED" THEN {"SYN", "ACK"} ELSE {"SYN"}, k.iss, <<>>)

\* New data as far as the windows allow, with the FIN after the last byte; else
\* an acknowledgement that is owed.  With something in flight the congestion
\* window may allow any part of it; it always allows one segment.
SendDue(s) ==
  LET k == sk[s]
      off == Ahead(k.snd_nxt, k.snd_una)
      unsent == IF Len(k.tx) > off THEN Len(k.tx) - off ELSE 0
      usable == IF k.snd_wnd = 0 /\ off = 0 THEN 1      \* a probe of a closed window
                ELSE IF k.snd_wnd > off THEN k.snd_wnd - off ELSE 0
      most == Smaller(Smaller(unsent, usable), Mss)
      Fin(len) == k.fin_queued /\ off + len = Len(k.tx)
  IN /\ MaySend(s) /\ ~k.retransmit_one /\ k.syn_acked
     /\ \E len \in IF off = 0 THEN {most} ELSE 0 .. most :
          IF len > 0 \/ Fin(len)
          THEN transmit(s, Outstanding([k EXCEPT !.snd_nxt =
                                          Plus(@, len + (IF Fin(len) THEN 1 ELSE 0))]),
                        {"ACK"} \cup (IF Fin(len) THEN {"FIN"} ELSE {}), k.snd_nxt,
                        SubSeq(k.tx, off + 1, off + len))
          ELSE k.ack_pending /\ transmit(s, k, {"ACK"}, k.snd_nxt, <<>>)

(***************************************************************************)
(* Receiving: tcp_input.  The operators below take the sockets S and give  *)
(* the sockets after them.                                                 *)
(***************************************************************************)
\* B's listener makes a connection of its own for a SYN, within its backlog
\* (of one) and while there is a slot.
accept_syn(S, g, life) ==
  [S EXCEPT !["c"] = start_sequence(
     [alloc_socket EXCEPT !.listener = TRUE, !.state = "SYN_RECEIVED", !.irs = g.seq,
                          !.rcv_nxt = Plus(g.seq, 1), !.snd_wnd = g.wnd], Iss("c", life))]

\* The answer to our SYN.
Established(k) ==
  [k EXCEPT !.syn_acked = TRUE, !.rto = FALSE, !.retries = 0, !.state = "ESTABLISHED"]
answer_to_syn(S, s, g) ==
  LET ok == "ACK" \in g.flags /\ g.ack = Plus(S[s].iss, 1) IN
  IF "RST" \in g.flags THEN IF ok THEN abort_connection(S, s) ELSE S
  ELSE IF "SYN" \in g.flags /\ ok
  THEN wake([S EXCEPT ![s] = Established([@ EXCEPT !.irs = g.seq, !.rcv_nxt = Plus(g.seq, 1),
                                                    !.snd_una = g.ack, !.snd_wnd = g.wnd,
                                                    !.ack_pending = TRUE])], s)
  ELSE S

\* The handshake's last acknowledgement.  If the listener has closed meanwhile
\* nobody will accept the connection: it closes too.
handshake_done(S, s, g) ==
  LET Done(k) == IF k.listener \/ k.user_open THEN k
                 ELSE [k EXCEPT !.state = "FIN_WAIT_1", !.fin_queued = TRUE]
      Told(T) == IF T[s].listener THEN wake(T, "l") ELSE T
  IN  Told([S EXCEPT ![s] = Done(Established([@ EXCEPT !.snd_una = g.ack]))])

\* Everything up to ack is acknowledged; `again': it shows another hole.
process_ack(S, s, ack, again) ==
  LET k == S[s]
      acked == Ahead(ack, k.snd_una)
      fin == k.fin_queued /\ acked > Len(k.tx)
      rest == SubSeq(k.tx, Smaller(acked, Len(k.tx)) + 1, Len(k.tx))
      Closer(st) == IF ~fin THEN st
                    ELSE IF st = "FIN_WAIT_1" THEN "FIN_WAIT_2"
                    ELSE IF st = "CLOSING" THEN "TIME_WAIT"
                    ELSE IF st = "LAST_ACK" THEN "CLOSED" ELSE st
      After == [k EXCEPT !.tx = rest, !.snd_una = ack,
                         !.snd_nxt = IF SEQ_LT(@, ack) THEN ack ELSE @,
                         !.retransmit_one = again /\ rest # <<>>,
                         !.rto = ack # k.snd_max, !.fin_queued = @ /\ ~fin,
                         !.state = Closer(@),
                         !.reap = @ \/ (fin /\ k.state = "CLOSING")]
  IN  IF fin /\ k.state = "LAST_ACK" /\ ~k.user_open THEN free_socket(S, s)
      ELSE wake([S EXCEPT ![s] = After], s)

\* A duplicate acknowledgement may be the one that asks for a segment again.
IsDuplicate(k, g) ==
  /\ g.ack = k.snd_una /\ g.data = <<>> /\ "FIN" \notin g.flags /\ k.tx # <<>>
  /\ k.snd_una # k.snd_max /\ g.wnd = k.snd_wnd

take_ack(S, s, g, again) ==
  IF S[s].state = "SYN_RECEIVED" THEN handshake_done(S, s, g)
  ELSE IF SEQ_GT(g.ack, S[s].snd_una) THEN process_ack(S, s, g.ack, again)
  ELSE IF IsDuplicate(S[s], g) THEN [S EXCEPT ![s].retransmit_one = @ \/ again]
  ELSE S

\* Any acceptable segment tells the window; if it opens, what is outstanding
\* is a probe the other end had no room for, and goes again.
take_window(k, g) ==
  IF k.snd_wnd = 0 /\ g.wnd > 0 /\ k.snd_una # k.snd_max
  THEN [k EXCEPT !.retries = 0, !.snd_wnd = g.wnd, !.snd_nxt = k.snd_una, !.rto = TRUE]
  ELSE [k EXCEPT !.retries = 0, !.snd_wnd = g.wnd]

Receiving(k) == k.state \in {"ESTABLISHED", "FIN_WAIT_1", "FIN_WAIT_2"}
Keeping(k) == k.user_open \/ k.listener

\* What was kept ahead and is reached by rcv_nxt is in order now.
Reached(held, nxt) ==
  CHOOSE n \in 0 .. Room : /\ \A i \in 0 .. n - 1 : \E h \in held : h[1] = Plus(nxt, i)
                           /\ ~\E h \in held : h[1] = Plus(nxt, n)
HeldAt(held, q) == (CHOOSE h \in held : h[1] = q)[2]

\* A segment beyond a gap: keep what fits of it, and its FIN if all of it does.
\* Data kept twice keeps the place its sequence number gives it.
keep_ahead(k, seq, data, fin) ==
  LET off == Ahead(seq, k.rcv_nxt)
      fits == Smaller(Len(data), rx_free(k) - off)
      new == {<<Plus(seq, i - 1), data[i]>> : i \in 1 .. fits}
      Kept == [k EXCEPT !.held = {h \in @ : ~\E n \in new : n[1] = h[1]} \cup new,
                        !.ack_pending = TRUE]
  IN  IF ~(Receiving(k) /\ Keeping(k) /\ off < rx_free(k)) THEN [k EXCEPT !.ack_pending = TRUE]
      ELSE IF fin /\ fits = Len(data)
      THEN [Kept EXCEPT !.fin_known = TRUE, !.fin_seq = Plus(seq, Len(data))]
      ELSE Kept

\* Mutant of TookAll: the FIN is taken whatever of the data fits
TookAny(data, accepted) == TRUE
TookAll(data, accepted) == accepted = Len(data)
\* A segment that starts where we are: take its data and what it reaches of
\* the data kept ahead.
take_in_order(k, data, fin) ==
  LET accepted == IF Keeping(k) THEN Smaller(Len(data), rx_free(k)) ELSE Len(data)
      next == Plus(k.rcv_nxt, accepted)
      n == Reached(k.held, next)
      more == [i \in 1 .. n |-> HeldAt(k.held, Plus(next, i - 1))]
      Taken == [k EXCEPT !.rcv_nxt = Plus(next, n),
                         !.rx = IF Keeping(k) THEN @ \o SubSeq(data, 1, accepted) \o more ELSE @,
                         !.held = {h \in @ : SEQ_GT(h[1], Plus(next, n))}]
  IN  IF ~Receiving(k) THEN k
      ELSE IF fin /\ TookAll(data, accepted)
      THEN [Taken EXCEPT !.fin_known = TRUE, !.fin_seq = next]
      ELSE Taken

\* The FIN counts once all the data before it is in.
take_fin(k) ==
  IF ~(k.fin_known /\ k.fin_seq = k.rcv_nxt /\ Receiving(k)) THEN k
  ELSE [k EXCEPT !.fin_known = FALSE, !.rcv_nxt = Plus(@, 1), !.peer_fin = TRUE,
                 !.state = IF @ = "ESTABLISHED" THEN "CLOSE_WAIT"
                           ELSE IF @ = "FIN_WAIT_1" THEN "CLOSING" ELSE "TIME_WAIT",
                 !.reap = @ \/ k.state = "FIN_WAIT_2"]

\* What an acceptable segment carries; a part we already have is skipped.
take_data(S, s, g) ==
  LET k == S[s]
      fin == "FIN" \in g.flags
      old == IF SEQ_LT(g.seq, k.rcv_nxt) THEN Ahead(k.rcv_nxt, g.seq) ELSE 0
      skip == Smaller(old, Len(g.data))
      data == SubSeq(g.data, skip + 1, Len(g.data))
  IN  IF g.data = <<>> /\ ~fin THEN S
      ELSE IF old > 0 /\ old >= Len(g.data) + (IF fin THEN 1 ELSE 0)
      THEN [S EXCEPT ![s].ack_pending = TRUE]            \* all of it is old
      ELSE IF Plus(g.seq, skip) # k.rcv_nxt
      THEN [S EXCEPT ![s] = keep_ahead(k, Plus(g.seq, skip), data, fin)]
      ELSE wake([S EXCEPT ![s] = take_fin([take_in_order(k, data, fin)
                                             EXCEPT !.ack_pending = TRUE])], s)

\* The rest of tcp_input, once the segment is known to be acceptable.
take_segment(S, s, g, again) ==
  LET Rest(T) == IF T[s].used
                 THEN take_data([T EXCEPT ![s] = take_window(@, g)], s, g)
                 ELSE T
  IN  Rest(take_ack(S, s, g, again))

\* The connection the segment is for, if there is one.
find_connection(s) == sk[s].used /\ sk[s].state \notin {"LISTEN", "CLOSED"}

\* What the network does to the segment besides delivering it: it keeps a
\* copy, which is a fault.
Delivered(g, out) ==
  \/ net' = (net \ {g}) \cup out /\ UNCHANGED faults
  \/ faults > 0 /\ faults' = faults - 1 /\ net' = net \cup out

\* Nobody here by that name: a listener takes a SYN, anything else is refused.
InputUnknown(g) ==
  LET syn == g.to = "c" /\ sk["l"].state = "LISTEN"
             /\ g.flags \cap {"SYN", "ACK", "RST"} = {"SYN"}
      room == ~sk["c"].used /\ lives < Lives
  IN /\ g \in net /\ ~find_connection(g.to)
     /\ IF syn
        THEN /\ Delivered(g, {})
             /\ sk' = IF room THEN accept_syn(sk, g, lives) ELSE sk
             /\ lives' = IF room THEN lives + 1 ELSE lives
             /\ got' = IF room THEN [got EXCEPT !["c"] = <<>>] ELSE got
        ELSE Delivered(g, reset_for_segment(g.to, g)) /\ UNCHANGED <<sk, lives, got>>
     /\ UNCHANGED <<sent, sc>>

\* A segment in answer to our SYN.
InputOpening(g) ==
  LET s == g.to
      wrong == "ACK" \in g.flags /\ g.ack # Plus(sk[s].iss, 1)
  IN /\ g \in net /\ find_connection(s) /\ sk[s].state = "SYN_SENT"
     /\ sk' = IF wrong THEN sk ELSE answer_to_syn(sk, s, g)
     /\ Delivered(g, IF wrong THEN reset_for_segment(s, g) ELSE {})
     /\ UNCHANGED <<sent, got, sc, lives>>

\* Every other state: sequence numbers are known on both sides.
InputOpen(g) ==
  LET s == g.to
      k == sk[s]
      wrong == k.state = "SYN_RECEIVED" /\ g.ack # Plus(k.iss, 1)
  IN /\ g \in net /\ find_connection(s) /\ k.state # "SYN_SENT"
     /\ \E again \in BOOLEAN :
          sk' = IF "RST" \in g.flags
                THEN IF g.seq = k.rcv_nxt THEN abort_connection(sk, s) ELSE sk
                ELSE IF "SYN" \in g.flags     \* our SYN+ACK did not get there
                THEN IF k.state = "SYN_RECEIVED" /\ g.seq = k.irs
                     THEN [sk EXCEPT ![s].snd_nxt = k.iss] ELSE sk
                ELSE IF "ACK" \notin g.flags \/ wrong THEN sk
                ELSE IF k.state # "SYN_RECEIVED" /\ SEQ_GT(g.ack, k.snd_max)
                THEN [sk EXCEPT ![s].ack_pending = TRUE]
                ELSE take_segment(sk, s, g, again)
     /\ Delivered(g, IF wrong /\ g.flags \cap {"RST", "SYN"} = {}
                     THEN reset_for_segment(s, g) ELSE {})
     /\ UNCHANGED <<sent, got, sc, lives>>

\* An ICMP error for a segment that was refused on its way: believed if it is
\* about something not yet acknowledged, and then a hard one ends the connection.
tcp_icmp_error(g) ==
  LET s == Peer(g.to)
      believed == /\ find_connection(s) /\ ~SEQ_LT(g.seq, sk[s].snd_una)
                  /\ SEQ_LT(g.seq, sk[s].snd_max)
  IN /\ g \in net /\ faults > 0 /\ faults' = faults - 1 /\ net' = net \ {g}
     /\ sk' \in (IF believed THEN {sk, abort_connection(sk, s)} ELSE {sk})
     /\ UNCHANGED <<sent, got, sc, lives>>

\* The network loses a segment.
Lose(g) ==
  /\ g \in net /\ faults > 0 /\ faults' = faults - 1 /\ net' = net \ {g}
  /\ UNCHANGED <<sk, sent, got, sc, lives>>

(***************************************************************************)
(* Timers: run_timers, called by tcpd for every socket.                    *)
(***************************************************************************)
\* In a patient scenario nothing expires while a segment is on its way.
MayExpire == ~Scenario.patient \/ net = {}

\* TIME_WAIT is over, or a closed socket has taken too long to finish.
reap_expires(s) ==
  /\ sk[s].used /\ sk[s].reap /\ MayExpire
  /\ sk' = IF sk[s].user_open
           THEN [sk EXCEPT ![s].reap = FALSE, ![s].state = "CLOSED", ![s].rto = FALSE]
           ELSE free_socket(sk, s)
  /\ UNCHANGED <<net, sent, got, faults, sc, lives>>

\* Nothing was acknowledged in time: give up, or send from snd_una again.
rto_expires(s) ==
  LET k == sk[s] IN
  /\ k.used /\ k.rto /\ MayExpire
  /\ sk' = IF k.snd_una = k.snd_max THEN [sk EXCEPT ![s].rto = FALSE]
           ELSE IF k.retries + 1 > MaxRetries
           THEN abort_connection([sk EXCEPT ![s].retries = @ + 1], s)
           ELSE [sk EXCEPT ![s].retries = @ + 1, ![s].retransmit_one = FALSE,
                           ![s].snd_nxt = IF k.syn_acked THEN k.snd_una ELSE k.iss]
  /\ UNCHANGED <<net, sent, got, faults, sc, lives>>

(***************************************************************************)
(* What a socket's owner calls, as far as the scenario has it.             *)
(***************************************************************************)
May(call, s) == <<call, s>> \in Scenario.calls
Owned(s) == sk[s].used /\ sk[s].user_open
Sleep(s, call) == May("sleep", s) /\ sk' = [sk EXCEPT ![s].waits = @ \cup {call}]

tcp_connect ==
  /\ Owned("a") /\ sk["a"].state = "CLOSED" /\ ~sk["a"].error /\ sk["a"].iss = 0
  /\ sk' = [sk EXCEPT !["a"] = [start_sequence(@, Iss("a", 0)) EXCEPT !.state = "SYN_SENT"]]
  /\ UNCHANGED <<net, sent, got, faults, sc, lives>>

connect_sleeps ==
  /\ sk["a"].state = "SYN_SENT" /\ Sleep("a", "connect")
  /\ UNCHANGED <<net, sent, got, faults, sc, lives>>

\* A signal ends a call that sleeps; a connect then gives the socket up.
interrupted(s) ==
  /\ May("signal", s) /\ sk[s].waits # {}
  /\ sk' = IF "connect" \in sk[s].waits
           THEN [sk EXCEPT ![s].waits = {}, ![s].error = TRUE, ![s].state = "CLOSED",
                           ![s].rto = FALSE]
           ELSE [sk EXCEPT ![s].waits = {}]
  /\ UNCHANGED <<net, sent, got, faults, sc, lives>>

\* A complete connection, even one whose other end has finished.
Acceptable(k) == k.used /\ k.listener /\ k.state \in {"ESTABLISHED", "CLOSE_WAIT"}
tcp_accept ==
  /\ sk["l"].state = "LISTEN"
  /\ IF Acceptable(sk["c"])
     THEN sk' = [sk EXCEPT !["c"].listener = FALSE, !["c"].user_open = TRUE, !["l"].waits = {}]
     ELSE Sleep("l", "accept")
  /\ UNCHANGED <<net, sent, got, faults, sc, lives>>

\* read() sleeps only while there is neither data, nor an end, nor an error.
tcp_read(s) ==
  LET k == sk[s] IN
  /\ Owned(s) /\ May("read", s)
  /\ \/ \E n \in 1 .. Len(k.rx) :
          LET left == [k EXCEPT !.rx = SubSeq(@, n + 1, Len(@))] IN
          /\ got' = [got EXCEPT ![s] = @ \o SubSeq(k.rx, 1, n)]
          /\ sk' = [sk EXCEPT ![s] = [left EXCEPT !.ack_pending =
                      @ \/ (rx_free(k) < Mss /\ rx_free(left) >= Mss)]]
     \/ /\ k.rx = <<>> /\ ~k.error /\ ~k.peer_fin /\ k.state # "CLOSED"
        /\ Sleep(s, "read") /\ UNCHANGED got
  /\ UNCHANGED <<net, sent, faults, sc, lives>>

\* The stream s sends on: every connection made in the slot "c" has its own.
Stream(s) == IF s = "a" THEN 0 ELSE lives

tcp_write(s) ==
  LET k == sk[s]
      done == Len(sent[Stream(s)])
  IN /\ Owned(s) /\ ~k.error /\ k.state \in {"ESTABLISHED", "CLOSE_WAIT"}
     /\ done < Scenario.bytes[s]
     /\ IF Len(k.tx) < Room
        THEN \E n \in 1 .. Smaller(Scenario.bytes[s] - done, Room - Len(k.tx)) :
               LET new == [i \in 1 .. n |-> done + i] IN
               /\ sk' = [sk EXCEPT ![s].tx = @ \o new]
               /\ sent' = [sent EXCEPT ![Stream(s)] = @ \o new]
        ELSE Sleep(s, "write") /\ UNCHANGED sent
     /\ UNCHANGED <<net, got, faults, sc, lives>>

\* Both ends of a close: the state after "we have no more to send".
Finishing(k) ==
  [k EXCEPT !.state = IF @ = "ESTABLISHED" THEN "FIN_WAIT_1" ELSE "LAST_ACK",
            !.fin_queued = TRUE]

tcp_shutdown(s) ==
  /\ Owned(s) /\ May("shutdown", s) /\ sk[s].state \in {"ESTABLISHED", "CLOSE_WAIT"}
  /\ sk' = [sk EXCEPT ![s] = Finishing(@)]
  /\ UNCHANGED <<net, sent, got, faults, sc, lives>>

\* The rest of a close happens in the background, for a limited time.
Orphan(k) ==
  IF k.state \in {"ESTABLISHED", "CLOSE_WAIT"} THEN [Finishing(k) EXCEPT !.reap = TRUE]
  ELSE IF k.state \in {"FIN_WAIT_1", "FIN_WAIT_2", "CLOSING", "LAST_ACK", "SYN_RECEIVED"}
  THEN [k EXCEPT !.reap = TRUE]
  ELSE IF k.state = "TIME_WAIT" THEN k
  ELSE NoSocket

tcp_close(s) ==
  /\ Owned(s) /\ May("close", s) /\ sk[s].waits = {}
  /\ sk' = [sk EXCEPT ![s] = Orphan([@ EXCEPT !.user_open = FALSE, !.rx = <<>>, !.held = {}])]
  /\ UNCHANGED <<net, sent, got, faults, sc, lives>>

\* Closing a listener closes the connections nobody accepted; one that is half
\* open finishes its handshake first.
close_listener ==
  LET Child(k) ==
        IF ~k.listener THEN k
        ELSE IF k.state \in {"ESTABLISHED", "CLOSE_WAIT", "SYN_RECEIVED"}
        THEN Orphan([k EXCEPT !.listener = FALSE]) ELSE NoSocket
  IN /\ Owned("l") /\ May("close", "l") /\ sk["l"].waits = {}
     /\ sk' = [sk EXCEPT !["c"] = Child(@), !["l"] = NoSocket]
     /\ UNCHANGED <<net, sent, got, faults, sc, lives>>

(***************************************************************************)
(* A opens a socket; B opens, binds and listens.                           *)
(***************************************************************************)
TcpInit ==
  /\ sk = [s \in {"a", "l", "c"} |->
             IF s = "a" THEN [alloc_socket EXCEPT !.user_open = TRUE]
             ELSE IF s = "l" THEN [alloc_socket EXCEPT !.user_open = TRUE, !.state = "LISTEN"]
             ELSE NoSocket]
  /\ sc \in Scenarios /\ faults = Scenario.faults
  /\ net = {} /\ lives = 0
  /\ sent = [i \in 0 .. Lives |-> <<>>] /\ got = [s \in {"a", "c"} |-> <<>>]

Input == \E g \in net : InputUnknown(g) \/ InputOpening(g) \/ InputOpen(g)
Send(s) == SendAgain(s) \/ SendSyn(s) \/ SendDue(s)

TcpNext ==
  \/ tcp_connect \/ connect_sleeps \/ tcp_accept \/ close_listener
  \/ \E s \in {"a", "c"} :
       \/ tcp_read(s) \/ tcp_write(s) \/ tcp_shutdown(s) \/ tcp_close(s)
       \/ Send(s) \/ rto_expires(s) \/ reap_expires(s)
  \/ \E s \in {"a", "c", "l"} : interrupted(s)
  \/ \E g \in net : Lose(g) \/ tcp_icmp_error(g)
  \/ Input

(***************************************************************************)
(* Properties.                                                             *)
(***************************************************************************)
IsPrefixOf(x, y) == Len(x) <= Len(y) /\ SubSeq(y, 1, Len(x)) = x

\* The stream whose bytes socket s reads: "a" is connected to the connection
\* that chose the first sequence number it was told.
Source(s) ==
  IF s = "c" THEN 0
  ELSE IF \E i \in 1 .. Lives : Iss("c", i - 1) = sk["a"].irs
       THEN CHOOSE i \in 1 .. Lives : Iss("c", i - 1) = sk["a"].irs ELSE 0

\* What a reader has been given, and will be given next, is a prefix of what the
\* other end wrote, whatever was lost, repeated or reordered; and the end of
\* the stream is only reported after all of it (tcp_input, tcp_read).
InOrder ==
  \A s \in {"a", "c"} :
    /\ sk[s].syn_acked =>
         IsPrefixOf(got[s] \o sk[s].rx, sent[Source(s)])
    /\ sk[s].peer_fin /\ sk[s].user_open => got[s] \o sk[s].rx = sent[Source(s)]

\* What write() took and the transmit ring no longer holds has reached the
\* other end: an acknowledgement is never believed that the receiver did not
\* mean (process_ack).
AckedArrived ==
  LET a == sk["a"] c == sk["c"] IN
  /\ a.used /\ c.used /\ c.user_open /\ c.irs = a.iss /\ c.syn_acked =>
       Len(sent[0]) - Len(a.tx) <= Len(got["c"]) + Len(c.rx)
  /\ a.used /\ a.user_open /\ c.used /\ c.user_open /\ a.irs = c.iss /\ a.syn_acked =>
       Len(sent[lives]) - Len(c.tx) <= Len(got["a"]) + Len(a.rx)

\* Whoever sleeps on a socket has a reason to: every step that ends the reason
\* wakes (wake, abort_connection, the listener of a finished handshake).
SleepersWait ==
  /\ \A s \in {"a", "c"} :
       LET k == sk[s] IN
       /\ "read" \in k.waits => k.rx = <<>> /\ ~k.error /\ ~k.peer_fin /\ k.state # "CLOSED"
       /\ "write" \in k.waits => Len(k.tx) = Room /\ ~k.error /\ k.state # "CLOSED"
       /\ "connect" \in k.waits => k.state = "SYN_SENT"
  /\ "accept" \in sk["l"].waits => ~Acceptable(sk["c"])

TcpSpec == TcpInit /\ [][TcpNext]_tcpVars

(***************************************************************************)
(* Liveness: tcpd runs the timers and sends what is due every              *)
(* TCP_TIMER_TICKS, and the network delivers what it does not lose.        *)
(***************************************************************************)
TcpFair ==
  /\ \A s \in {"a", "c"} : WF_tcpVars(Send(s)) /\ WF_tcpVars(rto_expires(s))
                           /\ WF_tcpVars(reap_expires(s))
  /\ WF_tcpVars(Input)
TcpFairSpec == TcpSpec /\ TcpFair

\* A socket its owner has closed gives its slot back, whatever the other end
\* and the network do (reap_deadline, the retransmission limit).
ClosedIsFreed ==
  \A s \in {"a", "c"} : (sk[s].used /\ ~sk[s].user_open /\ ~sk[s].listener) ~> ~sk[s].used

\* A client whose connect() has returned is connected: if the other end's slot
\* gives the connection up, the client learns of it.
HandshakeCompletes ==
  (sk["a"].state = "ESTABLISHED") ~>
    (sk["a"].state # "ESTABLISHED" \/ (sk["c"].used /\ sk["c"].syn_acked))

\* connect() does not sleep for ever: the answer, a reset, an ICMP error or the
\* retransmission limit wakes it (answer_to_syn, abort_connection, run_timers).
ConnectReturns == ("connect" \in sk["a"].waits) ~> ("connect" \notin sk["a"].waits)

\* Whatever the network loses, what was begun ends: connect() returns and a
\* closed socket's slot comes back (tcpd's timers).
TcpEnds == ConnectReturns /\ ClosedIsFreed
============================================================================
