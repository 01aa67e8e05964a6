-------------------------------- MODULE Dhcp -------------------------------
(***************************************************************************)
(* The DHCP client (user/dhcp.c): four broadcast datagrams get an address, *)
(* and with -d the program stays and keeps the lease: it asks the server   *)
(* from T1 on, any server from T2 on, and gives the address up when the    *)
(* lease ends.                                                             *)
(*                                                                         *)
(* Datagrams are lost, repeated and delayed (by at most DhDelay).  A       *)
(* server remembers until when it lent the address.  Time passes one       *)
(* second at a time and not past the end of the client's wait: the client  *)
(* looks at the clock as soon as it may.                                   *)
(***************************************************************************)
EXTENDS Naturals

CONSTANTS
  DhServers,     \* the servers; server s lends address s
  DhLeases,      \* the leases they grant: [seconds, t1, t2]
  DhOverride,    \* -t (0: none)
  DhTries,       \* four
  DhPause,       \* the ten seconds between two attempts to start over
  LEASE_MIN, RETRY_MIN,
  DhDelay,       \* how long a datagram may be under way
  DhTime, DhExchanges   \* bounds on the clock and on the exchange numbers

DhAssumption == LEASE_MIN \in Nat \ {0} /\ RETRY_MIN \in Nat \ {0} /\ DhDelay \in Nat

VARIABLES
  dhcp,          \* the client: [at, xid, tries, ack, times, granted, until, kept]
  conf,          \* the interface's address: "old", "none" or a server's
  wire,          \* the datagrams under way, those read once included
  lent,          \* [server -> until when its address is ours]
  dhClock

dhVars == <<dhcp, conf, wire, lent, dhClock>>

None == "none"
NoAck == [server |-> None, seconds |-> 0, t1 |-> 0, t2 |-> 0]
NoTimes == [t1 |-> 0, t2 |-> 0, end |-> 0]

-----------------------------------------------------------------------------
Makes(lease, t1, t2) == t1 > 0 /\ t2 > t1 /\ t2 < lease
lease_timing(asked, t1, t2) ==
  LET lease == IF asked < LEASE_MIN THEN LEASE_MIN ELSE asked
      late == (lease * 7) \div 8
      second == IF Makes(lease, t1, t2) THEN t2 ELSE late
      first == IF Makes(lease, t1, t2) \/ (t1 > 0 /\ t1 < late /\ t2 = 0) THEN t1 ELSE lease \div 2
      own == IF DhOverride = 0 THEN first ELSE IF DhOverride < lease THEN DhOverride ELSE lease \div 2
  IN  [t1 |-> own, end |-> lease,
       t2 |-> IF DhOverride # 0 /\ second <= own THEN own + (lease - own + 1) \div 2 ELSE second]

Smaller(a, b) == IF a < b THEN a ELSE b
Greater(a, b) == IF a > b THEN a ELSE b
\* Mutant of RetryIn: a wait may go past the phase's end
RetryInFull(remain) == Greater(remain \div 2, RETRY_MIN)
RetryIn(remain) == Smaller(Greater(remain \div 2, RETRY_MIN), remain)
lease_step(t, elapsed) ==
  CASE elapsed >= t.end -> [step |-> "expired", wait |-> 0]
    [] elapsed < t.t1 -> [step |-> "wait", wait |-> t.t1 - elapsed]
    [] elapsed >= t.t1 /\ elapsed < t.t2 -> [step |-> "renew", wait |-> RetryIn(t.t2 - elapsed)]
    [] OTHER -> [step |-> "rebind", wait |-> RetryIn(t.end - elapsed)]

-----------------------------------------------------------------------------
(***************************************************************************)
(* The client.                                                             *)
(***************************************************************************)
Request(type, to, server) ==
  [type |-> type, xid |-> dhcp.xid, to |-> to, server |-> server, ip |-> conf, sent |-> dhClock]
Waits(at, seconds) == [dhcp EXCEPT !.at = at, !.until = dhClock + seconds]

\* new_xid, unconfigure and the DISCOVER: main, and keep_lease starting over.
start_over ==
  /\ \/ dhcp.at \in {"start", "restart"}
     \/ dhcp.at = "pause" /\ dhClock >= dhcp.until
  /\ dhcp.xid < DhExchanges
  /\ dhcp' = [dhcp EXCEPT !.at = "discover", !.xid = @ + 1, !.tries = DhTries]
  /\ conf' = None
  /\ UNCHANGED <<wire, lent, dhClock>>

\* exchange: send and wait a second for the answer.
exchange ==
  /\ dhcp.at \in {"discover", "request"} /\ dhcp.tries > 0
  /\ wire' = wire \cup {Request(dhcp.at, DhServers, dhcp.ack.server)}
  /\ dhcp' = [Waits(IF dhcp.at = "discover" THEN "offer" ELSE "ack", 1) EXCEPT !.tries = @ - 1]
  /\ UNCHANGED <<conf, lent, dhClock>>
no_answer ==
  /\ dhcp.at \in {"offer", "ack"} /\ dhClock >= dhcp.until
  /\ dhcp' = [dhcp EXCEPT !.at = IF @ = "offer" THEN "discover" ELSE "request"]
  /\ UNCHANGED <<conf, wire, lent, dhClock>>

\* parse: an answer to this exchange.
ForUs(m) == m.type \in {"OFFER", "ACK", "NAK"} /\ m.xid = dhcp.xid
Arrives(m) == m \in wire /\ ForUs(m)

\* acquire fails: the old address comes back if this was the first attempt,
\* and the next attempt comes later if the program is to stay.
AcquireFails ==
  /\ dhcp' = IF dhcp.kept THEN Waits("pause", DhPause) ELSE [dhcp EXCEPT !.at = "exit"]
  /\ conf' = IF dhcp.kept THEN conf ELSE "old"
gave_up ==
  /\ dhcp.at \in {"discover", "request"} /\ dhcp.tries = 0
  /\ AcquireFails
  /\ UNCHANGED <<wire, lent, dhClock>>
take_offer(m) ==
  /\ dhcp.at = "offer" /\ Arrives(m) /\ m.type \in {"OFFER", "NAK"}
  /\ IF m.type = "NAK" THEN AcquireFails
     ELSE dhcp' = [dhcp EXCEPT !.at = "request", !.tries = DhTries, !.ack = m.lease] /\ UNCHANGED conf
  /\ UNCHANGED <<wire, lent, dhClock>>

\* apply, and the times of the new lease, counted from now.
Granted(m) ==
  [dhcp EXCEPT !.at = "look", !.ack = m.lease, !.kept = TRUE, !.granted = dhClock,
               !.times = lease_timing(m.lease.seconds, m.lease.t1, m.lease.t2)]
take_ack(m) ==
  /\ dhcp.at = "ack" /\ Arrives(m) /\ m.type \in {"ACK", "NAK"}
  /\ IF m.type = "NAK" THEN AcquireFails
     ELSE dhcp' = Granted(m) /\ conf' = m.lease.server
  /\ UNCHANGED <<wire, lent, dhClock>>
\* The interface refuses what the server sent.
ack_unusable(m) ==
  /\ dhcp.at = "ack" /\ Arrives(m) /\ m.type = "ACK"
  /\ AcquireFails
  /\ UNCHANGED <<wire, lent, dhClock>>

\* keep_lease looks at the clock.
Due == lease_step(dhcp.times, dhClock - dhcp.granted)
sleep_till_t1 ==
  /\ dhcp.at = "look" /\ Due.step = "wait"
  /\ dhcp' = Waits("asleep", Due.wait)
  /\ UNCHANGED <<conf, wire, lent, dhClock>>
expired ==
  /\ dhcp.at = "look" /\ Due.step = "expired"
  /\ dhcp' = [dhcp EXCEPT !.at = "restart"]
  /\ UNCHANGED <<conf, wire, lent, dhClock>>
ask_for_more ==
  /\ dhcp.at = "look" /\ Due.step \in {"renew", "rebind"} /\ dhcp.xid < DhExchanges
  /\ dhcp' = [Waits("more", Due.wait) EXCEPT !.xid = @ + 1]
  /\ wire' = wire \cup {[Request("more", IF Due.step = "renew" THEN {dhcp.ack.server} ELSE DhServers, None)
                          EXCEPT !.xid = dhcp.xid + 1]}
  /\ UNCHANGED <<conf, lent, dhClock>>
wait_over ==
  /\ dhcp.at \in {"asleep", "more"} /\ dhClock >= dhcp.until
  /\ dhcp' = [dhcp EXCEPT !.at = "look"]
  /\ UNCHANGED <<conf, wire, lent, dhClock>>
take_more(m) ==
  /\ dhcp.at = "more" /\ Arrives(m) /\ m.type \in {"ACK", "NAK"}
  /\ dhcp' = IF m.type = "NAK" \/ m.lease.server # conf THEN [dhcp EXCEPT !.at = "restart"] ELSE Granted(m)
  /\ UNCHANGED <<conf, wire, lent, dhClock>>

-----------------------------------------------------------------------------
(***************************************************************************)
(* The servers (outside the program), and time.                            *)
(***************************************************************************)
\* A server answers a datagram once; what it sends may arrive twice.
Answers(q) == IF q.type = "discover" THEN {"OFFER"} ELSE {"ACK", "NAK"}
Hears(s, q) ==
  /\ q.type \in {"discover", "request", "more"} /\ s \in q.to
  /\ ~\E m \in wire : m.type \in Answers(q) /\ m.xid = q.xid /\ m.lease.server = s
Answer(s, q, type, l) ==
  wire' = wire \cup {[type |-> type, xid |-> q.xid, sent |-> dhClock,
                      lease |-> [server |-> s, seconds |-> l.seconds, t1 |-> l.t1, t2 |-> l.t2]]}
offer(s, q) ==
  /\ Hears(s, q) /\ q.type = "discover"
  /\ Answer(s, q, "OFFER", NoAck)
  /\ UNCHANGED <<dhcp, conf, lent, dhClock>>
lend(s, q, l) ==
  /\ Hears(s, q)
  /\ (q.type = "request" /\ q.server = s) \/ (q.type = "more" /\ q.ip = s)
  /\ Answer(s, q, "ACK", l)
  /\ lent' = [lent EXCEPT ![s] = Greater(@, dhClock + l.seconds)]
  /\ UNCHANGED <<dhcp, conf, dhClock>>
refuse(s, q) ==
  /\ Hears(s, q) /\ q.type \in {"request", "more"}
  /\ Answer(s, q, "NAK", NoAck)
  /\ UNCHANGED <<dhcp, conf, lent, dhClock>>
tick ==
  /\ dhClock < DhTime
  /\ dhcp.at = "exit" \/ (dhcp.at \in {"offer", "ack", "more", "asleep", "pause"} /\ dhClock < dhcp.until)
  /\ dhClock' = dhClock + 1
  /\ wire' = {m \in wire : dhClock + 1 - m.sent <= DhDelay}
  /\ UNCHANGED <<dhcp, conf, lent>>

DhInit ==
  /\ dhcp = [at |-> "start", xid |-> 0, tries |-> 0, ack |-> NoAck, times |-> NoTimes,
             granted |-> 0, until |-> 0, kept |-> FALSE]
  /\ conf = "old" /\ wire = {} /\ lent = [s \in DhServers |-> 0] /\ dhClock = 0
DhNext ==
  \/ start_over \/ exchange \/ no_answer \/ gave_up
  \/ sleep_till_t1 \/ expired \/ ask_for_more \/ wait_over \/ tick
  \/ \E m \in wire :
       \/ take_offer(m) \/ take_ack(m) \/ ack_unusable(m) \/ take_more(m)
       \/ \E s \in DhServers : offer(s, m) \/ refuse(s, m) \/ \E l \in DhLeases : lend(s, m, l)

-----------------------------------------------------------------------------
\* An address is not used past its lease: whatever is lost, repeated or
\* late, the interface has a server's address only while that server still
\* lends it to us, give or take how late its answer was (keep_lease, whose
\* waits must end in time and which must take no answer to an older request).
AddressIsLent == conf \in DhServers => dhClock <= lent[conf] + DhDelay
\* "Always t1 <= t2 <= end", and no wait of nothing: a server cannot make the
\* client ask in a tight loop (lease_timing, lease_step).
LeaseTimesSound ==
  dhcp.at \in {"look", "asleep", "more"} =>
    /\ 0 < dhcp.times.t1 /\ dhcp.times.t1 <= dhcp.times.t2 /\ dhcp.times.t2 <= dhcp.times.end
    /\ dhcp.at = "look" => Due.step = "expired" \/ Due.wait > 0
=============================================================================
