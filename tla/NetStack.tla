------------------------------ MODULE NetStack ------------------------------
(***************************************************************************)
(* The IPv4 stack's tables (src/net/net.c): the cache of hardware          *)
(* addresses, the pings that wait for an answer, and the UDP sockets.      *)
(*                                                                         *)
(* A step is one hold of net_lock, or a wake-up, which always comes after  *)
(* the lock is released.  Frames come in through netd, and from a caller   *)
(* that sends to this machine itself, on the caller's own thread.          *)
(* Addresses, ports and sequence numbers are small numbers; checksums,     *)
(* headers and hardware addresses are left out, and a malformed frame,     *)
(* which is dropped before any state is touched, is no step.  Reassembly   *)
(* is in IpFrag, TCP in Tcp.                                               *)
(***************************************************************************)
EXTENDS Integers, FiniteSets, FiniteSetsExt, Sequences

CONSTANTS Callers,     \* threads that ping, send and receive
          Peers,       \* machines on our network; 1 is the gateway
          ArpSize,     \* ARP_CACHE_SIZE
          ArpTries,    \* ARP_TRIES
          ArpWait,     \* ARP_WAIT_TICKS
          ArpStale,    \* ARP_STALE_TICKS
          PingSlots,   \* the length of pings, as 1 .. n
          PingWait,    \* the timeout of a ping or of a receive
          Socks,       \* UDP_MAX_SOCKETS, as 1 .. n
          Ports,       \* ports given to sockets that asked for none, as 1 .. n
          Overhead,    \* UDP_DATAGRAM_OVERHEAD
          QueueBytes,  \* UDP_QUEUE_BYTES
          ErrorsMax,   \* ICMP_ERRORS_PER_SECOND
          MaxClock,    \* how far the clock goes
          MaxCalls,    \* how many calls are made
          MaxFrames    \* how many frames arrive

NetAssumption ==
  /\ 1 \in Peers /\ Peers \subseteq 1 .. 99 /\ ArpSize \in Nat \ {0} /\ ArpTries \in Nat \ {0}
  /\ {ArpWait, PingWait} \subseteq Nat \ {0} /\ {ArpStale, Overhead, QueueBytes, ErrorsMax} \subseteq Nat
  /\ PingSlots \cup Socks \cup Ports \subseteq Nat \ {0}

VARIABLES arp,      \* arp_cache
          local_ip, \* OUR_IP, or 0 while there is none
          pings,    \* the pings in progress
          sockets,  \* the UDP sockets
          next,     \* next_ephemeral, next_sequence, and the errors of this second
          caller,   \* where each caller is
          rx,       \* what netd still has to do with the frame it has
          clock, calls, frames

netVars == <<arp, local_ip, pings, sockets, next, caller, rx, clock, calls, frames>>

OUR_IP == 100
LOOPBACK == 101
NET_BROADCAST == 102
FAR == 103              \* an address off our network

ArpSlots == 1 .. ArpSize
NoEntry == [ip |-> 0, used |-> 0, learned |-> 0]
NoPing == [active |-> FALSE, answered |-> FALSE, sequence |-> 0]
NoSock == [open |-> FALSE, port |-> 0, queue |-> <<>>, bytes |-> 0]
Quiet == [pc |-> "idle", op |-> "none", dst |-> 0, hop |-> 0, sock |-> 0, slot |-> 0, port |-> 0,
          tries |-> 0, until |-> 0, limit |-> 0, chan |-> 0, after |-> "idle"]
NoFrame == [kind |-> "none", src |-> 0, arg |-> 0]
NoRx == [chan |-> 0, frame |-> NoFrame]

\* What one sleeps on: &arp_cache, &pings, or a socket (its number).
ArpChan == -1
PingChan == -2

-----------------------------------------------------------------------------
(* ARP *)

Known(C, ip) == {i \in ArpSlots : C[i].ip = ip}
Fresh(ip) == \E i \in Known(arp, ip) : clock - arp[i].learned <= ArpStale
\* arp_lookup_locked: a look counts as use.
Touched(ip) == [i \in ArpSlots |-> IF arp[i].ip = ip THEN [arp[i] EXCEPT !.used = clock] ELSE arp[i]]

\* The entry of ip, else the first that is free, else the one unused for longest.
LearnSlot(ip) ==
  IF Known(arp, ip) # {} THEN Min(Known(arp, ip))
  ELSE IF Known(arp, 0) # {} THEN Min(Known(arp, 0))
  ELSE Min({i \in ArpSlots : \A j \in ArpSlots : arp[i].used <= arp[j].used})
learned(ip) == [arp EXCEPT ![LearnSlot(ip)] = [ip |-> ip, used |-> clock, learned |-> clock]]
\* Mutant of learn_wakes: an entry that was there already wakes nobody
NewWakes(ip) == IF Known(arp, ip) = {} THEN ArpChan ELSE 0
learn_wakes(ip) == ArpChan
Learns(ip) == ip # 0 /\ ip # local_ip

\* Where a datagram goes: the next hop, or 0 for nowhere (ipv4_send_parts).
IsLocal(dst) == dst = LOOPBACK \/ (local_ip # 0 /\ dst = local_ip)
next_hop(dst) ==
  IF dst = NET_BROADCAST THEN NET_BROADCAST
  ELSE IF local_ip = 0 THEN 0
  ELSE IF dst \in Peers THEN dst ELSE 1

-----------------------------------------------------------------------------
(* What arrives *)

Marked(seq) == [s \in PingSlots |-> IF pings[s].active /\ pings[s].sequence = seq
                                    THEN [pings[s] EXCEPT !.answered = TRUE] ELSE pings[s]]
BoundTo(port) == {s \in Socks : sockets[s].open /\ sockets[s].port = port /\ port # 0}
Cost(len) == Overhead + len
HasRoom(s, len) == sockets[s].bytes + Cost(len) <= QueueBytes
Queued(s, len) == IF HasRoom(s, len)
                  THEN [sockets EXCEPT ![s].queue = Append(@, len), ![s].bytes = @ + Cost(len)]
                  ELSE sockets
\* An ICMP error, unless there were too many this second (icmp_send_error).
Errors(n) == IF n.second # clock THEN [n EXCEPT !.second = clock, !.errors = 1]
             ELSE IF n.errors < ErrorsMax THEN [n EXCEPT !.errors = @ + 1] ELSE n

Asleep(c) == caller[c].pc \in {"arp_asleep", "ping_asleep", "recv_asleep"}
Test(pc) == CASE pc = "arp_asleep" -> "arp" [] pc = "ping_asleep" -> "ping" [] pc = "recv_asleep" -> "recv"
\* sched_wakeup(chan).
woken(chan, S) == [c \in Callers |-> IF Asleep(c) /\ S[c].chan = chan
                                     THEN [S[c] EXCEPT !.pc = Test(@)] ELSE S[c]]

\* A frame for us: the sender is remembered if it is a neighbour, and then the
\* packet is delivered.
net_handle_frame(f) ==
  /\ rx = NoRx /\ frames > 0
  /\ frames' = frames - 1
  /\ LET remembers == \/ f.kind = "arp" /\ local_ip # 0
                      \/ f.kind # "arp" /\ (local_ip = 0 \/ f.src \in Peers)
         rest == IF f.kind = "arp" THEN NoFrame ELSE f
     IN  IF remembers /\ Learns(f.src)
         THEN arp' = learned(f.src) /\ rx' = [chan |-> learn_wakes(f.src), frame |-> rest]
         ELSE rx' = [chan |-> 0, frame |-> rest] /\ UNCHANGED arp
  /\ UNCHANGED <<local_ip, pings, sockets, next, caller, clock, calls>>

\* An answer that netd sends may not wait: it uses the address it has.
deliver ==
  /\ rx.chan = 0 /\ rx.frame.kind # "none"
  /\ LET f == rx.frame
         done(chan) == rx' = [chan |-> chan, frame |-> NoFrame]
     IN  \/ /\ f.kind = "request"
            /\ arp' = Touched(next_hop(f.src)) /\ done(0) /\ UNCHANGED <<pings, sockets, next>>
         \/ /\ f.kind = "reply"
            /\ pings' = Marked(f.arg) /\ done(PingChan) /\ UNCHANGED <<arp, sockets, next>>
         \/ /\ f.kind = "udp" /\ BoundTo(f.arg) # {}
            /\ LET s == Min(BoundTo(f.arg)) IN sockets' = Queued(s, 1) /\ done(s)
            /\ UNCHANGED <<arp, pings, next>>
         \/ /\ f.kind = "udp" /\ BoundTo(f.arg) = {}
            /\ next' = Errors(next) /\ arp' = Touched(next_hop(f.src)) /\ done(0)
            /\ UNCHANGED <<pings, sockets>>
  /\ UNCHANGED <<local_ip, caller, clock, calls, frames>>

rx_wakes ==
  /\ rx.chan # 0
  /\ caller' = woken(rx.chan, caller)
  /\ rx' = [rx EXCEPT !.chan = 0]
  /\ UNCHANGED <<arp, local_ip, pings, sockets, next, clock, calls, frames>>

-----------------------------------------------------------------------------
(* Calls *)

Starts(c) == caller[c].pc = "idle" /\ calls > 0 /\ calls' = calls - 1
To(c, pc) == caller' = [caller EXCEPT ![c].pc = pc]
Over(c) == caller' = [caller EXCEPT ![c] = Quiet]
\* The end of a call: a ping gives its slot back.
PingOver(c) == pings' = IF caller[c].slot = 0 THEN pings ELSE [pings EXCEPT ![caller[c].slot].active = FALSE]
Ends(c) == Over(c) /\ PingOver(c)

TakePing(s) == [pings EXCEPT ![s] = [active |-> TRUE, answered |-> FALSE, sequence |-> next.sequence]]

net_ping(c, dst) ==
  /\ Starts(c)
  /\ \E s \in PingSlots :
       /\ ~pings[s].active /\ \A z \in PingSlots : z < s => pings[z].active
       /\ pings' = TakePing(s)
       /\ caller' = [caller EXCEPT ![c] = [Quiet EXCEPT !.pc = "route", !.op = "ping", !.dst = dst,
                                                       !.slot = s, !.limit = clock + PingWait]]
  /\ next' = [next EXCEPT !.sequence = @ + 1]
  /\ UNCHANGED <<arp, local_ip, sockets, rx, clock, frames>>

udp_open(c) ==
  /\ Starts(c)
  /\ \E s \in Socks : /\ ~sockets[s].open /\ \A z \in Socks : z < s => sockets[z].open
                      /\ sockets' = [sockets EXCEPT ![s] = [NoSock EXCEPT !.open = TRUE]]
  /\ UNCHANGED <<arp, local_ip, pings, next, caller, rx, clock, frames>>

port_in_use(p) == \E s \in Socks : sockets[s].open /\ sockets[s].port = p

\* That the socket has no port yet is read before the lock is taken.
udp_bind(c, s, p) ==
  /\ Starts(c) /\ sockets[s].open /\ sockets[s].port = 0
  /\ caller' = [caller EXCEPT ![c] = [Quiet EXCEPT !.pc = "bind", !.sock = s, !.port = p]]
  /\ UNCHANGED <<arp, local_ip, pings, sockets, next, rx, clock, frames>>
bind_locked(c) ==
  /\ caller[c].pc = "bind"
  /\ sockets' = IF port_in_use(caller[c].port) THEN sockets
                ELSE [sockets EXCEPT ![caller[c].sock].port = caller[c].port]
  /\ Over(c)
  /\ UNCHANGED <<arp, local_ip, pings, next, rx, clock, calls, frames>>

\* The open file holds the socket: it is closed when no call is inside it.
udp_close(c, s) ==
  /\ Starts(c) /\ sockets[s].open /\ \A d \in Callers : caller[d].sock # s
  /\ sockets' = [sockets EXCEPT ![s] = NoSock]
  /\ UNCHANGED <<arp, local_ip, pings, next, caller, rx, clock, frames>>

\* A socket without a port gets the next one that is free.
AfterPort(p) == IF p + 1 \in Ports THEN p + 1 ELSE Min(Ports)
Turn(p, from) == (p - from) % Cardinality(Ports)
FreePorts == {p \in Ports : ~port_in_use(p)}
udp_sendto(c, s, dst, port) ==
  /\ Starts(c) /\ sockets[s].open
  /\ LET p == CHOOSE p \in FreePorts : \A q \in FreePorts : Turn(p, next.port) <= Turn(q, next.port)
         gets == sockets[s].port = 0 /\ FreePorts # {}
     IN  /\ sockets' = IF gets THEN [sockets EXCEPT ![s].port = p] ELSE sockets
         /\ next' = IF gets THEN [next EXCEPT !.port = AfterPort(p)] ELSE next
  /\ caller' = IF sockets'[s].port = 0 THEN caller
               ELSE [caller EXCEPT ![c] = [Quiet EXCEPT !.pc = "route", !.op = "send", !.sock = s,
                                                       !.dst = dst, !.port = port]]
  /\ UNCHANGED <<arp, local_ip, pings, rx, clock, frames>>

\* ipv4_send_parts: to this machine, to a neighbour, or nowhere.
route(c) ==
  /\ caller[c].pc = "route"
  /\ LET r == caller[c]
         wakes(chan, after) == caller' = [caller EXCEPT ![c].pc = "wake", ![c].chan = chan, ![c].after = after]
     IN  \/ /\ IsLocal(r.dst) /\ r.op = "ping"
            /\ pings' = Marked(pings[r.slot].sequence) /\ wakes(PingChan, "ping") /\ UNCHANGED <<sockets, next>>
         \/ /\ IsLocal(r.dst) /\ r.op = "send" /\ BoundTo(r.port) # {}
            /\ LET s == Min(BoundTo(r.port)) IN sockets' = Queued(s, 1) /\ wakes(s, "idle")
            /\ UNCHANGED <<pings, next>>
         \/ /\ IsLocal(r.dst) /\ r.op = "send" /\ BoundTo(r.port) = {}
            /\ next' = Errors(next) /\ Over(c) /\ UNCHANGED <<pings, sockets>>
         \/ /\ ~IsLocal(r.dst) /\ next_hop(r.dst) = 0
            /\ Ends(c) /\ UNCHANGED <<sockets, next>>
         \/ /\ ~IsLocal(r.dst) /\ next_hop(r.dst) # 0
            /\ caller' = [caller EXCEPT ![c].hop = next_hop(r.dst),
                            ![c].pc = IF next_hop(r.dst) = NET_BROADCAST THEN "frame" ELSE "lookup"]
            /\ UNCHANGED <<pings, sockets, next>>
  /\ UNCHANGED <<arp, local_ip, rx, clock, calls, frames>>

caller_wakes(c) ==
  /\ caller[c].pc = "wake"
  /\ caller' = woken(caller[c].chan, [caller EXCEPT ![c] =
                  IF caller[c].after = "idle" THEN Quiet ELSE [caller[c] EXCEPT !.pc = caller[c].after]])
  /\ UNCHANGED <<arp, local_ip, pings, sockets, next, rx, clock, calls, frames>>

\* arp_resolve, which may sleep: a first look; then for each question that is
\* sent, a wait for an answer that is not old, and another look.
Resolved(c, otherwise) ==
  /\ arp' = Touched(caller[c].hop)
  /\ IF Fresh(caller[c].hop) THEN To(c, "frame") /\ UNCHANGED pings ELSE otherwise
Ask(c, n) == caller' = [caller EXCEPT ![c].pc = "arp", ![c].tries = n, ![c].until = clock + ArpWait]

arp_lookup(c) ==
  /\ caller[c].pc = "lookup"
  /\ Resolved(c, Ask(c, 1) /\ UNCHANGED pings)
  /\ UNCHANGED <<local_ip, sockets, next, rx, clock, calls, frames>>
arp_wait(c) ==
  /\ caller[c].pc = "arp"
  /\ arp' = Touched(caller[c].hop)
  /\ IF Fresh(caller[c].hop) \/ clock >= caller[c].until THEN To(c, "again")
     ELSE caller' = [caller EXCEPT ![c].pc = "arp_asleep", ![c].chan = ArpChan]
  /\ UNCHANGED <<local_ip, pings, sockets, next, rx, clock, calls, frames>>
arp_again(c) ==
  /\ caller[c].pc = "again"
  /\ Resolved(c, IF caller[c].tries < ArpTries THEN Ask(c, caller[c].tries + 1) /\ UNCHANGED pings
                 ELSE Ends(c))
  /\ UNCHANGED <<local_ip, sockets, next, rx, clock, calls, frames>>

\* The frame goes to the card, or the card has no room for too long.
send_frame(c) ==
  /\ caller[c].pc = "frame"
  /\ \/ Ends(c)
     \/ caller[c].op = "ping" /\ To(c, "ping") /\ UNCHANGED pings
     \/ caller[c].op = "send" /\ Over(c) /\ UNCHANGED pings
  /\ UNCHANGED <<arp, local_ip, sockets, next, rx, clock, calls, frames>>

ping_wait(c) ==
  /\ caller[c].pc = "ping"
  /\ IF pings[caller[c].slot].answered \/ clock >= caller[c].limit THEN Ends(c)
     ELSE caller' = [caller EXCEPT ![c].pc = "ping_asleep", ![c].chan = PingChan] /\ UNCHANGED pings
  /\ UNCHANGED <<arp, local_ip, sockets, next, rx, clock, calls, frames>>

\* A receive, with a timeout or without.
udp_recvfrom(c, s, timed) ==
  /\ Starts(c) /\ sockets[s].open /\ sockets[s].port # 0
  /\ caller' = [caller EXCEPT ![c] = [Quiet EXCEPT !.pc = "recv", !.op = "recv", !.sock = s,
                                                  !.limit = IF timed THEN clock + PingWait ELSE 0]]
  /\ UNCHANGED <<arp, local_ip, pings, sockets, next, rx, clock, frames>>
recv_wait(c) ==
  /\ caller[c].pc = "recv"
  /\ LET s == caller[c].sock IN
     IF sockets[s].queue # <<>>
     THEN /\ sockets' = [sockets EXCEPT ![s].queue = Tail(@), ![s].bytes = @ - Cost(Head(sockets[s].queue))]
          /\ Over(c)
     ELSE /\ IF caller[c].limit # 0 /\ clock >= caller[c].limit THEN Over(c)
             ELSE caller' = [caller EXCEPT ![c].pc = "recv_asleep", ![c].chan = s]
          /\ UNCHANGED sockets
  /\ UNCHANGED <<arp, local_ip, pings, next, rx, clock, calls, frames>>

\* A signal, found where the loops look for one.
interrupted(c) ==
  /\ Asleep(c)
  /\ Ends(c)
  /\ UNCHANGED <<arp, local_ip, sockets, next, rx, clock, calls, frames>>

\* A new address, or none: the neighbours of the old network are forgotten.
net_set_config(c) ==
  /\ Starts(c)
  /\ local_ip' = OUR_IP - local_ip
  /\ arp' = [i \in ArpSlots |-> NoEntry]
  /\ caller' = [caller EXCEPT ![c] = [Quiet EXCEPT !.pc = "wake", !.chan = ArpChan]]
  /\ UNCHANGED <<pings, sockets, next, rx, clock, frames>>

\* A tick, which wakes the sleepers whose time has come.
Deadline(r) == IF r.pc = "arp_asleep" THEN r.until ELSE r.limit
tick ==
  /\ clock < MaxClock
  /\ clock' = clock + 1
  /\ caller' = [c \in Callers |-> IF Asleep(c) /\ Deadline(caller[c]) # 0 /\ Deadline(caller[c]) <= clock + 1
                                  THEN [caller[c] EXCEPT !.pc = Test(@)] ELSE caller[c]]
  /\ UNCHANGED <<arp, local_ip, pings, sockets, next, rx, calls, frames>>

-----------------------------------------------------------------------------

\* One socket is open and bound already, and the gateway has been heard of.
NetInit ==
  /\ arp = [i \in ArpSlots |-> IF i = 1 THEN [NoEntry EXCEPT !.ip = 1] ELSE NoEntry] /\ local_ip = OUR_IP
  /\ pings = [s \in PingSlots |-> NoPing]
  /\ sockets = [s \in Socks |-> IF s = 1 THEN [NoSock EXCEPT !.open = TRUE, !.port = 1] ELSE NoSock]
  /\ next = [port |-> Min(Ports), sequence |-> 1, second |-> 0, errors |-> 0]
  /\ caller = [c \in Callers |-> Quiet] /\ rx = NoRx
  /\ clock = 0 /\ calls = MaxCalls /\ frames = MaxFrames

\* A reply carries the number of a ping of ours, an old one perhaps.
Frames == [kind : {"arp", "request"}, src : Peers, arg : {0}]
          \cup [kind : {"reply"}, src : {1, FAR}, arg : 1 .. next.sequence - 1]
          \cup [kind : {"udp"}, src : {1}, arg : Ports]

NetNext ==
  \/ \E f \in Frames : net_handle_frame(f)
  \/ deliver \/ rx_wakes \/ tick
  \/ \E c \in Callers :
       \/ \E dst \in Peers \cup {LOOPBACK, FAR} : net_ping(c, dst)
       \/ udp_open(c) \/ bind_locked(c) \/ net_set_config(c)
       \/ \E s \in Socks : \/ udp_close(c, s)
                           \/ \E p \in Ports : udp_bind(c, s, p)
                           \/ \E dst \in {1, LOOPBACK, NET_BROADCAST}, p \in Ports : udp_sendto(c, s, dst, p)
                           \/ \E timed \in BOOLEAN : udp_recvfrom(c, s, timed)
       \/ route(c) \/ caller_wakes(c) \/ arp_lookup(c) \/ arp_wait(c) \/ arp_again(c) \/ send_frame(c)
       \/ ping_wait(c) \/ recv_wait(c) \/ interrupted(c)

-----------------------------------------------------------------------------

Pending(chan) == rx.chan = chan \/ \E d \in Callers : caller[d].pc = "wake" /\ caller[d].chan = chan
HasWhatItWaitsFor(c) ==
  \/ caller[c].pc = "arp_asleep" /\ Fresh(caller[c].hop)
  \/ caller[c].pc = "ping_asleep" /\ pings[caller[c].slot].answered
  \/ caller[c].pc = "recv_asleep" /\ sockets[caller[c].sock].queue # <<>>

\* The wake-up comes after net_lock is released, and a caller goes to sleep
\* under it: no answer, address or datagram is slept through.
NetSleepersWait ==
  \A c \in Callers : Asleep(c) /\ HasWhatItWaitsFor(c) => Pending(caller[c].chan)

\* The tables stay tables, whatever learns, binds and sends at once: a machine
\* has one entry, a port one socket, a ping slot one caller, and a queue is
\* charged what it holds, never more than its limit.
NetTablesSound ==
  /\ \A i, j \in ArpSlots : arp[i].ip = arp[j].ip /\ arp[i].ip # 0 => i = j
  /\ \A s, z \in Socks : sockets[s].port = sockets[z].port /\ sockets[s].port # 0 => s = z
  /\ \A s \in Socks : /\ sockets[s].bytes <= QueueBytes
                      /\ sockets[s].bytes = FoldSet(LAMBDA i, b : b + Cost(sockets[s].queue[i]), 0,
                                                    DOMAIN sockets[s].queue)
  /\ \A s \in PingSlots : pings[s].active <=> \E c \in Callers : caller[c].slot = s
  /\ \A c, d \in Callers : caller[c].slot = caller[d].slot /\ caller[c].slot # 0 => c = d
=============================================================================
