----------------------------- MODULE TcpOptions -----------------------------
(***************************************************************************)
(* What the two ends of a TCP connection agree on in their SYNs (tcp.c):   *)
(* the options written into them (syn_options), how an end that may be any *)
(* other program's is read (tcp_parse_options), what is taken from them    *)
(* (apply_syn_options), and the windows offered afterwards, in units of    *)
(* the shift agreed.  Options are bytes, over a small alphabet; a number   *)
(* takes one byte where the code has two or four, so the lengths are       *)
(* smaller: 3 for the segment size, 2 + 2n for n SACK blocks.              *)
(***************************************************************************)
EXTENDS Naturals, Integers, Sequences, FiniteSets

CONSTANTS
    OpBytes,      \* bytes that occur in another program's options
    OpLength,     \* the most of them
    OpMss,        \* TCP_OUR_MSS
    OpSmallest,   \* the smallest segment size believed (64)
    OpDefault,    \* TCP_DEFAULT_MSS
    OpShift,      \* TCP_WSCALE_OURS
    OpShiftMax,   \* TCP_WSCALE_MAX
    OpField,      \* the largest number in the window field (65535)
    OpRoom,       \* the largest ring (TCP_BUFFER_MAX)
    OpUnscaled,   \* the largest ring without scaling (TCP_BUFFER_MAX_UNSCALED)
    OpBlocks      \* TCP_SACK_BLOCKS_MAX

\* Our largest window fits the field (the assertion in tcp.h).
OpFits == OpRoom \div 2^OpShift <= OpField /\ OpUnscaled <= OpField

VARIABLES
    ends,     \* what each end has agreed to: "c" connects, "s" accepts
    segment,  \* the segment under way: its options, or a window
    phase     \* how far they are

opVars == <<ends, segment, phase>>

EndNames == {"c", "s"}
Other(e) == CHOOSE o \in EndNames : o # e
NoEnd == [ours |-> TRUE, offer_sack |-> TRUE, mss |-> OpDefault, scaling |-> FALSE, snd_shift |-> 0, rcv_shift |-> 0,
          sack_ok |-> FALSE]
NoSegment == [from |-> "c", options |-> <<>>, window |-> 0, room |-> 0, syn |-> TRUE]

\* One of the ends may be another program's; ours may have been told not to offer SACK.
OpInit ==
    /\ \E other \in SUBSET EndNames : other # EndNames /\
          \E offers \in [EndNames -> BOOLEAN] :
             ends = [e \in EndNames |-> [NoEnd EXCEPT !.ours = e \notin other, !.offer_sack = offers[e]]]
    /\ segment = NoSegment
    /\ phase = "closed"

-----------------------------------------------------------------------------
(* Writing and reading options. *)

\* syn_options; a shift of -1 is none.
syn_options(shift, sack) ==
    <<2, 3, OpMss>> \o (IF shift >= 0 THEN <<1, 3, 3, shift>> ELSE <<>>) \o (IF sack THEN <<1, 1, 4, 2>> ELSE <<>>)

NoOptions == [mss |-> 0, wscale |-> -1, sack_permitted |-> FALSE, blocks |-> <<>>]

\* Whether the option at i is one to read: its length is there, counts itself, and is within the segment;
\* a SACK option holds whole blocks, one at least and not too many.
Believed(b, i) ==
    /\ i + 1 <= Len(b)
    /\ b[i + 1] >= 2 /\ i + b[i + 1] <= Len(b) + 1
    /\ b[i] = 5 => (b[i + 1] - 2) % 2 = 0 /\ (b[i + 1] - 2) \div 2 \in 1 .. OpBlocks

\* Mutant of Shift: as it is sent.
ShiftAsSent(w) == w

\* A shift is at most TCP_WSCALE_MAX.
Shift(w) == IF w > OpShiftMax THEN OpShiftMax ELSE w

\* What one option says, of those that are understood.
Says(b, i, o) ==
    CASE b[i] = 2 /\ b[i + 1] = 3 -> [o EXCEPT !.mss = b[i + 2]]
      [] b[i] = 3 /\ b[i + 1] = 3 -> [o EXCEPT !.wscale = Shift(b[i + 2])]
      [] b[i] = 4 /\ b[i + 1] = 2 -> [o EXCEPT !.sack_permitted = TRUE]
      [] b[i] = 5 -> [o EXCEPT !.blocks = [k \in 1 .. (b[i + 1] - 2) \div 2 |-> <<b[i + 2 * k], b[i + 2 * k + 1]>>]]
      [] OTHER -> o

\* tcp_parse_options: from option to option, until the end of the list, the segment, or one not believed.
tcp_parse_options(b) ==
    LET parse[i \in 1 .. Len(b) + 1] ==
            CASE i > Len(b) -> NoOptions
              [] i <= Len(b) /\ b[i] = 0 -> NoOptions
              [] i <= Len(b) /\ b[i] = 1 -> parse[i + 1]
              [] OTHER -> IF ~Believed(b, i) THEN NoOptions
                          ELSE LET rest == parse[i + b[i + 1]]
                                   here == Says(b, i, NoOptions)
                               IN [mss |-> IF rest.mss # 0 THEN rest.mss ELSE here.mss,
                                   wscale |-> IF rest.wscale # -1 THEN rest.wscale ELSE here.wscale,
                                   sack_permitted |-> here.sack_permitted \/ rest.sack_permitted,
                                   blocks |-> IF rest.blocks # <<>> THEN rest.blocks ELSE here.blocks]
    IN parse[1]


\* apply_syn_options: what the other end's SYN settles.
apply_syn_options(e, o) ==
    [e EXCEPT !.mss = IF o.mss >= OpSmallest THEN (IF o.mss < OpMss THEN o.mss ELSE OpMss) ELSE OpDefault,
              !.scaling = o.wscale # -1,
              !.snd_shift = IF o.wscale # -1 THEN o.wscale ELSE 0,
              !.rcv_shift = IF o.wscale # -1 THEN OpShift ELSE 0,
              !.sack_ok = e.offer_sack /\ o.sack_permitted]

\* ring_limit
ring_limit(e) == IF e.scaling THEN OpRoom ELSE OpUnscaled

\* The window field for that much room: never scaled in a SYN, otherwise in our units, rounded down.
Window(e, room, syn) ==
    LET units == room \div 2^(IF syn THEN 0 ELSE e.rcv_shift)
    IN IF units > OpField THEN OpField ELSE units

\* peer_window: the field of a segment in bytes.
peer_window(e, window, syn) == window * 2^(IF syn THEN 0 ELSE e.snd_shift)

-----------------------------------------------------------------------------
(* The handshake, and windows after it. *)

\* The options of an end's SYN: one of ours, or whatever another program sends.
Offered(e, connecting) ==
    syn_options(IF connecting \/ ends[e].scaling THEN OpShift ELSE -1,
                IF connecting THEN ends[e].offer_sack ELSE ends[e].sack_ok)
AnyOptions == UNION {[1 .. n -> OpBytes] : n \in 0 .. OpLength}

sends_syn(e, from, to) ==
    /\ phase = from
    /\ \E room \in {0, OpUnscaled} :
          \/ /\ ends[e].ours
             /\ segment' = [NoSegment EXCEPT !.from = e, !.options = Offered(e, e = "c"), !.room = room,
                                             !.window = Window(ends[e], room, TRUE)]
          \/ /\ ~ends[e].ours
             /\ \E b \in AnyOptions : segment' = [NoSegment EXCEPT !.from = e, !.options = b, !.room = room, !.window = room]
    /\ phase' = to
    /\ UNCHANGED ends

\* The other end takes what it says; another program scales if it offered to and is answered so.
takes_syn(e, from, to) ==
    /\ phase = from /\ ends[e].ours
    /\ ends' = [ends EXCEPT ![e] = apply_syn_options(@, tcp_parse_options(segment.options))]
    /\ phase' = to
    /\ UNCHANGED segment
passes_syn(e, from, to) ==
    /\ phase = from /\ ~ends[e].ours
    /\ phase' = to
    /\ UNCHANGED <<ends, segment>>

\* A segment of the connection carries a window: as much as there is room, up to the ring's limit.
offers_window(e) ==
    /\ phase = "open" /\ ends[e].ours
    /\ \E room \in 0 .. ring_limit(ends[e]) :
          segment' = [NoSegment EXCEPT !.from = e, !.room = room, !.syn = FALSE, !.window = Window(ends[e], room, FALSE)]
    /\ UNCHANGED <<ends, phase>>

OpNext ==
    \/ sends_syn("c", "closed", "syn") \/ takes_syn("s", "syn", "heard") \/ passes_syn("s", "syn", "heard")
    \/ sends_syn("s", "heard", "syn+ack") \/ takes_syn("c", "syn+ack", "open") \/ passes_syn("c", "syn+ack", "open")
    \/ \E e \in EndNames : offers_window(e)

-----------------------------------------------------------------------------
(* Properties. *)

\* Where an option begins, in any sequence of bytes: at the front, after padding, after an option believed.
OptionAt(b) ==
    LET at[i \in 1 .. Len(b) + 1] ==
            \/ i = 1
            \/ \E j \in 1 .. i - 1 : /\ at[j]
                                     /\ \/ b[j] = 1 /\ i = j + 1
                                        \/ b[j] \notin {0, 1} /\ Believed(b, j) /\ i = j + b[j + 1]
    IN {i \in 1 .. Len(b) : at[i] /\ b[i] \notin {0, 1} /\ Believed(b, i)}

\* The value of the last option of a kind and length.
LastOf(b, kind, len, none) ==
    LET of == {i \in OptionAt(b) : b[i] = kind /\ b[i + 1] = len}
    IN IF of = {} THEN none ELSE b[(CHOOSE i \in of : \A j \in of : j <= i) + 2]

\* Whatever bytes another end sends, what is taken from them is what the options among them say: the
\* reading never leaves them, and what came before a malformed option stands.
OptionsAreRead ==
    phase \in {"syn", "syn+ack"} =>
        LET b == segment.options
            o == tcp_parse_options(b)
        IN /\ o.mss = LastOf(b, 2, 3, 0)
           /\ LET w == LastOf(b, 3, 3, -1) IN o.wscale = IF w > OpShiftMax THEN OpShiftMax ELSE w
           /\ o.sack_permitted = \E i \in OptionAt(b) : b[i] = 4 /\ b[i + 1] = 2
           /\ \A i \in OptionAt(b) : i + b[i + 1] - 1 <= Len(b)

\* Two ends of ours agree: each counts the other's windows in the units the other offers them in, and
\* both use SACK or neither does.  Any window, in the units the other end reads it in (ours if it scales,
\* bytes if not), is room that is there, less than one unit short of it.
EndsAgree ==
    /\ (phase = "open" /\ \A e \in EndNames : ends[e].ours) =>
          /\ \A e \in EndNames : ends[e].snd_shift = ends[Other(e)].rcv_shift
          /\ ends["c"].sack_ok = ends["s"].sack_ok
          /\ LET bytes == peer_window(ends[Other(segment.from)], segment.window, segment.syn)
             IN bytes <= segment.room /\ segment.room - bytes < 2^ends[segment.from].rcv_shift
    /\ \A e \in EndNames : ends[e].mss <= OpMss /\ ends[e].snd_shift <= OpShiftMax
    /\ LET unit == IF ends[segment.from].scaling THEN 2^OpShift ELSE 1
       IN (phase = "open" /\ ~segment.syn) => segment.room - segment.window * unit \in 0 .. unit - 1

\* What the SYNs settle.
OptionsSound == OptionsAreRead /\ EndsAgree
=============================================================================
