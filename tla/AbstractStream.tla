--------------------------- MODULE AbstractStream ---------------------------
(***************************************************************************)
(* What a pipe promises: the bytes come out in the order they went in, no  *)
(* more than Size of them are in between, nothing goes in once the writer  *)
(* has gone, and nothing once the reader has.                              *)
(***************************************************************************)
EXTENDS Naturals, Sequences

CONSTANTS Marks, Size

VARIABLES
    buf,                        \* the bytes on their way
    next,                       \* the mark of the next one
    reader_open, writer_open

streamVars == <<buf, next, reader_open, writer_open>>

Init == buf = <<>> /\ next = 0 /\ reader_open = TRUE /\ writer_open = TRUE

\* Bytes are added at the back
Put ==
    /\ reader_open /\ writer_open
    /\ \E k \in 1 .. Size - Len(buf) :
          /\ buf' = buf \o [j \in 1 .. k |-> (next + j - 1) % Marks]
          /\ next' = (next + k) % Marks
    /\ UNCHANGED <<reader_open, writer_open>>

\* ... and taken from the front
Take ==
    /\ reader_open
    /\ \E k \in 1 .. Len(buf) : buf' = SubSeq(buf, k + 1, Len(buf))
    /\ UNCHANGED <<next, reader_open, writer_open>>

Close ==
    /\ UNCHANGED <<buf, next>>
    /\ \/ writer_open' = FALSE /\ UNCHANGED reader_open
       \/ reader_open' = FALSE /\ UNCHANGED writer_open

Spec == Init /\ [][Put \/ Take \/ Close]_streamVars

=============================================================================
