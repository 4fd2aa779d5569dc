----------------------------- MODULE ByteStream -----------------------------
(***************************************************************************)
(* What the robust I/O functions promise to the two programs at the ends   *)
(* of a connection, without buffers, short counts or signals: the reader   *)
(* is given the bytes of the writer, each of them once and in order.       *)
(* A byte is its position in the stream.                                   *)
(***************************************************************************)
EXTENDS Naturals, Sequences

VARIABLES
  written,     \* number of bytes that the writer has put into the stream
  closed,      \* the writer will put no more
  out          \* the bytes that the reader was given

stream == <<written, closed, out>>

Init == written = 0 /\ closed = FALSE /\ out = <<>>

Write ==
  /\ ~closed
  /\ written' \in Nat /\ written' > written
  /\ UNCHANGED <<closed, out>>

Close ==
  /\ ~closed
  /\ closed' = TRUE
  /\ UNCHANGED <<written, out>>

Deliver ==
  /\ \E k \in 1 .. written - Len(out) :
       out' = out \o [i \in 1 .. k |-> Len(out) + i]
  /\ UNCHANGED <<written, closed>>

Next == Write \/ Close \/ Deliver

Safety == Init /\ [][Next]_stream
=============================================================================
