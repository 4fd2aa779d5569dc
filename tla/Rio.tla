-------------------------------- MODULE Rio --------------------------------
(***************************************************************************)
(* The robust I/O functions of lib/unix_api.c on the two ends of a socket: *)
(* rio_writen() at one, and at the other rio_readn(), rio_readnb() and     *)
(* rio_readlineb(), the last two through the buffer of a rio_t.  read()    *)
(* and write() move fewer bytes than they were asked to, are interrupted   *)
(* by signals, and fail.                                                   *)
(*                                                                         *)
(* A byte is its position in the stream.  An interrupted call that leaves  *)
(* no trace (EINTR in rio_readn() and rio_writen()) is a stutter.          *)
(***************************************************************************)
EXTENDS Integers, Sequences

CONSTANTS
  BufSize,       \* sizeof(rio_buf)
  PipeSize,      \* bytes that the kernel holds between the two ends
  Newline,       \* positions of the stream that hold '\n'
  Request,       \* the n and maxlen that callers pass
  MaxBytes       \* bound on the length of the stream

ASSUME SizeAssumption == BufSize \in Nat \ {0} /\ PipeSize \in Nat \ {0}
ASSUME RequestAssumption == Request \subseteq Nat

VARIABLES
  written,       \* bytes that write() has taken
  wleft,         \* nleft of rio_writen(); 0: it is not running
  closed,        \* the writer has closed its end, or has exited
  pos,           \* bytes that read() has returned
  cnt,           \* rio_cnt
  ptr,           \* rio_bufptr - rio_buf
  rbuf,          \* rio_buf
  op,            \* the function called last
  want,          \* its n or maxlen
  busy,          \* it has not returned yet
  ret,           \* what it returned
  ngot,          \* bytes that it has put into usrbuf
  out            \* history: all bytes that calls have put into usrbuf

writer == <<written, wleft, closed>>
rio == <<cnt, ptr, rbuf>>
call == <<op, want>>
vars == <<writer, pos, rio, call, busy, ret, ngot, out>>

Op == {"none", "readn", "readnb", "readlineb"}

-----------------------------------------------------------------------------
(* Room left in usrbuf; rio_readlineb() keeps one byte for the NUL.        *)
Left == IF op = "readlineb" THEN want - 1 - ngot ELSE want - ngot

(* rio_readlineb() leaves its loop after a newline.                        *)
WrongLineEnded == FALSE
LineEnded == op = "readlineb" /\ ngot > 0 /\ out[Len(out)] \in Newline

LoopDone == Left <= 0 \/ LineEnded

(* rio_read() calls read() only when all of the buffer was handed out;     *)
(* rio_cnt is -1 after an interrupted read().                              *)
WrongNeedsRefill == cnt < Left
NeedsRefill == cnt <= 0

WrongPtrAfterRefill == ptr
PtrAfterRefill == 0

(* min(n, rio_cnt), where rio_readlineb() asks for one byte.               *)
CopyCount == IF op = "readlineb" THEN 1 ELSE IF cnt < Left THEN cnt ELSE Left
WrongPtrAfterCopy == ptr
PtrAfterCopy == ptr + CopyCount

Stop(r) == busy' = FALSE /\ ret' = r

(* After EINTR read() is called again; at the end of file the loop ends    *)
(* with what there is.                                                     *)
WrongInterrupted == Stop(ngot)
Interrupted == UNCHANGED <<busy, ret>>
WrongAtEnd == UNCHANGED <<busy, ret>>
AtEnd == Stop(ngot)

-----------------------------------------------------------------------------
(* The writer                                                              *)

CallWriten(n) ==
  /\ ~closed /\ wleft = 0
  /\ written + n <= MaxBytes
  /\ wleft' = n
  /\ UNCHANGED <<written, closed, pos, rio, call, busy, ret, ngot, out>>

(* write() takes a part of what is left.                                   *)
WriteSome(k) ==
  /\ ~closed /\ k <= wleft
  /\ written + k - pos <= PipeSize
  /\ written' = written + k
  /\ wleft' = wleft - k
  /\ UNCHANGED <<closed, pos, rio, call, busy, ret, ngot, out>>

(* close(); or write() fails, and Rio_writen() ends the process.           *)
Close ==
  /\ ~closed
  /\ closed' = TRUE
  /\ wleft' = 0
  /\ UNCHANGED <<written, pos, rio, call, busy, ret, ngot, out>>

-----------------------------------------------------------------------------
(* The reader                                                              *)

(* A buffered reader keeps the descriptor to itself, and usrbuf has room   *)
(* for a NUL.                                                              *)
Call(f, n) ==
  /\ ~busy
  /\ f = "readn" => cnt <= 0
  /\ f = "readlineb" => n > 0
  /\ op' = f /\ want' = n /\ busy' = TRUE /\ ngot' = 0
  /\ UNCHANGED <<writer, pos, rio, ret, out>>

Return ==
  /\ busy /\ LoopDone
  /\ Stop(ngot)
  /\ UNCHANGED <<writer, pos, rio, call, ngot, out>>

(* rio_read() with nothing in its buffer.                                  *)
Reading == busy /\ op # "readn" /\ ~LoopDone /\ NeedsRefill

Refill(k) ==
  /\ Reading
  /\ k <= BufSize /\ pos + k <= written
  /\ pos' = pos + k
  /\ rbuf' = [i \in 0 .. BufSize - 1 |-> IF i < k THEN pos + i + 1 ELSE rbuf[i]]
  /\ cnt' = k
  /\ ptr' = PtrAfterRefill
  /\ UNCHANGED <<writer, call, busy, ret, ngot, out>>

RefillInterrupted ==
  /\ Reading
  /\ cnt' = -1
  /\ Interrupted
  /\ UNCHANGED <<writer, pos, ptr, rbuf, call, ngot, out>>

RefillEnd ==
  /\ Reading /\ closed /\ pos = written
  /\ cnt' = 0
  /\ AtEnd
  /\ UNCHANGED <<writer, pos, ptr, rbuf, call, ngot, out>>

RefillError ==
  /\ Reading
  /\ cnt' = -1
  /\ Stop(-1)
  /\ UNCHANGED <<writer, pos, ptr, rbuf, call, ngot, out>>

(* rio_read() with bytes in its buffer.                                    *)
Copy ==
  /\ busy /\ op # "readn" /\ ~LoopDone /\ ~NeedsRefill
  /\ out' = out \o [i \in 1 .. CopyCount |-> rbuf[ptr + i - 1]]
  /\ ngot' = ngot + CopyCount
  /\ ptr' = PtrAfterCopy
  /\ cnt' = cnt - CopyCount
  /\ UNCHANGED <<writer, pos, rbuf, call, busy, ret>>

(* The loop of rio_readn(): no buffer in between.                          *)
ReadDirect(k) ==
  /\ busy /\ op = "readn" /\ ~LoopDone
  /\ k <= Left /\ pos + k <= written
  /\ pos' = pos + k
  /\ out' = out \o [i \in 1 .. k |-> pos + i]
  /\ ngot' = ngot + k
  /\ UNCHANGED <<writer, rio, call, busy, ret>>

DirectEnd ==
  /\ busy /\ op = "readn" /\ ~LoopDone /\ closed /\ pos = written
  /\ AtEnd
  /\ UNCHANGED <<writer, pos, rio, call, ngot, out>>

DirectError ==
  /\ busy /\ op = "readn" /\ ~LoopDone
  /\ Stop(-1)
  /\ UNCHANGED <<writer, pos, rio, call, ngot, out>>

ReadStep ==
  \/ Return \/ Copy \/ RefillEnd \/ DirectEnd
  \/ \E k \in 1 .. BufSize : Refill(k)
  \/ \E k \in 1 .. Left : ReadDirect(k)

-----------------------------------------------------------------------------
(* rio_readinitb() has run.                                                *)
Init ==
  /\ written = 0 /\ wleft = 0 /\ closed = FALSE
  /\ pos = 0 /\ cnt = 0 /\ ptr = 0 /\ rbuf = [i \in 0 .. BufSize - 1 |-> 0]
  /\ op = "none" /\ want = 0 /\ busy = FALSE /\ ret = 0 /\ ngot = 0
  /\ out = <<>>

Next ==
  \/ \E n \in Request : CallWriten(n)
  \/ \E k \in 1 .. wleft : WriteSome(k)
  \/ Close
  \/ \E f \in Op \ {"none"}, n \in Request : Call(f, n)
  \/ ReadStep
  \/ RefillInterrupted \/ RefillError \/ DirectError

(* A read() that can return bytes, or the end of file, does so at last,    *)
(* however often it is interrupted.  Nobody has to write or to call.       *)
Spec == Init /\ [][Next]_vars /\ WF_vars(ReadStep)
-----------------------------------------------------------------------------
(* Properties                                                              *)

(* Every variable keeps its type; usrbuf is not overrun.                   *)
TypeOK ==
  /\ written \in Nat /\ wleft \in Nat /\ closed \in BOOLEAN /\ pos \in Nat
  /\ cnt \in -1 .. BufSize /\ ptr \in 0 .. BufSize
  /\ rbuf \in [0 .. BufSize - 1 -> Nat]
  /\ op \in Op /\ want \in Nat /\ busy \in BOOLEAN /\ ret \in Int
  /\ ngot \in 0 .. want /\ out \in Seq(Nat)

(* The callers get the bytes of the stream, each once and in order, in     *)
(* whatever sizes read() returns them and the calls ask for them, and with *)
(* line and block reads mixed.                                             *)
InOrder == \A i \in 1 .. Len(out) : out[i] = i

(* A call for n bytes that returns fewer has come to the end of the        *)
(* stream: a signal or a short count alone never shortens it, and no byte  *)
(* is left in the buffer.                                                  *)
ShortOnlyAtEnd ==
  ~busy /\ op \in {"readn", "readnb"} /\ 0 <= ret /\ ret < want
    => closed /\ Len(out) = written

(* The i-th byte that the last call has put into usrbuf.                   *)
Got(i) == out[Len(out) - ngot + i]

(* rio_readlineb() returns one line, with room left for the NUL: a newline *)
(* is its last byte, and it lacks one only if maxlen or the stream ended.  *)
LinesAreLines ==
  ~busy /\ op = "readlineb" /\ 0 <= ret =>
    /\ ret = ngot /\ ret < want
    /\ \A i \in 1 .. ret - 1 : Got(i) \notin Newline
    /\ \/ ret > 0 /\ Got(ret) \in Newline
       \/ ret = want - 1
       \/ closed /\ Len(out) = written

(* The parts of the inductive invariant.                                   *)

(* Between usrbuf and the kernel lies what rio_buf holds.                  *)
BufferInv ==
  /\ pos <= written
  /\ cnt <= 0 => pos = Len(out)
  /\ cnt > 0 =>
       /\ pos = Len(out) + cnt
       /\ ptr + cnt <= BufSize
       /\ \A i \in 0 .. cnt - 1 : rbuf[ptr + i] = Len(out) + i + 1

(* What the call in progress, or the last one, has got.                    *)
CallInv ==
  /\ ngot <= Len(out)
  /\ busy => op # "none"
  /\ busy /\ op = "readn" => cnt <= 0
  /\ op = "readlineb" =>
       /\ ngot < want
       /\ \A i \in 1 .. ngot - 1 : Got(i) \notin Newline
  /\ ~busy /\ 0 <= ret /\ op # "none" => ret = ngot

RioInv ==
  /\ TypeOK /\ InOrder /\ BufferInv /\ CallInv /\ ShortOnlyAtEnd
  /\ LinesAreLines

(* The functions together are a stream of bytes.                           *)
Stream == INSTANCE ByteStream
ImplementsStream == Stream!Safety

(* A call comes back once what it asks for has arrived, or the writer has  *)
(* closed, signals or not.                                                 *)
CallsReturn ==
  busy /\ (closed \/ written - Len(out) >= Left) ~> ~busy

(* What is left of a call: a refill and a copy for each byte at most.      *)
ReadRank ==
  IF ~busy THEN 0
  ELSE (IF Left > 0 THEN 2 * Left ELSE 0) + (IF cnt <= 0 THEN 2 ELSE 1)

(* A call for n bytes takes no more than 2 * n + 2 steps besides the       *)
(* interrupted ones, which cost it nothing: no short count, signal or      *)
(* refill sends it back.                                                   *)
RioAdvances ==
  [][busy => /\ ReadRank' <= ReadRank
             /\ ReadStep => ReadRank' < ReadRank]_vars
=============================================================================
