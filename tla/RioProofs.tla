----------------------------- MODULE RioProofs -----------------------------
(***************************************************************************)
(* Proofs about Rio, for every size of the buffer and of the pipe, every   *)
(* placement of newlines, every request and every length of the stream.    *)
(***************************************************************************)
EXTENDS Rio, SequenceTheorems, TLAPS

(* The next k bytes of the stream, appended to those before them.          *)
LEMMA NextBytes ==
  ASSUME NEW s \in Seq(Nat), NEW k \in Nat,
         \A i \in 1 .. Len(s) : s[i] = i
  PROVE  LET t == s \o [i \in 1 .. k |-> Len(s) + i]
         IN  /\ t \in Seq(Nat) /\ Len(t) = Len(s) + k
             /\ \A i \in 1 .. Len(s) : t[i] = s[i]
             /\ \A i \in 1 .. Len(t) : t[i] = i
<1> DEFINE f == [i \in 1 .. k |-> Len(s) + i]
           t == s \o f
<1>1. f \in Seq(Nat) /\ Len(f) = k /\ \A i \in 1 .. k : f[i] = Len(s) + i
  OBVIOUS
<1> HIDE DEF f
<1>2. /\ t \in Seq(Nat) /\ Len(t) = Len(s) + k
      /\ \A i \in 1 .. Len(s) + k :
           t[i] = IF i <= Len(s) THEN s[i] ELSE f[i - Len(s)]
  BY <1>1, ConcatProperties
<1> HIDE DEF t
<1>3. Len(s) \in Nat
  OBVIOUS
<1>4. ASSUME NEW i \in 1 .. Len(s) PROVE t[i] = s[i]
  BY <1>2, <1>3
<1>5. ASSUME NEW i \in 1 .. Len(s) + k PROVE t[i] = i
  <2>1. CASE i <= Len(s)
    <3>1. i \in 1 .. Len(s)
      BY <1>3, <2>1
    <3> QED
      BY <1>4, <3>1
  <2>2. CASE ~(i <= Len(s))
    <3>1. i - Len(s) \in 1 .. k /\ Len(s) + (i - Len(s)) = i
      BY <1>3, <2>2
    <3> QED
      BY <1>1, <1>2, <2>2, <3>1
  <2> QED
    BY <2>1, <2>2
<1> QED
  BY <1>2, <1>4, <1>5 DEF t, f

(* Types and arithmetic that every step of the reader needs.               *)
LEMMA ReaderFacts ==
  ASSUME RioInv
  PROVE  /\ Left \in Int /\ Len(out) \in Nat /\ BufSize \in Nat /\ BufSize > 0
         /\ written \in Nat /\ pos \in Nat /\ cnt \in Int /\ ptr \in Nat
         /\ want \in Nat /\ ngot \in Nat
         /\ Left = IF op = "readlineb" THEN want - 1 - ngot ELSE want - ngot
BY SizeAssumption DEF RioInv, TypeOK, Left

(* A step that puts the next k bytes into usrbuf.                          *)
LEMMA GiveStep ==
  ASSUME RioInv, NEW k \in Nat, k > 0, k <= Left, busy, ~LoopDone,
         op = "readlineb" => k = 1, op = "readn" => cnt' <= 0,
         out' = out \o [i \in 1 .. k |-> Len(out) + i],
         ngot' = ngot + k, UNCHANGED <<writer, call, busy, ret>>
  PROVE  /\ out' \in Seq(Nat) /\ Len(out') = Len(out) + k
         /\ ngot' \in 0 .. want
         /\ InOrder' /\ CallInv' /\ ShortOnlyAtEnd' /\ LinesAreLines'
<1>1. /\ out' \in Seq(Nat) /\ Len(out') = Len(out) + k
      /\ \A i \in 1 .. Len(out) : out'[i] = out[i]
      /\ \A i \in 1 .. Len(out') : out'[i] = i
  BY NextBytes DEF RioInv, InOrder, TypeOK
<1>2. InOrder' /\ ShortOnlyAtEnd' /\ LinesAreLines'
  BY <1>1 DEF InOrder, ShortOnlyAtEnd, LinesAreLines
<1>3. /\ Len(out) \in Nat /\ want \in Nat /\ ngot \in Nat /\ ngot <= Len(out)
      /\ op = "readlineb" => ngot + 1 < want /\ k = 1
      /\ ngot + k <= want
  BY ReaderFacts DEF RioInv, CallInv
<1>4. ngot' \in 0 .. want /\ ngot' <= Len(out')
  BY <1>1, <1>3
<1>5. ASSUME op = "readlineb", NEW i \in 1 .. ngot' - 1
      PROVE  Got(i)' \notin Newline
  <2>1. /\ i \in 1 .. ngot /\ Len(out') - ngot' = Len(out) - ngot
        /\ Len(out) - ngot + i \in 1 .. Len(out)
    BY <1>1, <1>3, <1>5
  <2>2. Got(i)' = out[Len(out) - ngot + i]
    BY <1>1, <2>1 DEF Got
  <2>3. CASE i = ngot
    <3>1. out[Len(out)] \notin Newline
      BY <1>3, <1>5, <2>1, <2>3 DEF LoopDone, LineEnded
    <3> QED
      BY <1>3, <2>2, <2>3, <3>1
  <2>4. CASE i \in 1 .. ngot - 1
    BY <1>5, <2>2, <2>4 DEF RioInv, CallInv, Got
  <2> QED
    BY <1>3, <2>1, <2>3, <2>4
<1>6. CallInv'
  <2>1. /\ busy' = TRUE /\ op' = op /\ want' = want
        /\ op # "none"
    BY DEF RioInv, CallInv, call
  <2> QED
    BY <1>3, <1>4, <1>5, <2>1 DEF CallInv
<1> QED
  BY <1>1, <1>2, <1>4, <1>6

-----------------------------------------------------------------------------
(* The invariant holds before the first call.                              *)
LEMMA InvInit == Init => RioInv
<1> SUFFICES ASSUME Init PROVE RioInv
  OBVIOUS
<1> USE SizeAssumption DEF Init
<1>1. out = <<>> /\ out \in Seq(Nat) /\ Len(out) = 0
  OBVIOUS
<1>2. TypeOK
  <2>1. rbuf \in [0 .. BufSize - 1 -> Nat]
    OBVIOUS
  <2>2. cnt \in -1 .. BufSize /\ ptr \in 0 .. BufSize /\ ngot \in 0 .. want
    OBVIOUS
  <2>3. /\ written \in Nat /\ wleft \in Nat /\ pos \in Nat
        /\ want \in Nat /\ ret \in Int
    OBVIOUS
  <2>4. closed \in BOOLEAN /\ busy \in BOOLEAN
    OBVIOUS
  <2>5. op \in Op
    BY DEF Op
  <2> HIDE DEF Init
  <2> QED
    BY <1>1, <2>1, <2>2, <2>3, <2>4, <2>5 DEF TypeOK
<1>3. InOrder /\ BufferInv /\ CallInv
  BY <1>1 DEF InOrder, BufferInv, CallInv
<1> QED
  BY <1>2, <1>3 DEF RioInv, ShortOnlyAtEnd, LinesAreLines

(* The writer's steps leave the reader alone.                              *)
LEMMA WriterStep ==
  ASSUME RioInv, UNCHANGED <<pos, rio, call, busy, ret, ngot, out>>,
         written' \in Nat, wleft' \in Nat, closed' \in BOOLEAN,
         written <= written', closed => closed' /\ written' = written
  PROVE  RioInv'
<1>1. UNCHANGED <<pos, cnt, ptr, rbuf, op, want, busy, ret, ngot, out>>
  BY DEF rio, call
<1>2. TypeOK'
  BY <1>1 DEF RioInv, TypeOK
<1>3. InOrder' /\ BufferInv' /\ CallInv'
  <2>1. pos <= written'
    BY DEF RioInv, TypeOK, BufferInv
  <2> QED
    BY <1>1, <2>1 DEF RioInv, InOrder, BufferInv, CallInv, Got
<1>4. ShortOnlyAtEnd' /\ LinesAreLines'
  BY <1>1 DEF RioInv, ShortOnlyAtEnd, LinesAreLines, Got
<1> QED
  BY <1>2, <1>3, <1>4 DEF RioInv

(* A step that only ends the call.                                         *)
LEMMA StopStep ==
  ASSUME RioInv, NEW r \in {-1, ngot}, busy, Stop(r),
         UNCHANGED <<writer, pos, call, ngot, out, ptr, rbuf>>,
         cnt' = cnt \/ (cnt <= 0 /\ cnt' \in {-1, 0}),
         r = ngot => LoopDone \/ (closed /\ pos = written /\ cnt <= 0)
  PROVE  RioInv'
<1>1. /\ UNCHANGED <<written, wleft, closed, pos, op, want, ngot, out, ptr, rbuf>>
      /\ busy' = FALSE /\ ret' = r
  BY DEF writer, call, Stop
<1>2. /\ ngot \in Nat /\ want \in Nat /\ r \in Int /\ BufSize \in Nat
      /\ cnt \in Int /\ Len(out) \in Nat /\ ngot <= Len(out)
      /\ Left = IF op = "readlineb" THEN want - 1 - ngot ELSE want - ngot
      /\ op # "none"
  BY ReaderFacts DEF RioInv, CallInv
<1>3. TypeOK'
  <2>1. cnt' \in -1 .. BufSize
    BY <1>2 DEF RioInv, TypeOK
  <2> QED
    BY <1>1, <1>2, <2>1 DEF RioInv, TypeOK
<1>4. InOrder'
  BY <1>1 DEF RioInv, InOrder
<1>5. BufferInv'
  BY <1>1, <1>2 DEF RioInv, BufferInv
<1>6. CallInv'
  BY <1>1, <1>2 DEF RioInv, CallInv, Got
<1>7. closed /\ pos = written /\ cnt <= 0 => closed' /\ Len(out') = written'
  BY <1>1, <1>2 DEF RioInv, BufferInv
<1>8. ShortOnlyAtEnd'
  <2> SUFFICES ASSUME op \in {"readn", "readnb"}, 0 <= ret', ret' < want
               PROVE  closed' /\ Len(out') = written'
    BY <1>1 DEF ShortOnlyAtEnd
  <2>1. r = ngot /\ ~LoopDone
    BY <1>1, <1>2 DEF LoopDone, LineEnded
  <2> QED
    BY <1>7, <2>1
<1>9. LinesAreLines'
  <2> SUFFICES ASSUME op = "readlineb", 0 <= r
               PROVE  /\ r = ngot /\ r < want
                      /\ \A i \in 1 .. r - 1 : Got(i)' \notin Newline
                      /\ \/ r > 0 /\ Got(r)' \in Newline
                         \/ r = want - 1
                         \/ closed' /\ Len(out') = written'
    BY <1>1 DEF LinesAreLines, Got
  <2>1. r = ngot /\ r < want
    BY <1>2 DEF RioInv, CallInv
  <2>2. \A i \in 1 .. r - 1 : Got(i)' \notin Newline
    BY <1>1, <2>1 DEF RioInv, CallInv, Got
  <2>3. CASE LineEnded
    BY <1>1, <1>2, <2>1, <2>2, <2>3 DEF LineEnded, Got
  <2>4. CASE Left <= 0
    BY <1>2, <2>1, <2>2, <2>4
  <2>5. CASE ~LoopDone
    BY <1>7, <2>1, <2>2, <2>5
  <2> QED
    BY <2>3, <2>4, <2>5 DEF LoopDone
<1> QED
  BY <1>3, <1>4, <1>5, <1>6, <1>8, <1>9 DEF RioInv

(* A step inside a call that puts nothing into usrbuf.                     *)
LEMMA QuietStep ==
  ASSUME RioInv, UNCHANGED <<writer, call, busy, ret, ngot, out>>,
         busy, op # "readn", TypeOK', BufferInv'
  PROVE  RioInv'
<1>1. UNCHANGED <<written, closed, op, want, busy, ret, ngot, out>>
  BY DEF writer, call
<1> QED
  BY <1>1 DEF RioInv, InOrder, CallInv, ShortOnlyAtEnd, LinesAreLines, Got

-----------------------------------------------------------------------------
(* Every step keeps the invariant.                                         *)
LEMMA InvNext == RioInv /\ [Next]_vars => RioInv'
<1> SUFFICES ASSUME RioInv, [Next]_vars PROVE RioInv'
  OBVIOUS
<1> USE SizeAssumption, RequestAssumption
<1>t. /\ written \in Nat /\ wleft \in Nat /\ closed \in BOOLEAN /\ pos \in Nat
      /\ cnt \in -1 .. BufSize /\ ptr \in 0 .. BufSize
      /\ rbuf \in [0 .. BufSize - 1 -> Nat]
      /\ op \in Op /\ want \in Nat /\ busy \in BOOLEAN /\ ret \in Int
      /\ ngot \in 0 .. want /\ out \in Seq(Nat) /\ Len(out) \in Nat
  BY DEF RioInv, TypeOK
<1>b. /\ pos <= written
      /\ cnt <= 0 => pos = Len(out)
      /\ cnt > 0 =>
           /\ pos = Len(out) + cnt
           /\ ptr + cnt <= BufSize
           /\ \A i \in 0 .. cnt - 1 : rbuf[ptr + i] = Len(out) + i + 1
  BY DEF RioInv, BufferInv
<1>1. ASSUME NEW n \in Request, CallWriten(n) PROVE RioInv'
  BY <1>1, <1>t, WriterStep DEF CallWriten
<1>2. ASSUME NEW k \in 1 .. wleft, WriteSome(k) PROVE RioInv'
  <2>1. written' \in Nat /\ wleft' \in Nat /\ written <= written'
    BY <1>2, <1>t DEF WriteSome
  <2> QED
    BY <1>2, <1>t, <2>1, WriterStep DEF WriteSome
<1>3. ASSUME Close PROVE RioInv'
  BY <1>3, <1>t, WriterStep DEF Close
<1>4. ASSUME NEW f \in Op \ {"none"}, NEW n \in Request, Call(f, n)
      PROVE  RioInv'
  <2>1. /\ UNCHANGED <<written, wleft, closed, pos, cnt, ptr, rbuf, ret, out>>
        /\ op' = f /\ want' = n /\ busy' = TRUE /\ ngot' = 0
        /\ f = "readn" => cnt <= 0
        /\ f = "readlineb" => n > 0
    BY <1>4 DEF Call, writer, rio
  <2>2. TypeOK'
    BY <1>t, <2>1 DEF TypeOK
  <2>3. InOrder' /\ BufferInv'
    BY <2>1 DEF RioInv, InOrder, BufferInv
  <2>4. CallInv'
    BY <1>t, <2>1 DEF CallInv
  <2> QED
    BY <2>1, <2>2, <2>3, <2>4 DEF RioInv, ShortOnlyAtEnd, LinesAreLines
<1>5. CASE Return
  BY <1>5, StopStep DEF Return, rio
<1>6. CASE Copy
  <2> DEFINE c == CopyCount
  <2>1. /\ busy /\ op # "readn" /\ ~LoopDone /\ cnt > 0
        /\ UNCHANGED <<written, wleft, closed, pos, rbuf, op, want, busy, ret>>
        /\ out' = out \o [i \in 1 .. c |-> rbuf[ptr + i - 1]]
        /\ ngot' = ngot + c /\ ptr' = ptr + c /\ cnt' = cnt - c
    BY <1>6, <1>t DEF Copy, NeedsRefill, PtrAfterCopy, writer, call
  <2>2. Left \in Int /\ Left > 0
    BY <2>1, ReaderFacts DEF LoopDone
  <2>3. /\ c \in Nat /\ c > 0 /\ c <= Left /\ c <= cnt
        /\ op = "readlineb" => c = 1
    BY <1>t, <2>1, <2>2 DEF CopyCount
  <2> HIDE DEF c
  <2>4. \A i \in 1 .. c : rbuf[ptr + i - 1] = Len(out) + i
    <3> SUFFICES ASSUME NEW i \in 1 .. c
                 PROVE  rbuf[ptr + i - 1] = Len(out) + i
      OBVIOUS
    <3>1. i - 1 \in 0 .. cnt - 1
      BY <1>t, <2>3
    <3>2. rbuf[ptr + (i - 1)] = Len(out) + (i - 1) + 1
      BY <1>b, <2>1, <3>1
    <3>3. ptr + (i - 1) = ptr + i - 1 /\ Len(out) + (i - 1) + 1 = Len(out) + i
      BY <1>t, <2>3
    <3> QED
      BY <3>2, <3>3
  <2>5. [i \in 1 .. c |-> rbuf[ptr + i - 1]] = [i \in 1 .. c |-> Len(out) + i]
    BY <2>4
  <2>6. out' = out \o [i \in 1 .. c |-> Len(out) + i]
    BY <2>1, <2>5
  <2>7. /\ out' \in Seq(Nat) /\ Len(out') = Len(out) + c
        /\ ngot' \in 0 .. want
        /\ InOrder' /\ CallInv' /\ ShortOnlyAtEnd' /\ LinesAreLines'
    BY <2>1, <2>3, <2>6, GiveStep DEF writer, call
  <2>8. TypeOK'
    BY <1>t, <1>b, <2>1, <2>3, <2>7 DEF TypeOK
  <2>9. BufferInv'
    <3>1. ASSUME NEW i \in 0 .. cnt' - 1
          PROVE  rbuf[ptr' + i] = Len(out') + i + 1
      <4>1. c + i \in 0 .. cnt - 1
        BY <1>t, <2>1, <2>3, <3>1
      <4>2. rbuf[ptr + (c + i)] = Len(out) + (c + i) + 1
        BY <1>b, <2>1, <4>1
      <4>3. /\ ptr' + i = ptr + (c + i)
            /\ Len(out') + i + 1 = Len(out) + (c + i) + 1
        BY <1>t, <2>1, <2>3, <2>7, <3>1
      <4> QED
        BY <4>2, <4>3
    <3>2. /\ pos = Len(out) + cnt /\ ptr + cnt <= BufSize /\ pos <= written
      BY <1>b, <2>1
    <3>3. pos' = Len(out') + cnt' /\ cnt' >= 0 /\ cnt' \in Int
      BY <1>t, <2>1, <2>3, <2>7, <3>2
    <3>4. ptr' + cnt' <= BufSize
      BY <1>t, <2>1, <2>3, <3>2
    <3>5. Len(out') \in Nat
      BY <2>7
    <3>6. cnt' <= 0 => pos' = Len(out')
      BY <3>3, <3>5
    <3>7. pos' <= written'
      BY <2>1, <3>2
    <3> QED
      BY <2>1, <3>1, <3>3, <3>4, <3>6, <3>7 DEF BufferInv
  <2> QED
    BY <2>7, <2>8, <2>9 DEF RioInv
<1>7. CASE RefillEnd
  <2>1. /\ busy /\ cnt <= 0 /\ closed /\ pos = written /\ cnt' = 0
        /\ Stop(ngot) /\ UNCHANGED <<writer, pos, ptr, rbuf, call, ngot, out>>
    BY <1>7 DEF RefillEnd, Reading, NeedsRefill, AtEnd
  <2> QED
    BY <2>1, StopStep
<1>8. CASE DirectEnd
  <2>1. cnt <= 0
    BY <1>8 DEF DirectEnd, RioInv, CallInv
  <2> QED
    BY <1>8, <2>1, StopStep DEF DirectEnd, AtEnd, rio
<1>9. ASSUME NEW k \in 1 .. BufSize, Refill(k) PROVE RioInv'
  <2>1. /\ busy /\ op # "readn" /\ cnt <= 0 /\ pos + k <= written
        /\ UNCHANGED <<written, wleft, closed, op, want, busy, ret, ngot, out>>
        /\ pos' = pos + k /\ cnt' = k /\ ptr' = 0
        /\ rbuf' = [i \in 0 .. BufSize - 1 |->
                      IF i < k THEN pos + i + 1 ELSE rbuf[i]]
    BY <1>9 DEF Refill, Reading, NeedsRefill, PtrAfterRefill, writer, call
  <2>2. rbuf' \in [0 .. BufSize - 1 -> Nat]
    BY <1>t, <2>1
  <2>3. TypeOK'
    BY <1>t, <2>1, <2>2 DEF TypeOK
  <2>4. pos = Len(out) /\ pos' = Len(out') + cnt' /\ pos' <= written'
    BY <1>t, <1>b, <2>1
  <2>5. ASSUME NEW i \in 0 .. k - 1
        PROVE  rbuf'[ptr' + i] = Len(out') + i + 1
    <3>1. /\ i \in 0 .. BufSize - 1 /\ i < k /\ ptr' + i = i
          /\ Len(out') = pos
      BY <1>t, <2>1, <2>4
    <3> QED
      BY <2>1, <3>1
  <2>6. BufferInv'
    <3>1. cnt' > 0 /\ ~(cnt' <= 0) /\ ptr' + cnt' <= BufSize
      BY <1>t, <2>1
    <3>2. \A i \in 0 .. cnt' - 1 : rbuf'[ptr' + i] = Len(out') + i + 1
      <4>1. cnt' = k
        BY <2>1, Zenon
      <4> QED
        BY <2>5, <4>1, Zenon
    <3> QED
      BY <2>4, <3>1, <3>2, Zenon DEF BufferInv
  <2>7. /\ UNCHANGED <<writer, call, busy, ret, ngot, out>>
        /\ busy /\ op # "readn"
    BY <2>1 DEF writer, call
  <2> QED
    BY <2>3, <2>6, <2>7, QuietStep, Zenon
<1>10. ASSUME NEW k \in 1 .. Left, ReadDirect(k) PROVE RioInv'
  <2>1. /\ busy /\ op = "readn" /\ ~LoopDone /\ k <= Left /\ pos + k <= written
        /\ UNCHANGED <<written, wleft, closed, cnt, ptr, rbuf, op, want, busy, ret>>
        /\ pos' = pos + k /\ ngot' = ngot + k
        /\ out' = out \o [i \in 1 .. k |-> pos + i]
    BY <1>10 DEF ReadDirect, writer, rio, call
  <2>2. cnt <= 0 /\ pos = Len(out)
    BY <1>t, <1>b, <2>1 DEF RioInv, CallInv
  <2>3. k \in Nat /\ k > 0
    BY ReaderFacts, <1>10
  <2>4. /\ out' \in Seq(Nat) /\ Len(out') = Len(out) + k
        /\ ngot' \in 0 .. want
        /\ InOrder' /\ CallInv' /\ ShortOnlyAtEnd' /\ LinesAreLines'
    BY <2>1, <2>2, <2>3, GiveStep DEF writer, call
  <2>5. TypeOK'
    BY <1>t, <2>1, <2>3, <2>4 DEF TypeOK
  <2>6. BufferInv'
    BY <1>t, <2>1, <2>2, <2>3, <2>4 DEF BufferInv
  <2> QED
    BY <2>4, <2>5, <2>6 DEF RioInv
<1>11. CASE RefillInterrupted
  <2>1. /\ busy /\ op # "readn" /\ cnt <= 0 /\ cnt' = -1
        /\ UNCHANGED <<writer, pos, ptr, rbuf, call, busy, ret, ngot, out>>
    BY <1>11 DEF RefillInterrupted, Interrupted, Reading, NeedsRefill
  <2>2. UNCHANGED <<written, wleft, closed, op, want>>
    BY <2>1 DEF writer, call
  <2>3. TypeOK' /\ BufferInv'
    BY <1>t, <1>b, <2>1, <2>2 DEF TypeOK, BufferInv
  <2> QED
    BY <2>1, <2>3, QuietStep
<1>12. CASE RefillError
  <2>1. /\ busy /\ cnt <= 0 /\ cnt' = -1 /\ Stop(-1)
        /\ UNCHANGED <<writer, pos, ptr, rbuf, call, ngot, out>>
    BY <1>12 DEF RefillError, Reading, NeedsRefill
  <2> QED
    BY <1>t, <2>1, StopStep
<1>13. CASE DirectError
  BY <1>13, <1>t, StopStep DEF DirectError, rio
<1>14. CASE UNCHANGED vars
  BY <1>14 DEF vars, writer, rio, call, RioInv, TypeOK, InOrder, BufferInv,
     CallInv, ShortOnlyAtEnd, LinesAreLines, Got
<1> QED
  BY <1>1, <1>2, <1>3, <1>4, <1>5, <1>6, <1>7, <1>8, <1>9, <1>10, <1>11,
     <1>12, <1>13, <1>14 DEF Next, ReadStep

-----------------------------------------------------------------------------
(* The invariant, for every instance: the buffer always holds what lies    *)
(* between the bytes handed out and the bytes read from the kernel.        *)
THEOREM InvCorrect == Spec => []RioInv
BY InvInit, InvNext, PTL DEF Spec

(* No call writes past the n or maxlen that it was given.                  *)
THEOREM TypeCorrect == Spec => []TypeOK
<1>1. RioInv => TypeOK
  BY DEF RioInv
<1> QED
  BY <1>1, InvCorrect, PTL

(* Every byte comes out once and in order, whatever the calls, the short   *)
(* counts and the signals.                                                 *)
THEOREM BytesInOrder == Spec => []InOrder
<1>1. RioInv => InOrder
  BY DEF RioInv
<1> QED
  BY <1>1, InvCorrect, PTL

(* A short return value means the end of the stream, and an empty buffer.  *)
THEOREM ShortReadsMeanEnd == Spec => []ShortOnlyAtEnd
<1>1. RioInv => ShortOnlyAtEnd
  BY DEF RioInv
<1> QED
  BY <1>1, InvCorrect, PTL

(* rio_readlineb() returns whole lines, cut only by maxlen or the end.     *)
THEOREM LinesAreWhole == Spec => []LinesAreLines
<1>1. RioInv => LinesAreLines
  BY DEF RioInv
<1> QED
  BY <1>1, InvCorrect, PTL

-----------------------------------------------------------------------------
(* Each step writes to, closes or reads the byte stream, or stutters.      *)
LEMMA StreamStep == RioInv /\ [Next]_vars => [Stream!Next]_<<written, closed, out>>
<1> SUFFICES ASSUME RioInv, [Next]_vars
             PROVE  [Stream!Next]_<<written, closed, out>>
  OBVIOUS
<1>t. /\ written \in Nat /\ pos \in Nat /\ pos <= written /\ BufSize \in Nat
      /\ Len(out) \in Nat /\ Left \in Int /\ wleft \in Nat /\ cnt \in Int
      /\ cnt <= 0 => pos = Len(out)
      /\ cnt > 0 =>
           /\ pos = Len(out) + cnt
           /\ \A i \in 0 .. cnt - 1 : rbuf[ptr + i] = Len(out) + i + 1
  BY ReaderFacts DEF RioInv, TypeOK, BufferInv
<1>1. ASSUME NEW n \in Request, CallWriten(n) PROVE UNCHANGED <<written, closed, out>>
  BY <1>1 DEF CallWriten
<1>2. ASSUME NEW k \in 1 .. wleft, WriteSome(k) PROVE Stream!Write
  BY <1>2, <1>t DEF WriteSome, Stream!Write
<1>3. ASSUME Close PROVE Stream!Close
  BY <1>3 DEF Close, Stream!Close
<1>4. ASSUME NEW f \in Op \ {"none"}, NEW n \in Request, Call(f, n)
      PROVE  UNCHANGED <<written, closed, out>>
  BY <1>4 DEF Call, writer
<1>5. CASE Copy
  <2> DEFINE c == CopyCount
  <2>1. /\ ~LoopDone /\ cnt > 0 /\ UNCHANGED <<written, closed>>
        /\ out' = out \o [i \in 1 .. c |-> rbuf[ptr + i - 1]]
    BY <1>5, <1>t DEF Copy, NeedsRefill, writer
  <2>2. Left > 0
    BY <1>t, <2>1 DEF LoopDone
  <2>3. c \in 1 .. cnt
    BY <1>t, <2>1, <2>2 DEF CopyCount
  <2> HIDE DEF c
  <2>4. ASSUME NEW i \in 1 .. c PROVE rbuf[ptr + i - 1] = Len(out) + i
    <3>1. /\ i - 1 \in 0 .. cnt - 1 /\ ptr \in Int
          /\ Len(out) + (i - 1) + 1 = Len(out) + i
      BY ReaderFacts, <1>t, <2>3
    <3>2. rbuf[ptr + (i - 1)] = Len(out) + (i - 1) + 1
      BY <1>t, <2>1, <3>1
    <3>3. ptr + (i - 1) = ptr + i - 1
      BY <3>1
    <3> QED
      BY <3>1, <3>2, <3>3
  <2>5. [i \in 1 .. c |-> rbuf[ptr + i - 1]] = [i \in 1 .. c |-> Len(out) + i]
    BY <2>4
  <2>6. c \in 1 .. written - Len(out)
    BY <1>t, <2>1, <2>3
  <2> QED
    BY <2>1, <2>5, <2>6 DEF Stream!Next, Stream!Deliver
<1>6. ASSUME NEW k \in 1 .. Left, ReadDirect(k) PROVE Stream!Deliver
  <2>1. /\ UNCHANGED <<written, closed>> /\ pos + k <= written
        /\ out' = out \o [i \in 1 .. k |-> pos + i] /\ pos = Len(out)
    BY <1>6, <1>t DEF ReadDirect, writer, RioInv, CallInv
  <2>2. k \in 1 .. written - Len(out)
    BY <1>t, <2>1
  <2> QED
    BY <2>1, <2>2 DEF Stream!Deliver
<1>7. ASSUME \/ Return \/ RefillEnd \/ DirectEnd
             \/ RefillInterrupted \/ RefillError \/ DirectError
             \/ \E k \in 1 .. BufSize : Refill(k)
      PROVE  UNCHANGED <<written, closed, out>>
  BY <1>7 DEF Return, RefillEnd, DirectEnd, RefillInterrupted, RefillError,
     DirectError, Refill, writer
<1>8. CASE UNCHANGED vars
  BY <1>8 DEF vars, writer
<1> QED
  BY <1>1, <1>2, <1>3, <1>4, <1>5, <1>6, <1>7, <1>8
     DEF Next, ReadStep, Stream!Next

(* The functions and their buffer implement the stream of bytes.           *)
THEOREM StreamImplemented == Spec => ImplementsStream
<1>1. Init => Stream!Init
  BY DEF Init, Stream!Init
<1> QED
  BY <1>1, InvCorrect, StreamStep, PTL
     DEF Spec, ImplementsStream, Stream!Safety, Stream!stream

-----------------------------------------------------------------------------
(* What a step of the reader leaves of a call.                             *)
LEMMA ReadAdvances == ASSUME RioInv, busy, ReadStep PROVE ReadRank' < ReadRank
<1> USE SizeAssumption
<1>1. /\ cnt \in -1 .. BufSize /\ BufSize \in Nat /\ Left \in Int
      /\ want \in Nat /\ ngot \in Nat
      /\ Left = IF op = "readlineb" THEN want - 1 - ngot ELSE want - ngot
  BY ReaderFacts DEF RioInv, TypeOK
<1>2. /\ ReadRank \in Nat /\ ReadRank > 0
      /\ ReadRank = (IF Left > 0 THEN 2 * Left ELSE 0) + (IF cnt <= 0 THEN 2 ELSE 1)
  BY <1>1 DEF ReadRank
<1>3. ASSUME ~busy' PROVE ReadRank' < ReadRank
  BY <1>2, <1>3 DEF ReadRank
<1>4. ASSUME NEW k \in Int, 0 < k, k <= Left, cnt' \in Int, busy' = busy,
             ngot' = ngot + k, op' = op, want' = want
      PROVE  ReadRank' < ReadRank
  <2>1. Left' = Left - k
    BY <1>1, <1>4 DEF Left
  <2>2. ReadRank' = (IF Left' > 0 THEN 2 * Left' ELSE 0) + (IF cnt' <= 0 THEN 2 ELSE 1)
    BY <1>4 DEF ReadRank
  <2> QED
    BY <1>1, <1>2, <1>4, <2>1, <2>2
<1>5. CASE Return \/ RefillEnd \/ DirectEnd
  BY <1>3, <1>5 DEF Return, RefillEnd, DirectEnd, AtEnd, Stop
<1>6. CASE Copy
  <2>1. 0 < CopyCount /\ CopyCount <= Left /\ CopyCount \in Int
    BY <1>1, <1>6 DEF Copy, CopyCount, LoopDone, NeedsRefill
  <2> QED
    BY <1>1, <1>4, <1>6, <2>1 DEF Copy, call
<1>7. ASSUME NEW k \in 1 .. BufSize, Refill(k) PROVE ReadRank' < ReadRank
  <2>1. /\ cnt <= 0 /\ cnt' = k /\ k > 0 /\ busy' = busy
        /\ ngot' = ngot /\ op' = op /\ want' = want
    BY <1>1, <1>7 DEF Refill, Reading, NeedsRefill, call
  <2>2. Left' = Left
    BY <2>1 DEF Left
  <2>3. ReadRank' = (IF Left > 0 THEN 2 * Left ELSE 0) + 1
    BY <1>1, <2>1, <2>2 DEF ReadRank
  <2> QED
    BY <1>1, <1>2, <2>1, <2>3
<1>8. ASSUME NEW k \in 1 .. Left, ReadDirect(k) PROVE ReadRank' < ReadRank
  BY <1>1, <1>4, <1>8 DEF ReadDirect, rio, call
<1> QED
  BY <1>5, <1>6, <1>7, <1>8 DEF ReadStep

(* Nothing else gives a call more to do.                                   *)
LEMMA CallAdvance ==
  ASSUME RioInv, [Next]_vars, busy
  PROVE  ReadRank' <= ReadRank /\ (ReadStep => ReadRank' < ReadRank)
<1>1. /\ cnt \in -1 .. BufSize /\ Left \in Int /\ ReadRank \in Nat /\ BufSize \in Nat
  BY ReaderFacts, SizeAssumption DEF RioInv, TypeOK, ReadRank
<1>2. CASE ReadStep
  <2>1. RioInv' /\ ReadRank' < ReadRank
    BY <1>2, ReadAdvances, InvNext
  <2>2. cnt' \in Int /\ Left' \in Int
    <3>1. TypeOK'
      BY <2>1 DEF RioInv
    <3>2. cnt' \in Int /\ want' \in Int /\ ngot' \in Int
      BY <3>1, SizeAssumption DEF TypeOK
    <3> QED
      BY <3>2 DEF Left
  <2>3. ReadRank' \in Int
    BY <2>2 DEF ReadRank
  <2> QED
    BY <1>1, <2>1, <2>3
<1>3. CASE ~ReadStep
  <2>1. CASE RefillError \/ DirectError
    BY <1>1, <2>1 DEF RefillError, DirectError, Stop, ReadRank
  <2>2. CASE RefillInterrupted
    <3>1. cnt <= 0 /\ cnt' = -1 /\ busy' = busy /\ Left' = Left
      BY <1>1, <2>2
      DEF RefillInterrupted, Reading, NeedsRefill, Interrupted, call, Left
    <3> QED
      BY <1>1, <1>3, <3>1 DEF ReadRank
  <2>3. CASE UNCHANGED vars \/ Close \/ (\E n \in Request : CallWriten(n))
               \/ (\E k \in 1 .. wleft : WriteSome(k))
    <3>1. UNCHANGED <<busy, op, want, ngot, cnt>>
      BY <2>3 DEF vars, rio, call, Close, CallWriten, WriteSome
    <3> QED
      BY <1>1, <1>3, <3>1 DEF ReadRank, Left
  <2>4. ASSUME NEW f \in Op \ {"none"}, NEW n \in Request, Call(f, n) PROVE FALSE
    BY <2>4 DEF Call
  <2> QED
    BY <1>3, <2>1, <2>2, <2>3, <2>4 DEF Next
<1> QED
  BY <1>2, <1>3

(* However read() cuts the stream, a call for n bytes ends after 2 * n + 2 *)
(* steps that are not interrupted.                                         *)
THEOREM CallsAreBounded == Spec => RioAdvances
<1>1. RioInv /\ [Next]_vars =>
        [busy => /\ ReadRank' <= ReadRank
                 /\ ReadStep => ReadRank' < ReadRank]_vars
  BY CallAdvance
<1> QED
  BY <1>1, InvCorrect, PTL DEF Spec, RioAdvances
=============================================================================
