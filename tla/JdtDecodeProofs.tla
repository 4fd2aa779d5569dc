-------------------------- MODULE JdtDecodeProofs --------------------------
(***************************************************************************)
(* Proofs about JdtDecode, for every size of head and node, every set of   *)
(* messages, whatever length their heads say, every content of foreign     *)
(* memory and every way to cut the stream into segments.                   *)
(***************************************************************************)
EXTENDS JdtDecode, SequenceTheorems, TLAPS

(* What erase() leaves: the bytes after the message, in order.             *)
LEMMA ErasedType ==
  ASSUME buf \in Seq(Nat), head.len \in Nat, head.len <= Len(buf)
  PROVE  /\ Erased \in Seq(Nat)
         /\ Len(Erased) = Len(buf) - head.len
         /\ \A k \in 1 .. Len(Erased) : Erased[k] = buf[head.len + k]
<1> DEFINE m == head.len + 1
           n == Len(buf)
<1>1. m \in Int /\ n \in Int /\ \A i \in m .. n : buf[i] \in Nat
  OBVIOUS
<1>2. Erased = SubSeq(buf, m, n)
  BY DEF Erased
<1> HIDE DEF m, n
<1>3. /\ Erased \in Seq(Nat)
      /\ Len(Erased) = IF m <= n THEN n - m + 1 ELSE 0
      /\ \A i \in 1 .. n - m + 1 : Erased[i] = buf[m + i - 1]
  BY <1>1, <1>2, SubSeqProperties
<1>4. Len(Erased) = Len(buf) - head.len
  BY <1>3 DEF m, n
<1>5. ASSUME NEW k \in 1 .. Len(Erased) PROVE Erased[k] = buf[head.len + k]
  <2>1. k \in 1 .. n - m + 1 /\ m + k - 1 = head.len + k
    BY <1>4, <1>5 DEF m, n
  <2> QED
    BY <1>3, <2>1
<1> QED
  BY <1>3, <1>4, <1>5

(* The place of the first byte stays inside a node.                        *)
LEMMA StartType ==
  ASSUME start \in 0 .. NodeSize - 1, head.len \in Nat
  PROVE  StartAfterErase \in 0 .. NodeSize - 1
<1>1. (start + head.len) % NodeSize \in 0 .. NodeSize - 1
  BY SizeAssumption
<1> QED
  BY <1>1 DEF StartAfterErase

(* parse() appends the bytes it is given.                                  *)
LEMMA AppendedType ==
  ASSUME buf \in Seq(Nat), taken \in Nat, NEW n \in Nat, Parse(n)
  PROVE  /\ buf' \in Seq(Nat)
         /\ Len(buf') = Len(buf) + n
         /\ \A k \in 1 .. Len(buf) : buf'[k] = buf[k]
         /\ \A k \in 1 .. n : buf'[Len(buf) + k] = taken + k
<1> DEFINE segment == [k \in 1 .. n |-> taken + k]
<1>1. segment \in Seq(Nat) /\ Len(segment) = n
  OBVIOUS
<1>2. buf' = buf \o segment
  BY DEF Parse
<1> HIDE DEF segment
<1>3. /\ buf' \in Seq(Nat) /\ Len(buf') = Len(buf) + n
      /\ \A k \in 1 .. Len(buf) + n :
           buf'[k] = IF k <= Len(buf) THEN buf[k] ELSE segment[k - Len(buf)]
  BY <1>1, <1>2, ConcatProperties
<1>4. \A k \in 1 .. Len(buf) : k \in 1 .. Len(buf) + n /\ k <= Len(buf)
  OBVIOUS
<1>5. ASSUME NEW k \in 1 .. n PROVE buf'[Len(buf) + k] = taken + k
  <2>1. /\ Len(buf) + k \in 1 .. Len(buf) + n /\ ~(Len(buf) + k <= Len(buf))
        /\ Len(buf) + k - Len(buf) = k
    BY <1>5
  <2>2. buf'[Len(buf) + k] = segment[k]
    BY <1>3, <2>1
  <2> QED
    BY <2>2 DEF segment
<1> QED
  BY <1>3, <1>4, <1>5

(* A head that was sent and then read, its detail type perhaps misread, is *)
(* a head.                                                                 *)
LEMMA HeadOfType ==
  ASSUME NEW m \in Message, NEW d \in DetailSeen(m)
  PROVE  HeadOf(m, d) \in HeadType
BY MessageAssumption DEF HeadOf, DetailSeen, HeadType, Detail, Service

(* Every variable keeps its type.                                          *)
LEMMA TypeNext == ASSUME TypeOK, [Next]_vars PROVE TypeOK'
<1> USE DEF TypeOK, stream, decoder, ghosts
<1>1. ASSUME NEW m \in Message, Send(m) PROVE TypeOK'
  <2>1. m.size \in Nat
    BY MessageAssumption
  <2> QED
    BY <1>1, <2>1 DEF Send
<1>2. ASSUME NEW n \in 1 .. (total - taken), Parse(n) PROVE TypeOK'
  BY <1>2, AppendedType DEF Parse
<1>3. CASE Return
  BY <1>3 DEF Return
<1>4. ASSUME Throw, head' = head, garbled' \in BOOLEAN PROVE TypeOK'
  BY <1>4 DEF Throw
<1>5. ASSUME NEW h \in HeadType, ReadHead(h), garbled' \in BOOLEAN
      PROVE  TypeOK'
  BY <1>4, <1>5 DEF ReadHead
<1>6. CASE ParseHead
  <2>1. CASE garbled' = TRUE /\ \E h \in GarbageHead : ReadHead(h)
    BY <2>1, <1>5, GarbageAssumption
  <2>2. ASSUME NEW i \in DOMAIN sent, NEW d \in DetailSeen(sent[i]),
               ReadHead(HeadOf(sent[i], d)),
               garbled' = (garbled \/ Misleads(sent[i]))
        PROVE  TypeOK'
    <3>1. garbled' \in BOOLEAN
      BY <2>2 DEF Misleads
    <3>2. HeadOf(sent[i], d) \in HeadType
      BY HeadOfType
    <3> QED
      BY <2>2, <1>5, <3>1, <3>2
  <2> QED
    BY <1>6, <2>1, <2>2 DEF ParseHead
<1>7. ASSUME NEW b \in {"json", "string", "none"}, Finish(b), InBody,
             garbled' \in BOOLEAN
      PROVE  TypeOK'
  <2>1. head.len \in Nat /\ head.len <= Len(buf)
    BY <1>7 DEF InBody, BodyMissing, HeadType
  <2>2. NoHead \in HeadType
    BY DEF NoHead, HeadType, Service, Detail
  <2>3. buf' \in Seq(Nat) /\ start' \in 0 .. NodeSize - 1
    BY <1>7, <2>1, ErasedType, StartType DEF Finish
  <2> QED
    <3>1. bodies' \in Seq({"json", "string", "none"}) /\ done' \in Nat
      BY <1>7 DEF Finish
    <3> QED
      BY <1>7, <2>2, <2>3, <3>1 DEF Finish, DirtyAfterBody, AfterBody
<1>8. CASE ParseJson
  BY <1>4, <1>7, <1>8 DEF ParseJson
<1>9. CASE ParseImage
  BY <1>4, <1>9 DEF ParseImage
<1>10. CASE ParseOther
  BY <1>7, <1>10 DEF ParseOther
<1>11. CASE ParseString
  BY <1>7, <1>11 DEF ParseString
<1>12. CASE UNCHANGED vars
  BY <1>12 DEF vars
<1> QED
  BY <1>1, <1>2, <1>3, <1>6, <1>8, <1>9, <1>10, <1>11, <1>12
     DEF Next, DecodeStep

(* Every variable keeps its type in every reachable state.                 *)
THEOREM TypeCorrect == Spec => []TypeOK
<1>1. ASSUME Init PROVE TypeOK
  <2>1. 0 \in 0 .. NodeSize - 1 /\ head \in HeadType
    BY <1>1, SizeAssumption, GarbageAssumption DEF Init
  <2>2. /\ sent \in Seq(Message) /\ base \in Seq(Nat) /\ buf \in Seq(Nat)
        /\ parsed \in Seq(Nat) /\ bodies \in Seq({"json", "string", "none"})
    BY <1>1 DEF Init
  <2> QED
    BY <1>1, <2>1, <2>2 DEF Init, TypeOK
<1> QED
  BY <1>1, TypeNext, PTL DEF Spec
-----------------------------------------------------------------------------
(* Types of what the stream is made of.                                    *)
LEMMA StreamFacts ==
  ASSUME TypeOK, StreamInv
  PROVE  /\ Len(sent) \in Nat /\ DOMAIN sent = 1 .. Len(sent)
         /\ HeadSize \in Nat /\ HeadSize > 0
         /\ taken \in Nat /\ total \in Nat /\ Len(buf) \in Nat
         /\ \A i \in 1 .. Len(sent) :
              /\ sent[i] \in Message /\ base[i] \in Nat
              /\ sent[i].size \in Nat /\ sent[i].size >= HeadSize
         /\ \A i \in 1 .. Len(sent) + 1 : Begin(i) \in Nat
<1>1. /\ Len(sent) \in Nat /\ DOMAIN sent = 1 .. Len(sent)
      /\ taken \in Nat /\ total \in Nat /\ Len(buf) \in Nat
      /\ \A i \in 1 .. Len(sent) : sent[i] \in Message /\ base[i] \in Nat
  BY DEF TypeOK, StreamInv
<1>2. \A m \in Message : m.size \in Nat /\ m.size >= HeadSize
  BY MessageAssumption, WholeHeadAssumption
<1>3. \A i \in 1 .. Len(sent) + 1 : Begin(i) \in Nat
  BY <1>1 DEF Begin
<1> QED
  BY <1>1, <1>2, <1>3, SizeAssumption

(* Whatever the decoder sees at the front of its buffer while nothing has  *)
(* gone wrong is the first message it has not taken off.                   *)
LEMMA SeesCurrent ==
  ASSUME TypeOK, StreamInv, Aligned, DetailInv, ~garbled,
         NEW i \in DOMAIN sent, NEW n \in Nat \ {0}, Sees(i, n)
  PROVE  i = done + 1
<1>1. buf[1] = base[i] + 1
  BY DEF Sees
<1>2. buf[1] = Begin(done + 1) + 1
  BY DEF Sees, Aligned, TypeOK
<1>3. /\ base[i] \in Nat /\ Begin(done + 1) \in Nat
      /\ done \in 0 .. Len(sent) /\ Len(sent) \in Nat
      /\ i \in 1 .. Len(sent) /\ total \in Nat
  BY StreamFacts DEF TypeOK, DetailInv
<1>4. base[i] = Begin(done + 1)
  BY <1>1, <1>2, <1>3
<1>5. i \in 1 .. Len(sent) /\ done + 1 \in 1 .. Len(sent) + 1
  BY <1>3
<1>6. CASE done + 1 = Len(sent) + 1
  <2>1. Begin(done + 1) = total
    BY <1>3, <1>6 DEF Begin
  <2> QED
    BY <1>3, <1>4, <2>1 DEF StreamInv
<1>7. CASE done + 1 \in 1 .. Len(sent)
  <2>1. base[i] = base[done + 1] /\ base[i] \in Nat
    BY <1>3, <1>4, <1>7 DEF Begin
  <2>2. i < done + 1 => base[i] < base[done + 1]
    BY <1>3, <1>7 DEF StreamInv
  <2>3. done + 1 < i => base[done + 1] < base[i]
    BY <1>3, <1>7 DEF StreamInv
  <2> QED
    BY <1>3, <2>1, <2>2, <2>3
<1> QED
  BY <1>5, <1>6, <1>7

(* Once bytes outside the buffer were read, or a wrong length believed,    *)
(* the invariant says only that the history stands still.                  *)
LEMMA GarbledStep ==
  ASSUME DecodeInv, TypeOK', garbled',
         UNCHANGED <<stream, taken, done, bodies>>, dirty' => dirty
  PROVE  DecodeInv'
BY DEF DecodeInv, StreamInv, Begin, Aligned, DetailInv, StuckInv,
       NothingLeftBehind, OnlyFirstIsDropped, stream

(* A new message at the end of the stream.                                 *)
LEMMA SendStep ==
  ASSUME DecodeInv, TypeOK', NEW m \in Message, Send(m)
  PROVE  DecodeInv'
<1> USE DEF DecodeInv
<1>0. PICK L \in Nat : L = Len(sent)
  BY StreamFacts
<1>1. m.size \in Nat /\ m.size >= HeadSize /\ HeadSize \in Nat /\ m.size > 0
  BY MessageAssumption, WholeHeadAssumption, SizeAssumption
<1>2. /\ Len(sent') = L + 1 /\ Len(base') = L + 1 /\ L \in Nat
      /\ sent'[L + 1] = m /\ base'[L + 1] = total
      /\ \A i \in 1 .. L : sent'[i] = sent[i] /\ base'[i] = base[i]
  BY <1>0 DEF Send, TypeOK, StreamInv
<1>3. /\ total' = total + m.size /\ total \in Nat /\ taken \in Nat
      /\ \A i \in 1 .. L : base[i] \in Nat
      /\ UNCHANGED <<taken, decoder, ghosts>>
  BY <1>0, StreamFacts DEF Send
<1>4. /\ \A i \in 1 .. L + 1 : Begin(i)' = Begin(i)
      /\ Begin(L + 2)' = total'
  BY <1>0, <1>2, <1>3 DEF Begin
<1>5. \A i \in 1 .. L, n \in Nat : Sees(i, n) => Sees(i, n)'
  <2>1. DOMAIN sent = 1 .. L /\ DOMAIN sent' = 1 .. L + 1
    BY <1>0, <1>2 DEF TypeOK
  <2> QED
    BY <1>2, <1>3, <2>1 DEF Sees, decoder
<1>6. StreamInv'
  <2>1. \A i \in 1 .. L + 1 : Begin(i + 1)' = base'[i] + sent'[i].size
    <3>1. ASSUME NEW i \in 1 .. L
          PROVE  Begin(i + 1)' = base'[i] + sent'[i].size
      BY <1>0, <1>2, <1>4 DEF StreamInv
    <3>2. Begin(L + 2)' = base'[L + 1] + sent'[L + 1].size
      BY <1>1, <1>2, <1>3, <1>4
    <3>3. ASSUME NEW i \in 1 .. L + 1
          PROVE  Begin(i + 1)' = base'[i] + sent'[i].size
      <4>1. CASE i \in 1 .. L
        BY <3>1, <4>1
      <4>2. CASE i = L + 1
        <5>1. i + 1 = L + 2
          BY <1>2, <4>2
        <5> QED
          BY <3>2, <4>2, <5>1
      <4> QED
        BY <1>2, <4>1, <4>2
    <3> QED
      BY <3>3
  <2>2. \A i \in 1 .. L + 1 : base'[i] < total'
    <3>1. \A i \in 1 .. L : base[i] < total
      BY <1>0 DEF StreamInv
    <3>2. ASSUME NEW i \in 1 .. L + 1 PROVE base'[i] < total'
      <4>1. CASE i \in 1 .. L
        BY <1>1, <1>2, <1>3, <3>1, <4>1
      <4>2. CASE i = L + 1
        BY <1>1, <1>2, <1>3, <4>2
      <4> QED
        BY <1>2, <4>1, <4>2
    <3> QED
      BY <3>2
  <2>3. ASSUME NEW i \in 1 .. L + 1, NEW j \in 1 .. L + 1, i < j
        PROVE  base'[i] < base'[j]
    <3>1. i \in 1 .. L /\ (j \in 1 .. L \/ j = L + 1)
      BY <2>3
    <3>2. base[i] < total /\ (j \in 1 .. L => base[i] < base[j])
      BY <1>0, <2>3, <3>1 DEF StreamInv
    <3> QED
      BY <1>2, <3>1, <3>2
  <2> QED
    BY <1>0, <1>1, <1>2, <1>3, <2>1, <2>2, <2>3 DEF StreamInv
<1>7. done \in 0 .. L /\ done + 1 \in 1 .. L + 1
  <2>1. done \in Nat /\ done <= L
    BY <1>0 DEF DetailInv, TypeOK
  <2> QED
    BY <1>2, <2>1
<1>8. Aligned'
  BY <1>0, <1>2, <1>3, <1>4, <1>7 DEF Aligned, decoder, ghosts
<1>9. DetailInv'
  BY <1>0, <1>2, <1>3, <1>7 DEF DetailInv, Aligned, decoder, ghosts
<1>10. StuckInv'
  <2>1. HeadSize \in Nat /\ head.len \in Nat
    BY <1>1 DEF TypeOK, HeadType
  <2>2. ASSUME stuck, ~garbled PROVE done + 1 \in 1 .. L
    BY <1>0, <1>7, <2>2 DEF StuckInv
  <2>3. SUFFICES ASSUME stuck, ~garbled PROVE StuckInv'
    BY <1>3 DEF StuckInv, ghosts
  <2>4. /\ done' < Len(sent') /\ sent'[done + 1] = sent[done + 1]
        /\ UNCHANGED <<done, status, head>>
    BY <1>2, <1>3, <1>7, <2>2, <2>3 DEF decoder, ghosts
  <2>5. /\ base'[done + 1] = base[done + 1]
        /\ done + 1 \in DOMAIN sent /\ done + 1 \in DOMAIN sent'
    BY <1>0, <1>2, <2>2, <2>3 DEF TypeOK
  <2> QED
    BY <1>3, <2>3, <2>4, <2>5 DEF StuckInv, Sees, decoder
<1>11. NothingLeftBehind'
  <2>1. CASE done < L
    BY <1>0, <1>2, <1>3, <1>7, <2>1 DEF NothingLeftBehind, decoder, ghosts
  <2>2. CASE done = L /\ ~garbled
    <3>1. Len(buf) = 0
      <4>1. Begin(done + 1) = total
        BY <1>0, <1>2, <2>2 DEF Begin
      <4>2. taken = total + Len(buf) /\ taken <= total /\ Len(buf) \in Nat
        BY <1>0, <2>2, <4>1, StreamFacts DEF Aligned, StreamInv
      <4> QED
        BY <1>3, <4>2
    <3> QED
      BY <1>0, <1>1, <1>2, <1>3, <2>2, <3>1 DEF NothingLeftBehind, decoder, ghosts
  <2>3. CASE garbled
    BY <1>3, <2>3 DEF NothingLeftBehind, ghosts
  <2> QED
    BY <1>7, <2>1, <2>2, <2>3
<1>12. OnlyFirstIsDropped'
  <2>1. DOMAIN bodies = 1 .. done
    BY <1>0 DEF DetailInv, TypeOK
  <2> QED
    BY <1>0, <1>2, <1>3, <1>7, <2>1 DEF OnlyFirstIsDropped, ghosts
<1> QED
  BY <1>6, <1>8, <1>9, <1>10, <1>11, <1>12

(* New bytes at the end of the buffer.                                     *)
LEMMA ParseStep ==
  ASSUME DecodeInv, TypeOK', NEW n \in 1 .. (total - taken), Parse(n)
  PROVE  DecodeInv'
<1> USE DEF DecodeInv
<1>1. /\ n \in Nat /\ Len(buf) \in Nat /\ taken \in Nat /\ total \in Nat
      /\ taken' = taken + n /\ taken' <= total
  BY DEF Parse, TypeOK
<1>2. /\ Len(buf') = Len(buf) + n
      /\ \A k \in 1 .. Len(buf) : buf'[k] = buf[k]
      /\ \A k \in 1 .. n : buf'[Len(buf) + k] = taken + k
  BY <1>1, AppendedType DEF TypeOK
<1>3. UNCHANGED <<stream, start, head, dirty, status, ghosts>> /\ dpc' = "loop"
  BY DEF Parse
<1>4. \A i : Begin(i)' = Begin(i)
  BY <1>3 DEF Begin, stream
<1>5. ASSUME NEW i, NEW k \in Nat, Sees(i, k) PROVE Sees(i, k)'
  <2>1. \A l \in 1 .. k : l \in 1 .. Len(buf)
    BY <1>1, <1>5 DEF Sees
  <2> QED
    BY <1>1, <1>2, <1>3, <1>5, <2>1 DEF Sees, stream
<1>6. StreamInv'
  BY <1>1, <1>3, <1>4 DEF StreamInv, stream
<1>7. Aligned'
  <2>1. SUFFICES ASSUME ~garbled PROVE Aligned'
    BY <1>3 DEF Aligned, ghosts
  <2>2. Begin(done + 1) \in Nat /\ taken = Begin(done + 1) + Len(buf)
    <3>1. done + 1 \in 1 .. Len(sent) + 1
      <4>1. done \in Nat /\ done <= Len(sent) /\ Len(sent) \in Nat
        BY StreamFacts DEF DetailInv, TypeOK
      <4> QED
        BY <4>1
    <3> QED
      BY <2>1, <3>1, StreamFacts DEF Aligned
  <2>3. ASSUME NEW k \in 1 .. Len(buf') PROVE buf'[k] = Begin(done + 1) + k
    <3>1. CASE k <= Len(buf)
      BY <1>1, <1>2, <2>1, <3>1 DEF Aligned
    <3>2. CASE k > Len(buf)
      <4>1. k - Len(buf) \in 1 .. n /\ k = Len(buf) + (k - Len(buf))
        BY <1>1, <1>2, <3>2
      <4>2. buf'[k] = taken + (k - Len(buf))
        BY <1>2, <4>1
      <4> QED
        BY <1>1, <2>2, <4>1, <4>2
    <3> QED
      BY <1>1, <1>2, <3>1, <3>2
  <2>4. taken' = Begin(done + 1) + Len(buf')
    BY <1>1, <1>2, <2>2
  <2>5. HeadSize <= Len(buf) => HeadSize <= Len(buf')
    BY <1>1, <1>2, SizeAssumption
  <2> QED
    BY <1>3, <1>4, <2>1, <2>3, <2>4, <2>5 DEF Aligned, stream, ghosts
<1>8. DetailInv' /\ NothingLeftBehind' /\ OnlyFirstIsDropped'
  BY <1>3 DEF DetailInv, NothingLeftBehind, OnlyFirstIsDropped, stream, ghosts
<1>9. StuckInv'
  <2>1. HeadSize \in Nat /\ head.len \in Nat
    BY SizeAssumption DEF TypeOK, HeadType
  <2> QED
    BY <1>3, <1>5, <2>1 DEF StuckInv, stream, ghosts
<1> QED
  BY <1>6, <1>7, <1>8, <1>9

(* parse() returns.                                                        *)
LEMMA ReturnStep ==
  ASSUME DecodeInv, TypeOK', Return
  PROVE  DecodeInv'
<1> USE DEF DecodeInv
<1>1. /\ UNCHANGED <<stream, taken, buf, start, head, dirty, status, ghosts>>
      /\ dpc' = "idle"
  BY DEF Return
<1>2. StreamInv' /\ Aligned' /\ DetailInv' /\ StuckInv' /\ OnlyFirstIsDropped'
  BY <1>1 DEF StreamInv, Begin, Aligned, DetailInv, StuckInv, Sees,
              OnlyFirstIsDropped, stream, ghosts
<1>3. NothingLeftBehind'
  <2>1. SUFFICES ASSUME ~garbled, done < Len(sent)
                 PROVE  Len(buf) < sent[done + 1].size
    BY <1>1 DEF NothingLeftBehind, stream, ghosts
  <2>2. /\ sent[done + 1].size \in Nat /\ sent[done + 1].size >= HeadSize
        /\ HeadSize \in Nat \ {0}
    <3>1. sent \in Seq(Message) /\ done \in Nat /\ Len(sent) \in Nat
      BY DEF TypeOK
    <3>2. sent[done + 1] \in Message
      BY <2>1, <3>1
    <3> HIDE DEF DecodeInv
    <3> QED
      BY <3>2, MessageAssumption, WholeHeadAssumption, SizeAssumption
  <2>3. CASE buf = <<>>
    BY <2>2, <2>3
  <2>4. CASE status = "head" /\ HeadMissing
    BY <2>2, <2>4, StreamFacts DEF HeadMissing
  <2>5. CASE status = "body" /\ BodyMissing
    BY <2>1, <2>5 DEF BodyMissing, Aligned
  <2> QED
    BY <2>3, <2>4, <2>5 DEF Return
<1> QED
  BY <1>2, <1>3

(* An exception while nothing has been read from elsewhere: the buffer and *)
(* the head stay, and the decoder will refuse the message again.           *)
LEMMA ThrowStep ==
  ASSUME DecodeInv, TypeOK', Throw, UNCHANGED <<head, garbled>>, ~garbled,
         done < Len(sent),
         status = "head" => sent[done + 1].service = "unknown"
                            /\ Sees(done + 1, HeadSize),
         status = "body" => head.service = "data"
                            /\ \/ head.detail = "image"
                               \/ /\ head.detail = "json"
                                  /\ ~sent[done + 1].text
                                  /\ Sees(done + 1, head.len)
  PROVE  DecodeInv'
<1> USE DEF DecodeInv
<1>1. /\ UNCHANGED <<stream, taken, buf, start, head, dirty, status, done,
                     bodies, garbled>>
      /\ stuck'
  BY DEF Throw
<1>2. StreamInv' /\ Aligned' /\ DetailInv' /\ OnlyFirstIsDropped'
  BY <1>1 DEF StreamInv, Begin, Aligned, DetailInv, OnlyFirstIsDropped, stream
<1>3. StuckInv'
  BY <1>1 DEF StuckInv, Sees, stream
<1>4. NothingLeftBehind'
  BY <1>1 DEF NothingLeftBehind
<1> QED
  BY <1>2, <1>3, <1>4

(* A head is read: it is the head of the first message in the buffer.      *)
LEMMA ParseHeadStep ==
  ASSUME DecodeInv, TypeOK', ParseHead
  PROVE  DecodeInv'
<1> USE DEF DecodeInv
<1>1. CASE garbled'
  <2>1. UNCHANGED <<stream, taken, done, bodies, dirty>>
    BY DEF ParseHead, ReadHead, Throw
  <2> QED
    BY <1>1, <2>1, GarbledStep
<1>2. CASE ~garbled'
  <2>a. PICK i \in DOMAIN sent :
          \E d \in DetailSeen(sent[i]) :
            /\ Sees(i, HeadSize) /\ ReadHead(HeadOf(sent[i], d))
            /\ garbled' = (garbled \/ Misleads(sent[i]))
    BY <1>2 DEF ParseHead
  <2>1. PICK d \in DetailSeen(sent[i]) :
          /\ Sees(i, HeadSize) /\ ReadHead(HeadOf(sent[i], d))
          /\ UNCHANGED garbled /\ ~Misleads(sent[i])
    BY <1>2, <2>a DEF TypeOK
  <2>2. i = done + 1 /\ ~garbled
    BY <1>2, <2>1, SeesCurrent, SizeAssumption DEF TypeOK
  <2>3. /\ done < Len(sent) /\ HeadSize <= Len(buf) /\ status = "head"
        /\ dpc = "loop"
    <3>1. done \in Nat /\ Len(sent) \in Nat /\ i \in 1 .. Len(sent)
      BY <2>1, StreamFacts DEF TypeOK
    <3> QED
      BY <2>1, <2>2, <3>1 DEF Sees, ParseHead
  <2>4. CASE sent[i].service # "unknown"
    <3>1. /\ head' = HeadOf(sent[i], d) /\ status' = "body"
          /\ UNCHANGED <<stream, taken, buf, start, dirty, dpc, done, bodies,
                         stuck>>
      BY <2>1, <2>4 DEF ReadHead, HeadOf
    <3>2. StreamInv' /\ OnlyFirstIsDropped'
      BY <3>1 DEF StreamInv, Begin, OnlyFirstIsDropped, stream
    <3>3. Aligned'
      BY <2>1, <2>2, <2>3, <2>4, <3>1 DEF Aligned, Begin, HeadOf, Misleads, stream
    <3>4. DetailInv'
      BY <2>1, <2>2, <3>1 DEF DetailInv, DetailSeen, HeadOf, stream
    <3>5. StuckInv'
      BY <2>2, <2>3, <2>4, <3>1 DEF StuckInv
    <3>6. NothingLeftBehind'
      BY <2>3, <3>1 DEF NothingLeftBehind
    <3> QED
      BY <3>2, <3>3, <3>4, <3>5, <3>6
  <2>5. CASE sent[i].service = "unknown"
    <3>1. Throw /\ UNCHANGED head
      BY <2>1, <2>5 DEF ReadHead, HeadOf
    <3> QED
      BY <2>1, <2>2, <2>3, <2>5, <3>1, ThrowStep
  <2> QED
    BY <2>4, <2>5
<1> QED
  BY <1>1, <1>2

(* The head of the message in hand is that of the first one in the buffer. *)
LEMMA BodyFacts ==
  ASSUME TypeOK, StreamInv, Aligned, DetailInv, ~garbled, InBody
  PROVE  /\ done \in Nat /\ done + 1 \in 1 .. Len(sent)
         /\ done < Len(sent)
         /\ sent[done + 1] \in Message
         /\ head.service = sent[done + 1].service
         /\ head.len = sent[done + 1].size
         /\ head.len \in Nat /\ head.len >= HeadSize /\ head.len > 0
         /\ head.len <= Len(buf)
<1>1. done \in Nat /\ done < Len(sent) /\ Len(sent) \in Nat
  BY StreamFacts DEF InBody, Aligned, TypeOK
<1>2. done + 1 \in 1 .. Len(sent)
  BY <1>1
<1>3. head.service = sent[done + 1].service /\ head.len = sent[done + 1].size
  BY DEF InBody, Aligned
<1>4. /\ sent[done + 1] \in Message /\ head.len \in Nat
      /\ head.len >= HeadSize /\ HeadSize \in Nat /\ HeadSize > 0
      /\ Len(buf) \in Nat
  BY <1>2, <1>3, StreamFacts
<1>5. head.len <= Len(buf)
  BY <1>4 DEF InBody, BodyMissing
<1> QED
  BY <1>1, <1>2, <1>3, <1>4, <1>5

(* A message is taken off: the next one is at the front.                   *)
LEMMA FinishStep ==
  ASSUME DecodeInv, TypeOK', InBody, NEW b \in {"json", "string", "none"}, Finish(b), UNCHANGED garbled,
         ~garbled, ~stuck,
         b = "none" => head.service = "data" /\ head.detail = "other"
  PROVE  DecodeInv'
<1> USE DEF DecodeInv
<1>0. PICK c \in Nat, l \in Nat : c = done + 1 /\ l = head.len
  BY BodyFacts
<1>1. /\ c \in 1 .. Len(sent) /\ done = c - 1 /\ done \in Nat
      /\ l > 0 /\ l <= Len(buf) /\ sent[c].size = l
      /\ head.service = sent[c].service /\ Len(sent) \in Nat
  <2>1. /\ done \in Nat /\ c \in 1 .. Len(sent)
        /\ sent[c].service = head.service /\ sent[c].size = l
        /\ l > 0 /\ l <= Len(buf)
    BY <1>0, BodyFacts
  <2>2. Len(sent) \in Nat
    BY StreamFacts
  <2> QED
    BY <1>0, <2>1, <2>2
<1>2. /\ UNCHANGED <<stream, taken, stuck>>
      /\ buf' = Erased /\ done' = c /\ bodies' = Append(bodies, b)
      /\ status' = "head" /\ dpc' = "loop" /\ dirty' = FALSE
  BY <1>0, <1>1 DEF Finish, DirtyAfterBody, AfterBody
<1>3. /\ Len(buf') = Len(buf) - l
      /\ \A k \in 1 .. Len(buf') : buf'[k] = buf[l + k]
  BY <1>0, <1>1, <1>2, ErasedType DEF TypeOK
<1>4. /\ Begin(c + 1) = Begin(c) + l /\ Begin(c) \in Nat
      /\ Begin(c) = base[c]
  BY <1>1, StreamFacts DEF StreamInv, Begin
<1>5. StreamInv' /\ StuckInv' /\ NothingLeftBehind'
  BY <1>2 DEF StreamInv, Begin, StuckInv, NothingLeftBehind, stream
<1>6. Aligned'
  <2>1. taken = Begin(c) + Len(buf) /\ Len(buf) \in Nat
        /\ \A k \in 1 .. Len(buf) : buf[k] = Begin(c) + k
    BY <1>0, StreamFacts DEF Aligned
  <2>2. taken' = Begin(c + 1) + Len(buf')
    BY <1>1, <1>2, <1>3, <1>4, <2>1
  <2>3. ASSUME NEW k \in 1 .. Len(buf') PROVE buf'[k] = Begin(c + 1) + k
    <3>1. l + k \in 1 .. Len(buf)
      BY <1>1, <1>3, <2>1
    <3> QED
      BY <1>3, <1>4, <2>1, <3>1
  <2>4. Begin(c + 1)' = Begin(c + 1) /\ c + 1 = done' + 1
    BY <1>2 DEF Begin, stream
  <2> QED
    BY <1>1, <1>2, <2>2, <2>3, <2>4 DEF Aligned, Begin, stream
<1>7. Len(bodies') = c /\ bodies'[c] = b
      /\ \A i \in 1 .. c - 1 : bodies'[i] = bodies[i]
  <2>1. bodies \in Seq({"json", "string", "none"}) /\ Len(bodies) = c - 1
    BY <1>1 DEF DetailInv, TypeOK
  <2>2. b \in {"json", "string", "none"}
    OBVIOUS
  <2> QED
    BY <1>1, <1>2, <2>1, <2>2
<1>8. DetailInv'
  BY <1>1, <1>2, <1>7 DEF DetailInv, stream
<1>9. OnlyFirstIsDropped'
  <2>1. /\ DOMAIN bodies = 1 .. c - 1 /\ DOMAIN bodies' = 1 .. c
        /\ sent' = sent
    BY <1>1, <1>2, <1>7 DEF DetailInv, TypeOK, stream
  <2>2. b = "none" => sent[c].service = "data"
                      /\ (c = 1 \/ sent[c].detail = "other")
    <3>1. sent[c].service = head.service /\ (dirty => c = 1)
      BY <1>0, <1>1 DEF DetailInv
    <3>2. head.detail = sent[c].detail \/ (dirty /\ head.detail = "other")
      BY <1>0 DEF DetailInv, InBody
    <3> QED
      BY <3>1, <3>2
  <2>3. ASSUME NEW i \in 1 .. c, bodies'[i] = "none"
        PROVE  sent[i].service = "data" /\ (i = 1 \/ sent[i].detail = "other")
    <3>1. CASE i = c
      BY <1>7, <2>2, <2>3, <3>1
    <3>2. CASE i \in 1 .. c - 1
      BY <1>7, <2>1, <2>3, <3>2 DEF OnlyFirstIsDropped
    <3> QED
      BY <3>1, <3>2
  <2> QED
    BY <2>1, <2>3 DEF OnlyFirstIsDropped
<1> QED
  BY <1>5, <1>6, <1>8, <1>9

(* JSON data: read from the buffer, or refused.                            *)
LEMMA ParseJsonStep ==
  ASSUME DecodeInv, TypeOK', ParseJson
  PROVE  DecodeInv'
<1> USE DEF DecodeInv
<1>1. CASE garbled'
  <2>1. UNCHANGED <<stream, taken, done, bodies>> /\ (dirty' => dirty)
    BY <1>1 DEF ParseJson, Finish, Throw, DirtyAfterBody
  <2> QED
    BY <1>1, <2>1, GarbledStep
<1>2. CASE ~garbled'
  <2>1. PICK valid \in BOOLEAN, i \in DOMAIN sent :
          /\ ~garbled /\ UNCHANGED garbled
          /\ Sees(i, head.len) /\ valid = sent[i].text
          /\ \/ valid /\ Finish("json")
             \/ ~valid /\ Throw /\ UNCHANGED head
    BY <1>2 DEF ParseJson
  <2>2. /\ InBody /\ status = "body"
        /\ head.service = "data" /\ head.detail = "json"
    BY DEF ParseJson, InBody
  <2>3. i = done + 1
    BY <2>1, <2>2, SeesCurrent, BodyFacts
  <2>4. CASE valid
    BY <2>1, <2>2, <2>3, <2>4, FinishStep DEF StuckInv
  <2>5. CASE ~valid
    BY <2>1, <2>2, <2>3, <2>5, ThrowStep, BodyFacts
  <2> QED
    BY <2>4, <2>5
<1> QED
  BY <1>1, <1>2

(* Images are refused.                                                     *)
LEMMA ParseImageStep ==
  ASSUME DecodeInv, TypeOK', ParseImage
  PROVE  DecodeInv'
<1> USE DEF DecodeInv
<1>1. InBody /\ Throw /\ UNCHANGED <<head, garbled>> /\ status = "body"
  BY DEF ParseImage, InBody
<1>2. CASE garbled
  BY <1>1, <1>2, GarbledStep DEF Throw
<1>3. CASE ~garbled
  BY <1>1, <1>3, ThrowStep, BodyFacts DEF ParseImage
<1> QED
  BY <1>2, <1>3

(* Data of a type without a Body.                                          *)
LEMMA ParseOtherStep ==
  ASSUME DecodeInv, TypeOK', ParseOther
  PROVE  DecodeInv'
<1> USE DEF DecodeInv
<1>1. /\ InBody /\ Finish("none") /\ UNCHANGED garbled /\ status = "body"
      /\ head.service = "data" /\ head.detail = "other"
  BY DEF ParseOther, InBody
<1>2. CASE garbled
  BY <1>1, <1>2, GarbledStep DEF Finish, DirtyAfterBody
<1>3. CASE ~garbled
  BY <1>1, <1>3, FinishStep DEF StuckInv
<1> QED
  BY <1>2, <1>3

(* Commands and errors.                                                    *)
LEMMA ParseStringStep ==
  ASSUME DecodeInv, TypeOK', ParseString
  PROVE  DecodeInv'
<1> USE DEF DecodeInv
<1>1. /\ InBody /\ UNCHANGED garbled /\ status = "body"
      /\ head.service \in {"cmd", "error"}
  BY DEF ParseString, InBody
<1>2. CASE garbled
  BY <1>1, <1>2, GarbledStep DEF ParseString, Finish, DirtyAfterBody
<1>3. CASE ~garbled
  <2>1. head.len >= HeadSize /\ head.len \in Nat /\ HeadSize \in Nat
    BY <1>1, <1>3, BodyFacts, SizeAssumption
  <2>2. Finish("string")
    BY <2>1 DEF ParseString
  <2> QED
    BY <1>1, <1>3, <2>2, FinishStep DEF StuckInv
<1> QED
  BY <1>2, <1>3

(* Every step preserves the invariant.                                     *)
LEMMA InvNext == ASSUME DecodeInv, [Next]_vars PROVE DecodeInv'
<1>1. TypeOK'
  BY TypeNext DEF DecodeInv
<1>2. CASE UNCHANGED vars
  BY <1>1, <1>2 DEF DecodeInv, StreamInv, Begin, Aligned, DetailInv, StuckInv,
       Sees, NothingLeftBehind, OnlyFirstIsDropped, vars, stream, decoder,
       ghosts
<1> QED
  BY <1>1, <1>2, SendStep, ParseStep, ReturnStep, ParseHeadStep,
     ParseJsonStep, ParseImageStep, ParseOtherStep, ParseStringStep
     DEF Next, DecodeStep

(* A new decoder and an empty stream satisfy the invariant.                *)
LEMMA InvInit == ASSUME Init PROVE DecodeInv
<1>1. TypeOK
  <2>1. 0 \in 0 .. NodeSize - 1 /\ head \in HeadType
    BY SizeAssumption, GarbageAssumption DEF Init
  <2>2. /\ sent \in Seq(Message) /\ base \in Seq(Nat) /\ buf \in Seq(Nat)
        /\ parsed \in Seq(Nat) /\ bodies \in Seq({"json", "string", "none"})
    BY DEF Init
  <2> QED
    BY <2>1, <2>2 DEF Init, TypeOK
<1> QED
  BY <1>1 DEF Init, DecodeInv, StreamInv, Begin, Aligned, DetailInv, StuckInv,
              NothingLeftBehind, OnlyFirstIsDropped

(* Every part of DecodeInv holds in every reachable state.                 *)
THEOREM InvCorrect == Spec => []DecodeInv
BY InvInit, InvNext, PTL DEF Spec

(* However TCP cuts the stream, the decoder keeps its place in it: the     *)
(* buffer starts at the first message not yet decoded.                     *)
THEOREM FramingIsKept == Spec => []Aligned
<1>1. ASSUME DecodeInv PROVE Aligned
  BY <1>1 DEF DecodeInv
<1> QED
  BY <1>1, InvCorrect, PTL

(* parse() leaves no complete message in the buffer when it returns.       *)
THEOREM ParseDrains == Spec => []NothingLeftBehind
<1>1. ASSUME DecodeInv PROVE NothingLeftBehind
  BY <1>1 DEF DecodeInv
<1> QED
  BY <1>1, InvCorrect, PTL

(* Only the first message can be misread and dropped.                      *)
THEOREM LaterMessagesAreRead == Spec => []OnlyFirstIsDropped
<1>1. ASSUME DecodeInv PROVE OnlyFirstIsDropped
  BY <1>1 DEF DecodeInv
<1> QED
  BY <1>1, InvCorrect, PTL
-----------------------------------------------------------------------------
(* The abstract framing, expanded for this decoder.                        *)
LEMMA FramingTake ==
  ASSUME ~garbled, ~stuck, UNCHANGED <<sent, stuck, garbled>>,
         done < Len(sent), done' = done + 1,
         Readable(sent[done + 1]) \/ (done = 0 /\ sent[1].service = "data")
  PROVE  Framing!Next
BY DEF Framing!Next, Framing!Take, StreamState, Ambiguous

(* A message is refused, for the first time or again.                      *)
LEMMA FramingReject ==
  ASSUME ~garbled, ~garbled', Throw, done < Len(sent),
         ~Readable(sent[done + 1])
  PROVE  [Framing!Next]_(Framing!framing)
<1>1. UNCHANGED <<sent, done>> /\ stuck'
  BY DEF Throw, stream
<1>2. CASE stuck
  BY <1>1, <1>2 DEF Framing!framing, StreamState
<1>3. CASE ~stuck
  BY <1>1, <1>3 DEF Framing!Next, Framing!Reject, StreamState
<1> QED
  BY <1>2, <1>3

(* Once the decoder has read elsewhere the abstract stream stands still.   *)
LEMMA FramingLost ==
  ASSUME garbled', UNCHANGED <<sent, done>>, garbled \/ ~stuck
  PROVE  [Framing!Next]_(Framing!framing)
<1>1. CASE garbled
  BY <1>1 DEF Framing!framing, StreamState
<1>2. CASE ~garbled /\ ~stuck
  BY <1>2 DEF Framing!Next, Framing!Lose, StreamState
<1> QED
  BY <1>1, <1>2

(* Each step of the decoder is a step of the abstract framing or none.     *)
LEMMA FramingStep ==
  ASSUME DecodeInv, [Next]_vars
  PROVE  [Framing!Next]_(Framing!framing)
<1> USE DEF DecodeInv
<1>1. ASSUME NEW m \in Message, Send(m)
      PROVE  [Framing!Next]_(Framing!framing)
  BY <1>1 DEF Send, ghosts, Framing!Next, Framing!Send, StreamState
<1>2. ASSUME UNCHANGED <<sent, done, stuck, garbled>>
      PROVE  [Framing!Next]_(Framing!framing)
  BY <1>2 DEF Framing!framing, StreamState
<1>3. CASE Return \/ UNCHANGED vars \/ \E n \in 1 .. (total - taken) : Parse(n)
  BY <1>2, <1>3 DEF Return, Parse, vars, stream, ghosts
<1>4. CASE ParseHead
  <2>1. CASE garbled'
    <3>1. UNCHANGED <<sent, done>>
      BY <1>4 DEF ParseHead, ReadHead, Throw, stream
    <3>2. garbled \/ ~stuck
      <4>1. SUFFICES ASSUME ~garbled, stuck PROVE FALSE
        OBVIOUS
      <4>2. /\ Sees(done + 1, HeadSize) /\ done + 1 \in DOMAIN sent
            /\ sent[done + 1].service = "unknown"
        BY <1>4, <4>1 DEF ParseHead, StuckInv, Sees
      <4>3. PICK i \in DOMAIN sent : Sees(i, HeadSize) /\ Misleads(sent[i])
        BY <1>4, <2>1, <4>1, <4>2 DEF ParseHead
      <4>4. i = done + 1
        BY <4>1, <4>3, SeesCurrent, SizeAssumption
      <4> QED
        BY <4>2, <4>3, <4>4 DEF Misleads
    <3> QED
      BY <2>1, <3>1, <3>2, FramingLost
  <2>2. CASE ~garbled'
    <3>1. PICK i \in DOMAIN sent :
            \E d \in DetailSeen(sent[i]) :
              /\ Sees(i, HeadSize) /\ ReadHead(HeadOf(sent[i], d))
              /\ UNCHANGED garbled
      BY <1>4, <2>2 DEF ParseHead, TypeOK
    <3>2. i = done + 1 /\ ~garbled
      BY <2>2, <3>1, SeesCurrent, SizeAssumption
    <3>3. CASE sent[i].service = "unknown"
      <4>1. Throw
        BY <3>1, <3>3 DEF ReadHead, HeadOf
      <4>2. done < Len(sent)
        BY <3>1, <3>2, StreamFacts DEF TypeOK
      <4> QED
        BY <2>2, <3>2, <3>3, <4>1, <4>2, FramingReject DEF Readable
    <3>4. CASE sent[i].service # "unknown"
      BY <1>2, <3>1, <3>4 DEF ReadHead, HeadOf, stream
    <3> QED
      BY <3>3, <3>4
  <2> QED
    BY <2>1, <2>2
<1>5. ASSUME InBody, ~garbled
      PROVE  /\ done + 1 \in DOMAIN sent /\ done < Len(sent)
             /\ head.service = sent[done + 1].service /\ status = "body"
             /\ \/ head.detail = sent[done + 1].detail
                \/ done = 0 /\ head.detail = "other"
  <2>1. /\ done + 1 \in 1 .. Len(sent) /\ done < Len(sent)
        /\ head.service = sent[done + 1].service
    BY <1>5, BodyFacts
  <2>2. status = "body" /\ DOMAIN sent = 1 .. Len(sent)
    BY <1>5, StreamFacts DEF InBody
  <2>3. \/ head.detail = sent[done + 1].detail
        \/ done = 0 /\ head.detail = "other"
    BY <1>5, <2>2 DEF DetailInv
  <2> QED
    BY <2>1, <2>2, <2>3
<1>6. ASSUME NEW b, Finish(b), InBody, UNCHANGED garbled,
             ~garbled, ~stuck,
             Readable(sent[done + 1])
               \/ (done = 0 /\ sent[1].service = "data")
      PROVE  [Framing!Next]_(Framing!framing)
  <2>1. UNCHANGED <<sent, stuck>> /\ done' = done + 1
    BY <1>6 DEF Finish, stream
  <2> QED
    BY <1>5, <1>6, <2>1, FramingTake
<1>7. ASSUME InBody, garbled, UNCHANGED <<sent, done>>, garbled'
      PROVE  [Framing!Next]_(Framing!framing)
  BY <1>7, FramingLost
<1>8. CASE ParseJson
  <2>1. InBody /\ head.service = "data" /\ head.detail = "json"
    BY <1>8 DEF ParseJson
  <2>2. CASE garbled'
    <3>1. UNCHANGED <<sent, done>>
      BY <1>8, <2>2 DEF ParseJson, Finish, Throw, stream
    <3>2. garbled \/ ~stuck
      <4>1. SUFFICES ASSUME ~garbled, stuck PROVE FALSE
        OBVIOUS
      <4>2. Sees(done + 1, head.len) /\ done + 1 \in DOMAIN sent
        BY <1>5, <2>1, <4>1 DEF StuckInv
      <4> QED
        BY <1>8, <2>2, <4>1, <4>2 DEF ParseJson
    <3> QED
      BY <2>2, <3>1, <3>2, FramingLost
  <2>3. CASE ~garbled'
    <3>1. PICK valid \in BOOLEAN, i \in DOMAIN sent :
            /\ ~garbled /\ UNCHANGED garbled
            /\ Sees(i, head.len) /\ valid = sent[i].text
            /\ \/ valid /\ Finish("json")
               \/ ~valid /\ Throw /\ UNCHANGED head
      BY <1>8, <2>3 DEF ParseJson
    <3>2. i = done + 1
      BY <2>1, <3>1, SeesCurrent, BodyFacts
    <3>3. /\ sent[done + 1].service = "data"
          /\ sent[done + 1].detail = "json" /\ done < Len(sent)
      BY <1>5, <2>1, <3>1
    <3>4. CASE valid
      <4>1. ~stuck
        BY <1>5, <2>1, <3>1, <3>2, <3>4 DEF StuckInv
      <4>2. Readable(sent[done + 1])
        BY <3>1, <3>2, <3>3, <3>4 DEF Readable
      <4> QED
        BY <1>6, <2>1, <3>1, <3>4, <4>1, <4>2
    <3>5. CASE ~valid
      <4>1. ~Readable(sent[done + 1])
        BY <3>1, <3>2, <3>3, <3>5 DEF Readable
      <4> QED
        BY <2>3, <3>1, <3>3, <3>5, <4>1, FramingReject
    <3> QED
      BY <3>4, <3>5
  <2> QED
    BY <2>2, <2>3
<1>9. CASE ParseImage
  <2>1. /\ InBody /\ Throw /\ UNCHANGED garbled
        /\ head.service = "data" /\ head.detail = "image"
    BY <1>9 DEF ParseImage
  <2>2. CASE garbled
    BY <1>7, <2>1, <2>2 DEF Throw, stream
  <2>3. CASE ~garbled
    <3>1. ~Readable(sent[done + 1]) /\ done < Len(sent)
      BY <1>5, <2>1, <2>3 DEF Readable
    <3> QED
      BY <2>1, <2>3, <3>1, FramingReject
  <2> QED
    BY <2>2, <2>3
<1>10. CASE ParseOther
  <2>1. /\ InBody /\ Finish("none") /\ UNCHANGED garbled
        /\ head.service = "data" /\ head.detail = "other"
    BY <1>10 DEF ParseOther
  <2>2. CASE garbled
    BY <1>7, <2>1, <2>2 DEF Finish, stream
  <2>3. CASE ~garbled
    <3>1. ~stuck
      BY <1>5, <2>1, <2>3 DEF StuckInv
    <3>2. Readable(sent[done + 1])
            \/ (done = 0 /\ sent[1].service = "data")
      BY <1>5, <2>1, <2>3 DEF Readable
    <3> QED
      BY <1>6, <2>1, <2>3, <3>1, <3>2
  <2> QED
    BY <2>2, <2>3
<1>11. CASE ParseString
  <2>1. InBody /\ UNCHANGED garbled /\ head.service \in {"cmd", "error"}
    BY <1>11 DEF ParseString
  <2>2. CASE garbled
    BY <1>7, <1>11, <2>1, <2>2 DEF ParseString, Finish, stream
  <2>3. CASE ~garbled
    <3>1. head.len >= HeadSize /\ head.len \in Nat /\ HeadSize \in Nat
      BY <2>1, <2>3, BodyFacts, SizeAssumption
    <3>2. Finish("string")
      BY <1>11, <3>1 DEF ParseString
    <3>3. ~stuck
      BY <1>5, <2>1, <2>3 DEF StuckInv
    <3>4. Readable(sent[done + 1])
      BY <1>5, <2>1, <2>3 DEF Readable
    <3> QED
      BY <1>6, <2>1, <2>3, <3>2, <3>3, <3>4
  <2> QED
    BY <2>2, <2>3
<1> QED
  BY <1>1, <1>3, <1>4, <1>8, <1>9, <1>10, <1>11 DEF Next, DecodeStep

(* The decoder implements the abstract framing: messages come off in the   *)
(* order of sending, one at a time, and none that cannot be read is passed.*)
THEOREM FramingImplemented == Spec => Framing!Safety
<1>1. ASSUME Init PROVE Framing!Init
  BY <1>1 DEF Init, Framing!Init, StreamState
<1> QED
  BY <1>1, FramingStep, InvCorrect, PTL DEF Spec, Framing!Safety

-----------------------------------------------------------------------------
(* What parse() takes off: a message, a head, or itself.                   *)
LEMMA TurnOfParse ==
  ASSUME buf \in Seq(Nat), head.len \in Nat, status \in {"head", "body"}, DecodeStep
  PROVE  \/ dpc' # "loop" /\ buf' = buf /\ head' = head /\ status' = status
         \/ status = "head" /\ status' = "body" /\ buf' = buf /\ dpc' = "loop"
         \/ /\ InBody /\ status' = "head" /\ dpc' = "loop"
            /\ buf' \in Seq(Nat) /\ Len(buf') = Len(buf) - head.len
            /\ head.len <= Len(buf)
            /\ \/ head.service = "data" /\ head.detail # "image"
               \/ head.len >= HeadSize
<1>1. ASSUME Throw, UNCHANGED head
      PROVE  dpc' # "loop" /\ buf' = buf /\ head' = head /\ status' = status
  BY <1>1 DEF Throw
<1>2. ASSUME InBody, NEW b, Finish(b)
      PROVE  /\ InBody /\ status' = "head" /\ dpc' = "loop"
             /\ buf' \in Seq(Nat) /\ Len(buf') = Len(buf) - head.len
             /\ head.len <= Len(buf)
  <2>1. head.len <= Len(buf)
    BY <1>2 DEF InBody, BodyMissing
  <2> QED
    BY <1>2, <2>1, ErasedType DEF Finish, AfterBody
<1>3. CASE Return
  BY <1>3 DEF Return
<1>4. CASE ParseHead
  <2>1. PICK h : ReadHead(h) /\ status = "head" /\ dpc = "loop"
    BY <1>4 DEF ParseHead
  <2> QED
    BY <1>1, <2>1 DEF ReadHead
<1>5. CASE ParseJson \/ ParseImage \/ ParseOther
  BY <1>1, <1>2, <1>5 DEF ParseJson, ParseImage, ParseOther
<1>6. CASE ParseString
  BY <1>2, <1>6 DEF ParseString
<1> QED
  BY <1>3, <1>4, <1>5, <1>6 DEF DecodeStep

(* Each turn leaves less to do, if the message in hand has a length.       *)
LEMMA TurnAdvances ==
  ASSUME buf \in Seq(Nat), head.len \in Nat, status \in {"head", "body"}, DecodeStep
  PROVE  /\ ParseRank \in Nat
         /\ ParseRank' < ParseRank \/ NothingToErase
<1>1. PICK n \in Nat : n = Len(buf)
  OBVIOUS
<1>2. dpc = "loop"
  BY DEF DecodeStep, Return, ParseHead, ParseJson, ParseImage, ParseOther,
     ParseString, InBody
<1>3. PICK t \in 1 .. 2 : /\ t = (IF status = "head" THEN 2 ELSE 1)
                          /\ ParseRank = 2 * n + t
  BY <1>1, <1>2 DEF ParseRank
<1>4. CASE dpc' # "loop"
  BY <1>3, <1>4 DEF ParseRank
<1>5. CASE status = "head" /\ status' = "body" /\ buf' = buf /\ dpc' = "loop"
  <2>1. ParseRank = 2 * n + 2 /\ ParseRank' = 2 * n + 1
    BY <1>1, <1>3, <1>5 DEF ParseRank
  <2> QED
    BY <2>1
<1>6. CASE /\ InBody /\ status' = "head" /\ dpc' = "loop"
           /\ buf' \in Seq(Nat) /\ Len(buf') = Len(buf) - head.len
           /\ head.len <= Len(buf)
           /\ \/ head.service = "data" /\ head.detail # "image"
              \/ head.len >= HeadSize
  <2>1. PICK l \in Nat : l = head.len
    OBVIOUS
  <2>2. t = 1
    BY <1>3, <1>6 DEF InBody
  <2>3. ParseRank = 2 * n + 1 /\ ParseRank' = 2 * (n - l) + 2
    BY <1>1, <1>3, <1>6, <2>1, <2>2 DEF ParseRank
  <2>4. l # 0 => ParseRank' < ParseRank
    BY <2>3
  <2>5. l = 0 => NothingToErase
    BY <1>6, <2>1, SizeAssumption DEF NothingToErase
  <2> QED
    BY <1>3, <2>4, <2>5
<1> QED
  BY <1>4, <1>5, <1>6, TurnOfParse

(* parse() always comes back, for any messages, whatever length their      *)
(* heads say, for any segments, and wherever it reads; unless it meets a   *)
(* head of length 0, of data that it does not refuse.                      *)
THEOREM ParseIsBounded == Spec => ParseAdvances
<1>1. TypeOK /\ [Next]_vars =>
        [DecodeStep => ParseRank' < ParseRank \/ NothingToErase]_vars
  BY TurnAdvances DEF TypeOK, HeadType
<1> QED
  BY <1>1, TypeCorrect, PTL DEF Spec, ParseAdvances
=============================================================================
