-------------------------- MODULE JdtLegacyProofs --------------------------
(***************************************************************************)
(* Proofs about JdtLegacy, for every size of the head, of a read and of a  *)
(* node of the deque, and for any messages.                                *)
(***************************************************************************)
EXTENDS JdtLegacy, SequenceTheorems, TLAPS

USE LegacySizeAssumption

(* Numbers and places of the messages sent.                                *)
LEMMA MailFacts ==
  ASSUME LegacyTypeOK, MailInv
  PROVE  /\ Len(mail) \in Nat /\ DOMAIN mail = 1 .. Len(mail)
         /\ \A i \in DOMAIN mail :
              /\ mail[i] \in Letter /\ mail[i].from \in Nat /\ mail[i].len \in Nat
              /\ mail[i].kind \in Kind
              /\ End(i) \in Nat /\ mail[i].from < End(i)
              /\ mail[i].from + HEAD_SIZE <= End(i)
         /\ \A i, j \in DOMAIN mail :
              /\ i < j => End(i) <= mail[j].from /\ mail[i].from < mail[j].from
              /\ mail[i].from = mail[j].from => i = j
<1>1. /\ Len(mail) \in Nat /\ DOMAIN mail = 1 .. Len(mail)
      /\ \A i \in DOMAIN mail : mail[i] \in Letter
  BY DEF LegacyTypeOK
<1>2. ASSUME NEW i \in DOMAIN mail
      PROVE  /\ mail[i].from \in Nat /\ mail[i].len \in Nat
             /\ mail[i].kind \in Kind
             /\ End(i) \in Nat /\ mail[i].from < End(i)
             /\ mail[i].from + HEAD_SIZE <= End(i)
  <2>1. mail[i].from \in Nat /\ mail[i].len \in Nat /\ mail[i].kind \in Kind
    BY <1>1 DEF Letter
  <2>2. mail[i].len >= HEAD_SIZE
    BY DEF MailInv
  <2> QED
    BY <2>1, <2>2 DEF End
<1>3. ASSUME NEW i \in DOMAIN mail, NEW j \in DOMAIN mail, i < j
      PROVE  End(i) <= mail[j].from /\ mail[i].from < mail[j].from
  <2>1. End(i) <= mail[j].from
    BY <1>3 DEF MailInv
  <2> QED
    BY <1>2, <2>1
<1>4. ASSUME NEW i \in DOMAIN mail, NEW j \in DOMAIN mail, mail[i].from = mail[j].from
      PROVE  i = j
  <2>1. i \in Int /\ j \in Int /\ mail[i].from \in Int
    BY <1>1, <1>2
  <2> QED
    BY <1>3, <1>4, <2>1
<1> QED
  BY <1>1, <1>2, <1>3, <1>4

(* A byte of the buffer at which a message has to begin begins one.        *)
LEMMA NextMessage ==
  ASSUME LegacyTypeOK, MailInv, DequeInv, low < seen
  PROVE  \E i \in DOMAIN mail : mail[i].from = low
<1> USE MailFacts DEF LegacyTypeOK
<1>1. low < size /\ mail # <<>> /\ 1 \in DOMAIN mail /\ Len(mail) \in DOMAIN mail
  BY DEF DequeInv, MailInv
<1>2. CASE low = 0
  BY <1>1, <1>2 DEF MailInv
<1>3. CASE low # 0
  <2>1. PICK i \in DOMAIN mail : low = End(i)
    BY <1>3 DEF DequeInv
  <2>2. i # Len(mail)
    BY <1>1, <2>1 DEF MailInv
  <2>3. i + 1 \in DOMAIN mail /\ i + 1 # 1 /\ i + 1 - 1 = i
    BY <2>2
  <2>4. mail[i + 1].from = End(i)
    BY <2>3 DEF MailInv
  <2> QED
    BY <2>1, <2>3, <2>4
<1> QED
  BY <1>2, <1>3

(* The message that curr_head_ is of.                                      *)
LEMMA HeadersMessage ==
  ASSUME LegacyInv, status = "body", header # ZeroHead, header.type # "short"
  PROVE  \E i \in DOMAIN mail :
           /\ mail[i].from = low /\ End(i) = low + header.len
           /\ header.type = TypeOf(mail[i].kind) /\ header.len = mail[i].len
           /\ mail[i] = [kind |-> mail[i].kind, len |-> header.len, from |-> low]
<1>0. PICK i \in DOMAIN mail : mail[i].from = low /\ header = HeaderOf(mail[i])
  BY DEF LegacyInv, DequeInv
<1>1. header.type = TypeOf(mail[i].kind) /\ header.len = mail[i].len
  BY <1>0 DEF HeaderOf, LenOf, TypeOf
<1>2. mail[i] \in Letter
  BY MailFacts DEF LegacyInv
<1>3. mail[i] = [kind |-> mail[i].kind, len |-> header.len, from |-> low]
  BY <1>0, <1>1, <1>2 DEF Letter
<1> QED
  BY <1>0, <1>1, <1>3 DEF End

(* The invariant holds initially.                                          *)
LEMMA InitLegacy == LegacyInit => LegacyInv
<1> SUFFICES ASSUME LegacyInit PROVE LegacyInv
  OBVIOUS
<1>1. LegacyTypeOK
  <2>1. <<>> \in Seq(Letter)
    BY EmptySeq
  <2>2. ZeroHead \in [type : Type, len : Nat] /\ "out" \in Where
    BY DEF ZeroHead, Type, Where
  <2> QED
    BY <2>1, <2>2 DEF LegacyInit, LegacyTypeOK
<1>2. Taken = <<>> /\ Len(Taken) = 0 /\ mail = <<>> /\ DOMAIN mail = {}
  BY DEF LegacyInit, Taken
<1>3. MailInv /\ DequeInv
  BY <1>2 DEF LegacyInit, MailInv, DequeInv, ZeroHead
<1>4. ReturnedInOrder /\ DiesOnlyOfBadMail
  BY <1>2 DEF LegacyInit, ReturnedInOrder, DiesOnlyOfBadMail
<1> QED
  BY <1>1, <1>3, <1>4 DEF LegacyInv

(* A step that leaves stream, buffer and queue alone keeps what they are.  *)
LEMMA SameStream ==
  ASSUME LegacyInv, UNCHANGED <<mail, size, shut>>
  PROVE  MailInv'
BY DEF LegacyInv, MailInv, End

(* A step that leaves stream, buffer and queue alone keeps their order.    *)
LEMMA SameQueue ==
  ASSUME LegacyInv, UNCHANGED <<mail, low>>, Taken' = Taken
  PROVE  ReturnedInOrder'
BY DEF LegacyInv, ReturnedInOrder, Sent, Fair

(* The peer sends another message.                                         *)
LEMMA SendKeeps ==
  ASSUME LegacyInv, NEW m \in Mail, SendMsg(m)
  PROVE  LegacyInv'
<1> DEFINE new == [kind |-> m.kind, len |-> m.len, from |-> size]
<1>1. /\ LegacyTypeOK /\ MailInv
      /\ m.kind \in Kind /\ m.len \in Nat /\ m.len >= HEAD_SIZE
      /\ new \in Letter /\ new.from = size /\ new.len = m.len /\ new.kind = m.kind
      /\ size \in Nat
  BY MailAssumption DEF LegacyInv, LegacyTypeOK, Letter
<1> HIDE DEF new
<1>2. mail' = Append(mail, new) /\ size' = size + m.len
      /\ UNCHANGED <<shut, seen, low, offset, status, header, where, ready, got>>
  BY DEF SendMsg, new, decode
<1>3. /\ mail' \in Seq(Letter) /\ Len(mail') = Len(mail) + 1
      /\ DOMAIN mail' = 1 .. Len(mail) + 1 /\ DOMAIN mail = 1 .. Len(mail)
      /\ \A i \in DOMAIN mail : mail'[i] = mail[i]
      /\ mail'[Len(mail) + 1] = new
      /\ Len(mail) \in Nat
  BY <1>1, <1>2, AppendProperties, LenProperties DEF LegacyTypeOK
<1>n. PICK n \in Nat : n = Len(mail)
  BY <1>3
<1>4. /\ \A i \in DOMAIN mail : End(i)' = End(i) /\ End(i) \in Nat
      /\ End(n + 1)' = size + m.len
  <2>1. ASSUME NEW i \in DOMAIN mail PROVE End(i)' = End(i) /\ End(i) \in Nat
    BY <1>n, <1>1, <1>3, MailFacts DEF End
  <2>2. End(n + 1)' = mail'[n + 1].from + mail'[n + 1].len
    BY <1>n, <1>3 DEF End
  <2> QED
    BY <1>n, <1>1, <1>3, <2>1, <2>2
<1>5. \A i \in DOMAIN mail : End(i) <= size
  <2> SUFFICES ASSUME NEW i \in DOMAIN mail PROVE End(i) <= size
    OBVIOUS
  <2>1. mail # <<>> /\ n \in DOMAIN mail /\ size = End(n)
    BY <1>n, <1>1, <1>3 DEF SendMsg, MailInv
  <2>2. i = n \/ i < n
    BY <1>n, <1>3
  <2>3. i < n => End(i) <= mail[n].from /\ mail[n].from < End(n)
    BY <1>n, <1>1, <2>1, MailFacts
  <2> QED
    BY <1>n, <1>1, <1>4, <2>1, <2>2, <2>3, MailFacts
<1>6. mail = <<>> => n = 0 /\ size = 0
  BY <1>n, <1>1 DEF MailInv
<1>7. mail # <<>> => n \in DOMAIN mail /\ size = End(n)
  BY <1>n, <1>1, <1>3 DEF MailInv, SendMsg
<1>8. LegacyTypeOK'
  BY <1>n, <1>1, <1>2, <1>3 DEF LegacyTypeOK
<1>9. MailInv'
  <2>1. ASSUME NEW i \in DOMAIN mail'
        PROVE  /\ mail'[i].len >= HEAD_SIZE
               /\ mail'[i].from = IF i = 1 THEN 0 ELSE End(i - 1)'
    <3>1. CASE i \in DOMAIN mail
      <4>1. i = 1 \/ i - 1 \in DOMAIN mail
        BY <1>n, <1>3, <3>1
      <4> QED
        BY <1>n, <1>1, <1>3, <1>4, <3>1, <4>1 DEF MailInv
    <3>2. CASE i = n + 1
      <4>1. n = 0 => i = 1
        BY <3>2
      <4>2. n # 0 => i # 1 /\ i - 1 = n /\ mail # <<>>
        BY <1>n, <1>3, <3>2
      <4>3. n = 0 => mail = <<>>
        BY <1>n, <1>1, EmptySeq DEF LegacyTypeOK
      <4> QED
        BY <1>n, <1>1, <1>3, <1>4, <1>6, <1>7, <3>2, <4>1, <4>2, <4>3
    <3> QED
      BY <1>n, <1>3, <3>1, <3>2
  <2>2. ASSUME NEW i \in DOMAIN mail', NEW j \in DOMAIN mail', i < j
        PROVE  End(i)' <= mail'[j].from
    <3>1. i \in DOMAIN mail
      BY <1>n, <1>3, <2>2
    <3>2. CASE j \in DOMAIN mail
      BY <1>n, <1>1, <1>3, <1>4, <2>2, <3>1, <3>2 DEF MailInv
    <3>3. CASE j = n + 1
      BY <1>n, <1>1, <1>3, <1>4, <1>5, <3>1, <3>3
    <3> QED
      BY <1>n, <1>3, <3>2, <3>3
  <2>3. /\ mail' # <<>> /\ mail'[Len(mail')].from < size'
        /\ size' = End(Len(mail))' /\ ~shut'
    <3>1. mail' # <<>> /\ mail'[n + 1].from = size /\ size < size'
      BY <1>n, <1>1, <1>2, <1>3, AppendProperties DEF LegacyTypeOK
    <3>2. End(Len(mail))' = End(n + 1)'
      BY <1>3, <1>n DEF End
    <3> QED
      BY <1>n, <1>2, <1>3, <1>4, <3>1, <3>2 DEF SendMsg
  <2> QED
    BY <2>1, <2>2, <2>3 DEF MailInv
<1>10. DequeInv'
  <2>1. low' <= seen' /\ seen' <= size' /\ Length' = Length
    BY <1>1, <1>2 DEF LegacyInv, DequeInv, LegacyTypeOK, Length
  <2>2. low' = 0 \/ \E i \in DOMAIN mail' : low' = End(i)'
    BY <1>n, <1>2, <1>3, <1>4 DEF LegacyInv, DequeInv
  <2>3. status' = "body" /\ header' # ZeroHead =>
          /\ \E i \in DOMAIN mail' :
               mail'[i].from = low' /\ header' = HeaderOf(mail'[i])
          /\ Length' >= HEAD_SIZE
    BY <1>n, <1>2, <1>3, <2>1 DEF LegacyInv, DequeInv
  <2>4. status' = "body" /\ header' = ZeroHead =>
          \E i \in DOMAIN mail' : mail'[i].kind = "bad" /\ low' = End(i)'
    BY <1>n, <1>2, <1>3, <1>4 DEF LegacyInv, DequeInv
  <2>5. ZeroHead' = ZeroHead
    BY DEF ZeroHead
  <2> QED
    BY <2>1, <2>2, <2>3, <2>4, <2>5 DEF DequeInv, HeaderOf, LenOf, TypeOf
<1>11. ReturnedInOrder'
  <2>1. low <= size
    BY <1>n, <1>1 DEF LegacyInv, DequeInv, LegacyTypeOK
  <2>2. Taken' = Taken /\ low' = low
    BY <1>n, <1>2 DEF Taken
  <2>3. \A t : Sent(t) => Sent(t)'
    BY <1>n, <1>3 DEF Sent
  <2>4. ~(new.from < low)
    BY <1>n, <1>1, <2>1 DEF LegacyTypeOK
  <2>5. ASSUME NEW i \in DOMAIN mail', Fair(mail'[i]), mail'[i].from < low
        PROVE  \E j \in 1 .. Len(Taken) : Taken[j] = mail'[i]
    <3>1. i \in DOMAIN mail
      BY <1>n, <1>3, <2>4, <2>5
    <3> QED
      BY <1>n, <1>3, <2>5, <3>1 DEF LegacyInv, ReturnedInOrder
  <2> QED
    BY <2>2, <2>3, <2>5 DEF LegacyInv, ReturnedInOrder, Fair
<1>12. DiesOnlyOfBadMail'
  BY <1>n, <1>2, <1>3, <1>4 DEF LegacyInv, DiesOnlyOfBadMail
<1> QED
  BY <1>n, <1>8, <1>9, <1>10, <1>11, <1>12 DEF LegacyInv

(* The stream ends.                                                        *)
LEMMA ShutKeeps ==
  ASSUME LegacyInv, NEW lost \in 0 .. size - seen, Shut(lost)
  PROVE  LegacyInv'
<1>1. LegacyTypeOK /\ MailInv /\ size \in Nat /\ seen \in Nat /\ lost \in Nat
      /\ low <= seen /\ seen <= size
  BY DEF LegacyInv, LegacyTypeOK, DequeInv
<1>2. /\ size' = size - lost /\ size' \in Nat /\ seen <= size' /\ shut'
      /\ UNCHANGED <<mail, seen, low, offset, status, header, where, ready, got>>
  BY <1>1 DEF Shut, decode
<1>3. LegacyTypeOK'
  BY <1>1, <1>2 DEF LegacyTypeOK
<1>4. MailInv'
  <2>1. CASE mail = <<>>
    BY <1>1, <1>2, <2>1 DEF Shut, MailInv
  <2>2. CASE mail # <<>>
    <3>1. Len(mail) \in DOMAIN mail /\ size = End(Len(mail))
      BY <1>1, <2>2 DEF MailInv, Shut, LegacyTypeOK
    <3>2. mail[Len(mail)].from < size' /\ size' <= End(Len(mail))
      <4>1. /\ mail[Len(mail)].from \in Nat /\ mail[Len(mail)].len \in Nat
            /\ mail[Len(mail)].len > 0
            /\ End(Len(mail)) = mail[Len(mail)].from + mail[Len(mail)].len
        BY <1>1, <3>1, MailFacts DEF End
      <4>2. lost < mail[Len(mail)].len
        BY <1>1, <4>1 DEF Shut
      <4> QED
        BY <1>1, <1>2, <3>1, <4>1, <4>2
    <3> QED
      BY <1>1, <1>2, <2>2, <3>2 DEF MailInv, End
  <2> QED
    BY <2>1, <2>2
<1>5. DequeInv'
  BY <1>1, <1>2 DEF LegacyInv, DequeInv, End, Length
<1>6. ReturnedInOrder' /\ DiesOnlyOfBadMail'
  BY <1>2 DEF LegacyInv, ReturnedInOrder, DiesOnlyOfBadMail, Taken, Sent, Fair, End
<1> QED
  BY <1>3, <1>4, <1>5, <1>6 DEF LegacyInv

(* Steps that read, or go from one place to another.                       *)
LEMMA QuietKeeps ==
  ASSUME LegacyInv, RecvMsg \/ Fill \/ FillFails \/ ParseEnds
  PROVE  LegacyInv'
<1>1. LegacyTypeOK /\ seen \in Nat /\ size \in Nat /\ low \in Nat /\ seen <= size
  BY DEF LegacyInv, LegacyTypeOK, DequeInv
<1>2. /\ where' \in {"loop", "parse", "exit"}
      /\ UNCHANGED <<mail, size, shut, low, offset, status, header, ready, got>>
  BY DEF RecvMsg, Fill, FillFails, ParseEnds, decode
<1>3. seen' \in Nat /\ seen <= seen' /\ seen' <= size
  <2>1. CASE Fill
    BY <1>1, <2>1 DEF Fill, Readable
  <2>2. CASE ~Fill
    BY <1>1, <2>2 DEF RecvMsg, FillFails, ParseEnds
  <2> QED
    BY <2>1, <2>2
<1>4. LegacyTypeOK'
  BY <1>1, <1>2, <1>3 DEF LegacyTypeOK, Where
<1>5. DequeInv'
  <2>1. low' <= seen' /\ seen' <= size' /\ (Length >= HEAD_SIZE => Length' >= HEAD_SIZE)
    BY <1>1, <1>2, <1>3 DEF LegacyInv, DequeInv, Length
  <2>2. ZeroHead' = ZeroHead
    BY DEF ZeroHead
  <2> QED
    BY <1>2, <2>1, <2>2 DEF LegacyInv, DequeInv, End, HeaderOf, LenOf, TypeOf
<1>6. ReturnedInOrder'
  BY <1>2, SameQueue DEF Taken
<1>7. DiesOnlyOfBadMail'
  BY <1>2 DEF DiesOnlyOfBadMail
<1> QED
  BY <1>2, <1>4, <1>5, <1>6, <1>7, SameStream DEF LegacyInv

(* A message goes from the queue to the caller.                            *)
LEMMA GetKeeps ==
  ASSUME LegacyInv, GetOneMsg
  PROVE  LegacyInv'
<1>1. /\ LegacyTypeOK /\ ready \in Seq(Letter) /\ got \in Seq(Letter) /\ ready # <<>>
      /\ got' = Append(got, Head(ready)) /\ ready' = Tail(ready) /\ where' = "out"
      /\ UNCHANGED <<mail, size, shut, seen, low, offset, status, header>>
  BY DEF GetOneMsg, LegacyInv, LegacyTypeOK
<1>2. /\ Head(ready) \in Letter /\ ready' \in Seq(Letter) /\ got' \in Seq(Letter)
      /\ ready = <<Head(ready)>> \o Tail(ready)
  BY <1>1
<1>3. Taken' = Taken
  <2> DEFINE h == <<Head(ready)>>
             t == Tail(ready)
  <2>1. got' = got \o h /\ h \in Seq(Letter)
    BY <1>1, <1>2, AppendIsConcat
  <2>2. ready = h \o t /\ t \in Seq(Letter) /\ ready' = t
    BY <1>1, <1>2
  <2> HIDE DEF h, t
  <2>3. (got \o h) \o t = got \o (h \o t)
    BY <1>1, <2>1, <2>2, ConcatAssociative
  <2> QED
    BY <2>1, <2>2, <2>3 DEF Taken
<1>4. LegacyTypeOK'
  BY <1>1, <1>2 DEF LegacyTypeOK, Where
<1>5. DequeInv' /\ DiesOnlyOfBadMail'
  BY <1>1 DEF LegacyInv, DequeInv, DiesOnlyOfBadMail, End, Length
<1> QED
  BY <1>1, <1>3, <1>4, <1>5, SameStream, SameQueue DEF LegacyInv

(* A head is that of the message at the start of the buffer.               *)
LEMMA HeadKeeps ==
  ASSUME LegacyInv, ParseHead
  PROVE  LegacyInv'
<1>1. LegacyTypeOK /\ MailInv
  BY DEF LegacyInv
<1>2. PICK i \in DOMAIN mail : mail[i].from = low /\ header' = HeaderOf(mail[i])
  BY DEF ParseHead
<1>3. /\ where = "parse" /\ ~Short /\ status' = "body"
      /\ UNCHANGED <<mail, size, shut, seen, low, offset, where, ready, got>>
  BY DEF ParseHead
<1>4. mail[i].kind \in Kind /\ mail[i].len \in Nat
  BY <1>1, MailFacts
<1>5. TypeOf(mail[i].kind) \in Type \ {"zero"}
  BY <1>4 DEF TypeOf, Kind, Type
<1>6. header' \in [type : Type, len : Nat] /\ header' # ZeroHead
  BY <1>2, <1>4, <1>5 DEF ZeroHead, HeaderOf, LenOf
<1>7. LegacyTypeOK'
  BY <1>1, <1>3, <1>6 DEF LegacyTypeOK
<1>8. DequeInv'
  <2>1. Length' >= HEAD_SIZE
    BY <1>1, <1>3 DEF Short, Length, LegacyTypeOK
  <2>2. low' <= seen' /\ seen' <= size' /\ (low' = 0 \/ \E j \in DOMAIN mail' : low' = End(j)')
    BY <1>3 DEF LegacyInv, DequeInv, End
  <2>3. ZeroHead' = ZeroHead
    BY DEF ZeroHead
  <2> QED
    BY <1>2, <1>3, <1>6, <2>1, <2>2, <2>3 DEF DequeInv, HeaderOf, LenOf, TypeOf
<1>9. ReturnedInOrder' /\ DiesOnlyOfBadMail'
  BY <1>3, SameQueue DEF Taken, DiesOnlyOfBadMail
<1> QED
  BY <1>3, <1>7, <1>8, <1>9, SameStream DEF LegacyInv

(* A whole message is erased; it goes into the queue if it can be decoded. *)
LEMMA ErasedKeeps ==
  ASSUME LegacyInv, status = "body", ~Incomplete, header # ZeroHead,
         NEW ok \in BOOLEAN, Clear(ok), where' \in {"parse", "loop"},
         NEW i \in DOMAIN mail, mail[i].from = low, End(i) = low + header.len,
         ok => Fair(mail[i]) /\ ready' = Append(ready, mail[i]),
         ~ok => mail[i].kind = "bad" /\ ready' = ready
  PROVE  LegacyInv'
<1>1. /\ LegacyTypeOK /\ MailInv /\ low \in Nat /\ seen \in Nat /\ size \in Nat
      /\ header.len \in Nat /\ offset \in Nat
  BY DEF LegacyInv, LegacyTypeOK
<1>2. /\ low' = End(i) /\ header' = ZeroHead /\ status' = StatusAfter(ok)
      /\ UNCHANGED <<mail, size, shut, seen, got>>
  BY DEF Clear, Erased
<1>3. low' \in Nat /\ low < low' /\ low' <= seen /\ seen <= size
  BY <1>1, <1>2, MailFacts DEF Incomplete, Length, LegacyInv, DequeInv
<1>4. mail[i] \in Letter /\ DOMAIN mail = 1 .. Len(mail) /\ Len(mail) \in Nat
  BY <1>1, MailFacts
<1>5. LegacyTypeOK'
  <2>1. ready' \in Seq(Letter)
    <3>1. ready \in Seq(Letter)
      BY <1>1 DEF LegacyTypeOK
    <3>2. Append(ready, mail[i]) \in Seq(Letter)
      BY <1>4, <3>1, AppendProperties
    <3> QED
      BY <3>1, <3>2
  <2>2. offset' \in Nat
    <3>1. offset' = Offset
      BY DEF Clear
    <3> QED
      BY <1>1, <3>1 DEF Offset
  <2>3. ZeroHead \in [type : Type, len : Nat] /\ status' \in {"head", "body"}
    BY <1>2 DEF ZeroHead, Type, StatusAfter
  <2> QED
    BY <1>1, <1>2, <1>3, <2>1, <2>2, <2>3 DEF LegacyTypeOK, Where
<1>6. DequeInv'
  <2>1. low' = End(i)' /\ i \in DOMAIN mail'
    BY <1>2 DEF End
  <2>2. header' = ZeroHead'
    BY <1>2 DEF ZeroHead
  <2>3. status' = "body" => ~ok
    BY <1>2 DEF StatusAfter
  <2> QED
    BY <1>2, <1>3, <2>1, <2>2, <2>3 DEF DequeInv
<1>7. ReturnedInOrder'
  <2>1. got \in Seq(Letter) /\ ready \in Seq(Letter) /\ Taken \in Seq(Letter)
        /\ Len(Taken) \in Nat
    BY <1>1, ConcatProperties DEF LegacyTypeOK, Taken
  <2>2. Taken' = IF ok THEN Append(Taken, mail[i]) ELSE Taken
    <3>1. CASE ok
      <4>1. Append(ready, mail[i]) = ready \o <<mail[i]>> /\ <<mail[i]>> \in Seq(Letter)
        BY <1>4, <2>1, AppendIsConcat
      <4>2. Append(Taken, mail[i]) = Taken \o <<mail[i]>>
        BY <1>4, <2>1, AppendIsConcat
      <4>3. (got \o ready) \o <<mail[i]>> = got \o (ready \o <<mail[i]>>)
        BY <2>1, <4>1, ConcatAssociative
      <4> QED
        BY <1>2, <3>1, <4>1, <4>2, <4>3 DEF Taken
    <3>2. CASE ~ok
      BY <1>2, <3>2 DEF Taken
    <3> QED
      BY <3>1, <3>2
  <2>n. PICK k \in Nat : k = Len(Taken)
    BY <2>1
  <2>3. /\ \A j \in 1 .. k : Taken'[j] = Taken[j] /\ Taken[j] \in Letter
        /\ Len(Taken') = IF ok THEN k + 1 ELSE k
        /\ ok => Taken'[k + 1] = mail[i]
    BY <1>4, <2>1, <2>2, <2>n, AppendProperties
  <2>4. \A j \in 1 .. k : /\ Fair(Taken[j]) /\ Sent(Taken[j])
                          /\ Taken[j].from \in Nat /\ Taken[j].from < low
                          /\ \A l \in 1 .. j - 1 : Taken[l].from < Taken[j].from
    BY <2>3, <2>n DEF LegacyInv, ReturnedInOrder, Letter
  <2>5. Len(Taken)' = Len(Taken')
    OBVIOUS
  <2>6. ASSUME NEW j \in 1 .. Len(Taken)'
        PROVE  /\ Fair(Taken'[j]) /\ Sent(Taken[j])'
               /\ Taken'[j].from < low'
               /\ \A l \in 1 .. j - 1 : Taken'[l].from < Taken'[j].from
    <3>1. CASE j \in 1 .. k
      <4>1. \A l \in 1 .. j - 1 : l \in 1 .. k
        BY <3>1
      <4>2. Taken'[j] = Taken[j] /\ Taken[j].from < low'
        BY <1>1, <1>3, <2>3, <2>4, <3>1
      <4>3. Sent(Taken[j])'
        BY <1>2, <2>4, <3>1, <4>2 DEF Sent
      <4>4. \A l \in 1 .. j - 1 : Taken'[l].from < Taken'[j].from
        BY <2>3, <2>4, <3>1, <4>1
      <4> QED
        BY <2>4, <3>1, <4>2, <4>3, <4>4
    <3>2. CASE ok /\ j = k + 1
      <4>1. Taken'[j] = mail[i] /\ \A l \in 1 .. j - 1 : l \in 1 .. k
        BY <2>3, <3>2
      <4>2. Sent(Taken[j])'
        BY <1>2, <4>1 DEF Sent
      <4> QED
        BY <1>1, <1>3, <2>3, <2>4, <3>2, <4>1, <4>2
    <3> QED
      BY <2>3, <2>5, <3>1, <3>2
  <2>7. ASSUME NEW j \in DOMAIN mail, Fair(mail[j]), mail[j].from < low'
        PROVE  \E l \in 1 .. Len(Taken)' : Taken'[l] = mail[j]
    <3>1. j < i \/ j = i
      <4>1. i \in Int /\ j \in Int
        BY <1>4
      <4>2. i < j => End(i) <= mail[j].from
        BY <1>1, MailFacts
      <4>3. mail[j].from \in Nat /\ End(i) \in Nat
        BY <1>1, MailFacts
      <4> QED
        BY <1>2, <2>7, <4>1, <4>2, <4>3
    <3>2. CASE j < i
      <4>1. mail[j].from < low
        BY <1>1, <3>2, MailFacts
      <4>2. \E l \in 1 .. Len(Taken) : Taken[l] = mail[j]
        BY <2>7, <4>1 DEF LegacyInv, ReturnedInOrder
      <4> QED
        BY <2>3, <2>5, <2>n, <4>2
    <3>3. CASE j = i
      <4>1. ok
        BY <2>7, <3>3 DEF Fair
      <4> QED
        BY <2>3, <2>5, <3>3, <4>1
    <3> QED
      BY <3>1, <3>2, <3>3
  <2> QED
    BY <1>2, <2>6, <2>7 DEF ReturnedInOrder, Fair
<1>8. DiesOnlyOfBadMail'
  BY DEF DiesOnlyOfBadMail
<1> QED
  BY <1>2, <1>5, <1>6, <1>7, <1>8, SameStream DEF LegacyInv

(* A message is decoded, or is not JSON.                                   *)
LEMMA BodyKeeps ==
  ASSUME LegacyInv, ParseString \/ ParseJson \/ ParseBadJson
  PROVE  LegacyInv'
<1>1. status = "body" /\ ~Incomplete /\ where = "parse"
      /\ header.type \in {"string", "json"} /\ header # ZeroHead
  <2>1. ZeroHead.type = "zero"
    BY DEF ZeroHead
  <2> QED
    BY <2>1 DEF ParseString, ParseJson, ParseBadJson, AtBody
<1>2. PICK i \in DOMAIN mail :
        /\ mail[i].from = low /\ End(i) = low + header.len
        /\ header.type = TypeOf(mail[i].kind)
        /\ mail[i] = Body(mail[i].kind)
  BY <1>1, HeadersMessage DEF Body
<1>3. mail[i].kind \in Kind
  BY MailFacts DEF LegacyInv
<1>4. CASE ParseString
  <2>1. mail[i].kind = "string"
    BY <1>2, <1>3, <1>4 DEF ParseString, AtBody, TypeOf, Kind
  <2> QED
    BY <1>1, <1>2, <1>4, <2>1, ErasedKeeps DEF ParseString, Push, Fair
<1>5. CASE ParseJson
  <2>1. PICK j \in DOMAIN mail : mail[j] = Body("json")
    BY <1>5 DEF ParseJson, Sent
  <2>2. j = i
    <3>1. mail[j].from = low
      BY <2>1 DEF Body
    <3> QED
      BY <1>2, <3>1, MailFacts DEF LegacyInv
  <2>3. mail[i].kind = "json" /\ mail[i] = Body("json")
    BY <2>1, <2>2 DEF Body
  <2> QED
    BY <1>1, <1>2, <1>5, <2>3, ErasedKeeps DEF ParseJson, Push, Fair
<1>6. CASE ParseBadJson
  <2>1. mail[i].kind # "json"
    BY <1>2, <1>6 DEF ParseBadJson, Sent
  <2>2. mail[i].kind = "bad"
    BY <1>2, <1>3, <1>6, <2>1 DEF ParseBadJson, AtBody, TypeOf, Kind
  <2> QED
    BY <1>1, <1>2, <1>6, <2>2, ErasedKeeps DEF ParseBadJson
<1> QED
  BY <1>4, <1>5, <1>6

(* Where the model stops.                                                  *)
LEMMA StopKeeps ==
  ASSUME LegacyInv, NullMsg \/ ShortLength \/ ReadPastNode
  PROVE  LegacyInv'
<1>1. LegacyTypeOK /\ MailInv /\ DequeInv
  BY DEF LegacyInv
<1>2. /\ where' \in {"dead", "undefined"} /\ 0 < Length /\ low < seen
      /\ UNCHANGED <<mail, size, shut, seen, low, offset, status, header, ready, got>>
  BY <1>1 DEF NullMsg, ShortLength, ReadPastNode, AtBody, decode, Length, LegacyTypeOK
<1>3. LegacyTypeOK' /\ DequeInv'
  BY <1>1, <1>2 DEF LegacyTypeOK, DequeInv, Where, End, Length
<1>4. ASSUME NullMsg
      PROVE  \E i \in DOMAIN mail :
               \/ mail[i].kind = "other" /\ mail[i].from = low
               \/ mail[i].kind = "bad" /\ End(i) = low
  <2>1. status = "body" /\ header.type \in {"other", "zero"}
    BY <1>4 DEF NullMsg, AtBody
  <2>2. CASE header = ZeroHead
    BY <1>1, <2>1, <2>2 DEF DequeInv
  <2>3. CASE header # ZeroHead
    <3>1. PICK i \in DOMAIN mail : mail[i].from = low
                                   /\ header.type = TypeOf(mail[i].kind)
      BY <2>1, <2>3, HeadersMessage
    <3>2. mail[i].kind \in Kind
      BY <1>1, MailFacts
    <3>3. mail[i].kind = "other"
      BY <2>1, <3>1, <3>2 DEF TypeOf, Kind
    <3> QED
      BY <3>1, <3>3
  <2> QED
    BY <2>2, <2>3
<1>5. ASSUME ReadPastNode
      PROVE  \E i \in DOMAIN mail :
               mail[i].from = low /\ offset + mail[i].len > DequeNode
  <2>1. CASE status = "head" /\ ~Contiguous(HEAD_SIZE)
    <3>1. PICK i \in DOMAIN mail : mail[i].from = low
      BY <1>1, <1>2, NextMessage
    <3>2. mail[i].len \in Nat /\ mail[i].len >= HEAD_SIZE
      BY <1>1, MailFacts DEF MailInv
    <3> QED
      BY <1>1, <2>1, <3>1, <3>2 DEF Contiguous, LegacyTypeOK
  <2>2. CASE AtBody({"json"}) /\ ~Contiguous(header.len)
    <3>1. status = "body" /\ header # ZeroHead
      BY <2>2 DEF AtBody, ZeroHead
    <3>2. PICK i \in DOMAIN mail : mail[i].from = low /\ mail[i].len = header.len
      BY <2>2, <3>1, HeadersMessage DEF AtBody
    <3> QED
      BY <1>1, <2>2, <3>2 DEF Contiguous, LegacyTypeOK
  <2> QED
    BY <1>5, <2>1, <2>2 DEF ReadPastNode
<1>s. ASSUME ShortLength
      PROVE  \E i \in DOMAIN mail : mail[i].from = low /\ mail[i].kind = "short"
  <2>1. status = "body" /\ header.type = "short" /\ header # ZeroHead
    BY <1>s DEF ShortLength, AtBody, ZeroHead
  <2>2. PICK i \in DOMAIN mail : mail[i].from = low /\ header = HeaderOf(mail[i])
    BY <1>1, <2>1 DEF DequeInv
  <2>3. mail[i].kind \in Kind
    BY <1>1, MailFacts
  <2> QED
    BY <2>1, <2>2, <2>3 DEF HeaderOf, TypeOf, Kind
<1>6. DiesOnlyOfBadMail'
  <2>1. CASE NullMsg
    BY <1>2, <1>4, <2>1 DEF NullMsg, DiesOnlyOfBadMail, End
  <2>2. CASE ReadPastNode
    BY <1>2, <1>5, <2>2 DEF ReadPastNode, DiesOnlyOfBadMail
  <2>3. CASE ShortLength
    BY <1>2, <1>s, <2>3 DEF DiesOnlyOfBadMail
  <2> QED
    BY <2>1, <2>2, <2>3
<1> QED
  BY <1>2, <1>3, <1>6, SameStream, SameQueue DEF LegacyInv, Taken

(* The invariant is inductive.                                             *)
LEMMA NextLegacy == LegacyInv /\ [LegacyNext]_legacyVars => LegacyInv'
<1> SUFFICES ASSUME LegacyInv, [LegacyNext]_legacyVars PROVE LegacyInv'
  OBVIOUS
<1>1. CASE UNCHANGED legacyVars
  <2>1. UNCHANGED <<mail, size, shut, seen, low, offset, status, header, where, ready, got>>
    BY <1>1 DEF legacyVars, decode
  <2>2. LegacyTypeOK' /\ DequeInv' /\ DiesOnlyOfBadMail'
    BY <2>1 DEF LegacyInv, LegacyTypeOK, DequeInv, DiesOnlyOfBadMail, End, Length
  <2> QED
    BY <2>1, <2>2, SameStream, SameQueue DEF LegacyInv, Taken
<1>2. CASE LegacyNext
  BY <1>2, SendKeeps, ShutKeeps, QuietKeeps, GetKeeps, HeadKeeps, BodyKeeps,
     StopKeeps DEF LegacyNext, LegacyStep
<1> QED
  BY <1>1, <1>2

(* The buffer stays aligned to the messages, whatever recvMsg() reads at a *)
(* time.                                                                   *)
THEOREM LegacyIsAligned == LegacySpec => []LegacyInv
BY InitLegacy, NextLegacy, PTL DEF LegacySpec

(* No message is skipped, doubled or invented, and none overtakes another. *)
THEOREM LegacyOrder == LegacySpec => []ReturnedInOrder
<1>1. LegacyInv => ReturnedInOrder
  BY DEF LegacyInv
<1> QED
  BY <1>1, LegacyIsAligned, PTL

(* What the receiver can die of: it does die of each, see                  *)
(* RefusedDoesNothing.                                                     *)
THEOREM LegacyDeath == LegacySpec => []DiesOnlyOfBadMail
<1>1. LegacyInv => DiesOnlyOfBadMail
  BY DEF LegacyInv
<1> QED
  BY <1>1, LegacyIsAligned, PTL

(* The head of a message that is taken off, invalid JSON included, is not  *)
(* the zero head: it has at least the bytes of a head.                     *)
LEMMA MessageHasBytes ==
  ASSUME LegacyInv, AtBody({"string", "json"})
  PROVE  header.len \in Nat /\ header.len > 0
<1>1. header # ZeroHead
  BY DEF AtBody, ZeroHead
<1>2. PICK i \in DOMAIN mail : header.len = mail[i].len
  BY <1>1, HeadersMessage DEF AtBody
<1>3. mail[i].len >= HEAD_SIZE
  BY DEF LegacyInv, MailInv
<1>4. header.len \in Nat
  BY DEF LegacyInv, LegacyTypeOK
<1> QED
  BY <1>2, <1>3, <1>4

(* Where in its loop recvMsg() is.                                         *)
Turn == IF where = "loop" THEN 1 ELSE IF where # "parse" THEN 0
        ELSE IF status = "head" THEN 3 ELSE 2

(* Every step of recvMsg() but an empty read at the end of the stream.     *)
LEMMA ReceiveAdvances ==
  ASSUME LegacyInv, LegacyStep
  PROVE  /\ LegacyRank \in Nat
         /\ LegacyRank' < LegacyRank \/ (Fill /\ shut /\ seen = size)
<1>1. /\ size \in Nat /\ seen \in Nat /\ low \in Nat /\ low <= seen /\ seen <= size
      /\ HEAD_SIZE \in Nat /\ MAXLINE \in Nat /\ MAXLINE > 0 /\ shut \in BOOLEAN
      /\ status \in {"head", "body"} /\ header.len \in Nat
  BY DEF LegacyInv, LegacyTypeOK, DequeInv
<1>2. /\ Turn \in 0 .. 3
      /\ LegacyRank = 6 * (size - seen) + 2 * (seen - low) + Turn
      /\ LegacyRank' = 6 * (size' - seen') + 2 * (seen' - low') + Turn'
  BY DEF LegacyRank, Length, Turn
<1>3. LegacyRank \in Nat
  BY <1>1, <1>2
<1>b. PICK b \in Int : b = 6 * (size - seen) + 2 * (seen - low)
  BY <1>1
<1>4. ASSUME UNCHANGED <<size, seen, low>>,
             NEW t \in Int, NEW u \in Int, t = Turn', u = Turn, t < u
      PROVE  LegacyRank' < LegacyRank
  <2>1. LegacyRank = b + u /\ LegacyRank' = b + t
    BY <1>2, <1>b, <1>4
  <2>2. t < u
    BY <1>4
  <2> QED
    BY <2>1, <2>2
<1>5. CASE GetOneMsg
  <2>1. Turn = 1 /\ Turn' = 0
    BY <1>5 DEF GetOneMsg, Turn
  <2> QED
    BY <1>3, <1>4, <1>5, <2>1 DEF GetOneMsg
<1>6. CASE ParseEnds \/ NullMsg \/ ShortLength \/ ReadPastNode
  <2>1. /\ where = "parse" /\ where' \in {"loop", "dead", "undefined"}
        /\ UNCHANGED <<size, seen, low>>
    BY <1>6 DEF ParseEnds, NullMsg, ShortLength, ReadPastNode, AtBody, decode
  <2>2. PICK t \in 0 .. 1, u \in 2 .. 3 : t = Turn' /\ u = Turn
    BY <2>1 DEF Turn
  <2> QED
    BY <1>3, <1>4, <2>1, <2>2
<1>7. CASE ParseHead
  <2>1. Turn = 3 /\ Turn' = 2
    BY <1>7 DEF ParseHead, Turn
  <2> QED
    BY <1>3, <1>4, <1>7, <2>1 DEF ParseHead
<1>8. CASE ParseString \/ ParseJson \/ ParseBadJson
  <2>1. AtBody({"string", "json"})
    BY <1>8 DEF ParseString, ParseJson, ParseBadJson, AtBody
  <2>2. /\ low' = low + header.len /\ size' = size /\ seen' = seen
        /\ where = "parse" /\ status = "body"
    BY <1>8, <2>1 DEF ParseString, ParseJson, ParseBadJson, Push, Clear, Erased, AtBody
  <2>3. Turn = 2 /\ Turn' \in 0 .. 3
    BY <2>2 DEF Turn
  <2>4. header.len > 0
    BY <2>1, MessageHasBytes
  <2> QED
    BY <1>1, <1>2, <1>3, <2>2, <2>3, <2>4
<1>9. CASE Fill
  <2>1. PICK r \in Nat : r = Readable /\ (r = 0 => seen = size)
    <3>1. Readable \in Nat /\ (Readable = 0 => seen = size)
      BY <1>1 DEF Readable
    <3> QED
      BY <3>1
  <2>2. /\ seen' = seen + r /\ size' = size /\ low' = low
        /\ Turn = 1 /\ Turn' \in 2 .. 3
        /\ r = 0 => shut /\ seen = size
    BY <1>1, <1>9, <2>1 DEF Fill, decode, Readable, Turn
  <2>3. PICK t \in 2 .. 3 : t = Turn'
    BY <2>2
  <2>4. LegacyRank = b + 1 /\ LegacyRank' = (b - 4 * r) + t
    BY <1>1, <1>2, <1>b, <2>2, <2>3
  <2>5. r # 0 => LegacyRank' < LegacyRank
    BY <2>4
  <2> QED
    BY <1>3, <1>9, <2>2, <2>5
<1> QED
  BY <1>3, <1>5, <1>6, <1>7, <1>8, <1>9 DEF LegacyStep

(* recvMsg() goes round for ever at the end of the stream, and nowhere     *)
(* else, for any stream and any MAXLINE.                                   *)
THEOREM LegacyIsBounded == LegacySpec => LegacyAdvances
<1>1. LegacyInv /\ [LegacyNext]_legacyVars =>
        [LegacyStep =>
           /\ LegacyRank \in Nat
           /\ LegacyRank' < LegacyRank \/ (Fill /\ shut /\ seen = size)]_legacyVars
  BY ReceiveAdvances
<1> QED
  BY InitLegacy, NextLegacy, <1>1, PTL DEF LegacySpec, LegacyAdvances
=============================================================================
