------------------------ MODULE JdtConnectionProofs ------------------------
(***************************************************************************)
(* Proofs about JdtConnection, for every set of messages, every content of *)
(* a head that encode() left unset, every place where the stream ends,     *)
(* every width of the length and every size of recvMsg()'s buffer.         *)
(***************************************************************************)
EXTENDS JdtConnection, JdtDecodeProofs

(* What may be on the wire: heads of encode(), right or not.               *)
WireMessage ==
  [service : Service, detail : Detail, len : Nat, text : BOOLEAN, size : Nat]

(* The decoder's invariant does not hold of this stream, whose heads may   *)
(* say anything and whose bytes recvMsg() skips.  This much does.          *)
ReceiverInv ==
  /\ sent \in Seq(WireMessage)
  /\ total \in Nat /\ taken \in 0 .. total
  /\ buf \in Seq(Nat) /\ head \in HeadType /\ status \in {"head", "body"}
  /\ rpc \in {"none", "true", "false", "test", "readHead", "parse",
              "readBody", "break", "overrun", "exit"}

(* What Rio_readn() returns is no more than what there is.                 *)
LEMMA ReadnBounds ==
  ASSUME ReceiverInv, NEW n \in Nat
  PROVE  /\ Readn(n) \in Nat /\ Readn(n) <= n /\ Readn(n) <= total - taken
BY DEF ReceiverInv, Readn

(* The length that recvMsg() reads is that of a uint32_t.                  *)
LEMMA NeedIsNatural == ASSUME ReceiverInv PROVE LenStillNeed \in Nat
<1>1. head.len \in Nat /\ Len(buf) \in Nat
  BY DEF ReceiverInv, HeadType
<1>2. PICK d \in Int : d = head.len - Len(buf)
  BY <1>1
<1>3. d % Word \in Nat
  BY ConnectionAssumption
<1> QED
  BY <1>2, <1>3 DEF LenStillNeed

(* A head that parse() reads, on the wire or outside the buffer.           *)
LEMMA HeadRead ==
  ASSUME ReceiverInv, DecodeStep
  PROVE  head' \in HeadType /\ status' \in {"head", "body"}
<1>1. head \in HeadType /\ status \in {"head", "body"}
  BY DEF ReceiverInv
<1>2. ASSUME NEW h \in HeadType, ReadHead(h)
      PROVE  head' \in HeadType /\ status' \in {"head", "body"}
  BY <1>1, <1>2 DEF ReadHead, Throw
<1>3. CASE ParseHead
  <2>1. ASSUME NEW i \in DOMAIN sent, NEW d \in DetailSeen(sent[i])
        PROVE  HeadOf(sent[i], d) \in HeadType
    <3>1. sent[i] \in WireMessage
      BY DEF ReceiverInv
    <3> QED
      BY <3>1 DEF WireMessage, HeadOf, DetailSeen, HeadType, Detail
  <2> QED
    BY <1>2, <1>3, <2>1, GarbageAssumption DEF ParseHead
<1>4. ASSUME NEW b, Finish(b)
      PROVE  head' \in HeadType /\ status' \in {"head", "body"}
  BY <1>4 DEF Finish, NoHead, HeadType, Service, Detail
<1>5. ASSUME Throw, UNCHANGED head
      PROVE  head' \in HeadType /\ status' \in {"head", "body"}
  BY <1>1, <1>5 DEF Throw
<1>6. CASE Return
  BY <1>1, <1>6 DEF Return
<1>7. CASE ParseJson \/ ParseImage \/ ParseOther
  BY <1>4, <1>5, <1>7 DEF ParseJson, ParseImage, ParseOther
<1>8. CASE ParseString
  BY <1>1, <1>4, <1>8 DEF ParseString
<1> QED
  BY <1>3, <1>6, <1>7, <1>8 DEF DecodeStep

(* A step of parse() moves neither the stream nor recvMsg().               *)
LEMMA ParseStays ==
  ASSUME DecodeStep
  PROVE  UNCHANGED <<sent, base, total, taken, parsed>> /\ dpc = "loop"
<1>1. ASSUME NEW b, Finish(b) PROVE UNCHANGED <<sent, base, total, taken, parsed>>
  BY <1>1 DEF Finish, stream
<1>2. ASSUME Throw PROVE UNCHANGED <<sent, base, total, taken, parsed>>
  BY <1>2 DEF Throw, stream
<1>3. ASSUME NEW h, ReadHead(h) PROVE UNCHANGED <<sent, base, total, taken, parsed>>
  BY <1>2, <1>3 DEF ReadHead, stream
<1> QED
  BY <1>1, <1>2, <1>3
     DEF DecodeStep, Return, ParseHead, ParseJson, ParseImage, ParseOther,
         ParseString, InBody, stream

(* The sender.                                                             *)
LEMMA PutKeeps ==
  ASSUME ReceiverInv, NEW m \in WireMessage, NEW n \in Nat, Put(m, n)
  PROVE  ReceiverInv'
<1>1. sent' \in Seq(WireMessage)
  BY DEF Put, ReceiverInv
<1>2. total' \in Nat /\ taken' \in 0 .. total'
  BY DEF Put, ReceiverInv
<1> QED
  BY <1>1, <1>2 DEF Put, ReceiverInv, decoder

(* sendData() with a head that is right, encode(string) with any.          *)
LEMMA SendKeeps ==
  ASSUME ReceiverInv, NEW m \in Message, SendData(m) \/ SendString(m)
  PROVE  ReceiverInv'
<1>1. CASE SendData(m)
  <2>1. m \in WireMessage /\ m.size \in Nat
    BY MessageAssumption DEF WireMessage
  <2>2. PICK n \in 1 .. m.size : Put(m, n)
    BY <1>1 DEF SendData
  <2> QED
    BY <2>1, <2>2, PutKeeps
<1>2. CASE SendString(m)
  <2>1. PICK h \in GarbageHead, n \in 1 .. HeadSize + TrueSize :
          Put([service |-> h.service, detail |-> h.detail, len |-> h.len,
               text |-> FALSE, size |-> HeadSize + TrueSize], n)
    BY <1>2 DEF SendString
  <2>2. /\ [service |-> h.service, detail |-> h.detail, len |-> h.len,
            text |-> FALSE, size |-> HeadSize + TrueSize] \in WireMessage
        /\ n \in Nat
    BY GarbageAssumption, SizeAssumption, ConnectionAssumption
       DEF WireMessage, HeadType
  <2> QED
    BY <2>1, <2>2, PutKeeps
<1> QED
  BY <1>1, <1>2

(* The invariant holds initially.                                          *)
LEMMA ReceiverInit == ConnectionInit => ReceiverInv
BY GarbageAssumption DEF ConnectionInit, Init, ReceiverInv

(* Each step of either end keeps it.                                       *)
LEMMA ReceiverNext == ReceiverInv /\ [ConnectionNext]_allVars => ReceiverInv'
<1> SUFFICES ASSUME ReceiverInv, [ConnectionNext]_allVars PROVE ReceiverInv'
  OBVIOUS
<1>1. ASSUME NEW m \in Message, SendData(m) \/ SendString(m) PROVE ReceiverInv'
  BY <1>1, SendKeeps
<1>2. CASE Close \/ RecvMsg \/ RecvOverrun \/ RecvFails \/ UNCHANGED allVars
  BY <1>2
     DEF Close, RecvMsg, RecvOverrun, RecvFails, allVars, vars, stream, decoder,
         connection, ReceiverInv
<1>3. CASE RecvTest \/ RecvBreak
  BY <1>3 DEF RecvTest, RecvBreak, stream, ReceiverInv
<1>4. CASE RecvHead
  <2>1. CASE UNCHANGED vars /\ rpc' = AfterEmptyRead
    BY <2>1 DEF AfterEmptyRead, vars, stream, decoder, ReceiverInv
  <2>2. CASE Parse(Readn(HeadSize)) /\ rpc' = "parse"
    <3>1. PICK n \in Nat : n = Readn(HeadSize) /\ n <= total - taken
      BY ReadnBounds, SizeAssumption
    <3>2. buf' \in Seq(Nat)
      BY <2>2, <3>1, AppendedType DEF ReceiverInv
    <3>3. taken' \in 0 .. total
      BY <2>2, <3>1 DEF Parse, ReceiverInv
    <3> QED
      BY <2>2, <3>2, <3>3 DEF Parse, stream, ReceiverInv
  <2> QED
    BY <1>4, <2>1, <2>2 DEF RecvHead
<1>5. CASE RecvParse
  <2>1. CASE DecodeStep /\ UNCHANGED rpc
    <3>1. head \in HeadType /\ head.len \in Nat /\ buf \in Seq(Nat) /\ status \in {"head", "body"}
      BY DEF ReceiverInv, HeadType
    <3>2. buf' \in Seq(Nat)
      BY <2>1, <3>1, TurnOfParse
    <3> QED
      BY <2>1, <3>2, HeadRead, ParseStays DEF ReceiverInv
  <2>2. CASE UNCHANGED vars /\ rpc' = "readBody"
    BY <2>2 DEF vars, stream, decoder, ReceiverInv
  <2> QED
    BY <1>5, <2>1, <2>2 DEF RecvParse
<1>6. CASE RecvBody
  <2>1. PICK n \in Nat : n = Readn(LenStillNeed) /\ n <= total - taken
    BY ReadnBounds, NeedIsNatural
  <2>2. taken' \in 0 .. total
    BY <1>6, <2>1 DEF RecvBody, ReceiverInv
  <2> QED
    BY <1>6, <2>2 DEF RecvBody, AfterEmptyRead, stream, decoder, ReceiverInv
<1> QED
  BY <1>1, <1>2, <1>3, <1>4, <1>5, <1>6 DEF ConnectionNext, RecvStep

-----------------------------------------------------------------------------
(* There is no message for recvMsg() to return, and it has returned none.  *)
NothingIsReceived == parsed = <<>> /\ rpc # "true"

(* recvMsg() never returns a message, whoever sends what: parseBody() adds *)
(* nothing to data_parsed_, which stays empty.                             *)
THEOREM NothingReceived == ConnectionSpec => []NothingIsReceived
<1>1. ConnectionInit => NothingIsReceived
  BY DEF ConnectionInit, Init, NothingIsReceived
<1>2. NothingIsReceived /\ [ConnectionNext]_allVars => NothingIsReceived'
  <2> SUFFICES ASSUME NothingIsReceived, [ConnectionNext]_allVars
               PROVE  NothingIsReceived'
    OBVIOUS
  <2>1. CASE RecvTest \/ RecvBreak
    BY <2>1 DEF RecvTest, RecvBreak, AfterPop, NothingIsReceived
  <2>2. CASE RecvHead
    BY <2>2
       DEF RecvHead, AfterEmptyRead, Parse, vars, decoder, NothingIsReceived
  <2>3. CASE RecvParse
    BY <2>3, ParseStays DEF RecvParse, vars, decoder, NothingIsReceived
  <2>4. CASE RecvBody
    BY <2>4 DEF RecvBody, AfterEmptyRead, decoder, NothingIsReceived
  <2>5. CASE Close \/ RecvMsg \/ RecvOverrun \/ RecvFails \/ UNCHANGED allVars
    BY <2>5
       DEF Close, RecvMsg, RecvOverrun, RecvFails, allVars, vars, decoder,
           connection, NothingIsReceived
  <2>6. ASSUME NEW m \in Message, SendData(m) \/ SendString(m)
        PROVE  NothingIsReceived'
    BY <2>6 DEF SendData, SendString, Put, decoder, NothingIsReceived
  <2> QED
    BY <2>1, <2>2, <2>3, <2>4, <2>5, <2>6 DEF ConnectionNext, RecvStep
<1> QED
  BY <1>1, <1>2, PTL DEF ConnectionSpec

-----------------------------------------------------------------------------
(* Where recvMsg() is in its loop.                                         *)
Turn ==
  IF rpc = "test" THEN 3 ELSE IF rpc \in {"readHead", "readBody"} THEN 2
  ELSE IF rpc = "break" THEN 1 ELSE IF rpc # "parse" THEN 0
  ELSE IF dpc # "loop" THEN 3 ELSE IF status = "head" THEN 5 ELSE 4

(* The rank of a state by the bytes that are left, in the socket and in    *)
(* the buffer.                                                             *)
LEMMA RankIs ==
  ASSUME NEW r \in Nat, NEW l \in Nat, NEW t \in 0 .. 5,
         r = total - taken, l = Len(buf), t = Turn
  PROVE  RecvRank = 6 * r + 2 * l + t
<1>1. RecvRank = 6 * (total - taken) + 2 * Len(buf) + Turn
  BY DEF RecvRank, Turn
<1> QED
  BY <1>1

(* The same of the next state.                                             *)
LEMMA NextRankIs ==
  ASSUME NEW r \in Nat, NEW l \in Nat, NEW t \in 0 .. 5,
         r = total' - taken', l = Len(buf'), t = Turn'
  PROVE  RecvRank' = 6 * r + 2 * l + t
<1>1. RecvRank' = 6 * (total' - taken') + 2 * Len(buf') + Turn'
  BY DEF RecvRank, Turn
<1> QED
  BY <1>1

(* Each step leaves less to do, unless the message in hand has length 0.   *)
LEMMA ReceiveTurn ==
  ASSUME ReceiverInv, RecvStep
  PROVE  /\ RecvRank \in Nat
         /\ RecvRank' < RecvRank \/ (rpc = "parse" /\ NothingToErase)
<1> DEFINE Goal == /\ RecvRank \in Nat
                   /\ RecvRank' < RecvRank \/ (rpc = "parse" /\ NothingToErase)
<1>1. PICK r \in Nat, l \in Nat, t \in 0 .. 5 :
        r = total - taken /\ l = Len(buf) /\ t = Turn
  <2>1. total - taken \in Nat /\ Len(buf) \in Nat /\ Turn \in 0 .. 5
    BY DEF ReceiverInv, Turn
  <2> QED
    BY <2>1
<1>2. RecvRank = 6 * r + 2 * l + t
  BY <1>1, RankIs
<1>3. ASSUME UNCHANGED <<total, taken, buf>>, NEW u \in 0 .. 5, u = Turn', u < t
      PROVE  Goal
  <2>1. RecvRank' = 6 * r + 2 * l + u
    BY <1>1, <1>3, NextRankIs
  <2>2. u < t
    BY <1>3
  <2> QED
    BY <1>2, <2>1, <2>2
<1>4. CASE RecvTest \/ RecvBreak
  <2>1. UNCHANGED <<total, taken, buf>>
    BY <1>4 DEF RecvTest, RecvBreak, stream
  <2>2. PICK u \in 0 .. 2 : u = Turn' /\ u < t
    <3>1. CASE RecvTest
      <4>1. t = 3 /\ Turn' \in {0, 2}
        BY <1>1, <3>1 DEF RecvTest, Turn
      <4> QED
        BY <4>1
    <3>2. CASE RecvBreak
      <4>1. t = 1 /\ Turn' = 0
        BY <1>1, <3>2 DEF RecvBreak, Turn
      <4> QED
        BY <4>1
    <3> QED
      BY <1>4, <3>1, <3>2
  <2> QED
    BY <1>3, <2>1, <2>2
<1>5. CASE RecvHead
  <2>1. CASE UNCHANGED vars /\ rpc' = AfterEmptyRead
    <3>1. t = 2 /\ Turn' = 1 /\ UNCHANGED <<total, taken, buf>>
      BY <1>1, <1>5, <2>1 DEF RecvHead, AfterEmptyRead, Turn, vars, stream, decoder
    <3> QED
      BY <1>3, <3>1
  <2>2. CASE Readn(HeadSize) > 0 /\ Parse(Readn(HeadSize)) /\ rpc' = "parse"
    <3>1. PICK n \in Nat : n = Readn(HeadSize) /\ n <= r /\ n > 0
      BY <1>1, <2>2, ReadnBounds, SizeAssumption
    <3>2. /\ total' = total /\ taken' = taken + n /\ Len(buf') = l + n
      BY <1>1, <2>2, <3>1, AppendedType DEF Parse, stream, ReceiverInv
    <3>3. PICK u \in 0 .. 5 : u = Turn'
      BY <2>2 DEF Parse, Turn
    <3>4. PICK s \in Nat, m \in Nat :
            s = total' - taken' /\ s = r - n /\ m = Len(buf') /\ m = l + n
      <4>1. total \in Int /\ taken \in Int
        BY DEF ReceiverInv
      <4>2. total - (taken + n) = r - n /\ r - n \in Nat /\ l + n \in Nat
        BY <1>1, <3>1, <4>1
      <4> QED
        BY <3>2, <4>2
    <3>5. RecvRank' = 6 * s + 2 * m + u
      BY <3>3, <3>4, NextRankIs, Zenon
    <3>6. t = 2
      BY <1>1, <1>5 DEF RecvHead, Turn
    <3>7. n > 0 /\ s = r - n /\ m = l + n
      BY <3>1, <3>4
    <3> QED
      BY <1>2, <3>5, <3>6, <3>7
  <2> QED
    BY <1>5, <2>1, <2>2 DEF RecvHead
<1>6. CASE RecvParse
  <2>1. CASE UNCHANGED vars /\ rpc' = "readBody" /\ dpc = "idle"
    <3>1. t = 3 /\ Turn' = 2 /\ UNCHANGED <<total, taken, buf>>
      BY <1>1, <1>6, <2>1 DEF RecvParse, Turn, vars, stream, decoder
    <3> QED
      BY <1>3, <3>1
  <2>2. CASE DecodeStep /\ UNCHANGED rpc
    <3>1. /\ head.len \in Nat /\ buf \in Seq(Nat) /\ status \in {"head", "body"}
          /\ rpc = "parse" /\ rpc' = "parse"
          /\ UNCHANGED <<total, taken>> /\ dpc = "loop"
      BY <1>6, <2>2, ParseStays DEF ReceiverInv, HeadType, RecvParse
    <3>2. CASE dpc' # "loop" /\ buf' = buf
      <4>1. t \in {4, 5} /\ Turn' = 3
        BY <1>1, <3>1, <3>2 DEF Turn
      <4> QED
        BY <1>3, <3>1, <3>2, <4>1
    <3>3. CASE status = "head" /\ status' = "body" /\ buf' = buf /\ dpc' = "loop"
      <4>1. t = 5 /\ Turn' = 4
        BY <1>1, <3>1, <3>3 DEF Turn
      <4> QED
        BY <1>3, <3>1, <3>3, <4>1
    <3>4. CASE /\ InBody /\ status' = "head" /\ dpc' = "loop"
               /\ Len(buf') = Len(buf) - head.len /\ head.len <= Len(buf)
               /\ \/ head.service = "data" /\ head.detail # "image"
                  \/ head.len >= HeadSize
      <4>1. PICK n \in Nat : n = head.len /\ n <= l
        BY <1>1, <3>1, <3>4
      <4>2. t = 4 /\ Turn' = 5
        BY <1>1, <3>1, <3>4 DEF InBody, Turn
      <4>3. PICK m \in Nat : m = l - n /\ m = Len(buf') /\ r = total' - taken'
        BY <1>1, <3>1, <3>4, <4>1
      <4>4. PICK u \in 0 .. 5 : u = Turn' /\ u = 5
        BY <4>2
      <4>5. RecvRank' = 6 * r + 2 * m + u
        BY <4>3, <4>4, NextRankIs, Zenon
      <4>6. t = 4 /\ m = l - n
        BY <4>2, <4>3
      <4>7. RecvRank \in Nat /\ (n # 0 => RecvRank' < RecvRank)
        BY <1>2, <4>5, <4>6
      <4>8. n = 0 => NothingToErase
        BY <3>4, <4>1, SizeAssumption DEF NothingToErase
      <4> QED
        BY <3>1, <4>7, <4>8
    <3> QED
      BY <2>2, <3>1, <3>2, <3>3, <3>4, TurnOfParse
  <2> QED
    BY <1>6, <2>1, <2>2 DEF RecvParse
<1>7. CASE RecvBody
  <2>1. PICK n \in Nat : n = Readn(LenStillNeed) /\ n <= r
    BY <1>1, ReadnBounds, NeedIsNatural
  <2>2. /\ total' = total /\ taken' = taken + n /\ buf' = buf /\ t = 2
        /\ rpc' = IF n = 0 THEN "break" ELSE "test"
    BY <1>1, <1>7, <2>1 DEF RecvBody, AfterEmptyRead, stream, decoder, Turn
  <2>3. PICK u \in 0 .. 5 : u = Turn' /\ u <= 3 /\ (n = 0 => u = 1)
    BY <2>2 DEF Turn
  <2>4. PICK s \in Nat : s = total' - taken' /\ s = r - n /\ l = Len(buf')
    <3>1. total \in Int /\ taken \in Int
      BY DEF ReceiverInv
    <3>2. total - (taken + n) = r - n /\ r - n \in Nat
      BY <1>1, <2>1, <3>1
    <3> QED
      BY <1>1, <2>2, <3>2
  <2>5. RecvRank' = 6 * s + 2 * l + u
    BY <2>3, <2>4, NextRankIs, Zenon
  <2>6. RecvRank = 6 * r + 2 * l + 2
    BY <1>2, <2>2
  <2>7. u \in Int /\ u <= 3 /\ (n = 0 => u = 1) /\ s = r - n
    BY <2>3, <2>4
  <2> QED
    BY <2>5, <2>6, <2>7
<1>8. CASE RecvOverrun
  <2>1. t = 2 /\ Turn' = 0 /\ UNCHANGED <<total, taken, buf>>
    BY <1>1, <1>8 DEF RecvOverrun, Turn, vars, stream, decoder
  <2> QED
    BY <1>3, <2>1
<1> QED
  BY <1>4, <1>5, <1>6, <1>7, <1>8 DEF RecvStep

(* recvMsg() comes back, wherever the stream ends, in the middle of a      *)
(* message too, and whatever its heads say, unless it meets one of length  *)
(* 0, of data that is not refused.                                         *)
THEOREM ReceiveIsBounded == ConnectionSpec => RecvAdvances
<1>1. ReceiverInv /\ [ConnectionNext]_allVars =>
        [RecvStep =>
           /\ RecvRank \in Nat
           /\ RecvRank' < RecvRank \/ (rpc = "parse" /\ NothingToErase)]_allVars
  BY ReceiveTurn
<1> QED
  BY <1>1, ReceiverInit, ReceiverNext, PTL DEF ConnectionSpec, RecvAdvances
=============================================================================
