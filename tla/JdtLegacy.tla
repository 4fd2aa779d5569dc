----------------------------- MODULE JdtLegacy -----------------------------
(***************************************************************************)
(* The first version of the protocol, lib/jdt.cc: Jdt::sendMsg() at a peer *)
(* and Jdt::recvMsg() with its Decode at the other end of the connection.  *)
(*                                                                         *)
(* A byte is its position in the stream; the buffer data_parsing_ is the   *)
(* bytes after `low` up to `seen`.  As in JdtDecode its deque is contiguous*)
(* in nodes only, and parseHead() and parseJson() read on from its first   *)
(* byte; parseString() uses iterators.  A read past the node is undefined, *)
(* and so is a null msg->isValid(): the model stops at either.             *)
(***************************************************************************)
EXTENDS Integers, Sequences

CONSTANTS
  HEAD_SIZE,     \* bytes of a head (8)
  MAXLINE,       \* bytes that recvMsg() reads at a time (8192)
  DequeNode,     \* bytes of a node of the deque (512)
  Mail,          \* [kind, len] of the messages that peers send
  MaxMail        \* bound on their number

(* bad: not JSON, but said to be; short: said to be shorter than a head.   *)
Kind == {"string", "json", "bad", "other", "short"}

ASSUME LegacySizeAssumption ==
  HEAD_SIZE \in Nat \ {0} /\ MAXLINE \in Nat \ {0} /\ DequeNode \in Nat \ {0}
ASSUME MailAssumption ==
  /\ Mail \subseteq [kind : Kind, len : Nat]
  /\ \A m \in Mail : m.len >= HEAD_SIZE

VARIABLES
  mail,          \* messages sent: [kind, len, from], from: bytes before it
  size,          \* bytes of the stream
  shut,          \* the peer sends no more
  seen,          \* bytes that Rio_readn() has returned
  low,           \* bytes erased from the buffer
  offset,        \* place of the first byte of the buffer in its node
  status,        \* status_: "head" (PARSING_INIT too) or "body"
  header,        \* curr_head_: [type, len]
  where,         \* where recvMsg() is; "dead", "undefined": see above
  ready,         \* data_parsed_
  got            \* history: what recvMsg() has returned

decode == <<low, offset, status, header, ready>>
legacyVars == <<mail, size, shut, seen, decode, where, got>>

Where == {"out", "loop", "parse", "dead", "undefined", "exit"}
Type == {"string", "json", "other", "short", "zero"}
Letter == [kind : Kind, len : Nat, from : Nat]

-----------------------------------------------------------------------------
Length == seen - low

(* The first n bytes of the buffer lie in one node.                        *)
Contiguous(n) == offset + n <= DequeNode

TypeOf(kind) == IF kind = "bad" THEN "json" ELSE kind
LenOf(m) == IF m.kind = "short" THEN 0 ELSE m.len
HeaderOf(m) == [type |-> TypeOf(m.kind), len |-> LenOf(m)]

WrongShort == Length <= HEAD_SIZE
Short == Length < HEAD_SIZE
Incomplete == Length < header.len

(* The bytes that are taken for a message.                                 *)
Body(kind) == [kind |-> kind, len |-> header.len, from |-> low]
Sent(m) == \E i \in DOMAIN mail : mail[i] = m

(* erase(), which is a clear() for the whole buffer, and memset().         *)
WrongErased == low + header.len - HEAD_SIZE
Erased == low + header.len
Offset == IF header.len = Length THEN offset
          ELSE (offset + header.len) % DequeNode
ZeroHead == [type |-> "zero", len |-> 0]

WrongStatusAfter(ok) == "body"
StatusAfter(ok) == IF ok THEN "head" ELSE status

(* Rio_readn(): MAXLINE bytes, or those before the end of the stream.      *)
Readable == IF size - seen < MAXLINE THEN size - seen ELSE MAXLINE

-----------------------------------------------------------------------------
(* The peer: sendMsg() of a string or a Json::Value, or another program.   *)
(* The length in a head is right, or too short for the head itself; what   *)
(* comes after a head with any other wrong length is left out.             *)
SendMsg(m) ==
  /\ ~shut /\ Len(mail) < MaxMail
  /\ mail' = Append(mail, [kind |-> m.kind, len |-> m.len, from |-> size])
  /\ size' = size + m.len
  /\ UNCHANGED <<shut, seen, decode, where, got>>

(* The stream ends, perhaps in the middle of the last message.             *)
Shut(lost) ==
  /\ ~shut
  /\ lost > 0 => Len(mail) > 0 /\ lost < mail[Len(mail)].len
                 /\ size - lost >= seen
  /\ shut' = TRUE
  /\ size' = size - lost
  /\ UNCHANGED <<mail, seen, decode, where, got>>

-----------------------------------------------------------------------------
(* recvMsg()                                                               *)

RecvMsg ==
  /\ where = "out"
  /\ where' = "loop"
  /\ UNCHANGED <<mail, size, shut, seen, decode, got>>

(* The end of the loop: getOneMsg(true).                                   *)
GetOneMsg ==
  /\ where = "loop" /\ ready # <<>>
  /\ got' = Append(got, Head(ready))
  /\ ready' = Tail(ready)
  /\ where' = "out"
  /\ UNCHANGED <<mail, size, shut, seen, low, offset, status, header>>

Fill ==
  /\ where = "loop" /\ ready = <<>>
  /\ shut \/ Readable = MAXLINE
  /\ seen' = seen + Readable
  /\ where' = "parse"
  /\ UNCHANGED <<mail, size, shut, decode, got>>

(* Rio_readn() ends the process when read() fails.                         *)
FillFails ==
  /\ where = "loop" /\ ready = <<>>
  /\ where' = "exit"
  /\ UNCHANGED <<mail, size, shut, seen, decode, got>>

(* parse() returns; recvMsg() does not look at what.                       *)
ParseEnds ==
  /\ where = "parse"
  /\ \/ Length = 0
     \/ status = "head" /\ Short
     \/ status = "body" /\ Incomplete
  /\ where' = "loop"
  /\ UNCHANGED <<mail, size, shut, seen, decode, got>>

ParseHead ==
  /\ where = "parse" /\ Length > 0 /\ status = "head" /\ ~Short
  /\ Contiguous(HEAD_SIZE)
  /\ \E i \in DOMAIN mail :
       /\ mail[i].from = low
       /\ header' = HeaderOf(mail[i])
  /\ status' = "body"
  /\ UNCHANGED <<mail, size, shut, seen, low, offset, where, ready, got>>

AtBody(types) ==
  where = "parse" /\ Length > 0 /\ status = "body" /\ ~Incomplete
    /\ header.type \in types

(* What follows in parseBody() and in parse() when msg is set.             *)
Clear(ok) ==
  /\ low' = Erased
  /\ offset' = Offset
  /\ header' = ZeroHead
  /\ status' = StatusAfter(ok)
  /\ UNCHANGED <<mail, size, shut, seen, got>>

Push(kind) ==
  /\ ready' = Append(ready, Body(kind))
  /\ Clear(TRUE)
  /\ UNCHANGED where

ParseString ==
  /\ AtBody({"string"})
  /\ Push("string")

ParseJson ==
  /\ AtBody({"json"}) /\ Contiguous(header.len)
  /\ Sent(Body("json"))
  /\ Push("json")

(* The text is not JSON: it is erased, and parse() returns false before it *)
(* has set status_.                                                        *)
ParseBadJson ==
  /\ AtBody({"json"}) /\ Contiguous(header.len)
  /\ ~Sent(Body("json"))
  /\ Clear(FALSE)
  /\ where' = "loop"
  /\ UNCHANGED ready

(* No case sets msg.                                                       *)
NullMsg ==
  /\ AtBody({"other", "zero"})
  /\ where' = "dead"
  /\ UNCHANGED <<mail, size, shut, seen, decode, got>>

(* A length that does not count the head is not checked: the iterators of  *)
(* the string are out of order, which throws, and so are the ends of the   *)
(* JSON text, which is undefined.                                          *)
ShortLength ==
  /\ AtBody({"short"})
  /\ where' \in {"dead", "undefined"}
  /\ UNCHANGED <<mail, size, shut, seen, decode, got>>

ReadPastNode ==
  /\ \/ /\ where = "parse" /\ status = "head" /\ Length > 0 /\ ~Short
        /\ ~Contiguous(HEAD_SIZE)
     \/ AtBody({"json"}) /\ ~Contiguous(header.len)
  /\ where' = "undefined"
  /\ UNCHANGED <<mail, size, shut, seen, decode, got>>

LegacyStep ==
  \/ GetOneMsg \/ Fill \/ ParseEnds \/ ParseHead
  \/ ParseString \/ ParseJson \/ ParseBadJson \/ NullMsg \/ ShortLength
  \/ ReadPastNode

-----------------------------------------------------------------------------
LegacyInit ==
  /\ mail = <<>> /\ size = 0 /\ shut = FALSE /\ seen = 0
  /\ low = 0 /\ offset = 0 /\ status = "head" /\ header = ZeroHead
  /\ where = "out" /\ ready = <<>> /\ got = <<>>

LegacyNext ==
  \/ \E m \in Mail : SendMsg(m)
  \/ \E lost \in 0 .. size - seen : Shut(lost)
  \/ RecvMsg \/ LegacyStep \/ FillFails

(* The receiver runs on once recvMsg() is called.                          *)
LegacySpec ==
  LegacyInit /\ [][LegacyNext]_legacyVars /\ WF_legacyVars(LegacyStep)
-----------------------------------------------------------------------------
(* Properties                                                              *)

Fair(m) == m.kind \in {"string", "json"}
End(i) == mail[i].from + mail[i].len

LegacyTypeOK ==
  /\ mail \in Seq(Letter)
  /\ size \in Nat /\ shut \in BOOLEAN /\ seen \in Nat
  /\ low \in Nat /\ offset \in Nat /\ status \in {"head", "body"}
  /\ header \in [type : Type, len : Nat] /\ where \in Where
  /\ ready \in Seq(Letter)
  /\ got \in Seq(Letter)

(* The messages of the stream follow one another; the last one may have    *)
(* been cut off.                                                           *)
MailInv ==
  /\ \A i \in DOMAIN mail :
       /\ mail[i].len >= HEAD_SIZE
       /\ mail[i].from = IF i = 1 THEN 0 ELSE End(i - 1)
       /\ \A j \in DOMAIN mail : i < j => End(i) <= mail[j].from
  /\ IF mail = <<>> THEN size = 0
     ELSE /\ mail[Len(mail)].from < size
          /\ IF shut THEN size <= End(Len(mail)) ELSE size = End(Len(mail))

(* The buffer begins with a message whenever a head is looked for, and     *)
(* with the one that curr_head_ is of while its body is; after invalid     *)
(* JSON the head is zero and stays so.                                     *)
DequeInv ==
  /\ low <= seen /\ seen <= size
  /\ low = 0 \/ \E i \in DOMAIN mail : low = End(i)
  /\ status = "body" /\ header # ZeroHead =>
       /\ \E i \in DOMAIN mail :
            mail[i].from = low /\ header = HeaderOf(mail[i])
       /\ Length >= HEAD_SIZE
  /\ status = "body" /\ header = ZeroHead =>
       \E i \in DOMAIN mail : mail[i].kind = "bad" /\ low = End(i)

Taken == got \o ready

(* recvMsg() returns messages of the stream, in their order, each once,    *)
(* and none that could be decoded is skipped, however MAXLINE cuts them:   *)
(* what is erased is what was queued, and invalid JSON.                    *)
ReturnedInOrder ==
  /\ \A j \in 1 .. Len(Taken) :
       /\ Fair(Taken[j]) /\ Sent(Taken[j])
       /\ Taken[j].from < low
       /\ \A k \in 1 .. j - 1 : Taken[k].from < Taken[j].from
  /\ \A i \in DOMAIN mail :
       Fair(mail[i]) /\ mail[i].from < low =>
         \E j \in 1 .. Len(Taken) : Taken[j] = mail[i]

(* jdt.hpp: when parsing fails parseBody() does nothing and returns false. *)
(* The receiver is never ended, then, with a refused message behind it.    *)
RefusedDoesNothing ==
  where = "dead" =>
    \A i \in DOMAIN mail : mail[i].kind = "bad" => low <= mail[i].from

(* The receiver should not die of any message; RefusedDoesNothing tells    *)
(* how it does.  It does at most at a message of a type without a case or  *)
(* of a length less than a head's, and at the first byte after invalid     *)
(* JSON; and it reads outside the buffer only over such a length, or if    *)
(* the message does not lie in one node.                                   *)
DiesOnlyOfBadMail ==
  /\ where = "dead" =>
       \E i \in DOMAIN mail :
         \/ mail[i].kind \in {"other", "short"} /\ mail[i].from = low
         \/ mail[i].kind = "bad" /\ End(i) = low /\ low < seen
  /\ where = "undefined" =>
       \E i \in DOMAIN mail :
         /\ mail[i].from = low
         /\ mail[i].kind = "short" \/ offset + mail[i].len > DequeNode

(* The types, the stream, the buffer and the two properties above: the     *)
(* inductive invariant.                                                    *)
LegacyInv ==
  /\ LegacyTypeOK /\ MailInv /\ DequeInv
  /\ ReturnedInOrder /\ DiesOnlyOfBadMail

(* Whole messages that can be decoded and were not returned.               *)
Due ==
  /\ \A i \in DOMAIN mail : Fair(mail[i])
  /\ \E i \in DOMAIN mail :
       End(i) <= size /\ \A j \in 1 .. Len(got) : got[j] # mail[i]

(* When the peer has closed the connection every message that came whole   *)
(* is returned to a caller that waits.  (While it is open a message waits  *)
(* until MAXLINE bytes have come.)                                         *)
DeliversAtClose ==
  where \in {"loop", "parse"} /\ shut /\ Due
    ~> where \in {"out", "undefined", "exit"}

(* What recvMsg() has left to do with the bytes of the stream.             *)
LegacyRank ==
  6 * (size - seen) + 2 * Length
    + (IF where = "loop" THEN 1
       ELSE IF where # "parse" THEN 0
       ELSE IF status = "head" THEN 3 ELSE 2)

(* Each step of recvMsg() takes it on, except that at the end of the       *)
(* stream it reads nothing, parses nothing and begins again.               *)
LegacyAdvances ==
  [][LegacyStep =>
       /\ LegacyRank \in Nat
       /\ LegacyRank' < LegacyRank \/ (Fill /\ shut /\ seen = size)]_legacyVars
=============================================================================
