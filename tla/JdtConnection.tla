--------------------------- MODULE JdtConnection ---------------------------
(***************************************************************************)
(* The two ends of a jdt::Connection (lib/jdt_connection.cc): sendData(),  *)
(* sendCmd() and sendError() with the Encode class, and recvMsg() with the *)
(* Decode of JdtDecode.  Rio_readn(fd, buf, n) returns n bytes, or fewer   *)
(* once the peer has closed the connection, and ends the process if read() *)
(* fails.  Rio_writen() ends the process of the sender if write() fails,   *)
(* with a part of the message written.                                     *)
(***************************************************************************)
EXTENDS JdtDecode

CONSTANTS
  TrueSize,      \* bytes of the JSON text of `true` (5)
  Word,          \* 2^32, the range of the uint32_t of getLenStillNeed()
  BufSize        \* MAXLINE, the size of recvMsg()'s buffer

ASSUME ConnectionAssumption ==
  TrueSize \in Nat /\ Word \in Nat \ {0} /\ BufSize \in Nat

VARIABLES
  meant,         \* what the callers of the send functions passed
  closed,        \* the sender has closed the connection
  rpc            \* where recvMsg() is

connection == <<meant, closed, rpc>>
allVars == <<vars, connection>>

-----------------------------------------------------------------------------
(* The sending end.                                                        *)

(* Rio_writen() of message m.  A sender that is killed, or whose write()   *)
(* fails, has written no more than the first n bytes, and the kernel       *)
(* closes the connection behind them.                                      *)
Put(m, n) ==
  /\ ~closed /\ Len(sent) < MaxMessages
  /\ sent' = Append(sent, m)
  /\ base' = Append(base, total)
  /\ total' = total + n
  /\ closed' = (n < m.size)
  /\ UNCHANGED <<taken, decoder, ghosts, rpc>>

(* sendData(): encodeHead() writes the head, and the length is right.      *)
SendData(m) ==
  /\ m.service = "data" /\ m.detail = "json" /\ m.text /\ m.len = m.size
  /\ \E n \in 1 .. m.size : Put(m, n)
  /\ meant' = Append(meant, m)

(* sendCmd() and sendError(): encode(string) means to call encodeHead(),   *)
(* but encode(ptr, len, service, type) is encode(Json::Value, ...) with    *)
(* ptr converted to `true`.  Its result is dropped; the head stays what    *)
(* new uint8_t[] returned, and len is that of the other encoding.          *)
SendString(m) ==
  /\ m.service \in {"cmd", "error"}
  /\ \E h \in GarbageHead, n \in 1 .. HeadSize + TrueSize :
       Put([service |-> h.service, detail |-> h.detail, len |-> h.len,
            text |-> FALSE, size |-> HeadSize + TrueSize], n)
  /\ meant' = Append(meant, m)

Close ==
  /\ ~closed
  /\ closed' = TRUE
  /\ UNCHANGED <<vars, meant, rpc>>
-----------------------------------------------------------------------------
(* recvMsg()                                                               *)

(* A read that returns 0 ends the loop of recvMsg(); so does a message.    *)
WrongAfterEmptyRead == "test"
AfterEmptyRead == "break"
AfterPop == IF parsed = <<>> THEN <<>> ELSE Tail(parsed)

(* What Rio_readn() returns for n bytes; it blocks while `Blocks`.         *)
Readn(n) == IF n <= total - taken THEN n ELSE total - taken
Blocks(n) == ~closed /\ total - taken < n

(* getLenStillNeed(): an unsigned difference.                              *)
LenStillNeed == (head.len - Len(buf)) % Word

RecvMsg ==
  /\ rpc \in {"none", "true", "false"}
  /\ rpc' = "test"
  /\ UNCHANGED <<vars, meant, closed>>

(* while (decode_.empty()), and the end of the function.                   *)
RecvTest ==
  /\ rpc = "test"
  /\ rpc' = IF parsed = <<>> THEN "readHead" ELSE "true"
  /\ parsed' = AfterPop
  /\ UNCHANGED <<stream, taken, buf, start, head, dirty, status, dpc, ghosts,
                 meant, closed>>

(* Rio_readn() of a head, and the call of parse() with what it returned.   *)
RecvHead ==
  /\ rpc = "readHead" /\ ~Blocks(HeadSize)
  /\ \/ /\ Readn(HeadSize) = 0
        /\ rpc' = AfterEmptyRead
        /\ UNCHANGED vars
     \/ /\ Readn(HeadSize) > 0
        /\ rpc' = "parse"
        /\ Parse(Readn(HeadSize))
  /\ UNCHANGED <<meant, closed>>

RecvParse ==
  /\ rpc = "parse"
  /\ \/ /\ DecodeStep
        /\ UNCHANGED rpc
     \/ /\ dpc = "idle"
        /\ rpc' = "readBody"
        /\ UNCHANGED vars
  /\ UNCHANGED <<meant, closed>>

(* Rio_readn() of what the decoder says it needs, however much that is:    *)
(* the bytes are left in the local buffer.                                 *)
RecvBody ==
  /\ rpc = "readBody" /\ ~Blocks(LenStillNeed)
  /\ Readn(LenStillNeed) <= BufSize
  /\ taken' = taken + Readn(LenStillNeed)
  /\ rpc' = IF Readn(LenStillNeed) = 0 THEN AfterEmptyRead ELSE "test"
  /\ UNCHANGED <<stream, decoder, ghosts, meant, closed>>

(* More has come than the local buffer holds: read() writes past its end.  *)
RecvOverrun ==
  /\ rpc = "readBody" /\ Readn(LenStillNeed) > BufSize
  /\ rpc' = "overrun"
  /\ UNCHANGED <<vars, meant, closed>>

(* read() fails, on a connection that was reset: unix_error() exits.       *)
RecvFails ==
  /\ rpc \in {"readHead", "readBody"}
  /\ rpc' = "exit"
  /\ UNCHANGED <<vars, meant, closed>>

RecvBreak ==
  /\ rpc = "break"
  /\ rpc' = IF parsed = <<>> THEN "false" ELSE "true"
  /\ parsed' = AfterPop
  /\ UNCHANGED <<stream, taken, buf, start, head, dirty, status, dpc, ghosts,
                 meant, closed>>

RecvStep ==
  RecvTest \/ RecvHead \/ RecvParse \/ RecvBody \/ RecvOverrun \/ RecvBreak

ConnectionInit == Init /\ meant = <<>> /\ closed = FALSE /\ rpc = "none"

ConnectionNext ==
  \/ \E m \in Message : SendData(m) \/ SendString(m)
  \/ Close
  \/ RecvMsg \/ RecvStep \/ RecvFails

(* The receiver runs on once it is in recvMsg() and what it waits for has  *)
(* arrived; nobody has to send, to close or to call.                       *)
ConnectionSpec ==
  ConnectionInit /\ [][ConnectionNext]_allVars /\ WF_allVars(RecvStep)
-----------------------------------------------------------------------------
(* All bytes of message i have been written.                               *)
Arrived(i) == base[i] + sent[i].size <= total

(* jdt_parse.hpp: getLenStillNeed() returns how many bytes are needed for  *)
(* the message being parsed.  If every message was sent whole and through  *)
(* sendData(), that is no more than one of them has.                       *)
NeedsNoMoreThanMessage ==
  rpc = "readBody" /\ sent = meant /\ (\A i \in DOMAIN sent : Arrived(i))
    => \E i \in DOMAIN sent : LenStillNeed <= sent[i].size

(* jdt_connection.hpp: recvMsg() receives a message.  It returns without   *)
(* one only if the peer closed the connection before it had sent one.      *)
ReturnsWhatWasSent ==
  rpc = "false" /\ sent = meant => \A i \in DOMAIN sent : ~Arrived(i)

(* A caller of recvMsg() gets out of it once the stream has ended, be it   *)
(* between two messages or in the middle of a head or of a body, because   *)
(* the sender died or failed there: recvMsg() returns, or the process ends *)
(* by an error of read(), by an exception or by a write past the buffer.   *)
(* The one thing that can keep it for ever is a message of length 0, which *)
(* parse() meets again and again; a command of this library may be one.    *)
EndIsNoticed ==
  closed /\ rpc # "none" ~>
    \/ rpc \in {"true", "false", "exit", "overrun"}
    \/ dpc = "dead"
    \/ []<>NothingToErase

(* What recvMsg() has left to do with the bytes sent so far.               *)
RecvRank ==
  6 * (total - taken) + 2 * Len(buf)
    + (IF rpc = "test" THEN 3
       ELSE IF rpc \in {"readHead", "readBody"} THEN 2
       ELSE IF rpc = "break" THEN 1
       ELSE IF rpc # "parse" THEN 0
       ELSE IF dpc # "loop" THEN 3 ELSE IF status = "head" THEN 5 ELSE 4)

(* Every step of recvMsg() takes it on, whatever was sent and wherever it  *)
(* ends, except over a message of length 0, which is taken off for ever.   *)
RecvAdvances ==
  [][RecvStep =>
       /\ RecvRank \in Nat
       /\ RecvRank' < RecvRank \/ (rpc = "parse" /\ NothingToErase)]_allVars
=============================================================================
