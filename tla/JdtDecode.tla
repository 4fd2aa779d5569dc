----------------------------- MODULE JdtDecode -----------------------------
(***************************************************************************)
(* The class jdt::Decode that the Makefiles build (lib/jdt_parse.cc) on a  *)
(* stream of messages which TCP cuts into segments at will.                *)
(*                                                                         *)
(* A byte is its position in the stream: the bytes of message i are those  *)
(* after base[i] and up to base[i] + sent[i].size.  What parseHead() finds *)
(* in the first HeadSize bytes is the head of message i if these are the   *)
(* first bytes of message i and lie one after the other in memory.  What   *)
(* that head says of the length, sent[i].len, is never checked: it may be  *)
(* any number, 0 included.                                                 *)
(*                                                                         *)
(* The buffer data_parsing_ is a std::deque.  Its bytes are contiguous     *)
(* within a node only (512 of them in libstdc++), but parseHead() and      *)
(* parseJson() read on from &data_parsing_[0]: past the end of the node    *)
(* they see other memory, any head and any text.                           *)
(***************************************************************************)
EXTENDS Integers, Sequences

CONSTANTS
  HeadSize,      \* bytes of a head (12)
  NodeSize,      \* bytes of a node of the deque (512)
  Message,       \* messages a peer sends; text: the body is valid JSON;
                 \* len: what the head says; size: the bytes there are
  GarbageHead,   \* heads that other memory may look like
  MaxMessages    \* bound on the number of messages sent

Service == {"data", "cmd", "error", "unknown"}
Detail == {"json", "image", "other"}
HeadType == [service : Service, detail : Detail, len : Nat]

ASSUME SizeAssumption == HeadSize \in Nat \ {0} /\ NodeSize \in Nat \ {0}
ASSUME MessageAssumption ==
  Message \subseteq [service : Service, detail : Detail, len : Nat,
                     text : BOOLEAN, size : Nat]
ASSUME WholeHeadAssumption == \A m \in Message : m.size >= HeadSize
ASSUME GarbageAssumption == GarbageHead \subseteq HeadType

VARIABLES
  sent,          \* messages sent so far
  base,          \* base[i]: number of bytes before message i
  total,         \* number of bytes sent
  taken,         \* number of bytes taken from the socket
  buf,           \* data_parsing_
  start,         \* place of its first byte in the first node of the deque
  head,          \* curr_head_
  dirty,         \* the upper bytes of curr_head_.detail_type are not set yet
  status,        \* status_: "head" (PARSING_INIT too) or "body"
  dpc,           \* where parse() is; "idle": it has returned
  parsed,        \* data_parsed_
  done,          \* history: messages erased from the buffer
  bodies,        \* history: the Body that parseBody() built for each
  stuck,         \* history: an exception was thrown
  garbled        \* history: the decoder has taken for a head or a text what
                 \* is none, or has believed a wrong length

stream == <<sent, base, total>>
decoder == <<buf, start, head, dirty, status, dpc, parsed>>
ghosts == <<done, bodies, stuck, garbled>>
vars == <<stream, taken, decoder, ghosts>>

-----------------------------------------------------------------------------
(* The first n bytes that a pointer to the first byte of the buffer sees   *)
(* are the first n bytes of message i.                                     *)
Sees(i, n) ==
  /\ i \in DOMAIN sent
  /\ n <= Len(buf)
  /\ start + n <= NodeSize
  /\ \A k \in 1 .. n : buf[k] = base[i] + k

(* detail_type is a union: parseHead() assigns its lowest byte, and only   *)
(* the memset() in parseBody() has cleared the others.                     *)
HeadOf(m, d) == [service |-> m.service, detail |-> d, len |-> m.len]
DetailSeen(m) == IF dirty THEN {m.detail, "other"} ELSE {m.detail}

(* A head that the decoder accepts and that gives the length wrong.        *)
Misleads(m) == m.service # "unknown" /\ m.len # m.size

WrongHeadMissing == Len(buf) <= HeadSize
HeadMissing == Len(buf) < HeadSize

WrongBodyMissing == Len(buf) < head.len - HeadSize
BodyMissing == Len(buf) < head.len

(* erase(): the whole buffer is a clear(), which keeps the first node's    *)
(* place; anything less moves the place on.                                *)
WrongErased ==
  IF head.len < HeadSize THEN buf
  ELSE SubSeq(buf, head.len - HeadSize + 1, Len(buf))
Erased == SubSeq(buf, head.len + 1, Len(buf))
StartAfterErase ==
  IF head.len = Len(buf) THEN start ELSE (start + head.len) % NodeSize

(* memset(&curr_head_, 0, ...) clears the detail type, too.                *)
NoHead == [service |-> "unknown", detail |-> "other", len |-> 0]
WrongDirtyAfterBody == dirty
DirtyAfterBody == FALSE

(* After a message parse() looks for the next one: it is a while loop.     *)
WrongAfterBody == "idle"
AfterBody == "loop"

-----------------------------------------------------------------------------
(* The peer                                                                *)
Send(m) ==
  /\ Len(sent) < MaxMessages
  /\ sent' = Append(sent, m)
  /\ base' = Append(base, total)
  /\ total' = total + m.size
  /\ UNCHANGED <<taken, decoder, ghosts>>

(* parse(data, len) with the next n bytes of the stream.                   *)
Parse(n) ==
  /\ dpc = "idle"
  /\ taken + n <= total
  /\ buf' = buf \o [k \in 1 .. n |-> taken + k]
  /\ taken' = taken + n
  /\ dpc' = "loop"
  /\ UNCHANGED <<stream, start, head, dirty, status, parsed, ghosts>>

(* The return of parse(): nothing left, or not enough for a head or a body.*)
Return ==
  /\ dpc = "loop"
  /\ \/ buf = <<>>
     \/ buf # <<>> /\ status = "head" /\ HeadMissing
     \/ buf # <<>> /\ status = "body" /\ BodyMissing
  /\ dpc' = "idle"
  /\ UNCHANGED <<stream, taken, buf, start, head, dirty, status, parsed,
                 ghosts>>

(* An exception of parseHead() or parseBody(), caught in parse(): nothing  *)
(* is erased and status_ is not assigned.                                  *)
Throw ==
  /\ dpc' = "idle"
  /\ stuck' = TRUE
  /\ UNCHANGED <<stream, taken, buf, start, dirty, status, parsed, done,
                 bodies>>

ReadHead(h) ==
  \/ /\ h.service # "unknown"
     /\ head' = h
     /\ status' = "body"
     /\ UNCHANGED <<stream, taken, buf, start, dirty, dpc, parsed, done,
                    bodies, stuck>>
  \/ /\ h.service = "unknown"
     /\ Throw
     /\ UNCHANGED head

ParseHead ==
  /\ dpc = "loop" /\ buf # <<>> /\ status = "head" /\ ~HeadMissing
  /\ \/ \E i \in DOMAIN sent : \E d \in DetailSeen(sent[i]) :
          /\ Sees(i, HeadSize) /\ ReadHead(HeadOf(sent[i], d))
          /\ garbled' = (garbled \/ Misleads(sent[i]))
     \/ /\ \A i \in DOMAIN sent : ~Sees(i, HeadSize)
        /\ \E h \in GarbageHead : ReadHead(h)
        /\ garbled' = TRUE

(* The end of parseBody(): the bytes of the message and the head go; the   *)
(* Body goes too, it is not added to data_parsed_.                         *)
Finish(body) ==
  /\ buf' = Erased
  /\ start' = StartAfterErase
  /\ head' = NoHead
  /\ dirty' = DirtyAfterBody
  /\ status' = "head"
  /\ dpc' = AfterBody
  /\ done' = IF garbled' THEN done ELSE done + 1
  /\ bodies' = IF garbled' THEN bodies ELSE Append(bodies, body)
  /\ UNCHANGED <<stream, taken, parsed, stuck>>

InBody ==
  dpc = "loop" /\ buf # <<>> /\ status = "body" /\ ~BodyMissing

(* Data of type JSON.                                                      *)
ParseJson ==
  /\ InBody /\ head.service = "data" /\ head.detail = "json"
  /\ \E valid \in BOOLEAN :
       /\ \/ /\ ~garbled
             /\ \E i \in DOMAIN sent :
                  Sees(i, head.len) /\ valid = sent[i].text
             /\ UNCHANGED garbled
          \/ /\ garbled \/ \A i \in DOMAIN sent : ~Sees(i, head.len)
             /\ garbled' = TRUE
       /\ \/ valid /\ Finish("json")
          \/ ~valid /\ Throw /\ UNCHANGED head

(* Data of type image is refused.                                          *)
ParseImage ==
  /\ InBody /\ head.service = "data" /\ head.detail = "image"
  /\ Throw
  /\ UNCHANGED <<head, garbled>>

(* Data of any other type builds no Body at all.                           *)
ParseOther ==
  /\ InBody /\ head.service = "data" /\ head.detail = "other"
  /\ UNCHANGED garbled
  /\ Finish("none")

(* Commands and errors.  A string of a negative length is a length_error,  *)
(* which parse() does not catch.                                           *)
ParseString ==
  /\ InBody /\ head.service \in {"cmd", "error"}
  /\ UNCHANGED garbled
  /\ \/ head.len >= HeadSize /\ Finish("string")
     \/ /\ head.len < HeadSize
        /\ dpc' = "dead"
        /\ UNCHANGED <<stream, taken, buf, start, head, dirty, status,
                       parsed, done, bodies, stuck>>

DecodeStep ==
  \/ Return \/ ParseHead \/ ParseJson \/ ParseImage \/ ParseOther
  \/ ParseString

(* A Decode on the stack: the head is uninitialized.                       *)
Init ==
  /\ sent = <<>> /\ base = <<>> /\ total = 0 /\ taken = 0
  /\ buf = <<>> /\ start = 0 /\ parsed = <<>>
  /\ head \in GarbageHead /\ dirty \in BOOLEAN
  /\ status = "head" /\ dpc = "idle"
  /\ done = 0 /\ bodies = <<>> /\ stuck = FALSE /\ garbled = FALSE

Next ==
  \/ \E m \in Message : Send(m)
  \/ \E n \in 1 .. (total - taken) : Parse(n)
  \/ DecodeStep

(* Bytes that were sent arrive and are handed to parse().                  *)
Fairness ==
  /\ WF_vars(\E n \in 1 .. (total - taken) : Parse(n))
  /\ WF_vars(DecodeStep)

Spec == Init /\ [][Next]_vars /\ Fairness
-----------------------------------------------------------------------------
(* Properties                                                              *)

(* Every variable keeps its type.                                          *)
TypeOK ==
  /\ sent \in Seq(Message) /\ base \in Seq(Nat) /\ total \in Nat
  /\ taken \in Nat /\ buf \in Seq(Nat) /\ start \in 0 .. NodeSize - 1
  /\ head \in HeadType /\ dirty \in BOOLEAN
  /\ status \in {"head", "body"} /\ dpc \in {"idle", "loop", "dead"}
  /\ parsed \in Seq(Nat)
  /\ done \in Nat /\ bodies \in Seq({"json", "string", "none"})
  /\ stuck \in BOOLEAN /\ garbled \in BOOLEAN

(* Where in the stream message i begins; past the last one: its end.       *)
Begin(i) == IF i <= Len(sent) THEN base[i] ELSE total

(* However the stream was cut, the buffer holds what was taken from the    *)
(* first message not yet decoded on: no byte is lost, none is kept, and    *)
(* the head that parseBody() works with is the head of that message and    *)
(* ends where the message ends.  This holds until the decoder reads bytes  *)
(* past the node of its deque, or believes a head with a wrong length.     *)
Aligned ==
  ~garbled =>
    /\ done <= Len(sent)
    /\ taken = Begin(done + 1) + Len(buf)
    /\ \A k \in 1 .. Len(buf) : buf[k] = Begin(done + 1) + k
    /\ status = "body" =>
         /\ done < Len(sent)
         /\ head.service = sent[done + 1].service
         /\ head.len = sent[done + 1].size
         /\ HeadSize <= Len(buf)

(* When parse() returns, the buffer holds no complete message any more,    *)
(* however many one call had delivered, unless it stopped at an error.     *)
NothingLeftBehind ==
  dpc = "idle" /\ ~stuck /\ ~garbled /\ done < Len(sent)
    => Len(buf) < sent[done + 1].size

(* A message of a kind the decoder knows is never taken off without a Body *)
(* being built.  The one exception is the first message: its detail type   *)
(* has indeterminate upper bytes.                                          *)
OnlyFirstIsDropped ==
  \A i \in DOMAIN bodies :
    bodies[i] = "none" => sent[i].service = "data"
                          /\ (i = 1 \/ sent[i].detail = "other")

(* The parts of the inductive invariant behind these properties.           *)

(* Messages follow one another in the stream without gaps.                 *)
StreamInv ==
  /\ Len(base) = Len(sent) /\ taken <= total
  /\ \A i \in 1 .. Len(sent) : Begin(i + 1) = base[i] + sent[i].size
  /\ \A i \in 1 .. Len(sent) : base[i] < total
  /\ \A i, j \in 1 .. Len(sent) : i < j => base[i] < base[j]

(* The detail type is read right once the first message is through.        *)
DetailInv ==
  /\ Len(bodies) = done
  /\ done <= Len(sent)
  /\ dirty => done = 0
  /\ ~garbled /\ status = "body" =>
       head.detail = sent[done + 1].detail \/ (dirty /\ head.detail = "other")

(* Whatever arrives after an error, the decoder sees the same message and  *)
(* refuses it again.                                                       *)
StuckInv ==
  stuck /\ ~garbled =>
    /\ done < Len(sent)
    /\ status = "head" =>
         sent[done + 1].service = "unknown" /\ Sees(done + 1, HeadSize)
    /\ status = "body" =>
         /\ head.service = "data"
         /\ \/ head.detail = "image"
            \/ /\ head.detail = "json" /\ ~sent[done + 1].text
               /\ Sees(done + 1, head.len)

DecodeInv ==
  /\ TypeOK /\ StreamInv /\ Aligned /\ DetailInv /\ StuckInv
  /\ NothingLeftBehind /\ OnlyFirstIsDropped

(* Whether the decoder can read a message.                                 *)
Readable(m) ==
  /\ m.service # "unknown"
  /\ m.service = "data" => m.detail # "image" /\ (m.detail = "json" => m.text)

StreamState ==
  IF garbled THEN "lost" ELSE IF stuck THEN "stuck" ELSE "ok"
Ambiguous(m) == m.service = "data"
Framing == INSTANCE JdtFraming WITH state <- StreamState

(* The decoder takes the messages off as the abstract framing promises,    *)
(* and each one that arrives is taken or rejected at last.                 *)
ImplementsFraming == Framing!Spec

(* jdt_parse.hpp: parse the data saved in data_parsing_.  The bytes that a *)
(* pointer to its first byte sees are saved there as far as the node goes. *)
ParsesSavedData ==
  dpc = "loop" =>
    /\ status = "head" /\ ~HeadMissing => start + HeadSize <= NodeSize
    /\ InBody /\ head.service = "data" /\ head.detail = "json" =>
         start + head.len <= NodeSize

(* What is left for parse() to do with the bytes in the buffer.            *)
ParseRank ==
  IF dpc = "loop" THEN 2 * Len(buf) + (IF status = "head" THEN 2 ELSE 1) ELSE 0

(* A head that says length 0, of data that builds no Body or has a text    *)
(* that passes for JSON: parseBody() succeeds and erases nothing.          *)
NothingToErase ==
  InBody /\ head.len = 0 /\ head.service = "data" /\ head.detail # "image"

(* Each turn of the loop of parse() takes something off, whatever heads    *)
(* the peer sends and wherever the decoder reads, with one exception,      *)
(* which nothing in the code rules out: the message of length 0.  parse()  *)
(* erases none of its bytes and meets its head again, for ever.            *)
ParseAdvances ==
  [][DecodeStep => ParseRank' < ParseRank \/ NothingToErase]_vars
=============================================================================
