--------------------------- MODULE VideoTransfer ---------------------------
(***************************************************************************)
(* videosTransfer/: send_image() of a child of the server, and             *)
(* receive_videos() of its client.  Every image is preceded by a field of  *)
(* fixed size with its length.  recv() may return a part of a field only;  *)
(* the client uses it as if it were the whole.                             *)
(*                                                                         *)
(* A byte is its position in the stream.                                   *)
(***************************************************************************)
EXTENDS Integers, Sequences

CONSTANTS
  FieldSize,     \* bytes of a length field (16)
  Frame,         \* sizes of encoded images
  MaxFrames,     \* bound on their number
  MaxLen         \* bound on the lengths that wrong fields give

ASSUME FrameAssumption ==
  FieldSize \in Nat \ {0} /\ Frame \subseteq Nat /\ MaxLen \in Nat

VARIABLES
  frames,        \* images sent: [from, len], from: bytes before the image
  stream,        \* bytes sent
  over,          \* the server sends no more
  taken,         \* bytes that recv() has returned
  client,        \* "field": the first recv(); "image": the inner loop
  len,           \* atoi() of the field
  count,         \* i of the inner loop
  first,         \* bytes received before the image
  broken,        \* history: recv() has returned less than it was asked for
  shown          \* history: images shown before that

videoVars ==
  <<frames, stream, over, taken, client, len, count, first, broken, shown>>

Image == [from : Nat, len : Nat]
Received == [from |-> first, len |-> len]

(* for (int i = 0; i < len; i++)                                           *)
WrongFilled == count + 1 >= len
Filled == count >= len

-----------------------------------------------------------------------------
(* send() of the field, and of the image.                                  *)
SendImage(n) ==
  /\ ~over /\ Len(frames) < MaxFrames
  /\ frames' = Append(frames, [from |-> stream + FieldSize, len |-> n])
  /\ stream' = stream + FieldSize + n
  /\ UNCHANGED <<over, taken, client, len, count, first, broken, shown>>

(* The end of the video, or of the process, perhaps in the middle of what  *)
(* it sends.                                                               *)
StopSending(lost) ==
  /\ ~over
  /\ lost > 0 => frames # <<>> /\ lost <= FieldSize + frames[Len(frames)].len
  /\ stream' = stream - lost
  /\ over' = TRUE
  /\ UNCHANGED <<frames, taken, client, len, count, first, broken, shown>>

(* k bytes of a field.  Less than a whole one, and any that does not start *)
(* where a field starts, may contain any number.  recv() of 0 bytes (the   *)
(* end of the stream) goes round.                                          *)
RecvField(k) ==
  /\ client = "field" /\ taken + k <= stream
  /\ taken' = taken + k
  /\ IF k = FieldSize /\ \E i \in DOMAIN frames : frames[i].from = taken + k
     THEN \E i \in DOMAIN frames :
            frames[i].from = taken + k /\ len' = frames[i].len
     ELSE len' \in 0 .. MaxLen
  /\ broken' = (broken \/ k < FieldSize)
  /\ first' = taken + k
  /\ count' = 0
  /\ client' = "image"
  /\ UNCHANGED <<frames, stream, over, shown>>

(* -1 is taken for success; the buffer holds a byte of the last image.     *)
RecvFieldFails ==
  /\ client = "field"
  /\ len' \in 0 .. MaxLen
  /\ broken' = TRUE
  /\ first' = taken
  /\ count' = 0
  /\ client' = "image"
  /\ UNCHANGED <<frames, stream, over, taken, shown>>

RecvByte ==
  /\ client = "image" /\ ~Filled
  /\ taken < stream
  /\ taken' = taken + 1
  /\ count' = count + 1
  /\ UNCHANGED <<frames, stream, over, client, len, first, broken, shown>>

(* The stream has ended, or recv() fails: the byte before is used again.   *)
RecvNoByte ==
  /\ client = "image" /\ ~Filled
  /\ count' = count + 1
  /\ broken' = TRUE
  /\ UNCHANGED <<frames, stream, over, taken, client, len, first, shown>>

ShowImage ==
  /\ client = "image" /\ Filled
  /\ shown' = IF broken THEN shown ELSE Append(shown, Received)
  /\ client' = "field"
  /\ UNCHANGED <<frames, stream, over, taken, len, count, first, broken>>

(* imdecode() finds no image.                                              *)
NoImage ==
  /\ client = "image" /\ Filled
  /\ client' = "exit"
  /\ UNCHANGED <<frames, stream, over, taken, len, count, first, broken, shown>>

-----------------------------------------------------------------------------
VideoInit ==
  /\ frames = <<>> /\ stream = 0 /\ over = FALSE
  /\ taken = 0 /\ client = "field" /\ len = 0 /\ count = 0 /\ first = 0
  /\ broken = FALSE /\ shown = <<>>

VideoNext ==
  \/ \E n \in Frame : SendImage(n)
  \/ \E lost \in 0 .. stream - taken : StopSending(lost)
  \/ \E k \in 1 .. FieldSize : RecvField(k)
  \/ RecvFieldFails \/ RecvByte \/ RecvNoByte \/ ShowImage \/ NoImage

VideoSpec == VideoInit /\ [][VideoNext]_videoVars
-----------------------------------------------------------------------------
(* Properties                                                              *)

VideoTypeOK ==
  /\ frames \in Seq(Image)
  /\ stream \in Nat /\ over \in BOOLEAN
  /\ taken \in Nat /\ client \in {"field", "image", "exit"}
  /\ len \in Nat /\ count \in Nat /\ first \in Nat /\ broken \in BOOLEAN
  /\ shown \in Seq(Image)

(* Bytes sent with the first n images.                                     *)
Ended(n) == IF n = 0 THEN 0 ELSE frames[n].from + frames[n].len

(* The images of the stream follow one another.                            *)
FramesInv ==
  /\ \A i \in DOMAIN frames :
       /\ frames[i].from = FieldSize + Ended(i - 1)
       /\ \A j \in DOMAIN frames : i < j => Ended(i) + FieldSize <= frames[j].from
  /\ stream <= Ended(Len(frames))
  /\ ~over => stream = Ended(Len(frames))
  /\ taken <= stream

(* Where the client is in the stream.                                      *)
StepInv ==
  LET n == Len(shown) IN
  CASE client = "field" -> taken = Ended(n)
    [] client = "image" ->
         n < Len(frames) /\ Received = frames[n + 1] /\ count <= len
           /\ taken = first + count
    [] OTHER -> TRUE

(* Until recv() returns a part of a field, or nothing in an image, the     *)
(* client is in step with the server however the bytes are cut: it shows   *)
(* the images that were sent, whole, in order and none left out.           *)
ImagesAsSent ==
  ~broken =>
    /\ Len(shown) <= Len(frames)
    /\ \A j \in 1 .. Len(shown) : shown[j] = frames[j]
    /\ StepInv

(* The inductive invariant.                                                *)
VideoInv == VideoTypeOK /\ FramesInv /\ ImagesAsSent
=============================================================================
