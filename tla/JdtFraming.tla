----------------------------- MODULE JdtFraming -----------------------------
(***************************************************************************)
(* What jdt::Decode promises to whoever feeds it, without bytes, buffers   *)
(* or segments: the messages of one stream are taken off it one at a time  *)
(* and in order, and a message that cannot be read is never passed.        *)
(*                                                                         *)
(* "lost" is the state of a decoder that has read bytes that are not in    *)
(* its buffer, or has believed a head with a wrong length; nothing is      *)
(* promised after that.  JdtDecode (lib/jdt_parse.cc) is shown to          *)
(* implement this module.                                                  *)
(***************************************************************************)
EXTENDS Naturals, Sequences

CONSTANTS
  Message,               \* the messages a peer may send
  Readable(_),           \* those the decoder can read
  Ambiguous(_),          \* those it may pass over unread at the start
  MaxMessages            \* bound on the length of the stream

VARIABLES
  sent,                  \* the stream: messages in the order of sending
  done,                  \* how many of them have been taken off
  state                  \* "ok", "stuck" at message done + 1, or "lost"

framing == <<sent, done, state>>

Init == sent = <<>> /\ done = 0 /\ state = "ok"

Send(m) ==
  /\ Len(sent) < MaxMessages
  /\ sent' = Append(sent, m)
  /\ UNCHANGED <<done, state>>

Take ==
  /\ state = "ok"
  /\ done < Len(sent)
  /\ Readable(sent[done + 1]) \/ (done = 0 /\ Ambiguous(sent[1]))
  /\ done' = done + 1
  /\ UNCHANGED <<sent, state>>

Reject ==
  /\ state = "ok"
  /\ done < Len(sent)
  /\ ~Readable(sent[done + 1])
  /\ state' = "stuck"
  /\ UNCHANGED <<sent, done>>

Lose ==
  /\ state = "ok"
  /\ state' = "lost"
  /\ UNCHANGED <<sent, done>>

Next == (\E m \in Message : Send(m)) \/ Take \/ Reject \/ Lose

Safety == Init /\ [][Next]_framing

(* No message stays on the stream for ever because of how it was cut into  *)
(* segments.                                                               *)
Spec == Safety /\ WF_framing(Take \/ Reject)
=============================================================================
