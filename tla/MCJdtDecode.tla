---------------------------- MODULE MCJdtDecode ----------------------------
(* Instances of JdtDecode for TLC: heads of 2 bytes, nodes of 6, so that   *)
(* two coalesced messages move the buffer to the end of its node.          *)
EXTENDS JdtDecode

Sent(s, d, l, t, n) ==
  [service |-> s, detail |-> d, len |-> l, text |-> t, size |-> n]
M(s, d, l, t) == Sent(s, d, l, t, l)

(* A command without and with a body, JSON data, a broken JSON text, an    *)
(* image, data of type text, and a head of no service.                     *)
MCHonest == {M("cmd", "other", 2, FALSE), M("error", "other", 3, FALSE),
             M("data", "json", 4, TRUE), M("data", "json", 3, FALSE),
             M("data", "image", 3, FALSE), M("data", "other", 3, FALSE),
             M("unknown", "other", 2, FALSE)}

(* Heads that lie: data of length 0, a command shorter than its head, one  *)
(* whose last byte is left over, one that reaches into the next message.   *)
MCLiar == {Sent("data", "other", 0, FALSE, 2), Sent("cmd", "other", 1, FALSE, 2),
           Sent("error", "other", 2, FALSE, 3), Sent("cmd", "other", 4, FALSE, 3)}

MCMessage == MCHonest \cup MCLiar

(* No service, a command shorter than a head, an empty message.            *)
MCGarbageHead == {HeadOf(m, m.detail) :
                    m \in {M("unknown", "json", 5, FALSE),
                           M("cmd", "json", 1, FALSE),
                           M("data", "other", 0, FALSE)}}
=============================================================================
