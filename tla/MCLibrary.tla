----------------------------- MODULE MCLibrary -----------------------------
(* An instance of Library for TLC.                                         *)
EXTENDS Library

(* A line of two bytes, an empty one, and the start of a third.            *)
MCNewline == {2, 3}
MCRequest == 0 .. 3

(* stdin and two more descriptors; -1 is none of them.                     *)
MCFd == 0 .. 2
MCSlot == {-1, 0, 1, 2}

(* LONG_MIN is -64, a power of 2 and 8, and not of the others.             *)
MCRadix == {2, 3, 8, 10, 16}

(* Messages of a head and of a head and one or two bytes.                  *)
MCMail ==
  {[kind |-> "string", len |-> 2], [kind |-> "string", len |-> 3],
   [kind |-> "json", len |-> 3], [kind |-> "json", len |-> 4],
   [kind |-> "bad", len |-> 2], [kind |-> "bad", len |-> 3],
   [kind |-> "other", len |-> 3], [kind |-> "short", len |-> 2]}
=============================================================================
