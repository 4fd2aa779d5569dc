-------------------------- MODULE MCJdtConnection --------------------------
(* Instances of JdtConnection for TLC.                                     *)
EXTENDS JdtConnection

M(s, d, l, t) ==
  [service |-> s, detail |-> d, len |-> l, text |-> t, size |-> l]

(* JSON data whose body is shorter than a head and one that is not, and a  *)
(* command.                                                                *)
MCMessage == {M("data", "json", 3, TRUE), M("data", "json", 5, TRUE),
              M("cmd", "other", 4, FALSE)}

(* What new[] may leave in the head of a command: no service; the one byte *)
(* too few of a string; data of length 0; a string, and one without end.   *)
MCGarbageHead == {HeadOf(M(m[1], m[2], m[3], FALSE), m[2]) :
                    m \in {<<"unknown", "other", 0>>, <<"error", "other", 1>>,
                           <<"data", "other", 0>>, <<"cmd", "json", 3>>,
                           <<"cmd", "other", 20>>}}
=============================================================================
