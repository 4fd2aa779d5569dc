--------------------------- MODULE MCNatIpServer ---------------------------
(* Instances of NatIpServer for TLC.                                       *)
EXTENDS NatIpServerInv, TLC

CONSTANTS p1, p2, c1, c2, c3

MCPid == {p1, p2}
MCConn2 == {c1, c2}
MCConn3 == {c1, c2, c3}
MCStdFds == {0}
(* MaxFd + 1 stands for every value that is no descriptor; the others are  *)
(* stdin, the listening socket, what accept() returns, and free ones.      *)
MCStackValue == 0 .. (MaxFd + 1)

Symmetry == Permutations(MCPid) \cup Permutations(MCConn3)
=============================================================================
