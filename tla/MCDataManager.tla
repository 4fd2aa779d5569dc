--------------------------- MODULE MCDataManager ---------------------------
(* An instance of DataManager for TLC: two processes that add, find and    *)
(* delete clients whose names and pids collide.                            *)
EXTENDS DataManager

MCRequest ==
  {[service |-> "add", name |-> "a", pid |-> "1"],
   [service |-> "add", name |-> "a", pid |-> "2"],
   [service |-> "add", name |-> "b", pid |-> "1"],
   [service |-> "find", name |-> "a", pid |-> Unset],
   [service |-> "find", name |-> Unset, pid |-> "1"],
   [service |-> "del", name |-> Unset, pid |-> "1"]}
=============================================================================
