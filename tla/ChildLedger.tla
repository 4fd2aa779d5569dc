---------------------------- MODULE ChildLedger ----------------------------
(***************************************************************************)
(* What the natip server promises about the processes it forks, without   *)
(* signals, descriptors or a database: a process id is used by one child  *)
(* at a time, a dead child is collected exactly once, and as long as the   *)
(* server runs no dead child stays uncollected for ever.                   *)
(*                                                                         *)
(* NatIpServer (the fork loop of server/main.cc with the SIGCHLD handler   *)
(* of server/natip_server.cc) is shown to implement this module.           *)
(***************************************************************************)

CONSTANT Pid                 \* the process ids the kernel may hand out

VARIABLES
  up,                        \* the server process has not exited
  running,                   \* ids of children that have not terminated
  zombie                     \* ids of terminated, uncollected children

ledger == <<up, running, zombie>>

Init ==
  /\ up = TRUE
  /\ running = {}
  /\ zombie = {}

(* fork() returns an id in use by no child, running or uncollected. *)
Spawn(p) ==
  /\ up
  /\ p \notin running \cup zombie
  /\ running' = running \cup {p}
  /\ UNCHANGED <<up, zombie>>

Die(p) ==
  /\ p \in running
  /\ running' = running \ {p}
  /\ zombie' = zombie \cup {p}
  /\ UNCHANGED up

Reap(p) ==
  /\ up
  /\ p \in zombie
  /\ zombie' = zombie \ {p}
  /\ UNCHANGED <<up, running>>

Stop ==
  /\ up
  /\ up' = FALSE
  /\ UNCHANGED <<running, zombie>>

Next ==
  \/ \E p \in Pid : Spawn(p) \/ Die(p) \/ Reap(p)
  \/ Stop

Safety == Init /\ [][Next]_ledger

(* The liveness half of the promise: reaping does not depend on how many   *)
(* children die, or how close together.                                    *)
Spec == Safety /\ \A p \in Pid : WF_ledger(Reap(p))

TypeOK ==
  /\ up \in BOOLEAN
  /\ running \in SUBSET Pid
  /\ zombie \in SUBSET Pid
=============================================================================
