---------------------------- MODULE ClientTable ----------------------------
(***************************************************************************)
(* What the database interface of server/data_manager.hpp promises to      *)
(* processes that call it at the same time: each call takes effect at one  *)
(* moment between its start and its return, or not at all.  `true` means   *)
(* that it did; after `false` it may have, as the answer of the database   *)
(* may have been lost.                                                     *)
(***************************************************************************)
CONSTANTS
  Caller,        \* processes
  Request        \* [service, name, pid]; one of name and pid may be unset

Unset == "unset"

VARIABLES
  rows,          \* the table: a set of [name, pid]
  request,       \* the call of each process
  state,         \* "idle", "asked", "over"
  good,          \* whether the call returns, or has returned, true
  hold,          \* the rows that a find has met
  data           \* the ClientData of each process

table == <<rows, request, state, good, hold, data>>

(* The rows a request is about; a pid goes before a name.                  *)
Selected(q) ==
  {r \in rows : \/ q.pid # Unset /\ r.pid = q.pid
                \/ q.pid = Unset /\ r.name = q.name}

Ask(p, q) ==
  /\ state[p] = "idle"
  /\ state' = [state EXCEPT ![p] = "asked"]
  /\ request' = [request EXCEPT ![p] = q]
  /\ good' = [good EXCEPT ![p] = FALSE]
  /\ UNCHANGED <<rows, hold, data>>

Over(p, b) ==
  /\ state[p] = "asked"
  /\ state' = [state EXCEPT ![p] = "over"]
  /\ good' = [good EXCEPT ![p] = b]
  /\ UNCHANGED <<request, data>>

(* A name and a pid belong to one row only.                                *)
Add(p, b) ==
  /\ request[p].service = "add"
  /\ \A r \in rows : r.name # request[p].name /\ r.pid # request[p].pid
  /\ rows' = rows \cup {[name |-> request[p].name, pid |-> request[p].pid]}
  /\ UNCHANGED hold
  /\ Over(p, b)

Delete(p, b) ==
  /\ request[p].service = "del"
  /\ rows' = rows \ Selected(request[p])
  /\ UNCHANGED hold
  /\ Over(p, b)

Find(p, b) ==
  /\ request[p].service = "find"
  /\ b => Selected(request[p]) # {}
  /\ hold' = [hold EXCEPT ![p] = Selected(request[p])]
  /\ UNCHANGED rows
  /\ Over(p, b)

GiveUp(p) == Over(p, FALSE) /\ UNCHANGED <<rows, hold>>

(* The caller's data is written as a whole, with a row that was met.       *)
Read(p) ==
  /\ state[p] = "over" /\ good[p]
  /\ \E r \in hold[p] : data' = [data EXCEPT ![p] = r]
  /\ UNCHANGED <<rows, request, state, good, hold>>

Fail(p) ==
  /\ state[p] = "over"
  /\ good' = [good EXCEPT ![p] = FALSE]
  /\ UNCHANGED <<rows, request, state, hold, data>>

Return(p) ==
  /\ state[p] = "over"
  /\ good[p] /\ request[p].service = "find" => data[p] \in hold[p]
  /\ state' = [state EXCEPT ![p] = "idle"]
  /\ hold' = [hold EXCEPT ![p] = {}]
  /\ UNCHANGED <<rows, request, good, data>>

(* The process ends in the middle of a call.                               *)
Die(p) ==
  /\ state' = [state EXCEPT ![p] = "idle"]
  /\ good' = [good EXCEPT ![p] = FALSE]
  /\ hold' = [hold EXCEPT ![p] = {}]
  /\ UNCHANGED <<rows, request, data>>

Step(p) ==
  \/ \E b \in BOOLEAN : Add(p, b) \/ Delete(p, b) \/ Find(p, b)
  \/ GiveUp(p) \/ Read(p) \/ Fail(p) \/ Return(p)

Init ==
  /\ rows = {}
  /\ request \in [Caller -> Request]
  /\ state = [p \in Caller |-> "idle"]
  /\ good = [p \in Caller |-> FALSE]
  /\ hold = [p \in Caller |-> {}]
  /\ data = [p \in Caller |-> [name |-> Unset, pid |-> Unset]]

Next ==
  \E p \in Caller : \/ \E q \in Request : Ask(p, q)
                    \/ Step(p)
                    \/ Die(p)

Safety == Init /\ [][Next]_table

(* Every call comes to its end.                                            *)
Spec == Safety /\ \A p \in Caller : WF_table(Step(p))
=============================================================================
