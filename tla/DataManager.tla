---------------------------- MODULE DataManager ----------------------------
(***************************************************************************)
(* manageMySQL() of server/data_manager.cc and the functions that call it: *)
(* write_to_mysql(), read_from_mysql() and del_from_mysql(), called by     *)
(* several processes at once, each in a session of its own.                *)
(*                                                                         *)
(* Every call of the MySQL library may throw.  A statement whose answer is *)
(* lost has been executed all the same.  A row is its two keys; addr, port *)
(* and info go with them.                                                  *)
(***************************************************************************)
CONSTANTS
  Caller,        \* processes that call the interface
  Name,          \* names of clients
  Pid,           \* process ids
  Request        \* the calls that are made

Unset == "unset"   \* the default arguments: an empty name, pid -1

ASSUME UnsetAssumption == Unset \notin Name \cup Pid

Row == [name : Name, pid : Pid]
NoRow == [name |-> Unset, pid |-> Unset]

(* write_to_mysql(data); read and del by name; read and del by pid.        *)
AnyRequest ==
  [service : {"add"}, name : Name, pid : Pid]
    \cup [service : {"find", "del"}, name : Name, pid : {Unset}]
    \cup [service : {"find", "del"}, name : {Unset}, pid : Pid]

ASSUME RequestAssumption == Request \subseteq AnyRequest

VARIABLES
  created,       \* the table exists
  rows,          \* its rows
  pc,            \* where each caller is
  request,       \* its arguments
  con, stmt, res,\* which of its pointers are not null
  found,         \* the rows in *res
  result,        \* its local result; afterwards, what the call returned
  data           \* the ClientData it passed by reference

pointers == <<con, stmt, res>>
vars == <<created, rows, pc, request, pointers, found, result, data>>

Pc == {"idle", "connect", "prepare", "execute", "fetch", "release"}

-----------------------------------------------------------------------------
(* A pid that is set goes before the name.                                 *)
WrongMatches(q, r) == r.name = q.name
Matches(q, r) == IF q.pid # Unset THEN r.pid = q.pid ELSE r.name = q.name

(* PRIMARY KEY(name), pid UNIQUE: INSERT fails on either.                  *)
WrongInserts(q) == \A r \in rows : r.name # q.name
Inserts(q) == \A r \in rows : r.name # q.name /\ r.pid # q.pid

(* result after an exception, and after a search without a row.            *)
WrongResultOfThrow == TRUE
ResultOfThrow == FALSE
ResultOfMiss == FALSE

(* The connection is deleted whether or not an exception came.             *)
WrongConAfter(p) == con[p] /\ ~result[p]
ConAfter(p) == FALSE

Goto(p, place) == pc' = [pc EXCEPT ![p] = place]

(* The exception is caught; what has been allocated is released.           *)
Throw(p) ==
  /\ result' = [result EXCEPT ![p] = ResultOfThrow]
  /\ Goto(p, "release")

-----------------------------------------------------------------------------
Call(p, q) ==
  /\ pc[p] = "idle"
  /\ request' = [request EXCEPT ![p] = q]
  /\ result' = [result EXCEPT ![p] = TRUE]
  /\ Goto(p, "connect")
  /\ UNCHANGED <<created, rows, pointers, found, data>>

Connect(p) ==
  /\ pc[p] = "connect"
  /\ \/ /\ con' = [con EXCEPT ![p] = TRUE]
        /\ Goto(p, "prepare")
        /\ UNCHANGED result
     \/ Throw(p) /\ UNCHANGED con
  /\ UNCHANGED <<created, rows, request, stmt, res, found, data>>

(* setSchema(), createStatement(), CREATE TABLE IF NOT EXISTS.             *)
Prepare(p) ==
  /\ pc[p] = "prepare"
  /\ \/ /\ stmt' = [stmt EXCEPT ![p] = TRUE]
        /\ created' = TRUE
        /\ Goto(p, "execute")
        /\ UNCHANGED result
     \/ /\ stmt' \in {stmt, [stmt EXCEPT ![p] = TRUE]}
        /\ created' \in {created, created \/ stmt'[p]}
        /\ Throw(p)
  /\ UNCHANGED <<rows, request, con, res, found, data>>

(* The database executes the statement; its answer may be lost.            *)
Answered(p) ==
  \/ Goto(p, "release") /\ UNCHANGED result
  \/ Throw(p)

Add(p) ==
  /\ pc[p] = "execute" /\ request[p].service = "add" /\ Inserts(request[p])
  /\ rows' = rows \cup {[name |-> request[p].name, pid |-> request[p].pid]}
  /\ Answered(p)
  /\ UNCHANGED <<created, request, pointers, found, data>>

Delete(p) ==
  /\ pc[p] = "execute" /\ request[p].service = "del"
  /\ rows' = {r \in rows : ~Matches(request[p], r)}
  /\ Answered(p)
  /\ UNCHANGED <<created, request, pointers, found, data>>

Find(p) ==
  /\ pc[p] = "execute" /\ request[p].service = "find"
  /\ res' = [res EXCEPT ![p] = TRUE]
  /\ found' = [found EXCEPT ![p] = {r \in rows : Matches(request[p], r)}]
  /\ Goto(p, "fetch")
  /\ UNCHANGED <<created, rows, request, con, stmt, result, data>>

(* The statement fails: on a key, or for any other reason.                 *)
Refused(p) ==
  /\ pc[p] = "execute"
  /\ Throw(p)
  /\ UNCHANGED <<created, rows, request, pointers, found, data>>

(* All columns are read before setAllData() writes any of them.            *)
Fetch(p) ==
  /\ pc[p] = "fetch"
  /\ \/ /\ \E r \in found[p] : data' = [data EXCEPT ![p] = r]
        /\ Goto(p, "release")
        /\ UNCHANGED result
     \/ /\ found[p] = {}
        /\ result' = [result EXCEPT ![p] = ResultOfMiss]
        /\ Goto(p, "release")
        /\ UNCHANGED data
     \/ Throw(p) /\ UNCHANGED data
  /\ UNCHANGED <<created, rows, request, pointers, found>>

Release(p) ==
  /\ pc[p] = "release"
  /\ con' = [con EXCEPT ![p] = ConAfter(p)]
  /\ stmt' = [stmt EXCEPT ![p] = FALSE]
  /\ res' = [res EXCEPT ![p] = FALSE]
  /\ found' = [found EXCEPT ![p] = {}]
  /\ Goto(p, "idle")
  /\ UNCHANGED <<created, rows, request, result, data>>

(* The process is killed or exits; the kernel closes its session.          *)
Die(p) ==
  /\ pc[p] # "idle"
  /\ con' = [con EXCEPT ![p] = FALSE]
  /\ stmt' = [stmt EXCEPT ![p] = FALSE]
  /\ res' = [res EXCEPT ![p] = FALSE]
  /\ found' = [found EXCEPT ![p] = {}]
  /\ result' = [result EXCEPT ![p] = FALSE]
  /\ Goto(p, "idle")
  /\ UNCHANGED <<created, rows, request, data>>

Step(p) ==
  \/ Connect(p) \/ Prepare(p)
  \/ Add(p) \/ Delete(p) \/ Find(p) \/ Refused(p)
  \/ Fetch(p) \/ Release(p)

-----------------------------------------------------------------------------
Init ==
  /\ created = FALSE /\ rows = {}
  /\ pc = [p \in Caller |-> "idle"]
  /\ request \in [Caller -> Request]
  /\ con = [p \in Caller |-> FALSE]
  /\ stmt = [p \in Caller |-> FALSE]
  /\ res = [p \in Caller |-> FALSE]
  /\ found = [p \in Caller |-> {}]
  /\ result = [p \in Caller |-> FALSE]
  /\ data = [p \in Caller |-> NoRow]

Next ==
  \E p \in Caller : \/ \E q \in Request : Call(p, q)
                    \/ Step(p)
                    \/ Die(p)

(* Every call of the MySQL library returns or throws.                      *)
Spec == Init /\ [][Next]_vars /\ \A p \in Caller : WF_vars(Step(p))
-----------------------------------------------------------------------------
(* Properties                                                              *)

TypeOK ==
  /\ created \in BOOLEAN /\ rows \subseteq Row
  /\ pc \in [Caller -> Pc] /\ request \in [Caller -> Request]
  /\ con \in [Caller -> BOOLEAN] /\ stmt \in [Caller -> BOOLEAN]
  /\ res \in [Caller -> BOOLEAN]
  /\ found \in [Caller -> SUBSET Row]
  /\ result \in [Caller -> BOOLEAN]
  /\ data \in [Caller -> Row \cup {NoRow}]

(* Neither a name nor a pid stands in two rows, so that a search meets one *)
(* client at most.                                                         *)
KeysUnique ==
  \A r, s \in rows : r.name = s.name \/ r.pid = s.pid => r = s

(* What a caller holds, by the place it has reached.                       *)
CallerInv(p) ==
  /\ pc[p] = "idle" => ~con[p] /\ ~stmt[p]
  /\ pc[p] \in {"idle", "connect", "prepare", "execute"} =>
       ~res[p] /\ found[p] = {}
  /\ pc[p] \in {"connect", "prepare"} => ~stmt[p]
  /\ pc[p] \in {"prepare", "execute", "fetch"} => con[p]
  /\ pc[p] \in {"execute", "fetch"} => stmt[p] /\ created
  /\ pc[p] \notin {"idle", "release"} => result[p]
  /\ pc[p] = "fetch" => request[p].service = "find"
  /\ pc[p] = "release" /\ result[p] /\ request[p].service = "find" =>
       data[p] \in found[p]

(* The types, the unique keys, and the place of every caller; rows are     *)
(* met only in a table that exists.                                        *)
TableInv ==
  /\ TypeOK /\ KeysUnique
  /\ rows # {} => created
  /\ \A p \in Caller : CallerInv(p)

(* manageMySQL() returns, whatever has failed in it, without a session, a  *)
(* statement or a result set: a server that forks for ever does not use    *)
(* up the connections of the database.                                     *)
SessionsReleased ==
  \A p \in Caller : pc[p] = "idle" => ~con[p] /\ ~stmt[p] /\ ~res[p]

(* A caller read from outside.                                             *)
StateOf(p) ==
  CASE pc[p] = "idle" -> "idle"
    [] pc[p] \in {"connect", "prepare", "execute"} -> "asked"
    [] OTHER -> "over"

GoodOf(p) ==
  CASE pc[p] = "idle" -> result[p]
    [] pc[p] \in {"fetch", "release"} ->
         result[p] /\ (request[p].service = "find" => found[p] # {})
    [] OTHER -> FALSE

Table ==
  INSTANCE ClientTable WITH state <- [p \in Caller |-> StateOf(p)],
                            good <- [p \in Caller |-> GoodOf(p)],
                            hold <- found

(* Every call acts on the table at one moment, if it acts at all, and what *)
(* it returns and writes to the caller's data is what it found then.       *)
ImplementsTable == Table!Spec
=============================================================================
