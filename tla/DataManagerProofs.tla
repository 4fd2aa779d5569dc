------------------------- MODULE DataManagerProofs -------------------------
(***************************************************************************)
(* Proofs about DataManager, for any number of processes and any names,    *)
(* pids and calls.                                                         *)
(***************************************************************************)
EXTENDS DataManager, TLAPS

USE DEF pointers, vars

(* The invariant holds initially.                                          *)
LEMMA InitInv == Init => TableInv
BY DEF Init, TableInv, TypeOK, KeysUnique, CallerInv, Pc, NoRow

(* What a step of one process leaves of the places of the others.          *)
LEMMA OthersStay ==
  ASSUME TableInv, NEW p \in Caller, NEW o \in Caller, o # p,
         pc'[o] = pc[o], request'[o] = request[o],
         con'[o] = con[o], stmt'[o] = stmt[o], res'[o] = res[o],
         found'[o] = found[o], result'[o] = result[o], data'[o] = data[o],
         created => created'
  PROVE  CallerInv(o)'
BY DEF TableInv, CallerInv

(* A call and its steps keep the invariant.                                *)
LEMMA CallInv ==
  ASSUME TableInv, NEW p \in Caller, NEW q \in Request, Call(p, q)
  PROVE  TableInv'
<1> USE DEF Call, Goto
<1>1. TypeOK'
  BY DEF TableInv, TypeOK, Pc
<1>2. KeysUnique' /\ (rows # {} => created)'
  BY DEF TableInv, KeysUnique
<1>3. CallerInv(p)'
  BY DEF TableInv, TypeOK, CallerInv
<1>4. ASSUME NEW o \in Caller, o # p PROVE CallerInv(o)'
  BY <1>4, OthersStay DEF TableInv, TypeOK
<1> QED
  BY <1>1, <1>2, <1>3, <1>4 DEF TableInv

(* A session is open once connect() has returned.                          *)
LEMMA ConnectInv ==
  ASSUME TableInv, NEW p \in Caller, Connect(p)
  PROVE  TableInv'
<1> USE DEF Connect, Goto, Throw, ResultOfThrow
<1>1. TypeOK'
  BY DEF TableInv, TypeOK, Pc
<1>2. KeysUnique' /\ (rows # {} => created)'
  BY DEF TableInv, KeysUnique
<1>3. CallerInv(p)'
  BY DEF TableInv, TypeOK, CallerInv
<1>4. ASSUME NEW o \in Caller, o # p PROVE CallerInv(o)'
  BY <1>4, OthersStay DEF TableInv, TypeOK
<1> QED
  BY <1>1, <1>2, <1>3, <1>4 DEF TableInv

(* A statement exists, and the table, when both are made.                  *)
LEMMA PrepareInv ==
  ASSUME TableInv, NEW p \in Caller, Prepare(p)
  PROVE  TableInv'
<1> USE DEF Prepare, Goto, Throw, ResultOfThrow
<1>1. TypeOK' /\ (created => created')
  <2>1. stmt' \in [Caller -> BOOLEAN] /\ created' \in BOOLEAN
        /\ (created => created')
    BY DEF TableInv, TypeOK
  <2> QED
    BY <2>1 DEF TableInv, TypeOK, Pc
<1>2. KeysUnique' /\ (rows # {} => created)'
  BY <1>1 DEF TableInv, KeysUnique
<1>3. CallerInv(p)'
  BY DEF TableInv, TypeOK, CallerInv
<1>4. ASSUME NEW o \in Caller, o # p PROVE CallerInv(o)'
  BY <1>1, <1>4, OthersStay DEF TableInv, TypeOK
<1> QED
  BY <1>1, <1>2, <1>3, <1>4 DEF TableInv

(* A statement that changes rows keeps the keys unique.                    *)
LEMMA ExecuteInv ==
  ASSUME TableInv, NEW p \in Caller, Add(p) \/ Delete(p) \/ Refused(p)
  PROVE  TableInv'
<1> USE DEF Goto, Throw, ResultOfThrow, Answered
<1>1. /\ pc[p] = "execute"
      /\ rows' \subseteq Row /\ (rows # {} => created)' /\ KeysUnique'
  <2>1. CASE Add(p)
    <3> DEFINE row == [name |-> request[p].name, pid |-> request[p].pid]
    <3>1. request[p] \in AnyRequest /\ request[p].service = "add"
      BY <2>1, RequestAssumption DEF Add, TableInv, TypeOK
    <3>2. row \in Row /\ pc[p] = "execute"
      BY <2>1, <3>1 DEF AnyRequest, Row, Add
    <3>3. \A r \in rows : r.name # row.name /\ r.pid # row.pid
      BY <2>1 DEF Add, Inserts
    <3>4. rows' = rows \cup {row} /\ created' = created /\ created
      BY <2>1 DEF Add, TableInv, CallerInv
    <3> HIDE DEF row
    <3>5. KeysUnique'
      BY <3>3, <3>4 DEF TableInv, KeysUnique
    <3> QED
      BY <3>2, <3>4, <3>5 DEF TableInv, TypeOK
  <2>2. CASE Delete(p)
    BY <2>2 DEF Delete, TableInv, TypeOK, KeysUnique
  <2>3. CASE Refused(p)
    BY <2>3 DEF Refused, TableInv, TypeOK, KeysUnique
  <2> QED
    BY <2>1, <2>2, <2>3
<1>2. /\ pc' = [pc EXCEPT ![p] = "release"]
      /\ \/ result' = result /\ request[p].service # "find"
         \/ result' = [result EXCEPT ![p] = FALSE]
      /\ UNCHANGED <<created, request, pointers, found, data>>
  BY DEF Add, Delete, Refused
<1>3. TypeOK'
  BY <1>1, <1>2 DEF TableInv, TypeOK, Pc
<1>4. CallerInv(p)'
  BY <1>1, <1>2 DEF TableInv, TypeOK, CallerInv
<1>5. ASSUME NEW o \in Caller, o # p PROVE CallerInv(o)'
  BY <1>2, <1>5, OthersStay DEF TableInv, TypeOK
<1> QED
  BY <1>1, <1>3, <1>4, <1>5 DEF TableInv

(* A search gives its caller a result set, and takes no row.               *)
LEMMA FindInv ==
  ASSUME TableInv, NEW p \in Caller, Find(p)
  PROVE  TableInv'
<1> USE DEF Find, Goto
<1>1. TypeOK'
  BY DEF TableInv, TypeOK, Pc
<1>2. KeysUnique' /\ (rows # {} => created)'
  BY DEF TableInv, KeysUnique
<1>3. CallerInv(p)'
  BY DEF TableInv, TypeOK, CallerInv
<1>4. ASSUME NEW o \in Caller, o # p PROVE CallerInv(o)'
  BY <1>4, OthersStay DEF TableInv, TypeOK
<1> QED
  BY <1>1, <1>2, <1>3, <1>4 DEF TableInv

(* A search that goes well leaves one of the rows in data.                 *)
LEMMA FetchInv ==
  ASSUME TableInv, NEW p \in Caller, Fetch(p)
  PROVE  TableInv'
<1> USE DEF Fetch, Goto, Throw, ResultOfThrow, ResultOfMiss
<1>1. TypeOK'
  BY DEF TableInv, TypeOK, Pc
<1>2. KeysUnique' /\ (rows # {} => created)'
  BY DEF TableInv, KeysUnique
<1>3. CallerInv(p)'
  BY DEF TableInv, TypeOK, CallerInv
<1>4. ASSUME NEW o \in Caller, o # p PROVE CallerInv(o)'
  BY <1>4, OthersStay DEF TableInv, TypeOK
<1> QED
  BY <1>1, <1>2, <1>3, <1>4 DEF TableInv

(* A caller that returns or dies holds nothing.                            *)
LEMMA EndInv ==
  ASSUME TableInv, NEW p \in Caller, Release(p) \/ Die(p)
  PROVE  TableInv'
<1> USE DEF Release, Die, Goto, ConAfter
<1>1. TypeOK'
  BY DEF TableInv, TypeOK, Pc
<1>2. KeysUnique' /\ (rows # {} => created)'
  BY DEF TableInv, KeysUnique
<1>3. CallerInv(p)'
  BY DEF TableInv, TypeOK, CallerInv
<1>4. ASSUME NEW o \in Caller, o # p PROVE CallerInv(o)'
  BY <1>4, OthersStay DEF TableInv, TypeOK
<1> QED
  BY <1>1, <1>2, <1>3, <1>4 DEF TableInv

(* The invariant is inductive.                                             *)
LEMMA NextInv == TableInv /\ [Next]_vars => TableInv'
<1> SUFFICES ASSUME TableInv, [Next]_vars PROVE TableInv'
  OBVIOUS
<1>1. CASE UNCHANGED vars
  BY <1>1 DEF TableInv, TypeOK, KeysUnique, CallerInv
<1>2. CASE Next
  BY <1>2, CallInv, ConnectInv, PrepareInv, ExecuteInv, FindInv, FetchInv,
     EndInv DEF Next, Step
<1> QED
  BY <1>1, <1>2

(* The types, unique keys and places hold for ever.                        *)
THEOREM TableIsSound == Spec => []TableInv
BY InitInv, NextInv, PTL DEF Spec

(* No call of manageMySQL() leaves anything allocated behind.              *)
THEOREM NoSessionLeaks == Spec => []SessionsReleased
<1>1. TableInv => SessionsReleased
  BY DEF TableInv, CallerInv, SessionsReleased
<1> QED
  BY <1>1, TableIsSound, PTL

-----------------------------------------------------------------------------
(* Every step of manageMySQL() is a step of the table, or none.            *)

(* The abstract state changes at the process that takes a step.            *)
LEMMA AbstractUpdate ==
  ASSUME NEW p \in Caller,
         \A o \in Caller : o # p =>
           /\ pc'[o] = pc[o] /\ request'[o] = request[o]
           /\ found'[o] = found[o] /\ result'[o] = result[o]
  PROVE  /\ [o \in Caller |-> StateOf(o)]' =
              [[o \in Caller |-> StateOf(o)] EXCEPT ![p] = StateOf(p)']
         /\ [o \in Caller |-> GoodOf(o)]' =
              [[o \in Caller |-> GoodOf(o)] EXCEPT ![p] = GoodOf(p)']
<1>1. ASSUME NEW o \in Caller, o # p
      PROVE  StateOf(o)' = StateOf(o) /\ GoodOf(o)' = GoodOf(o)
  BY <1>1 DEF StateOf, GoodOf
<1> QED
  BY <1>1

(* Both begin with an empty table and idle callers.                        *)
LEMMA AbstractInit == Init => Table!Init
<1> SUFFICES ASSUME Init PROVE Table!Init
  OBVIOUS
<1>1. \A p \in Caller : StateOf(p) = "idle" /\ GoodOf(p) = FALSE
  BY DEF Init, StateOf, GoodOf
<1> QED
  BY <1>1 DEF Init, Table!Init, NoRow, Table!Unset, Unset

(* The start of a call is an Ask.                                          *)
LEMMA AbstractCall ==
  ASSUME TableInv, NEW p \in Caller, NEW q \in Request, Call(p, q)
  PROVE  Table!Ask(p, q)
<1>1. StateOf(p) = "idle" /\ StateOf(p)' = "asked" /\ GoodOf(p)' = FALSE
  BY DEF Call, Goto, TableInv, TypeOK, StateOf, GoodOf
<1> QED
  BY <1>1, AbstractUpdate DEF Call, Goto, TableInv, TypeOK, Table!Ask

(* Until the statement has been executed the call acts not at all.         *)
LEMMA AbstractBefore ==
  ASSUME TableInv, NEW p \in Caller,
         Connect(p) \/ Prepare(p) \/ Refused(p)
  PROVE  Table!GiveUp(p) \/ UNCHANGED Table!table
<1>1. StateOf(p) = "asked" /\ GoodOf(p) = FALSE
  BY DEF StateOf, GoodOf, Connect, Prepare, Refused
<1>2. /\ UNCHANGED <<rows, request, found, data>>
      /\ \A o \in Caller : o # p =>
           pc'[o] = pc[o] /\ result'[o] = result[o]
  BY DEF TableInv, TypeOK, Connect, Prepare, Refused, Goto, Throw, ResultOfThrow
<1>3. \/ StateOf(p)' = "asked" /\ GoodOf(p)' = FALSE
      \/ StateOf(p)' = "over" /\ GoodOf(p)' = FALSE
  BY DEF TableInv, TypeOK, StateOf, GoodOf, Connect, Prepare, Refused, Goto, Throw,
     ResultOfThrow
<1>4. CASE StateOf(p)' = "asked" /\ GoodOf(p)' = FALSE
  BY <1>1, <1>2, <1>4, AbstractUpdate DEF Table!table
<1>5. CASE StateOf(p)' = "over" /\ GoodOf(p)' = FALSE
  BY <1>1, <1>2, <1>5, AbstractUpdate DEF Table!GiveUp, Table!Over
<1> QED
  BY <1>3, <1>4, <1>5

(* The statement is the moment at which the call acts.                     *)
LEMMA AbstractAt ==
  ASSUME TableInv, NEW p \in Caller, Add(p) \/ Delete(p) \/ Find(p)
  PROVE  \E b \in BOOLEAN :
           Table!Add(p, b) \/ Table!Delete(p, b) \/ Table!Find(p, b)
<1> USE DEF Goto, Throw, ResultOfThrow, Answered
<1>1. StateOf(p) = "asked" /\ UNCHANGED <<request, data>>
  BY DEF Add, Delete, Find, StateOf
<1>2. Table!Selected(request[p]) = {r \in rows : Matches(request[p], r)}
  BY DEF Table!Selected, Matches, Table!Unset, Unset
<1>3. /\ \A o \in Caller : o # p =>
           pc'[o] = pc[o] /\ found'[o] = found[o] /\ result'[o] = result[o]
      /\ StateOf(p)' = "over" /\ GoodOf(p)' \in BOOLEAN
  BY DEF Add, Delete, Find, TableInv, TypeOK, StateOf, GoodOf
<1>4. CASE Add(p)
  BY <1>1, <1>3, <1>4, AbstractUpdate
     DEF Add, Inserts, Table!Add, Table!Over
<1>5. CASE Delete(p)
  <2>1. rows \ Table!Selected(request[p])
          = {r \in rows : ~Matches(request[p], r)}
    BY <1>2
  <2> QED
    BY <1>1, <1>3, <1>5, <2>1, AbstractUpdate
       DEF Delete, Table!Delete, Table!Over
<1>6. CASE Find(p)
  <2>1. GoodOf(p)' => found'[p] # {}
    BY <1>6 DEF Find, GoodOf, TableInv, TypeOK
  <2>2. found'[p] = Table!Selected(request[p])
    BY <1>2, <1>6 DEF Find, TableInv, TypeOK
  <2> QED
    BY <1>1, <1>2, <1>3, <1>6, <2>1, <2>2, AbstractUpdate
       DEF Find, Table!Find, Table!Over
<1> QED
  BY <1>4, <1>5, <1>6

(* Reading the result set is a Read or a Fail, or nothing.                 *)
LEMMA AbstractFetch ==
  ASSUME TableInv, NEW p \in Caller, Fetch(p)
  PROVE  Table!Read(p) \/ Table!Fail(p) \/ UNCHANGED Table!table
<1> USE DEF Fetch, Goto, Throw, ResultOfThrow, ResultOfMiss
<1>1. StateOf(p) = "over" /\ (GoodOf(p) <=> found[p] # {})
      /\ GoodOf(p) \in BOOLEAN
  BY DEF TableInv, CallerInv, TypeOK, StateOf, GoodOf
<1>2. /\ UNCHANGED <<rows, request, found>>
      /\ \A o \in Caller : o # p =>
           pc'[o] = pc[o] /\ result'[o] = result[o]
      /\ StateOf(p)' = "over"
  BY DEF TableInv, TypeOK, StateOf
<1>3. CASE result' = result /\ \E r \in found[p] : data' = [data EXCEPT ![p] = r]
  <2>1. GoodOf(p)' = GoodOf(p)
    BY <1>3 DEF TableInv, CallerInv, TypeOK, GoodOf
  <2>2. /\ [o \in Caller |-> GoodOf(o)]' = [o \in Caller |-> GoodOf(o)]
        /\ [o \in Caller |-> StateOf(o)]' = [o \in Caller |-> StateOf(o)]
    <3>1. ASSUME NEW o \in Caller
          PROVE  StateOf(o)' = StateOf(o) /\ GoodOf(o)' = GoodOf(o)
      <4>1. CASE o = p
        BY <1>1, <1>2, <2>1, <4>1
      <4>2. CASE o # p
        BY <1>2, <4>2 DEF StateOf, GoodOf
      <4> QED
        BY <4>1, <4>2
    <3> QED
      BY <3>1
  <2>3. GoodOf(p)
    BY <1>1, <1>3
  <2> HIDE DEF Fetch, Goto, Throw, ResultOfThrow, ResultOfMiss
  <2> QED
    BY <1>1, <1>2, <1>3, <2>2, <2>3 DEF Table!Read
<1>4. CASE result' = [result EXCEPT ![p] = FALSE] /\ UNCHANGED data
  <2>1. GoodOf(p)' = FALSE
    BY <1>4 DEF TableInv, TypeOK, GoodOf
  <2> HIDE DEF Fetch, Goto, Throw, ResultOfThrow, ResultOfMiss
  <2>2. [o \in Caller |-> GoodOf(o)]' =
           [[o \in Caller |-> GoodOf(o)] EXCEPT ![p] = FALSE]
    BY <1>2, <2>1, AbstractUpdate
  <2>3. StateOf(p)' = StateOf(p)
    BY <1>1, <1>2
  <2>4. [o \in Caller |-> StateOf(o)]' = [o \in Caller |-> StateOf(o)]
    <3>1. ASSUME NEW o \in Caller PROVE StateOf(o)' = StateOf(o)
      BY <1>2, <2>3 DEF StateOf
    <3> QED
      BY <3>1
  <2> QED
    BY <1>1, <1>2, <1>4, <2>2, <2>4 DEF Table!Fail
<1> QED
  BY <1>3, <1>4

(* The end of a call is a Return, that of a process a Die.                 *)
LEMMA AbstractEnd ==
  ASSUME TableInv, NEW p \in Caller, Release(p) \/ Die(p)
  PROVE  Table!Return(p) \/ Table!Die(p)
<1> USE DEF Goto, ConAfter
<1>1. /\ UNCHANGED <<rows, request, data>>
      /\ found' = [found EXCEPT ![p] = {}]
      /\ \A o \in Caller : o # p =>
           /\ pc'[o] = pc[o] /\ found'[o] = found[o]
           /\ result'[o] = result[o]
      /\ StateOf(p)' = "idle"
  BY DEF Release, Die, TableInv, TypeOK, StateOf
<1>2. CASE Release(p)
  <2>1. /\ StateOf(p) = "over" /\ GoodOf(p)' = GoodOf(p)
        /\ GoodOf(p) /\ request[p].service = "find" => data[p] \in found[p]
    BY <1>2 DEF Release, TableInv, CallerInv, TypeOK, StateOf, GoodOf
  <2> QED
    BY <1>1, <2>1, AbstractUpdate DEF Table!Return
<1>3. CASE Die(p)
  <2>1. GoodOf(p)' = FALSE
    BY <1>3 DEF Die, TableInv, TypeOK, GoodOf
  <2> QED
    BY <1>1, <2>1, AbstractUpdate DEF Table!Die
<1> QED
  BY <1>2, <1>3

(* The interface promises no more than it keeps: the safety half of        *)
(* ImplementsTable.                                                        *)
THEOREM RefinesTable == Spec => Table!Safety
<1>1. TableInv /\ [Next]_vars => [Table!Next]_(Table!table)
  <2> SUFFICES ASSUME TableInv, [Next]_vars
               PROVE  Table!Next \/ UNCHANGED Table!table
    OBVIOUS
  <2>1. CASE UNCHANGED vars
    BY <2>1 DEF Table!table, StateOf, GoodOf
  <2>2. CASE Next
    <3>1. PICK p \in Caller : (\E q \in Request : Call(p, q)) \/ Step(p) \/ Die(p)
      BY <2>2 DEF Next
    <3>2. \/ \E q \in Request : Table!Ask(p, q)
          \/ Table!Step(p) \/ Table!Die(p) \/ UNCHANGED Table!table
      BY <3>1, AbstractCall, AbstractBefore, AbstractAt, AbstractFetch,
         AbstractEnd DEF Step, Table!Step
    <3> QED
      BY <3>2 DEF Table!Next
  <2> QED
    BY <2>1, <2>2
<1> QED
  BY AbstractInit, <1>1, TableIsSound, PTL DEF Spec, Table!Safety
=============================================================================
