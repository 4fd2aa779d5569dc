------------------------------- MODULE OpenFd -------------------------------
(***************************************************************************)
(* open_listenfd() and open_clientfd() of lib/unix_api.c and their callers:*)
(* servers that start to listen, and clients that make a jdt::Connection   *)
(* with openConnection() or with createConnection() of client/.            *)
(*                                                                         *)
(* The processes run at once, on one list of addresses.  Every system call *)
(* may fail, and every process may end; another one takes its place.       *)
(***************************************************************************)
EXTENDS Integers

CONSTANTS
  Server, Client,\* processes
  NAddr,         \* length of the list that getaddrinfo() returns
  Fd,            \* the descriptors of a process
  Slot           \* what an uninitialized socket_fd_ may hold

ASSUME ProcessAssumption == Server \cap Client = {}
ASSUME OpenAssumption == NAddr \in Nat /\ Fd \subseteq Nat /\ 0 \in Fd

Process == Server \cup Client

VARIABLES
  at,            \* the index of p in the list
  place,         \* where a process is
  fd,            \* listen_fd or client_fd
  open,          \* the descriptor table of a process
  node           \* socket_fd_ of the Connection of a client

openVars == <<at, place, fd, open, node>>

Place == {"idle", "socket", "try", "listen", "done", "opened", "created"}
Descriptor == {"free", "file", "socket", "bound", "listener", "connection"}

NewProcess == [f \in Fd |-> IF f = 0 THEN "file" ELSE "free"]

-----------------------------------------------------------------------------
Move(p, to) == place' = [place EXCEPT ![p] = to]

Listening(a) ==
  \E s \in Server : at[s] = a /\ \E f \in Fd : open[s][f] = "listener"

(* The kernel takes the lowest descriptor that is free.                    *)
Lowest(p) ==
  {f \in Fd : open[p][f] = "free" /\ \A g \in Fd : open[p][g] = "free" => f <= g}

(* Close() before the next address, and before -1 is returned.             *)
WrongAfterFailure(p) == open[p]
AfterFailure(p) == [open[p] EXCEPT ![fd[p]] = "free"]

WrongNextAddress(p) == at[p]
NextAddress(p) == at[p] + 1

(* dup2(socket_fd, socket_fd_), then close(socket_fd).                     *)
WrongDuplicated(p, s) == [open[p] EXCEPT ![s] = open[p][fd[p]]]
Duplicated(p, s) ==
  [f \in Fd |-> IF f = fd[p] THEN "free"
                ELSE IF f = s THEN open[p][fd[p]] ELSE open[p][f]]

(* The wrappers end the process with any error: unix_error(), err_quit().  *)
Quit(p) ==
  /\ Move(p, "idle")
  /\ open' = [open EXCEPT ![p] = NewProcess]

(* After listen() has failed open_listenfd() returns -1.                   *)
WrongNotListening(p) == Move(p, "done") /\ UNCHANGED open
NotListening(p) == Quit(p)

-----------------------------------------------------------------------------
(* Getaddrinfo() returns the list, or ends the process.                    *)
Resolve(p) ==
  /\ place[p] = "idle"
  /\ at' = [at EXCEPT ![p] = 1]
  /\ Move(p, "socket")
  /\ UNCHANGED <<fd, open, node>>

Socket(p) ==
  /\ place[p] = "socket" /\ at[p] <= NAddr
  /\ \E f \in Lowest(p) :
       /\ fd' = [fd EXCEPT ![p] = f]
       /\ open' = [open EXCEPT ![p][f] = "socket"]
  /\ Move(p, "try")
  /\ UNCHANGED <<at, node>>

(* continue                                                                *)
SocketFails(p) ==
  /\ place[p] = "socket" /\ at[p] <= NAddr
  /\ at' = [at EXCEPT ![p] = NextAddress(p)]
  /\ UNCHANGED <<place, fd, open, node>>

(* SO_REUSEADDR: only a socket that listens is in the way.                 *)
Bind(p) ==
  /\ p \in Server /\ place[p] = "try"
  /\ ~Listening(at[p])
  /\ open' = [open EXCEPT ![p][fd[p]] = "bound"]
  /\ Move(p, "listen")
  /\ UNCHANGED <<at, fd, node>>

Connect(p) ==
  /\ p \in Client /\ place[p] = "try"
  /\ Listening(at[p])
  /\ open' = [open EXCEPT ![p][fd[p]] = "connection"]
  /\ Move(p, "done")
  /\ UNCHANGED <<at, fd, node>>

(* bind() or connect() fails.                                              *)
TryFails(p) ==
  /\ place[p] = "try"
  /\ open' = [open EXCEPT ![p] = AfterFailure(p)]
  /\ at' = [at EXCEPT ![p] = NextAddress(p)]
  /\ Move(p, "socket")
  /\ UNCHANGED <<fd, node>>

(* Another process may have begun to listen since bind().                  *)
Listen(p) ==
  /\ place[p] = "listen"
  /\ ~Listening(at[p])
  /\ open' = [open EXCEPT ![p][fd[p]] = "listener"]
  /\ Move(p, "done")
  /\ UNCHANGED <<at, fd, node>>

ListenFails(p) ==
  /\ place[p] = "listen"
  /\ NotListening(p)
  /\ UNCHANGED <<at, fd, node>>

(* The end of the list: -1.                                                *)
NoneLeft(p) ==
  /\ place[p] = "socket" /\ at[p] > NAddr
  /\ Quit(p)
  /\ UNCHANGED <<at, fd, node>>

(* openConnection() keeps the descriptor itself.                           *)
Keep(p) ==
  /\ p \in Client /\ place[p] = "done"
  /\ node' = [node EXCEPT ![p] = fd[p]]
  /\ Move(p, "opened")
  /\ UNCHANGED <<at, fd, open>>

(* createConnection() copies it to a socket_fd_ that nobody has set.       *)
Create(p) ==
  /\ p \in Client /\ place[p] = "done"
  /\ \E s \in Slot :
       /\ node' = [node EXCEPT ![p] = s]
       /\ open' = [open EXCEPT ![p] = Duplicated(p, s)]
  /\ Move(p, "created")
  /\ UNCHANGED <<at, fd>>

OpenDie(p) == Quit(p) /\ UNCHANGED <<at, fd, node>>

OpenStep(p) ==
  \/ Socket(p) \/ SocketFails(p)
  \/ Bind(p) \/ Connect(p) \/ TryFails(p)
  \/ Listen(p) \/ ListenFails(p) \/ NoneLeft(p)

-----------------------------------------------------------------------------
OpenInit ==
  /\ at = [p \in Process |-> 1]
  /\ place = [p \in Process |-> "idle"]
  /\ fd = [p \in Process |-> 0]
  /\ open = [p \in Process |-> NewProcess]
  /\ node = [p \in Process |-> -1]

OpenNext ==
  \E p \in Process : Resolve(p) \/ OpenStep(p) \/ Keep(p) \/ Create(p) \/ OpenDie(p)

(* Every system call returns, if only with ETIMEDOUT.                      *)
OpenSpec ==
  OpenInit /\ [][OpenNext]_openVars /\ \A p \in Process : WF_openVars(OpenStep(p))
-----------------------------------------------------------------------------
(* Properties                                                              *)

(* Descriptors of sockets that a process holds.                            *)
Sockets(p) == {f \in Fd : open[p][f] \notin {"free", "file"}}

OpenTypeOK ==
  /\ at \in [Process -> 1 .. NAddr + 1] /\ place \in [Process -> Place]
  /\ fd \in [Process -> Fd] /\ open \in [Process -> [Fd -> Descriptor]]
  /\ node \in [Process -> Slot \cup Fd \cup {-1}]

(* What the socket of a process is, by the place the process has reached.  *)
Stage(p) ==
  CASE place[p] = "try" -> "socket"
    [] place[p] = "listen" -> "bound"
    [] OTHER -> IF p \in Server THEN "listener" ELSE "connection"

SocketInv(p) ==
  /\ place[p] \in {"idle", "socket"} => Sockets(p) = {}
  /\ place[p] \in {"try", "listen", "done", "opened"} =>
       Sockets(p) = {fd[p]} /\ open[p][fd[p]] = Stage(p)
  /\ place[p] \in {"try", "listen"} => at[p] <= NAddr
  /\ place[p] = "listen" => p \in Server
  /\ place[p] \in {"opened", "created"} => p \in Client
  /\ place[p] = "opened" => node[p] = fd[p]

(* Whatever fails in the middle of the list, a process holds the socket it *)
(* works on and no other: none is left of the addresses before.            *)
OpenInv == OpenTypeOK /\ \A p \in Process : SocketInv(p)

(* A descriptor that open_listenfd() returns is listening, and the process *)
(* is the only one at its address, however many have got through bind().   *)
OneServerPerAddress ==
  \A s \in Server : place[s] = "done" =>
    /\ open[s][fd[s]] = "listener"
    /\ \A t \in Server : place[t] = "done" /\ at[t] = at[s] => t = s

CreatedInv(c) ==
  place[c] = "created" =>
    /\ Sockets(c) = (Fd \cap {node[c]}) \ {fd[c]}
    /\ \A f \in Sockets(c) : open[c][f] = "connection"

(* natip_client.cc: createConnection() creates a connection node and       *)
(* returns an object that can communicate with the server directly.        *)
CreatedIsConnected ==
  \A c \in Client : place[c] = "created" =>
    node[c] \in Fd /\ open[c][node[c]] = "connection"

(* A Connection of openConnection() is the connection.  One of             *)
(* createConnection() often is not, against CreatedIsConnected: it is if   *)
(* and only if its uninitialized socket_fd_ was a descriptor, and not the  *)
(* one of the connection itself.  In every other case the connection is    *)
(* closed before anybody can use it, and no descriptor of it is left.      *)
NodeIsConnected ==
  \A c \in Client :
    /\ place[c] = "opened" => open[c][node[c]] = "connection"
    /\ CreatedInv(c)

(* The search of an address ends, whichever calls fail.                    *)
OpenEnds ==
  \A p \in Process :
    place[p] \in {"socket", "try", "listen"} ~> place[p] \in {"idle", "done"}

(* What is left of the search of p: three steps for each address.          *)
OpenRank(p) ==
  IF place[p] \in {"socket", "try", "listen"}
  THEN 3 * (NAddr + 1 - at[p])
         + (IF place[p] = "socket" THEN 1 ELSE IF place[p] = "try" THEN 0 ELSE -1)
  ELSE 0

(* Every system call of a search brings it nearer to its end, whether the  *)
(* call fails or not, and nothing another process does takes it back.      *)
OpenAdvances ==
  [][\A p \in Process :
       place[p] \in {"socket", "try", "listen"} =>
         /\ OpenRank(p) \in Nat /\ OpenRank(p)' <= OpenRank(p)
         /\ OpenStep(p) => OpenRank(p)' < OpenRank(p)]_openVars
=============================================================================
