---------------------------- MODULE NatIpServer ----------------------------
(***************************************************************************)
(* The natip server process: main() of server/main.cc, the class           *)
(* NatIpServer of server/natip_server.cc, the part of jdt::Connection that *)
(* it uses (lib/jdt_connection.cc) and the DELETE path of manageMySQL      *)
(* (server/data_manager.cc), which the SIGCHLD handler runs.               *)
(*                                                                         *)
(* One server process forks one child per accepted connection.  The server *)
(* has a single thread; the handler interrupts it between any two of its   *)
(* steps and runs to its end before main() goes on (MainRuns).  The        *)
(* descriptor tables are those of the kernel: accept() and connect() take  *)
(* the lowest free descriptor, fork() copies the table, exit() empties it. *)
(***************************************************************************)
EXTENDS Naturals, FiniteSets

CONSTANTS
  Pid,        \* process ids the kernel may give to children
  Conn,       \* TCP connections that clients may open
  MaxFd,      \* descriptors are 0 .. MaxFd (RLIMIT_NOFILE); bounds the tables
  StdFds,     \* descriptors open when the server starts (stdin, stdout, ...)
  StackValue  \* values that an uninitialized Connection::socket_fd_ may hold

Fds == 0 .. MaxFd

ASSUME PidAssumption == IsFiniteSet(Pid)
ASSUME MaxFdAssumption == MaxFd \in Nat
ASSUME StdFdsAssumption == StdFds \subseteq Fds

(* What a descriptor may refer to: nothing, a standard stream, the         *)
(* listening socket, the socket of the MySQL session, or a connection.     *)
Special == {"free", "std", "listen", "db"}
ASSUME ConnAssumption == Conn \cap (Special \cup {"none"}) = {}
Object == Special \cup Conn

(* Only the comparison of errno with EINTR has any effect in the program.  *)
Errno == {"EINTR", "EOTHER"}

VARIABLES
  mpc,        \* where main() is
  hpc,        \* where the SIGCHLD handler is ("idle": it is not running)
  cpc,        \* where each child is; "none": the pid is not in use
  fds,        \* descriptor table of the server
  cfds,       \* descriptor tables of the children
  listenFd,   \* NatIpServer::listen_fd_
  connfd,     \* local connfd of acceptConnection()
  sockfd,     \* Connection::socket_fd_ of the accepted connection
  errno,      \* errno of the server's only thread
  oldErrno,   \* local old_errno of sigchldHandler()
  sigPending, \* a SIGCHLD is pending (pending signals do not queue)
  hpid,       \* local pid of sigchldHandler()
  dbfd,       \* descriptor of the MySQL session of the handler
  rows,       \* the pids that have a row in table client_data
  connState,  \* each connection: "idle", "queued" in the backlog, "accepted"
  current,    \* history: the connection accepted last
  acceptErr,  \* history: errno of the failing accept()
  exitReason  \* history: the call that ended the server

mainVars == <<mpc, fds, listenFd, connfd, sockfd, errno>>
handlerVars == <<hpc, oldErrno, hpid, dbfd, rows>>
childVars == <<cpc, cfds>>
history == <<current, acceptErr, exitReason>>
vars == <<mainVars, handlerVars, childVars, history, sigPending, connState>>

MainPc == {"loadConfig", "startListen", "accept", "acceptFailed",
           "setConnection", "closeConnfd", "fork", "sendError", "closeConn",
           "exited"}
HandlerPc == {"idle", "waitpid", "connect", "execute", "release", "return"}
ChildPc == {"none", "stopListen", "exit", "zombie"}
Reason == {"none", "config", "listen", "accept", "send", "close"}

Up == mpc # "exited"
NoDescriptors == [f \in Fds |-> "free"]
Running == {p \in Pid : cpc[p] \in {"stopListen", "exit"}}
Zombies == {p \in Pid : cpc[p] = "zombie"}

(* The slot that a file descriptor operation takes.                        *)
LowestFree(tab, f) ==
  /\ f \in Fds
  /\ tab[f] = "free"
  /\ \A g \in Fds : tab[g] = "free" => f <= g

-----------------------------------------------------------------------------
(* Descriptor calls and the decisions of main() and of the handler, one    *)
(* operator each.  An operator named Wrong... is the form a plausible slip *)
(* would give to the operator after it; no action uses it.                 *)

(* dup2(from, to): nothing if `to` is no descriptor (EBADF), else `to`     *)
(* refers to what `from` refers to and what it referred to is closed.      *)
WrongDup2(tab, from, to) ==
  IF to \in Fds THEN [tab EXCEPT ![from] = tab[to]] ELSE tab
Dup2(tab, from, to) ==
  IF to \in Fds THEN [tab EXCEPT ![to] = tab[from]] ELSE tab

(* close(connfd) at the end of acceptConnection().                         *)
WrongAfterCloseConnfd == fds
WrongCloseOfListener == [fds EXCEPT ![listenFd] = "free"]
AfterCloseConnfd == [fds EXCEPT ![connfd] = "free"]

(* What Connection::closeConnection() leaves.                              *)
WrongAfterCloseConnection == fds
AfterCloseConnection == [fds EXCEPT ![sockfd] = "free"]

(* The only errno after which acceptConnection() calls accept() again.     *)
RetryAccept == errno = "EINTR"

(* The handler runs on the thread of main(), so main() waits for its end.  *)
WrongMainRuns == Up
MainRuns == Up /\ hpc = "idle"

(* After one child the handler calls waitpid() again: it is a while loop.  *)
WrongAfterRelease == "return"
AfterRelease == "waitpid"

(* errno when the handler returns.                                         *)
WrongErrnoAtReturn == errno
ErrnoAtReturn == oldErrno

(* `delete con` is reached on every path out of the try block.             *)
WrongAfterDeleteCon == fds
AfterDeleteCon == [fds EXCEPT ![dbfd] = "free"]

-----------------------------------------------------------------------------
(* main()                                                                  *)

ServerExit(reason) ==
  /\ mpc' = "exited"
  /\ fds' = NoDescriptors
  /\ exitReason' = reason
  /\ UNCHANGED <<listenFd, connfd, sockfd, errno, current, acceptErr,
                 handlerVars, childVars, sigPending, connState>>

(* loadConfig(): a file that cannot be read, parsed or that lacks a key    *)
(* ends the server (err_quit).                                             *)
LoadConfig ==
  /\ mpc = "loadConfig"
  /\ \/ /\ mpc' = "startListen"
        /\ UNCHANGED <<fds, listenFd, connfd, sockfd, errno, handlerVars,
                       childVars, history, sigPending, connState>>
     \/ ServerExit("config")

(* Open_listenfd() tests for -1 and exits; open_listenfd() would not.       *)
ListenFailed == ServerExit("listen")

(* startListen(): Open_listenfd() returns a listening socket or exits.     *)
StartListen ==
  /\ mpc = "startListen"
  /\ \/ /\ \E f \in Fds :
             /\ LowestFree(fds, f)
             /\ fds' = [fds EXCEPT ![f] = "listen"]
             /\ listenFd' = f
        /\ mpc' = "accept"
        /\ UNCHANGED <<connfd, sockfd, errno, handlerVars, childVars,
                       history, sigPending, connState>>
     \/ ListenFailed

(* accept() returns a connection of the backlog on the lowest descriptor.  *)
AcceptOk(c) ==
  /\ MainRuns
  /\ mpc = "accept"
  /\ fds[listenFd] = "listen"
  /\ connState[c] = "queued"
  /\ \E f \in Fds :
       /\ LowestFree(fds, f)
       /\ fds' = [fds EXCEPT ![f] = c]
       /\ connfd' = f
  /\ connState' = [connState EXCEPT ![c] = "accepted"]
  /\ current' = c
  /\ mpc' = "setConnection"
  /\ UNCHANGED <<listenFd, sockfd, errno, acceptErr, exitReason,
                 handlerVars, childVars, sigPending>>

(* accept() fails: EBADF or EINVAL if listen_fd_ is no listening socket    *)
(* any more, EMFILE, ECONNABORTED and the like; EINTR after a signal,      *)
(* which SA_RESTART makes rare and which the code provides for.            *)
AcceptError ==
  /\ MainRuns
  /\ mpc = "accept"
  /\ errno' \in IF fds[listenFd] = "listen" THEN Errno ELSE {"EOTHER"}
  /\ acceptErr' = errno'
  /\ mpc' = "acceptFailed"
  /\ UNCHANGED <<fds, listenFd, connfd, sockfd, current, exitReason,
                 handlerVars, childVars, sigPending, connState>>

(* The test of errno: retry, or err_sys().                                 *)
AcceptFailed ==
  /\ MainRuns
  /\ mpc = "acceptFailed"
  /\ \/ /\ RetryAccept
        /\ mpc' = "accept"
        /\ UNCHANGED <<fds, listenFd, connfd, sockfd, errno, handlerVars,
                       childVars, history, sigPending, connState>>
     \/ /\ ~RetryAccept
        /\ ServerExit("accept")

(* conn.setConnection(connfd): socket_fd_ was never assigned, so it is     *)
(* whatever the stack slot holds; the result of dup2() is not looked at.   *)
SetConnection ==
  /\ MainRuns
  /\ mpc = "setConnection"
  /\ \E v \in StackValue :
       /\ sockfd' = v
       /\ fds' = Dup2(fds, connfd, v)
       /\ errno' = IF v \in Fds THEN errno ELSE "EOTHER"
  /\ mpc' = "closeConnfd"
  /\ UNCHANGED <<listenFd, connfd, handlerVars, childVars, history,
                 sigPending, connState>>

CloseConnfd ==
  /\ MainRuns
  /\ mpc = "closeConnfd"
  /\ fds' = AfterCloseConnfd
  /\ mpc' = "fork"
  /\ UNCHANGED <<listenFd, connfd, sockfd, errno, handlerVars, childVars,
                 history, sigPending, connState>>

(* fork() gives a pid of no process, running or zombie, and copies fds.    *)
ForkOk(p) ==
  /\ MainRuns
  /\ mpc = "fork"
  /\ cpc[p] = "none"
  /\ cpc' = [cpc EXCEPT ![p] = "stopListen"]
  /\ cfds' = [cfds EXCEPT ![p] = fds]
  /\ mpc' = "closeConn"
  /\ UNCHANGED <<fds, listenFd, connfd, sockfd, errno, handlerVars, history,
                 sigPending, connState>>

ForkError ==
  /\ MainRuns
  /\ mpc = "fork"
  /\ errno' = "EOTHER"
  /\ mpc' = "sendError"
  /\ UNCHANGED <<fds, listenFd, connfd, sockfd, handlerVars, childVars,
                 history, sigPending, connState>>

(* What socket_fd_ refers to; an invalid value refers to nothing.          *)
SlotObject == IF sockfd \in Fds THEN fds[sockfd] ELSE "free"

(* sendError(): Rio_writen() on the connection succeeds, or the process    *)
(* ends (unix_error() calls exit(0), or SIGPIPE).                          *)
SendError ==
  /\ MainRuns
  /\ mpc = "sendError"
  /\ \/ /\ SlotObject \in Conn
        /\ mpc' = "closeConn"
        /\ UNCHANGED <<fds, listenFd, connfd, sockfd, errno, handlerVars,
                       childVars, history, sigPending, connState>>
     \/ ServerExit("send")

(* closeConnection(): Close() ends the process if close() fails.           *)
CloseConnection ==
  /\ MainRuns
  /\ mpc = "closeConn"
  /\ \/ /\ SlotObject # "free"
        /\ fds' = AfterCloseConnection
        /\ mpc' = "accept"
        /\ UNCHANGED <<listenFd, connfd, sockfd, errno, handlerVars,
                       childVars, history, sigPending, connState>>
     \/ /\ SlotObject = "free"
        /\ ServerExit("close")

Main ==
  \/ LoadConfig \/ StartListen
  \/ \E c \in Conn : AcceptOk(c)
  \/ AcceptError \/ AcceptFailed
  \/ SetConnection \/ CloseConnfd
  \/ \E p \in Pid : ForkOk(p)
  \/ ForkError \/ SendError \/ CloseConnection

-----------------------------------------------------------------------------
(* sigchldHandler()                                                        *)

(* Delivery of SIGCHLD, which is blocked while its handler runs.           *)
HandlerEnter ==
  /\ MainRuns
  /\ sigPending
  /\ sigPending' = FALSE
  /\ oldErrno' = errno
  /\ hpc' = "waitpid"
  /\ UNCHANGED <<mainVars, hpid, dbfd, rows, childVars, history, connState>>

(* waitpid(-1, &status, WNOHANG) > 0: one zombie is collected and its pid  *)
(* is free again; the handler then deletes the row of that pid.            *)
HandlerReap(p) ==
  /\ Up
  /\ hpc = "waitpid"
  /\ cpc[p] = "zombie"
  /\ cpc' = [cpc EXCEPT ![p] = "none"]
  /\ hpid' = p
  /\ hpc' = "connect"
  /\ UNCHANGED <<mainVars, oldErrno, dbfd, rows, cfds, history, sigPending,
                 connState>>

(* waitpid() returns 0, or -1 with ECHILD if there is no child at all.     *)
HandlerNoMore ==
  /\ Up
  /\ hpc = "waitpid"
  /\ Zombies = {}
  /\ errno' = IF Running = {} THEN "EOTHER" ELSE errno
  /\ hpc' = "return"
  /\ UNCHANGED <<mpc, fds, listenFd, connfd, sockfd, oldErrno, hpid, dbfd,
                 rows, childVars, history, sigPending, connState>>

(* manageMySQL(DEL_CLIENT): the session is opened, or connect() throws and *)
(* there is nothing to release.                                            *)
HandlerConnect ==
  /\ Up
  /\ hpc = "connect"
  /\ errno' \in Errno
  /\ \/ /\ \E f \in Fds :
             /\ LowestFree(fds, f)
             /\ fds' = [fds EXCEPT ![f] = "db"]
             /\ dbfd' = f
        /\ hpc' = "execute"
     \/ /\ hpc' = AfterRelease
        /\ UNCHANGED <<fds, dbfd>>
  /\ UNCHANGED <<mpc, listenFd, connfd, sockfd, oldErrno, hpid, rows,
                 childVars, history, sigPending, connState>>

(* The statements up to DELETE FROM client_data WHERE pid=...: the row is  *)
(* deleted, whether or not the reply arrives, or an exception comes first. *)
HandlerExecute ==
  /\ Up
  /\ hpc = "execute"
  /\ errno' \in Errno
  /\ rows' \in {rows \ {hpid}, rows}
  /\ hpc' = "release"
  /\ UNCHANGED <<mpc, fds, listenFd, connfd, sockfd, oldErrno, hpid, dbfd,
                 childVars, history, sigPending, connState>>

HandlerRelease ==
  /\ Up
  /\ hpc = "release"
  /\ errno' \in Errno
  /\ fds' = AfterDeleteCon
  /\ hpc' = AfterRelease
  /\ UNCHANGED <<mpc, listenFd, connfd, sockfd, oldErrno, hpid, dbfd, rows,
                 childVars, history, sigPending, connState>>

HandlerReturn ==
  /\ Up
  /\ hpc = "return"
  /\ errno' = ErrnoAtReturn
  /\ hpc' = "idle"
  /\ UNCHANGED <<mpc, fds, listenFd, connfd, sockfd, oldErrno, hpid, dbfd,
                 rows, childVars, history, sigPending, connState>>

HandlerStep ==
  \/ \E p \in Pid : HandlerReap(p)
  \/ HandlerNoMore \/ HandlerConnect \/ HandlerExecute \/ HandlerRelease
  \/ HandlerReturn

-----------------------------------------------------------------------------
(* Children and clients                                                    *)

(* server.stopListen() in the child closes its copy of listen_fd_.         *)
ChildStopListen(p) ==
  /\ cpc[p] = "stopListen"
  /\ cfds' = [cfds EXCEPT ![p][listenFd] = "free"]
  /\ cpc' = [cpc EXCEPT ![p] = "exit"]
  /\ UNCHANGED <<mainVars, handlerVars, history, sigPending, connState>>

(* The end of a child, by exit(0) or by a signal: its descriptors close,   *)
(* it is a zombie until the server waits for it, and SIGCHLD is pending.   *)
Terminate(p) ==
  /\ cpc' = [cpc EXCEPT ![p] = "zombie"]
  /\ cfds' = [cfds EXCEPT ![p] = NoDescriptors]
  /\ sigPending' = TRUE
  /\ UNCHANGED <<mainVars, handlerVars, history, connState>>

ChildExit(p) == cpc[p] = "exit" /\ Terminate(p)

ChildKilled(p) == cpc[p] \in {"stopListen", "exit"} /\ Terminate(p)

(* A client connects while some process has the listening socket open.     *)
ClientConnect(c) ==
  /\ connState[c] = "idle"
  /\ \/ \E f \in Fds : fds[f] = "listen"
     \/ \E p \in Pid, f \in Fds : cfds[p][f] = "listen"
  /\ connState' = [connState EXCEPT ![c] = "queued"]
  /\ UNCHANGED <<mainVars, handlerVars, childVars, history, sigPending>>

ChildStep(p) == ChildStopListen(p) \/ ChildExit(p)

-----------------------------------------------------------------------------
(* NatIpServer() has installed the handler.  Locals that nothing reads     *)
(* before they are assigned start at 0 or "none"; the table client_data is *)
(* persistent, so it may hold any rows.                                    *)
Init ==
  /\ mpc = "loadConfig"
  /\ hpc = "idle"
  /\ cpc = [p \in Pid |-> "none"]
  /\ fds = [f \in Fds |-> IF f \in StdFds THEN "std" ELSE "free"]
  /\ cfds = [p \in Pid |-> NoDescriptors]
  /\ listenFd = 0 /\ connfd = 0 /\ sockfd = 0 /\ dbfd = 0
  /\ errno = "EOTHER" /\ oldErrno = "EOTHER"
  /\ sigPending = FALSE
  /\ hpid = "none"
  /\ rows \in SUBSET Pid
  /\ connState = [c \in Conn |-> "idle"]
  /\ current = "none"
  /\ acceptErr = "EOTHER"
  /\ exitReason = "none"

Next ==
  \/ Main
  \/ HandlerEnter
  \/ HandlerStep
  \/ \E p \in Pid : ChildStep(p) \/ ChildKilled(p)
  \/ \E c \in Conn : ClientConnect(c)

(* The kernel schedules every runnable process and delivers a pending      *)
(* signal; the calls to MySQL return, with or without an error.            *)
Fairness ==
  /\ WF_vars(Main)
  /\ WF_vars(HandlerEnter)
  /\ WF_vars(HandlerStep)
  /\ \A p \in Pid : WF_vars(ChildStep(p))

Spec == Init /\ [][Next]_vars /\ Fairness
-----------------------------------------------------------------------------
(* Properties                                                              *)

(* Every variable keeps its type.                                          *)
TypeOK ==
  /\ mpc \in MainPc /\ hpc \in HandlerPc /\ cpc \in [Pid -> ChildPc]
  /\ fds \in [Fds -> Object]
  /\ cfds \in [Pid -> [Fds -> Object]]
  /\ listenFd \in Fds /\ connfd \in Fds /\ dbfd \in Fds
  /\ sockfd \in StackValue \cup {0}
  /\ errno \in Errno /\ oldErrno \in Errno /\ acceptErr \in Errno
  /\ sigPending \in BOOLEAN
  /\ hpid \in Pid \cup {"none"}
  /\ rows \in SUBSET Pid
  /\ connState \in [Conn -> {"idle", "queued", "accepted"}]
  /\ current \in Conn \cup {"none"}
  /\ exitReason \in Reason

(* SIGCHLDs coalesce: any number of children may die while one is pending  *)
(* or handled.  Whenever the handler is not running and no SIGCHLD is      *)
(* pending there is nothing left to collect (the while loop of             *)
(* sigchldHandler).                                                        *)
NoLostZombie == Up /\ hpc = "idle" /\ ~sigPending => Zombies = {}

(* Each time main() is about to accept, the server holds no connection of  *)
(* an earlier iteration, whatever the uninitialized socket_fd_ was, and    *)
(* whether fork() succeeded or not.                                        *)
LoopHoldsNoConnection == mpc = "accept" => \A f \in Fds : fds[f] \notin Conn

(* The MySQL session of the handler is closed on every path, failures      *)
(* included, before main() goes on.                                        *)
NoSessionLeft == hpc = "idle" => \A f \in Fds : fds[f] # "db"

(* A child has no descriptor of another child's connection: what fork()    *)
(* copies is the connection accepted last and no other.                    *)
ChildIsolation ==
  \A p, q \in Pid : \A f, g \in Fds :
    cfds[p][f] \in Conn /\ cfds[q][g] = cfds[p][f] => p = q

(* If accept() fails and ends the server, then not because a signal        *)
(* interrupted it, however handler runs fall between the failing call and  *)
(* the test of errno; and if main() finds EINTR there and tries again, it  *)
(* is because accept() was interrupted, and not over another error.        *)
SignalNeverKillsServer ==
  /\ exitReason = "accept" => acceptErr = "EOTHER"
  /\ mpc = "acceptFailed" /\ hpc = "idle" /\ RetryAccept => acceptErr = "EINTR"

(* Close() ends the server only if the uninitialized slot held no          *)
(* descriptor, or the very one that accept() had returned.                 *)
OnlyBadSlotFailsClose ==
  exitReason = "close" => sockfd \notin Fds \/ sockfd = connfd

(* The listening socket is open for as long as the server runs, unless the *)
(* uninitialized slot named its descriptor and dup2() closed it.           *)
ListenerSurvives ==
  /\ Up /\ mpc \notin {"loadConfig", "startListen"}
  /\ sockfd # listenFd
  => fds[listenFd] = "listen"

(* A pid is free for reuse once waitpid() returned it, and the handler     *)
(* deletes the row of the pid only afterwards.  Still no row is deleted    *)
(* while a process of that pid runs.                                       *)
RowOutlivesChild ==
  [][\A p \in rows \ rows' : p \notin Running /\ p \notin Running']_vars

(* The processes of the server behave as the ledger of children promises:  *)
(* in particular every zombie is collected while the server runs.          *)
Ledger == INSTANCE ChildLedger WITH
            up <- Up, running <- Running, zombie <- Zombies
ImplementsLedger == Ledger!Spec

Held(c) ==
  \/ \E f \in Fds : fds[f] = c
  \/ \E p \in Pid, f \in Fds : cfds[p][f] = c

(* Every accepted connection is eventually closed by all processes of the  *)
(* server (the client sees the end of the stream), in every outcome of     *)
(* dup2(), fork(), the handler and the child.                              *)
AcceptedIsClosed ==
  \A c \in Conn : connState[c] = "accepted" ~> ~Held(c)

(* natip_server.hpp: acceptConnection() accepts a connection and returns   *)
(* its message node, so the returned object refers to that connection.     *)
ReturnedConnectionIsUsable == mpc = "fork" => SlotObject = current

(* What the handler has left to do if all children die while it runs.      *)
HandlerRank ==
  IF hpc = "idle" THEN 0
  ELSE 4 * Cardinality({p \in Pid : cpc[p] # "none"})
         + (IF hpc = "connect" THEN 5 ELSE IF hpc = "execute" THEN 4
            ELSE IF hpc = "release" THEN 3 ELSE IF hpc = "waitpid" THEN 2 ELSE 1)

(* The handler ends, however many children die while it runs and whatever  *)
(* fails in it: main() waits for four steps per child at most.             *)
HandlerAdvances ==
  [][hpc # "idle" => /\ HandlerRank' <= HandlerRank
                     /\ HandlerStep => HandlerRank' < HandlerRank]_vars
=============================================================================
