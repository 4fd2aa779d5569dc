--------------------------- MODULE NatIpServerInv ---------------------------
(***************************************************************************)
(* The inductive invariant behind the safety properties of NatIpServer: a  *)
(* conjunction of parts, each strong enough to be preserved together with  *)
(* the parts before it.                                                    *)
(***************************************************************************)
EXTENDS NatIpServer

(* While the server starts up there is neither a child nor a signal, and   *)
(* a process that has ended does nothing more.                             *)
StartupInv ==
  /\ mpc \in {"loadConfig", "startListen"} =>
       /\ \A p \in Pid : cpc[p] = "none"
       /\ ~sigPending
       /\ hpc = "idle"
       /\ \A f \in Fds : fds[f] \in {"free", "std"}
  /\ hpc # "idle" => Up
  /\ exitReason # "none" => ~Up

(* Whoever died has a SIGCHLD pending, or a handler that will call         *)
(* waitpid() again.                                                        *)
ZombieInv ==
  Up /\ Zombies # {} =>
    sigPending \/ hpc \in {"waitpid", "connect", "execute", "release"}

(* The only MySQL session is the one the handler has open just now.        *)
SessionInv ==
  /\ hpc \in {"execute", "release"} => fds[dbfd] = "db"
  /\ \A f \in Fds :
       fds[f] = "db" => hpc \in {"execute", "release"} /\ f = dbfd

(* Where in an iteration of the accept loop the server holds the accepted  *)
(* connection: first at connfd, then at the slot as well if the slot is a  *)
(* descriptor, then only at the slot.                                      *)
CurrentConnInv ==
  /\ \A f \in Fds : fds[f] \in Conn =>
       /\ fds[f] = current
       /\ \/ mpc = "setConnection" /\ f = connfd
          \/ mpc = "closeConnfd" /\ f \in {connfd, sockfd}
          \/ /\ mpc \in {"fork", "sendError", "closeConn"}
             /\ f = sockfd /\ f # connfd
  /\ mpc \in {"setConnection", "closeConnfd", "fork"} => current \in Conn
  /\ mpc \in {"setConnection", "closeConnfd"} => fds[connfd] = current
  /\ mpc = "closeConnfd" /\ sockfd \in Fds => fds[sockfd] = current
  /\ mpc \in {"fork", "sendError", "closeConn"} /\ sockfd \in Fds \ {connfd}
       => fds[sockfd] = current /\ current \in Conn
  /\ exitReason = "close" => sockfd \notin Fds \/ sockfd = connfd

(* The listening socket leaves listen_fd_ only by way of the slot.         *)
ListenInv ==
  /\ Up /\ mpc \notin {"loadConfig", "startListen"} /\ sockfd # listenFd
       => fds[listenFd] = "listen"
  /\ mpc = "setConnection" => fds[listenFd] = "listen"
  /\ mpc \in {"setConnection", "closeConnfd"} => connfd # listenFd

(* errno of a failed accept() is in errno, or in the handler's copy.       *)
ErrnoInv ==
  /\ mpc = "acceptFailed" =>
       acceptErr = (IF hpc = "idle" THEN errno ELSE oldErrno)
  /\ exitReason = "accept" => acceptErr = "EOTHER"

(* Children hold accepted connections only, never the same one twice, and  *)
(* not yet the one that the server has not forked for.                     *)
IsolationInv ==
  /\ \A p \in Pid, f \in Fds :
       cfds[p][f] \in Conn => connState[cfds[p][f]] = "accepted"
  /\ current \in Conn => connState[current] = "accepted"
  /\ mpc \in {"setConnection", "closeConnfd", "fork"} =>
       \A p \in Pid, f \in Fds : cfds[p][f] # current
  /\ ChildIsolation

(* A pid that the handler has collected is not in use while the handler    *)
(* deletes its row.                                                        *)
ReapedPidInv ==
  hpc \in {"connect", "execute"} => hpid \in Pid /\ cpc[hpid] = "none"

IInv ==
  /\ TypeOK /\ StartupInv /\ ZombieInv /\ SessionInv /\ CurrentConnInv
  /\ ListenInv /\ ErrnoInv /\ IsolationInv /\ ReapedPidInv
=============================================================================
