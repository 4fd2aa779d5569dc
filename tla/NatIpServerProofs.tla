------------------------- MODULE NatIpServerProofs -------------------------
(***************************************************************************)
(* Proofs about NatIpServer, for every set of pids and connections, every  *)
(* size of the descriptor table and every value that the uninitialized     *)
(* socket_fd_ may hold.                                                    *)
(***************************************************************************)
EXTENDS NatIpServerInv, FiniteSetTheorems, TLAPS

(* Every variable keeps its type.                                          *)
LEMMA TypeNext == ASSUME TypeOK, [Next]_vars PROVE TypeOK'
<1> USE DEF TypeOK, MainPc, HandlerPc, ChildPc, Reason, Object, Special,
            Errno, NoDescriptors, LowestFree, mainVars, handlerVars,
            childVars, history
<1>1. ASSUME NEW r \in Reason, ServerExit(r) PROVE TypeOK'
  BY <1>1 DEF ServerExit
<1>2. CASE LoadConfig
  BY <1>1, <1>2 DEF LoadConfig
<1>3. CASE StartListen
  BY <1>1, <1>3 DEF StartListen, ListenFailed
<1>4. ASSUME NEW c \in Conn, AcceptOk(c) PROVE TypeOK'
  BY <1>4 DEF AcceptOk
<1>5. CASE AcceptError
  BY <1>5 DEF AcceptError
<1>6. CASE AcceptFailed
  BY <1>1, <1>6 DEF AcceptFailed
<1>7. CASE SetConnection
  BY <1>7 DEF SetConnection, Dup2
<1>8. CASE CloseConnfd
  BY <1>8 DEF CloseConnfd, AfterCloseConnfd
<1>9. ASSUME NEW p \in Pid, ForkOk(p) PROVE TypeOK'
  BY <1>9 DEF ForkOk
<1>10. CASE ForkError
  BY <1>10 DEF ForkError
<1>11. CASE SendError
  BY <1>1, <1>11 DEF SendError
<1>12. CASE CloseConnection
  BY <1>1, <1>12 DEF CloseConnection, AfterCloseConnection
<1>13. CASE HandlerEnter
  <2>1. /\ oldErrno' = errno /\ hpc' = "waitpid" /\ sigPending' = FALSE
        /\ UNCHANGED <<mpc, cpc, fds, cfds, listenFd, connfd, dbfd, sockfd, errno,
                       acceptErr, hpid, rows, connState, current, exitReason>>
    BY <1>13 DEF HandlerEnter
  <2>2. sigPending' \in BOOLEAN /\ hpc' \in HandlerPc
    BY <2>1
  <2> HIDE DEF MainPc, HandlerPc, ChildPc, Reason, Object, Errno
  <2> QED
    BY <2>1, <2>2, Zenon
<1>14. ASSUME NEW p \in Pid, HandlerReap(p) PROVE TypeOK'
  BY <1>14 DEF HandlerReap
<1>15. CASE HandlerNoMore
  BY <1>15 DEF HandlerNoMore
<1>16. CASE HandlerConnect
  BY <1>16 DEF HandlerConnect, AfterRelease
<1>17. CASE HandlerExecute
  BY <1>17 DEF HandlerExecute
<1>18. CASE HandlerRelease
  BY <1>18 DEF HandlerRelease, AfterDeleteCon, AfterRelease
<1>19. CASE HandlerReturn
  BY <1>19 DEF HandlerReturn, ErrnoAtReturn
<1>20. ASSUME NEW p \in Pid, ChildStopListen(p) PROVE TypeOK'
  BY <1>20 DEF ChildStopListen
<1>21. ASSUME NEW p \in Pid, Terminate(p) PROVE TypeOK'
  BY <1>21 DEF Terminate
<1>22. ASSUME NEW c \in Conn, ClientConnect(c) PROVE TypeOK'
  BY <1>22 DEF ClientConnect
<1>23. CASE UNCHANGED vars
  BY <1>23 DEF vars
<1> QED
  BY <1>2, <1>3, <1>4, <1>5, <1>6, <1>7, <1>8, <1>9, <1>10, <1>11, <1>12,
     <1>13, <1>14, <1>15, <1>16, <1>17, <1>18, <1>19, <1>20, <1>21, <1>22,
     <1>23 DEF Next, Main, HandlerStep, ChildStep, ChildExit, ChildKilled

THEOREM TypeCorrect == Spec => []TypeOK
<1>1. ASSUME Init PROVE TypeOK
  <2>1. 0 \in Fds
    BY MaxFdAssumption DEF Fds
  <2>2. fds \in [Fds -> Object] /\ cfds \in [Pid -> [Fds -> Object]]
    BY <1>1 DEF Init, Object, Special, NoDescriptors
  <2> QED
    BY <1>1, <2>1, <2>2
       DEF Init, TypeOK, MainPc, HandlerPc, ChildPc, Reason, Errno
<1> QED
  BY <1>1, TypeNext, PTL DEF Spec
(* Part 1 is preserved: a child needs a fork, which main() reaches only    *)
(* after the start, and only the termination of a child makes SIGCHLD      *)
(* pending.                                                                *)
LEMMA StartupNext ==
  ASSUME TypeOK, StartupInv, [Next]_vars
  PROVE  StartupInv'
<1> USE DEF TypeOK, StartupInv, NoDescriptors, mainVars, handlerVars,
    childVars, history, Up
<1>1. CASE LoadConfig
  BY <1>1 DEF LoadConfig, ServerExit
<1>2. CASE StartListen
  BY <1>2 DEF StartListen, ListenFailed, ServerExit, LowestFree
<1>3. ASSUME NEW c \in Conn, AcceptOk(c) PROVE StartupInv'
  BY <1>3 DEF AcceptOk, LowestFree, MainRuns
<1>4. CASE AcceptError
  BY <1>4 DEF AcceptError, MainRuns
<1>5. CASE AcceptFailed
  BY <1>5 DEF AcceptFailed, RetryAccept, ServerExit, MainRuns
<1>6. CASE SetConnection
  BY <1>6 DEF SetConnection, Dup2, MainRuns
<1>7. CASE CloseConnfd
  BY <1>7 DEF CloseConnfd, AfterCloseConnfd, MainRuns
<1>8. ASSUME NEW p \in Pid, ForkOk(p) PROVE StartupInv'
  BY <1>8 DEF ForkOk, MainRuns
<1>9. CASE ForkError
  BY <1>9 DEF ForkError, MainRuns
<1>10. CASE SendError
  BY <1>10 DEF SendError, ServerExit, SlotObject, MainRuns
<1>11. CASE CloseConnection
  BY <1>11 DEF CloseConnection, AfterCloseConnection, SlotObject, ServerExit,
      MainRuns
<1>12. CASE HandlerEnter
  BY <1>12 DEF HandlerEnter, MainRuns
<1>13. ASSUME NEW p \in Pid, HandlerReap(p) PROVE StartupInv'
  BY <1>13 DEF HandlerReap
<1>14. CASE HandlerNoMore
  BY <1>14 DEF HandlerNoMore
<1>15. CASE HandlerConnect
  BY <1>15 DEF HandlerConnect, AfterRelease, LowestFree
<1>16. CASE HandlerExecute
  BY <1>16 DEF HandlerExecute
<1>17. CASE HandlerRelease
  BY <1>17 DEF HandlerRelease, AfterDeleteCon, AfterRelease
<1>18. CASE HandlerReturn
  BY <1>18 DEF HandlerReturn, ErrnoAtReturn
<1>19. ASSUME NEW p \in Pid, ChildStopListen(p) PROVE StartupInv'
  BY <1>19 DEF ChildStopListen
<1>20. ASSUME NEW p \in Pid, cpc[p] \in {"stopListen", "exit"}, Terminate(p)
       PROVE  StartupInv'
  BY <1>20 DEF Terminate
<1>21. ASSUME NEW c \in Conn, ClientConnect(c) PROVE StartupInv'
  BY <1>21 DEF ClientConnect
<1>22. CASE UNCHANGED vars
  BY <1>22 DEF vars
<1> QED
  BY <1>1, <1>2, <1>3, <1>4, <1>5, <1>6, <1>7, <1>8, <1>9, <1>10, <1>11,
      <1>12, <1>13, <1>14, <1>15, <1>16, <1>17, <1>18, <1>19, <1>20, <1>21,
      <1>22 DEF Next, Main, HandlerStep, ChildStep, ChildExit, ChildKilled

(* Part 2 is preserved: a child that terminates leaves SIGCHLD pending, the*)
(* handler returns to waitpid() after each child, and leaves its loop only *)
(* when waitpid() finds no zombie.                                         *)
LEMMA ZombieNext ==
  ASSUME TypeOK, StartupInv, ZombieInv, [Next]_vars
  PROVE  ZombieInv'
<1> USE DEF TypeOK, StartupInv, ZombieInv, Zombies, Running, mainVars,
    handlerVars, childVars, history, Up
<1>1. CASE LoadConfig
  BY <1>1 DEF LoadConfig, ServerExit
<1>2. CASE StartListen
  BY <1>2 DEF StartListen, ListenFailed, ServerExit, LowestFree
<1>3. ASSUME NEW c \in Conn, AcceptOk(c) PROVE ZombieInv'
  BY <1>3 DEF AcceptOk, LowestFree, MainRuns
<1>4. CASE AcceptError
  BY <1>4 DEF AcceptError, MainRuns
<1>5. CASE AcceptFailed
  BY <1>5 DEF AcceptFailed, RetryAccept, ServerExit, MainRuns
<1>6. CASE SetConnection
  BY <1>6 DEF SetConnection, Dup2, MainRuns
<1>7. CASE CloseConnfd
  BY <1>7 DEF CloseConnfd, AfterCloseConnfd, MainRuns
<1>8. ASSUME NEW p \in Pid, ForkOk(p) PROVE ZombieInv'
  BY <1>8 DEF ForkOk, MainRuns
<1>9. CASE ForkError
  BY <1>9 DEF ForkError, MainRuns
<1>10. CASE SendError
  BY <1>10 DEF SendError, ServerExit, SlotObject, MainRuns
<1>11. CASE CloseConnection
  BY <1>11 DEF CloseConnection, AfterCloseConnection, SlotObject, ServerExit,
      MainRuns
<1>12. CASE HandlerEnter
  BY <1>12 DEF HandlerEnter, MainRuns
<1>13. ASSUME NEW p \in Pid, HandlerReap(p) PROVE ZombieInv'
  BY <1>13 DEF HandlerReap
<1>14. CASE HandlerNoMore
  BY <1>14 DEF HandlerNoMore
<1>15. CASE HandlerConnect
  BY <1>15 DEF HandlerConnect, AfterRelease, LowestFree
<1>16. CASE HandlerExecute
  BY <1>16 DEF HandlerExecute
<1>17. CASE HandlerRelease
  BY <1>17 DEF HandlerRelease, AfterDeleteCon, AfterRelease
<1>18. CASE HandlerReturn
  BY <1>18 DEF HandlerReturn, ErrnoAtReturn
<1>19. ASSUME NEW p \in Pid, ChildStopListen(p) PROVE ZombieInv'
  BY <1>19 DEF ChildStopListen
<1>20. ASSUME NEW p \in Pid, cpc[p] \in {"stopListen", "exit"}, Terminate(p)
       PROVE  ZombieInv'
  BY <1>20 DEF Terminate
<1>21. ASSUME NEW c \in Conn, ClientConnect(c) PROVE ZombieInv'
  BY <1>21 DEF ClientConnect
<1>22. CASE UNCHANGED vars
  BY <1>22 DEF vars
<1> QED
  BY <1>1, <1>2, <1>3, <1>4, <1>5, <1>6, <1>7, <1>8, <1>9, <1>10, <1>11,
      <1>12, <1>13, <1>14, <1>15, <1>16, <1>17, <1>18, <1>19, <1>20, <1>21,
      <1>22 DEF Next, Main, HandlerStep, ChildStep, ChildExit, ChildKilled

(* Part 3 is preserved: the descriptor of the session is the lowest free   *)
(* one, main() does nothing while the handler runs, and the handler frees  *)
(* it.                                                                     *)
LEMMA SessionNext ==
  ASSUME TypeOK, StartupInv, SessionInv, [Next]_vars
  PROVE  SessionInv'
<1> USE ConnAssumption DEF TypeOK, StartupInv, SessionInv, Object, Special,
    NoDescriptors, mainVars, handlerVars, childVars, history, Up
<1>1. CASE LoadConfig
  BY <1>1 DEF LoadConfig, ServerExit
<1>2. CASE StartListen
  BY <1>2 DEF StartListen, ListenFailed, ServerExit, LowestFree
<1>3. ASSUME NEW c \in Conn, AcceptOk(c) PROVE SessionInv'
  BY <1>3 DEF AcceptOk, LowestFree, MainRuns
<1>4. CASE AcceptError
  BY <1>4 DEF AcceptError, MainRuns
<1>5. CASE AcceptFailed
  BY <1>5 DEF AcceptFailed, RetryAccept, ServerExit, MainRuns
<1>6. CASE SetConnection
  BY <1>6 DEF SetConnection, Dup2, MainRuns
<1>7. CASE CloseConnfd
  BY <1>7 DEF CloseConnfd, AfterCloseConnfd, MainRuns
<1>8. ASSUME NEW p \in Pid, ForkOk(p) PROVE SessionInv'
  BY <1>8 DEF ForkOk, MainRuns
<1>9. CASE ForkError
  BY <1>9 DEF ForkError, MainRuns
<1>10. CASE SendError
  BY <1>10 DEF SendError, ServerExit, SlotObject, MainRuns
<1>11. CASE CloseConnection
  BY <1>11 DEF CloseConnection, AfterCloseConnection, SlotObject, ServerExit,
      MainRuns
<1>12. CASE HandlerEnter
  BY <1>12 DEF HandlerEnter, MainRuns
<1>13. ASSUME NEW p \in Pid, HandlerReap(p) PROVE SessionInv'
  BY <1>13 DEF HandlerReap
<1>14. CASE HandlerNoMore
  BY <1>14 DEF HandlerNoMore
<1>15. CASE HandlerConnect
  BY <1>15 DEF HandlerConnect, AfterRelease, LowestFree
<1>16. CASE HandlerExecute
  BY <1>16 DEF HandlerExecute
<1>17. CASE HandlerRelease
  BY <1>17 DEF HandlerRelease, AfterDeleteCon, AfterRelease
<1>18. CASE HandlerReturn
  BY <1>18 DEF HandlerReturn, ErrnoAtReturn
<1>19. ASSUME NEW p \in Pid, ChildStopListen(p) PROVE SessionInv'
  BY <1>19 DEF ChildStopListen
<1>20. ASSUME NEW p \in Pid, cpc[p] \in {"stopListen", "exit"}, Terminate(p)
       PROVE  SessionInv'
  BY <1>20 DEF Terminate
<1>21. ASSUME NEW c \in Conn, ClientConnect(c) PROVE SessionInv'
  BY <1>21 DEF ClientConnect
<1>22. CASE UNCHANGED vars
  BY <1>22 DEF vars
<1> QED
  BY <1>1, <1>2, <1>3, <1>4, <1>5, <1>6, <1>7, <1>8, <1>9, <1>10, <1>11,
      <1>12, <1>13, <1>14, <1>15, <1>16, <1>17, <1>18, <1>19, <1>20, <1>21,
      <1>22 DEF Next, Main, HandlerStep, ChildStep, ChildExit, ChildKilled

(* Part 4 is preserved: where the accepted connection is between accept()  *)
(* and closeConnection(), for every value of the uninitialized slot.       *)
LEMMA CurrentConnNext ==
  ASSUME TypeOK, StartupInv, SessionInv, CurrentConnInv, [Next]_vars
  PROVE  CurrentConnInv'
<1> USE ConnAssumption DEF TypeOK, StartupInv, SessionInv, CurrentConnInv,
    Special, NoDescriptors, mainVars, handlerVars, childVars, history, Up
<1>1. CASE LoadConfig
  BY <1>1 DEF LoadConfig, ServerExit
<1>2. CASE StartListen
  BY <1>2 DEF StartListen, ListenFailed, ServerExit, LowestFree
<1>3. ASSUME NEW c \in Conn, AcceptOk(c) PROVE CurrentConnInv'
  BY <1>3 DEF AcceptOk, LowestFree, MainRuns
<1>4. CASE AcceptError
  BY <1>4 DEF AcceptError, MainRuns
<1>5. CASE AcceptFailed
  BY <1>5 DEF AcceptFailed, RetryAccept, ServerExit, MainRuns
<1>6. CASE SetConnection
  BY <1>6 DEF SetConnection, Dup2, MainRuns
<1>7. CASE CloseConnfd
  BY <1>7 DEF CloseConnfd, AfterCloseConnfd, MainRuns
<1>8. ASSUME NEW p \in Pid, ForkOk(p) PROVE CurrentConnInv'
  BY <1>8 DEF ForkOk, MainRuns
<1>9. CASE ForkError
  BY <1>9 DEF ForkError, MainRuns
<1>10. CASE SendError
  BY <1>10 DEF SendError, ServerExit, SlotObject, MainRuns
<1>11. CASE CloseConnection
  BY <1>11 DEF CloseConnection, AfterCloseConnection, SlotObject, ServerExit,
      MainRuns
<1>12. CASE HandlerEnter
  BY <1>12 DEF HandlerEnter, MainRuns
<1>13. ASSUME NEW p \in Pid, HandlerReap(p) PROVE CurrentConnInv'
  BY <1>13 DEF HandlerReap
<1>14. CASE HandlerNoMore
  BY <1>14 DEF HandlerNoMore
<1>15. CASE HandlerConnect
  BY <1>15 DEF HandlerConnect, AfterRelease, LowestFree
<1>16. CASE HandlerExecute
  BY <1>16 DEF HandlerExecute
<1>17. CASE HandlerRelease
  BY <1>17 DEF HandlerRelease, AfterDeleteCon, AfterRelease
<1>18. CASE HandlerReturn
  BY <1>18 DEF HandlerReturn, ErrnoAtReturn
<1>19. ASSUME NEW p \in Pid, ChildStopListen(p) PROVE CurrentConnInv'
  BY <1>19 DEF ChildStopListen
<1>20. ASSUME NEW p \in Pid, cpc[p] \in {"stopListen", "exit"}, Terminate(p)
       PROVE  CurrentConnInv'
  BY <1>20 DEF Terminate
<1>21. ASSUME NEW c \in Conn, ClientConnect(c) PROVE CurrentConnInv'
  BY <1>21 DEF ClientConnect
<1>22. CASE UNCHANGED vars
  BY <1>22 DEF vars
<1> QED
  BY <1>1, <1>2, <1>3, <1>4, <1>5, <1>6, <1>7, <1>8, <1>9, <1>10, <1>11,
      <1>12, <1>13, <1>14, <1>15, <1>16, <1>17, <1>18, <1>19, <1>20, <1>21,
      <1>22 DEF Next, Main, HandlerStep, ChildStep, ChildExit, ChildKilled

(* Part 5 is preserved: only dup2() onto the slot, or a close of the slot, *)
(* takes the listening socket away.                                        *)
LEMMA ListenNext ==
  ASSUME TypeOK, StartupInv, SessionInv, CurrentConnInv, ListenInv, [Next]_vars
  PROVE  ListenInv'
<1> USE ConnAssumption DEF TypeOK, StartupInv, SessionInv, CurrentConnInv,
    ListenInv, Object, Special, NoDescriptors, mainVars, handlerVars,
    childVars, history, Up
<1>1. CASE LoadConfig
  BY <1>1 DEF LoadConfig, ServerExit
<1>2. CASE StartListen
  BY <1>2 DEF StartListen, ListenFailed, ServerExit, LowestFree
<1>3. ASSUME NEW c \in Conn, AcceptOk(c) PROVE ListenInv'
  BY <1>3 DEF AcceptOk, LowestFree, MainRuns
<1>4. CASE AcceptError
  BY <1>4 DEF AcceptError, MainRuns
<1>5. CASE AcceptFailed
  BY <1>5 DEF AcceptFailed, RetryAccept, ServerExit, MainRuns
<1>6. CASE SetConnection
  BY <1>6 DEF SetConnection, Dup2, MainRuns
<1>7. CASE CloseConnfd
  BY <1>7 DEF CloseConnfd, AfterCloseConnfd, MainRuns
<1>8. ASSUME NEW p \in Pid, ForkOk(p) PROVE ListenInv'
  BY <1>8 DEF ForkOk, MainRuns
<1>9. CASE ForkError
  BY <1>9 DEF ForkError, MainRuns
<1>10. CASE SendError
  BY <1>10 DEF SendError, ServerExit, SlotObject, MainRuns
<1>11. CASE CloseConnection
  BY <1>11 DEF CloseConnection, AfterCloseConnection, SlotObject, ServerExit,
      MainRuns
<1>12. CASE HandlerEnter
  BY <1>12 DEF HandlerEnter, MainRuns
<1>13. ASSUME NEW p \in Pid, HandlerReap(p) PROVE ListenInv'
  BY <1>13 DEF HandlerReap
<1>14. CASE HandlerNoMore
  BY <1>14 DEF HandlerNoMore
<1>15. CASE HandlerConnect
  BY <1>15 DEF HandlerConnect, AfterRelease, LowestFree
<1>16. CASE HandlerExecute
  BY <1>16 DEF HandlerExecute
<1>17. CASE HandlerRelease
  BY <1>17 DEF HandlerRelease, AfterDeleteCon, AfterRelease
<1>18. CASE HandlerReturn
  BY <1>18 DEF HandlerReturn, ErrnoAtReturn
<1>19. ASSUME NEW p \in Pid, ChildStopListen(p) PROVE ListenInv'
  BY <1>19 DEF ChildStopListen
<1>20. ASSUME NEW p \in Pid, cpc[p] \in {"stopListen", "exit"}, Terminate(p)
       PROVE  ListenInv'
  BY <1>20 DEF Terminate
<1>21. ASSUME NEW c \in Conn, ClientConnect(c) PROVE ListenInv'
  BY <1>21 DEF ClientConnect
<1>22. CASE UNCHANGED vars
  BY <1>22 DEF vars
<1> QED
  BY <1>1, <1>2, <1>3, <1>4, <1>5, <1>6, <1>7, <1>8, <1>9, <1>10, <1>11,
      <1>12, <1>13, <1>14, <1>15, <1>16, <1>17, <1>18, <1>19, <1>20, <1>21,
      <1>22 DEF Next, Main, HandlerStep, ChildStep, ChildExit, ChildKilled

(* Part 6 is preserved: the handler saves errno when it is entered and     *)
(* restores it when it returns, so the test in acceptConnection() sees the *)
(* errno of accept().                                                      *)
LEMMA ErrnoNext ==
  ASSUME TypeOK, StartupInv, ErrnoInv, [Next]_vars
  PROVE  ErrnoInv'
<1> USE DEF TypeOK, StartupInv, ErrnoInv, mainVars, handlerVars, childVars,
    history, Up
<1>1. CASE LoadConfig
  BY <1>1 DEF LoadConfig, ServerExit
<1>2. CASE StartListen
  BY <1>2 DEF StartListen, ListenFailed, ServerExit, LowestFree
<1>3. ASSUME NEW c \in Conn, AcceptOk(c) PROVE ErrnoInv'
  BY <1>3 DEF AcceptOk, LowestFree, MainRuns
<1>4. CASE AcceptError
  BY <1>4 DEF AcceptError, MainRuns
<1>5. CASE AcceptFailed
  BY <1>5 DEF AcceptFailed, RetryAccept, ServerExit, MainRuns, Errno
<1>6. CASE SetConnection
  BY <1>6 DEF SetConnection, Dup2, MainRuns
<1>7. CASE CloseConnfd
  BY <1>7 DEF CloseConnfd, AfterCloseConnfd, MainRuns
<1>8. ASSUME NEW p \in Pid, ForkOk(p) PROVE ErrnoInv'
  BY <1>8 DEF ForkOk, MainRuns
<1>9. CASE ForkError
  BY <1>9 DEF ForkError, MainRuns
<1>10. CASE SendError
  BY <1>10 DEF SendError, ServerExit, SlotObject, MainRuns
<1>11. CASE CloseConnection
  BY <1>11 DEF CloseConnection, AfterCloseConnection, SlotObject, ServerExit,
      MainRuns
<1>12. CASE HandlerEnter
  BY <1>12 DEF HandlerEnter, MainRuns
<1>13. ASSUME NEW p \in Pid, HandlerReap(p) PROVE ErrnoInv'
  BY <1>13 DEF HandlerReap
<1>14. CASE HandlerNoMore
  BY <1>14 DEF HandlerNoMore
<1>15. CASE HandlerConnect
  BY <1>15 DEF HandlerConnect, AfterRelease, LowestFree
<1>16. CASE HandlerExecute
  BY <1>16 DEF HandlerExecute
<1>17. CASE HandlerRelease
  BY <1>17 DEF HandlerRelease, AfterDeleteCon, AfterRelease
<1>18. CASE HandlerReturn
  BY <1>18 DEF HandlerReturn, ErrnoAtReturn
<1>19. ASSUME NEW p \in Pid, ChildStopListen(p) PROVE ErrnoInv'
  BY <1>19 DEF ChildStopListen
<1>20. ASSUME NEW p \in Pid, cpc[p] \in {"stopListen", "exit"}, Terminate(p)
       PROVE  ErrnoInv'
  BY <1>20 DEF Terminate
<1>21. ASSUME NEW c \in Conn, ClientConnect(c) PROVE ErrnoInv'
  BY <1>21 DEF ClientConnect
<1>22. CASE UNCHANGED vars
  BY <1>22 DEF vars
<1> QED
  BY <1>1, <1>2, <1>3, <1>4, <1>5, <1>6, <1>7, <1>8, <1>9, <1>10, <1>11,
      <1>12, <1>13, <1>14, <1>15, <1>16, <1>17, <1>18, <1>19, <1>20, <1>21,
      <1>22 DEF Next, Main, HandlerStep, ChildStep, ChildExit, ChildKilled

(* Part 7 is preserved: fork() copies the descriptor of one connection, the*)
(* one accepted last, which no child has yet.                              *)
LEMMA IsolationNext ==
  ASSUME TypeOK, StartupInv, CurrentConnInv, IsolationInv, [Next]_vars
  PROVE  IsolationInv'
<1> USE ConnAssumption DEF TypeOK, StartupInv, CurrentConnInv, IsolationInv,
    ChildIsolation, NoDescriptors, Special, mainVars, handlerVars, childVars,
    history, Up
<1>1. CASE LoadConfig
  BY <1>1 DEF LoadConfig, ServerExit
<1>2. CASE StartListen
  BY <1>2 DEF StartListen, ListenFailed, ServerExit, LowestFree
<1>3. ASSUME NEW c \in Conn, AcceptOk(c) PROVE IsolationInv'
  BY <1>3 DEF AcceptOk, LowestFree, MainRuns
<1>4. CASE AcceptError
  BY <1>4 DEF AcceptError, MainRuns
<1>5. CASE AcceptFailed
  BY <1>5 DEF AcceptFailed, RetryAccept, ServerExit, MainRuns
<1>6. CASE SetConnection
  BY <1>6 DEF SetConnection, Dup2, MainRuns
<1>7. CASE CloseConnfd
  BY <1>7 DEF CloseConnfd, AfterCloseConnfd, MainRuns
<1>8. ASSUME NEW p \in Pid, ForkOk(p) PROVE IsolationInv'
  <2>1. /\ mpc = "fork" /\ mpc' = "closeConn" 
        /\ UNCHANGED <<connState, current>>
        /\ \A q \in Pid : cfds'[q] = IF q = p THEN fds ELSE cfds[q]
    BY <1>8 DEF ForkOk
  <2>2. ASSUME NEW q \in Pid, NEW f \in Fds, cfds'[q][f] \in Conn
        PROVE  connState'[cfds'[q][f]] = "accepted"
    <3>1. cfds'[q][f] = fds[f] \/ cfds'[q][f] = cfds[q][f]
      BY <2>1, <2>2
    <3>2. fds[f] \in Conn => fds[f] = current
      BY <2>2
    <3> QED
      BY <2>1, <2>2, <3>1, <3>2
  <2>3. ASSUME NEW q \in Pid, NEW r \in Pid, NEW f \in Fds, NEW g \in Fds,
               cfds'[q][f] \in Conn, cfds'[r][g] = cfds'[q][f]
        PROVE  q = r
    <3>1. fds[f] \in Conn => fds[f] = current
      BY <2>1
    <3>2. fds[g] \in Conn => fds[g] = current
      BY <2>1
    <3>3. CASE q = p
      BY <2>1, <2>3, <3>1, <3>3
    <3>4. CASE r = p
      BY <2>1, <2>3, <3>2, <3>4
    <3>5. CASE q # p /\ r # p
      BY <2>1, <2>3, <3>5
    <3> QED
      BY <3>3, <3>4, <3>5
  <2> QED
    BY <2>1, <2>2, <2>3
<1>9. CASE ForkError
  BY <1>9 DEF ForkError, MainRuns
<1>10. CASE SendError
  BY <1>10 DEF SendError, ServerExit, SlotObject, MainRuns
<1>11. CASE CloseConnection
  BY <1>11 DEF CloseConnection, AfterCloseConnection, SlotObject, ServerExit,
      MainRuns
<1>12. CASE HandlerEnter
  BY <1>12 DEF HandlerEnter, MainRuns
<1>13. ASSUME NEW p \in Pid, HandlerReap(p) PROVE IsolationInv'
  BY <1>13 DEF HandlerReap
<1>14. CASE HandlerNoMore
  BY <1>14 DEF HandlerNoMore
<1>15. CASE HandlerConnect
  BY <1>15 DEF HandlerConnect, AfterRelease, LowestFree
<1>16. CASE HandlerExecute
  BY <1>16 DEF HandlerExecute
<1>17. CASE HandlerRelease
  BY <1>17 DEF HandlerRelease, AfterDeleteCon, AfterRelease
<1>18. CASE HandlerReturn
  BY <1>18 DEF HandlerReturn, ErrnoAtReturn
<1>19. ASSUME NEW p \in Pid, ChildStopListen(p) PROVE IsolationInv'
  BY <1>19 DEF ChildStopListen
<1>20. ASSUME NEW p \in Pid, cpc[p] \in {"stopListen", "exit"}, Terminate(p)
       PROVE  IsolationInv'
  BY <1>20 DEF Terminate
<1>21. ASSUME NEW c \in Conn, ClientConnect(c) PROVE IsolationInv'
  BY <1>21 DEF ClientConnect
<1>22. CASE UNCHANGED vars
  BY <1>22 DEF vars
<1> QED
  BY <1>1, <1>2, <1>3, <1>4, <1>5, <1>6, <1>7, <1>8, <1>9, <1>10, <1>11,
      <1>12, <1>13, <1>14, <1>15, <1>16, <1>17, <1>18, <1>19, <1>20, <1>21,
      <1>22 DEF Next, Main, HandlerStep, ChildStep, ChildExit, ChildKilled

(* Part 8 is preserved: main() does not fork while the handler runs, so the*)
(* pid that waitpid() returned stays unused until its row is deleted.      *)
LEMMA ReapedPidNext ==
  ASSUME TypeOK, StartupInv, ReapedPidInv, [Next]_vars
  PROVE  ReapedPidInv'
<1> USE DEF TypeOK, StartupInv, ReapedPidInv, mainVars, handlerVars,
    childVars, history, Up
<1>1. CASE LoadConfig
  BY <1>1 DEF LoadConfig, ServerExit
<1>2. CASE StartListen
  BY <1>2 DEF StartListen, ListenFailed, ServerExit, LowestFree
<1>3. ASSUME NEW c \in Conn, AcceptOk(c) PROVE ReapedPidInv'
  BY <1>3 DEF AcceptOk, LowestFree, MainRuns
<1>4. CASE AcceptError
  BY <1>4 DEF AcceptError, MainRuns
<1>5. CASE AcceptFailed
  BY <1>5 DEF AcceptFailed, RetryAccept, ServerExit, MainRuns
<1>6. CASE SetConnection
  BY <1>6 DEF SetConnection, Dup2, MainRuns
<1>7. CASE CloseConnfd
  BY <1>7 DEF CloseConnfd, AfterCloseConnfd, MainRuns
<1>8. ASSUME NEW p \in Pid, ForkOk(p) PROVE ReapedPidInv'
  BY <1>8 DEF ForkOk, MainRuns
<1>9. CASE ForkError
  BY <1>9 DEF ForkError, MainRuns
<1>10. CASE SendError
  BY <1>10 DEF SendError, ServerExit, SlotObject, MainRuns
<1>11. CASE CloseConnection
  BY <1>11 DEF CloseConnection, AfterCloseConnection, SlotObject, ServerExit,
      MainRuns
<1>12. CASE HandlerEnter
  BY <1>12 DEF HandlerEnter, MainRuns
<1>13. ASSUME NEW p \in Pid, HandlerReap(p) PROVE ReapedPidInv'
  BY <1>13 DEF HandlerReap
<1>14. CASE HandlerNoMore
  BY <1>14 DEF HandlerNoMore
<1>15. CASE HandlerConnect
  BY <1>15 DEF HandlerConnect, AfterRelease, LowestFree
<1>16. CASE HandlerExecute
  BY <1>16 DEF HandlerExecute
<1>17. CASE HandlerRelease
  BY <1>17 DEF HandlerRelease, AfterDeleteCon, AfterRelease
<1>18. CASE HandlerReturn
  BY <1>18 DEF HandlerReturn, ErrnoAtReturn
<1>19. ASSUME NEW p \in Pid, ChildStopListen(p) PROVE ReapedPidInv'
  BY <1>19 DEF ChildStopListen
<1>20. ASSUME NEW p \in Pid, cpc[p] \in {"stopListen", "exit"}, Terminate(p)
       PROVE  ReapedPidInv'
  BY <1>20 DEF Terminate
<1>21. ASSUME NEW c \in Conn, ClientConnect(c) PROVE ReapedPidInv'
  BY <1>21 DEF ClientConnect
<1>22. CASE UNCHANGED vars
  BY <1>22 DEF vars
<1> QED
  BY <1>1, <1>2, <1>3, <1>4, <1>5, <1>6, <1>7, <1>8, <1>9, <1>10, <1>11,
      <1>12, <1>13, <1>14, <1>15, <1>16, <1>17, <1>18, <1>19, <1>20, <1>21,
      <1>22 DEF Next, Main, HandlerStep, ChildStep, ChildExit, ChildKilled

-----------------------------------------------------------------------------
(* The inductive invariant.                                                *)

(* Every step preserves the invariant: the parts together.                 *)
LEMMA InvNext == ASSUME IInv, [Next]_vars PROVE IInv'
BY TypeNext, StartupNext, ZombieNext, SessionNext, CurrentConnNext,
   ListenNext, ErrnoNext, IsolationNext, ReapedPidNext DEF IInv

(* The invariant holds when main() starts.                                 *)
LEMMA InvInit == ASSUME Init PROVE IInv
<1>1. 0 \in Fds
  BY MaxFdAssumption DEF Fds
<1>2. TypeOK
  <2>1. fds \in [Fds -> Object] /\ cfds \in [Pid -> [Fds -> Object]]
    BY DEF Init, Object, Special, NoDescriptors
  <2> QED
    BY <1>1, <2>1 DEF Init, TypeOK, MainPc, HandlerPc, ChildPc, Reason, Errno
<1>3. \A f \in Fds : fds[f] \in {"free", "std"}
  BY DEF Init
<1>4. \A p \in Pid, f \in Fds : cfds[p][f] = "free"
  BY DEF Init, NoDescriptors
<1>5. {"free", "std", "db"} \cap Conn = {}
  BY ConnAssumption DEF Special
<1>6. Zombies = {}
  BY DEF Init, Zombies
<1>7. StartupInv /\ ZombieInv /\ ErrnoInv /\ ReapedPidInv
  BY <1>3, <1>6
     DEF Init, StartupInv, ZombieInv, ErrnoInv, ReapedPidInv, Up
<1>8. SessionInv /\ CurrentConnInv /\ ListenInv
  BY <1>3, <1>5 DEF Init, SessionInv, CurrentConnInv, ListenInv
<1>9. IsolationInv
  BY <1>4, <1>5, ConnAssumption DEF Init, IsolationInv, ChildIsolation
<1> QED
  BY <1>2, <1>7, <1>8, <1>9 DEF IInv

(* Every part of IInv holds in every reachable state.                      *)
THEOREM InvCorrect == Spec => []IInv
BY InvInit, InvNext, PTL DEF Spec

(* No zombie is forgotten: whenever the SIGCHLD handler is not running and *)
(* no SIGCHLD is pending, every terminated child has been waited for.      *)
THEOREM NoZombieIsLost == Spec => []NoLostZombie
<1>1. ASSUME IInv PROVE NoLostZombie
  BY <1>1 DEF IInv, ZombieInv, NoLostZombie
<1> QED
  BY <1>1, InvCorrect, PTL

(* The accept loop starts each iteration without a connection of an  *)
(* earlier one, although the object that acceptConnection() returns uses   *)
(* an uninitialized descriptor.                                            *)
THEOREM LoopIsClean == Spec => []LoopHoldsNoConnection
<1>1. ASSUME IInv PROVE LoopHoldsNoConnection
  BY <1>1 DEF IInv, CurrentConnInv, LoopHoldsNoConnection
<1> QED
  BY <1>1, InvCorrect, PTL

(* The handler leaves no MySQL session open, on any path through           *)
(* manageMySQL().                                                          *)
THEOREM SessionsAreReleased == Spec => []NoSessionLeft
<1>1. ASSUME IInv PROVE NoSessionLeft
  BY <1>1 DEF IInv, SessionInv, NoSessionLeft
<1> QED
  BY <1>1, InvCorrect, PTL

(* No two children ever hold a descriptor of one connection.               *)
THEOREM ChildrenAreIsolated == Spec => []ChildIsolation
<1>1. ASSUME IInv PROVE ChildIsolation
  BY <1>1 DEF IInv, IsolationInv
<1> QED
  BY <1>1, InvCorrect, PTL

(* The death of a child never makes acceptConnection() give up, nor try    *)
(* again: errno as it tests it is the errno of its own accept().           *)
THEOREM SignalsAreTransparent == Spec => []SignalNeverKillsServer
<1>1. ASSUME IInv PROVE SignalNeverKillsServer
  BY <1>1 DEF IInv, ErrnoInv, SignalNeverKillsServer, RetryAccept
<1> QED
  BY <1>1, InvCorrect, PTL

(* closeConnection() can end the server through no other slot than the two *)
(* bad kinds.                                                              *)
THEOREM CloseFailsOnBadSlotOnly == Spec => []OnlyBadSlotFailsClose
<1>1. ASSUME IInv PROVE OnlyBadSlotFailsClose
  BY <1>1 DEF IInv, CurrentConnInv, OnlyBadSlotFailsClose
<1> QED
  BY <1>1, InvCorrect, PTL

(* The server keeps listening unless the slot named the listening socket.  *)
THEOREM ListenerIsKept == Spec => []ListenerSurvives
<1>1. ASSUME IInv PROVE ListenerSurvives
  BY <1>1 DEF IInv, ListenInv, ListenerSurvives
<1> QED
  BY <1>1, InvCorrect, PTL
-----------------------------------------------------------------------------
(* No step deletes the row of a process that runs: the only step that      *)
(* deletes a row is the handler's DELETE, and its pid is one that          *)
(* waitpid() returned and that fork() has not given out again.             *)
THEOREM RowsOutliveChildren == Spec => RowOutlivesChild
<1>1. ASSUME IInv, [Next]_vars, NEW p \in rows \ rows'
      PROVE  p \notin Running /\ p \notin Running'
  <2>1. CASE HandlerExecute
    <3>1. p = hpid /\ cpc' = cpc
      BY <1>1, <2>1 DEF HandlerExecute, childVars
    <3>2. cpc[hpid] = "none"
      BY <1>1, <2>1 DEF HandlerExecute, IInv, ReapedPidInv
    <3> QED
      BY <3>1, <3>2 DEF Running
  <2>2. CASE ~HandlerExecute
    <3>1. rows' = rows
      BY <1>1, <2>2
         DEF Next, Main, HandlerStep, ChildStep, LoadConfig, StartListen,
             ListenFailed,
             AcceptOk, AcceptError, AcceptFailed, SetConnection, CloseConnfd,
             ForkOk, ForkError, SendError, CloseConnection, ServerExit,
             HandlerEnter, HandlerReap, HandlerNoMore, HandlerConnect,
             HandlerRelease, HandlerReturn, ChildStopListen, ChildExit,
             ChildKilled, Terminate, ClientConnect, vars, handlerVars
    <3> QED
      BY <1>1, <3>1
  <2> QED
    BY <2>1, <2>2
<1>2. ASSUME IInv, [Next]_vars
      PROVE  [\A p \in rows \ rows' :
                p \notin Running /\ p \notin Running']_vars
  BY <1>1, <1>2
<1> QED
  BY <1>2, InvCorrect, PTL DEF Spec, RowOutlivesChild
-----------------------------------------------------------------------------
(* A step that neither ends the server nor changes the state of a child is *)
(* a stutter of the ledger.                                                *)
LEMMA LedgerStutter ==
  ASSUME cpc' = cpc, Up' = Up
  PROVE  UNCHANGED Ledger!ledger
BY DEF Ledger!ledger, Running, Zombies

(* The end of the server process is the Stop of the ledger.                *)
LEMMA LedgerStop ==
  ASSUME NEW r, ServerExit(r), Up
  PROVE  Ledger!Stop
BY DEF ServerExit, Ledger!Stop, Up, Running, Zombies, childVars

(* Every step of the server is a step of the ledger or a stutter of it.    *)
LEMMA LedgerNext ==
  ASSUME TypeOK, [Next]_vars
  PROVE  [Ledger!Next]_(Ledger!ledger)
<1> USE DEF Up
<1>1. ASSUME cpc' = cpc, Up' = Up PROVE [Ledger!Next]_(Ledger!ledger)
  BY <1>1, LedgerStutter
<1>2. ASSUME NEW r, ServerExit(r), Up PROVE [Ledger!Next]_(Ledger!ledger)
  BY <1>2, LedgerStop DEF Ledger!Next
<1>3. CASE LoadConfig
  BY <1>1, <1>2, <1>3 DEF LoadConfig, childVars
<1>4. CASE StartListen
  BY <1>1, <1>2, <1>4 DEF StartListen, ListenFailed, childVars
<1>5. ASSUME NEW c \in Conn, AcceptOk(c) PROVE [Ledger!Next]_(Ledger!ledger)
  BY <1>1, <1>5 DEF AcceptOk, childVars
<1>6. CASE AcceptError
  BY <1>1, <1>6 DEF AcceptError, childVars
<1>7. CASE AcceptFailed
  BY <1>1, <1>2, <1>7 DEF AcceptFailed, childVars
<1>8. CASE SetConnection
  BY <1>1, <1>8 DEF SetConnection, childVars
<1>9. CASE CloseConnfd
  BY <1>1, <1>9 DEF CloseConnfd, childVars
<1>10. ASSUME NEW p \in Pid, ForkOk(p) PROVE [Ledger!Next]_(Ledger!ledger)
  <2>1. Up /\ Up' /\ p \notin Running \cup Zombies
    BY <1>10 DEF ForkOk, Running, Zombies
  <2>2. Running' = Running \cup {p} /\ Zombies' = Zombies
    BY <1>10 DEF ForkOk, TypeOK, Running, Zombies
  <2> QED
    BY <2>1, <2>2 DEF Ledger!Next, Ledger!Spawn
<1>11. CASE ForkError
  BY <1>1, <1>11 DEF ForkError, childVars
<1>12. CASE SendError
  BY <1>1, <1>2, <1>12 DEF SendError, childVars
<1>13. CASE CloseConnection
  BY <1>1, <1>2, <1>13 DEF CloseConnection, childVars
<1>14. CASE HandlerEnter
  BY <1>1, <1>14 DEF HandlerEnter, childVars, mainVars
<1>15. ASSUME NEW p \in Pid, HandlerReap(p)
       PROVE  [Ledger!Next]_(Ledger!ledger)
  <2>1. Up /\ Up' /\ p \in Zombies
    BY <1>15 DEF HandlerReap, Zombies, mainVars
  <2>2. Running' = Running /\ Zombies' = Zombies \ {p}
    BY <1>15 DEF HandlerReap, TypeOK, Running, Zombies
  <2> QED
    BY <2>1, <2>2 DEF Ledger!Next, Ledger!Reap
<1>16. CASE HandlerNoMore
  BY <1>1, <1>16 DEF HandlerNoMore, childVars
<1>17. CASE HandlerConnect
  BY <1>1, <1>17 DEF HandlerConnect, childVars
<1>18. CASE HandlerExecute
  BY <1>1, <1>18 DEF HandlerExecute, childVars
<1>19. CASE HandlerRelease
  BY <1>1, <1>19 DEF HandlerRelease, childVars
<1>20. CASE HandlerReturn
  BY <1>1, <1>20 DEF HandlerReturn, childVars
<1>21. ASSUME NEW p \in Pid, ChildStopListen(p)
       PROVE  [Ledger!Next]_(Ledger!ledger)
  <2>1. Up' = Up /\ Running' = Running /\ Zombies' = Zombies
    BY <1>21 DEF ChildStopListen, TypeOK, Running, Zombies, mainVars
  <2> QED
    BY <2>1 DEF Ledger!ledger
<1>22. ASSUME NEW p \in Pid, cpc[p] \in {"stopListen", "exit"}, Terminate(p)
       PROVE  [Ledger!Next]_(Ledger!ledger)
  <2>1. Up' = Up /\ p \in Running
    BY <1>22 DEF Terminate, Running, mainVars
  <2>2. Running' = Running \ {p} /\ Zombies' = Zombies \cup {p}
    BY <1>22 DEF Terminate, TypeOK, Running, Zombies
  <2> QED
    BY <2>1, <2>2 DEF Ledger!Next, Ledger!Die
<1>23. ASSUME NEW c \in Conn, ClientConnect(c)
       PROVE  [Ledger!Next]_(Ledger!ledger)
  BY <1>1, <1>23 DEF ClientConnect, mainVars, childVars
<1>24. CASE UNCHANGED vars
  BY <1>1, <1>24 DEF vars, mainVars, childVars
<1> QED
  BY <1>3, <1>4, <1>5, <1>6, <1>7, <1>8, <1>9, <1>10, <1>11, <1>12, <1>13,
     <1>14, <1>15, <1>16, <1>17, <1>18, <1>19, <1>20, <1>21, <1>22, <1>23,
     <1>24 DEF Next, Main, HandlerStep, ChildStep, ChildExit, ChildKilled

(* The safety half of the refinement: pids, deaths and collections of the  *)
(* server are those of the ledger.  (That each zombie is eventually        *)
(* collected is the liveness half, which TLC checks.)                      *)
THEOREM LedgerImplemented == Spec => Ledger!Safety
<1>1. ASSUME Init PROVE Ledger!Init
  BY <1>1 DEF Init, Ledger!Init, Up, Running, Zombies
<1> QED
  BY <1>1, LedgerNext, TypeCorrect, PTL DEF Spec, Ledger!Safety

-----------------------------------------------------------------------------
(* The pids of processes, running or not yet waited for.                   *)
InUse == {p \in Pid : cpc[p] # "none"}

(* There are finitely many pids.                                           *)
LEMMA InUseIsFinite == IsFiniteSet(InUse) /\ Cardinality(InUse) \in Nat
<1>1. InUse \in SUBSET Pid
  BY DEF InUse
<1>2. IsFiniteSet(InUse)
  BY <1>1, PidAssumption, FS_Subset
<1> QED
  BY <1>2, FS_CardinalityType

(* waitpid() frees one of them.                                            *)
LEMMA ReapFrees ==
  ASSUME TypeOK, NEW p \in Pid, HandlerReap(p)
  PROVE  Cardinality(InUse') = Cardinality(InUse) - 1
<1>1. p \in InUse
  BY DEF HandlerReap, InUse
<1>2. InUse' = InUse \ {p}
  BY DEF HandlerReap, InUse, TypeOK
<1> QED
  BY <1>1, <1>2, InUseIsFinite, FS_RemoveElement

(* While the handler runs there is no fork(): a pid in use stays so until  *)
(* the handler waits for it, and a free one stays free.                    *)
LEMMA NoneForked ==
  ASSUME IInv, [Next]_vars, hpc # "idle", ~\E p \in Pid : HandlerReap(p)
  PROVE  InUse' = InUse
<1>1. mpc \notin {"loadConfig", "startListen"} /\ ~MainRuns /\ TypeOK
  BY DEF IInv, StartupInv, MainRuns
<1>2. CASE Main
  BY <1>1, <1>2
     DEF Main, LoadConfig, StartListen, AcceptOk, AcceptError, AcceptFailed,
         SetConnection, CloseConnfd, ForkOk, ForkError, SendError, CloseConnection
<1>3. CASE HandlerEnter
  BY <1>1, <1>3 DEF HandlerEnter
<1>4. CASE HandlerStep
  BY <1>4
     DEF HandlerStep, HandlerNoMore, HandlerConnect, HandlerExecute,
         HandlerRelease, HandlerReturn, childVars, InUse
<1>5. ASSUME NEW p \in Pid, ChildStep(p) \/ ChildKilled(p) PROVE InUse' = InUse
  BY <1>1, <1>5
     DEF ChildStep, ChildStopListen, ChildExit, ChildKilled, Terminate, InUse, TypeOK
<1>6. ASSUME NEW c \in Conn, ClientConnect(c) PROVE InUse' = InUse
  BY <1>6 DEF ClientConnect, childVars, InUse
<1>7. CASE UNCHANGED vars
  BY <1>7 DEF vars, childVars, InUse
<1> QED
  BY <1>2, <1>3, <1>4, <1>5, <1>6, <1>7 DEF Next

(* Where the handler is in its loop.                                       *)
Turn ==
  IF hpc = "idle" THEN 0 ELSE IF hpc = "connect" THEN 5
  ELSE IF hpc = "execute" THEN 4 ELSE IF hpc = "release" THEN 3
  ELSE IF hpc = "waitpid" THEN 2 ELSE 1

(* Either main() waits as before, or the handler has less to do.           *)
LEMMA HandlerTurn ==
  ASSUME IInv, [Next]_vars, hpc # "idle"
  PROVE  /\ HandlerRank' <= HandlerRank
         /\ HandlerStep => HandlerRank' < HandlerRank
<1>1. PICK n \in Nat : n = Cardinality(InUse)
  BY InUseIsFinite
<1>2. PICK t \in 1 .. 5 : t = Turn
  BY DEF Turn
<1>3. HandlerRank = 4 * n + t
  BY <1>1, <1>2 DEF HandlerRank, InUse, Turn
<1>4. TypeOK
  BY DEF IInv
<1>5. ASSUME NEW p \in Pid, HandlerReap(p)
      PROVE  HandlerRank' < HandlerRank /\ HandlerRank' <= HandlerRank
  <2>1. Cardinality(InUse') = n - 1
    BY <1>1, <1>4, <1>5, ReapFrees
  <2>2. hpc = "waitpid" /\ hpc' = "connect"
    BY <1>5 DEF HandlerReap
  <2>3. t = 2
    BY <1>2, <2>2 DEF Turn
  <2>4. HandlerRank' = 4 * (n - 1) + 5
    BY <2>1, <2>2 DEF HandlerRank, InUse
  <2> QED
    BY <1>3, <2>3, <2>4
<1>6. ASSUME InUse' = InUse, NEW u \in 0 .. 5, u = Turn'
      PROVE  HandlerRank' = IF u = 0 THEN 0 ELSE 4 * n + u
  BY <1>1, <1>6 DEF HandlerRank, InUse, Turn
<1>7. CASE HandlerStep /\ ~\E p \in Pid : HandlerReap(p)
  <2>1. InUse' = InUse
    BY <1>7, NoneForked
  <2>2. PICK u \in 0 .. 5 : u = Turn'
    BY DEF Turn
  <2>3. u < t
    <3>1. CASE HandlerNoMore
      BY <1>2, <2>2, <3>1 DEF HandlerNoMore, Turn
    <3>2. CASE HandlerConnect
      BY <1>2, <2>2, <3>2 DEF HandlerConnect, AfterRelease, Turn
    <3>3. CASE HandlerExecute
      BY <1>2, <2>2, <3>3 DEF HandlerExecute, Turn
    <3>4. CASE HandlerRelease
      BY <1>2, <2>2, <3>4 DEF HandlerRelease, AfterRelease, Turn
    <3>5. CASE HandlerReturn
      BY <1>2, <2>2, <3>5 DEF HandlerReturn, Turn
    <3> QED
      BY <1>7, <3>1, <3>2, <3>3, <3>4, <3>5 DEF HandlerStep
  <2>4. HandlerRank' = IF u = 0 THEN 0 ELSE 4 * n + u
    BY <1>6, <2>1, <2>2
  <2> QED
    BY <1>3, <2>3, <2>4
<1>8. CASE ~HandlerStep
  <2>1. InUse' = InUse
    BY <1>8, NoneForked DEF HandlerStep
  <2>2. hpc' = hpc
    <3>1. mpc \notin {"loadConfig", "startListen"} /\ ~MainRuns
      BY DEF IInv, StartupInv, MainRuns
    <3> QED
      BY <1>8, <3>1
         DEF Next, Main, LoadConfig, StartListen, AcceptOk, AcceptError,
             AcceptFailed, SetConnection, CloseConnfd, ForkOk, ForkError,
             SendError, CloseConnection, HandlerEnter, ChildStep,
             ChildStopListen, ChildExit, ChildKilled, Terminate, ClientConnect,
             vars, handlerVars
  <2>3. t = Turn'
    BY <1>2, <2>2 DEF Turn
  <2>4. HandlerRank' = 4 * n + t
    BY <1>6, <2>1, <2>3
  <2> QED
    BY <1>3, <1>8, <2>4
<1> QED
  BY <1>5, <1>7, <1>8

(* The handler comes to its end, for any number of children that die while *)
(* it runs and any failure of MySQL: main() waits for at most four steps   *)
(* for each pid in use, and five more.                                     *)
THEOREM HandlerIsBounded == Spec => HandlerAdvances
<1>1. IInv /\ [Next]_vars =>
        [hpc # "idle" => /\ HandlerRank' <= HandlerRank
                         /\ HandlerStep => HandlerRank' < HandlerRank]_vars
  BY HandlerTurn
<1> QED
  BY <1>1, InvCorrect, PTL DEF Spec, HandlerAdvances

-----------------------------------------------------------------------------
(* The node that acceptConnection() returns refers to a connection exactly *)
(* if the uninitialized slot was a descriptor, and not the one accepted.   *)
UsableSlot ==
  mpc = "fork" => (SlotObject = current <=> sockfd \in Fds \ {connfd})

(* The cases in which ReturnedConnectionIsUsable fails, for every value of *)
(* the slot: dup2() refused it, or close(connfd) took the connection away. *)
THEOREM UsableExactly == Spec => []UsableSlot
<1>1. ASSUME IInv, mpc = "fork"
      PROVE  SlotObject = current <=> sockfd \in Fds \ {connfd}
  <2>1. CurrentConnInv /\ current \in Conn /\ current # "free"
    BY <1>1, ConnAssumption DEF IInv, CurrentConnInv, Special
  <2>2. CASE sockfd \notin Fds
    BY <2>1, <2>2 DEF SlotObject
  <2>3. CASE sockfd \in Fds /\ sockfd = connfd
    <3>1. fds[sockfd] \notin Conn
      BY <1>1, <2>1, <2>3 DEF CurrentConnInv
    <3> QED
      BY <2>1, <2>3, <3>1 DEF SlotObject
  <2>4. CASE sockfd \in Fds \ {connfd}
    BY <1>1, <2>1, <2>4 DEF CurrentConnInv, SlotObject
  <2> QED
    BY <2>2, <2>3, <2>4
<1>2. IInv => UsableSlot
  BY <1>1 DEF UsableSlot
<1> QED
  BY <1>2, InvCorrect, PTL
=============================================================================
