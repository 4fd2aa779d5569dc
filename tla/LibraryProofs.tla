--------------------------- MODULE LibraryProofs ---------------------------
(***************************************************************************)
(* Proofs about OpenFd and VideoTransfer, and about Library as a whole:    *)
(* what is proved of each part holds beside the other ones.                *)
(***************************************************************************)
EXTENDS Library, RioProofs, SioLtoaProofs, JdtLegacyProofs

(***************************************************************************)
(* OpenFd, for any number of servers and clients, any list of addresses,   *)
(* any descriptors and any contents of socket_fd_.                         *)
(***************************************************************************)
(* The three invariants are inductive together.                            *)
OpenIInv == OpenInv /\ OneServerPerAddress /\ NodeIsConnected

(* What holds of one process.                                              *)
ProcessInv(p) ==
  /\ SocketInv(p)
  /\ p \in Server /\ place[p] = "done" => open[p][fd[p]] = "listener"
  /\ p \in Client => CreatedInv(p)
  /\ p \in Client /\ place[p] = "opened" => open[p][node[p]] = "connection"

(* The invariant is that of each process, and one server at an address.    *)
LEMMA Parts ==
  OpenIInv <=> /\ OpenTypeOK
               /\ \A p \in Process : ProcessInv(p)
               /\ \A s, t \in Server :
                    place[s] = "done" /\ place[t] = "done" /\ at[t] = at[s] => t = s
BY DEF OpenIInv, OpenInv, OneServerPerAddress, NodeIsConnected, ProcessInv, Process

(* A process that does nothing.                                            *)
LEMMA Untouched ==
  ASSUME NEW p, ProcessInv(p), at'[p] = at[p], place'[p] = place[p],
         fd'[p] = fd[p], open'[p] = open[p], node'[p] = node[p]
  PROVE  ProcessInv(p)'
BY DEF ProcessInv, SocketInv, CreatedInv, Sockets, Stage

(* A step of one process that lets it listen, if at all, where nobody      *)
(* listens.                                                                *)
LEMMA Compose ==
  ASSUME OpenIInv, NEW p \in Process, OpenTypeOK', ProcessInv(p)',
         \A o \in Process : o # p =>
           /\ at'[o] = at[o] /\ place'[o] = place[o] /\ fd'[o] = fd[o]
           /\ open'[o] = open[o] /\ node'[o] = node[o],
         \/ p \notin Server \/ place'[p] # "done"
         \/ \A s \in Server : s # p /\ place[s] = "done" => at[s] # at'[p]
  PROVE  OpenIInv'
<1>1. \A o \in Process : ProcessInv(o)'
  BY Parts, Untouched
<1>2. \A s, t \in Server :
        place'[s] = "done" /\ place'[t] = "done" /\ at'[t] = at'[s] => t = s
  BY Parts DEF Process
<1> QED
  BY <1>1, <1>2 DEF OpenIInv, OpenInv, OneServerPerAddress, NodeIsConnected,
     ProcessInv, Process

(* The invariant holds initially.                                          *)
LEMMA InitOpen == OpenInit => OpenIInv
<1> SUFFICES ASSUME OpenInit PROVE OpenIInv
  OBVIOUS
<1>1. OpenTypeOK
  BY OpenAssumption DEF OpenInit, OpenTypeOK, NewProcess, Place, Descriptor
<1>2. ASSUME NEW p \in Process PROVE ProcessInv(p)
  BY DEF OpenInit, ProcessInv, SocketInv, CreatedInv, Sockets, NewProcess
<1> QED
  BY <1>1, <1>2, Parts DEF OpenInit, Process

(* Steps that leave a process without a socket.                            *)
LEMMA NoSocket ==
  ASSUME OpenIInv, NEW p \in Process,
         \/ Resolve(p) \/ SocketFails(p) \/ TryFails(p)
         \/ ListenFails(p) \/ NoneLeft(p) \/ OpenDie(p)
  PROVE  OpenIInv'
<1> USE DEF Move, Quit, NotListening, NextAddress, AfterFailure
<1> USE OpenAssumption
<1>1. OpenTypeOK /\ SocketInv(p)
  BY Parts DEF ProcessInv
<1>2. NewProcess \in [Fd -> Descriptor] /\ \A f \in Fd : NewProcess[f] \in {"free", "file"}
  BY DEF NewProcess, Descriptor
<1>3. /\ place'[p] \in {"idle", "socket"}
      /\ \A f \in Fd : open'[p][f] \in {"free", "file"}
      /\ OpenTypeOK'
  <2>1. CASE Resolve(p) \/ SocketFails(p)
    <3>1. at' \in [Process -> 1 .. NAddr + 1]
      BY <1>1, <2>1 DEF Resolve, SocketFails, OpenTypeOK
    <3>2. /\ place'[p] = "socket" /\ place' \in [Process -> Place]
          /\ UNCHANGED <<fd, open, node>>
      BY <1>1, <2>1 DEF Resolve, SocketFails, OpenTypeOK, Place
    <3>3. Sockets(p) = {}
      BY <1>1, <2>1 DEF Resolve, SocketFails, SocketInv
    <3> QED
      BY <1>1, <3>1, <3>2, <3>3 DEF OpenTypeOK, Sockets
  <2>2. CASE TryFails(p)
    <3>1. Sockets(p) = {fd[p]} /\ at[p] <= NAddr
      BY <1>1, <2>2 DEF TryFails, SocketInv
    <3>2. AfterFailure(p) \in [Fd -> Descriptor]
      BY <1>1 DEF OpenTypeOK, Descriptor
    <3> QED
      BY <1>1, <2>2, <3>1, <3>2 DEF TryFails, OpenTypeOK, Sockets, Place
  <2>3. CASE ListenFails(p) \/ NoneLeft(p) \/ OpenDie(p)
    BY <1>1, <1>2, <2>3 DEF ListenFails, NoneLeft, OpenDie, OpenTypeOK, Place
  <2> QED
    BY <2>1, <2>2, <2>3
<1>4. ProcessInv(p)'
  BY <1>3 DEF ProcessInv, SocketInv, CreatedInv, Sockets
<1>5. \A o \in Process : o # p =>
        /\ at'[o] = at[o] /\ place'[o] = place[o] /\ fd'[o] = fd[o]
        /\ open'[o] = open[o] /\ node'[o] = node[o]
  BY <1>1 DEF Resolve, SocketFails, TryFails, ListenFails, NoneLeft, OpenDie, OpenTypeOK
<1> QED
  BY <1>3, <1>4, <1>5, Compose

(* Steps that make the socket of a process another one.                    *)
LEMMA OneSocket ==
  ASSUME OpenIInv, NEW p \in Process,
         Socket(p) \/ Bind(p) \/ Connect(p) \/ Listen(p) \/ Keep(p)
  PROVE  OpenIInv'
<1> USE OpenAssumption, ProcessAssumption DEF Move, Process
<1>1. OpenTypeOK /\ SocketInv(p)
  BY Parts DEF ProcessInv
<1>2. /\ OpenTypeOK'
      /\ \A o \in Process : o # p =>
           /\ at'[o] = at[o] /\ place'[o] = place[o] /\ fd'[o] = fd[o]
           /\ open'[o] = open[o] /\ node'[o] = node[o]
      /\ at'[p] = at[p]
      /\ place'[p] \in {"try", "listen", "done", "opened"}
  <2>1. CASE Socket(p)
    BY <1>1, <2>1 DEF Socket, Lowest, OpenTypeOK, Place, Descriptor
  <2>2. CASE Bind(p) \/ Connect(p) \/ Listen(p) \/ Keep(p)
    BY <1>1, <2>2 DEF Bind, Connect, Listen, Keep, OpenTypeOK, Place, Descriptor
  <2> QED
    BY <2>1, <2>2
<1>3. Sockets(p)' = {fd'[p]} /\ open'[p][fd'[p]] = Stage(p)'
  <2>1. CASE Socket(p)
    <3>1. PICK f \in Fd : /\ fd' = [fd EXCEPT ![p] = f]
                          /\ open' = [open EXCEPT ![p][f] = "socket"]
      BY <2>1 DEF Socket, Lowest
    <3>2. Sockets(p) = {} /\ place'[p] = "try"
      BY <1>1, <2>1 DEF Socket, SocketInv, OpenTypeOK
    <3>3. /\ fd'[p] = f /\ open'[p][f] = "socket"
          /\ \A g \in Fd : g # f => open'[p][g] = open[p][g]
      BY <1>1, <3>1 DEF OpenTypeOK
    <3> QED
      BY <3>2, <3>3 DEF Sockets, Stage
  <2>2. CASE Bind(p) \/ Connect(p) \/ Listen(p) \/ Keep(p)
    <3>1. Sockets(p) = {fd[p]} /\ fd'[p] = fd[p]
      BY <1>1, <2>2 DEF Bind, Connect, Listen, Keep, SocketInv
    <3>2. Sockets(p)' = {fd[p]}
      BY <1>1, <2>2, <3>1 DEF Bind, Connect, Listen, Keep, OpenTypeOK, Sockets
    <3>3. open'[p][fd[p]] = Stage(p)'
      <4>1. CASE Bind(p)
        BY <1>1, <4>1 DEF Bind, OpenTypeOK, SocketInv, Stage
      <4>2. CASE Connect(p)
        BY <1>1, <4>2 DEF Connect, OpenTypeOK, SocketInv, Stage
      <4>3. CASE Listen(p)
        BY <1>1, <4>3 DEF Listen, OpenTypeOK, SocketInv, Stage
      <4>4. CASE Keep(p)
        BY <1>1, <4>4 DEF Keep, OpenTypeOK, SocketInv, Stage
      <4> QED
        BY <2>2, <4>1, <4>2, <4>3, <4>4
    <3> QED
      BY <3>1, <3>2, <3>3
  <2> QED
    BY <2>1, <2>2
<1>4. /\ place'[p] \in {"try", "listen"} => at'[p] <= NAddr
      /\ place'[p] = "listen" => p \in Server
      /\ place'[p] = "opened" => p \in Client /\ node'[p] = fd'[p]
  BY <1>1 DEF Socket, Bind, Connect, Listen, Keep, OpenTypeOK, SocketInv
<1>5. ProcessInv(p)'
  BY <1>2, <1>3, <1>4 DEF ProcessInv, SocketInv, CreatedInv, Stage
<1>6. \/ p \notin Server \/ place'[p] # "done"
      \/ \A s \in Server : s # p /\ place[s] = "done" => at[s] # at'[p]
  <2>1. CASE Listen(p)
    <3>1. \A s \in Server : place[s] = "done" =>
            fd[s] \in Fd /\ open[s][fd[s]] = "listener"
      BY <1>1, Parts DEF ProcessInv, OpenTypeOK
    <3> QED
      BY <1>2, <2>1, <3>1 DEF Listen, Listening
  <2>2. CASE ~Listen(p)
    BY <1>1, <2>2 DEF Socket, Bind, Connect, Keep, OpenTypeOK
  <2> QED
    BY <2>1, <2>2
<1> QED
  BY <1>2, <1>5, <1>6, Compose

(* createConnection(), for any value of socket_fd_.                        *)
LEMMA CreateKeeps ==
  ASSUME OpenIInv, NEW p \in Process, Create(p)
  PROVE  OpenIInv'
<1> USE OpenAssumption, ProcessAssumption DEF Move, Process
<1>1. OpenTypeOK /\ SocketInv(p) /\ p \in Client /\ p \notin Server
  BY Parts DEF ProcessInv, Create
<1>2. PICK s \in Slot : /\ node' = [node EXCEPT ![p] = s]
                        /\ open' = [open EXCEPT ![p] = Duplicated(p, s)]
  BY DEF Create
<1>3. Sockets(p) = {fd[p]} /\ open[p][fd[p]] = "connection" /\ fd[p] \in Fd
  BY <1>1 DEF Create, SocketInv, Stage, OpenTypeOK
<1>4. Duplicated(p, s) \in [Fd -> Descriptor]
  BY <1>1, <1>3 DEF Duplicated, OpenTypeOK, Descriptor
<1>5. OpenTypeOK'
  BY <1>1, <1>2, <1>4 DEF Create, OpenTypeOK, Place
<1>6. /\ place'[p] = "created" /\ fd'[p] = fd[p] /\ node'[p] = s
      /\ open'[p] = Duplicated(p, s)
  BY <1>1, <1>2 DEF Create, OpenTypeOK
<1>7. CreatedInv(p)'
  BY <1>3, <1>6 DEF CreatedInv, Sockets, Duplicated
<1>8. ProcessInv(p)'
  BY <1>1, <1>6, <1>7 DEF ProcessInv, SocketInv
<1>9. \A o \in Process : o # p =>
        /\ at'[o] = at[o] /\ place'[o] = place[o] /\ fd'[o] = fd[o]
        /\ open'[o] = open[o] /\ node'[o] = node[o]
  BY <1>1, <1>2 DEF Create, OpenTypeOK
<1> QED
  BY <1>1, <1>5, <1>8, <1>9, Compose

(* The invariant is inductive.                                             *)
LEMMA NextOpen == OpenIInv /\ [OpenNext]_openVars => OpenIInv'
<1> SUFFICES ASSUME OpenIInv, [OpenNext]_openVars PROVE OpenIInv'
  OBVIOUS
<1>1. CASE UNCHANGED openVars
  BY <1>1 DEF openVars, OpenIInv, OpenInv, OneServerPerAddress, NodeIsConnected,
     OpenTypeOK, SocketInv, CreatedInv, Sockets, Stage
<1>2. CASE OpenNext
  BY <1>2, NoSocket, OneSocket, CreateKeeps DEF OpenNext, OpenStep
<1> QED
  BY <1>1, <1>2

(* No system call that fails leaves a socket behind.                       *)
THEOREM NoSocketLeaks == OpenSpec => []OpenInv
<1>1. OpenIInv => OpenInv
  BY DEF OpenIInv
<1> QED
  BY InitOpen, NextOpen, <1>1, PTL DEF OpenSpec

(* Two servers that open_listenfd() has made never share an address.       *)
THEOREM ServersDiffer == OpenSpec => []OneServerPerAddress
<1>1. OpenIInv => OneServerPerAddress
  BY DEF OpenIInv
<1> QED
  BY InitOpen, NextOpen, <1>1, PTL DEF OpenSpec

(* When a client's Connection is the connection, for any socket_fd_.       *)
THEOREM NodesConnected == OpenSpec => []NodeIsConnected
<1>1. OpenIInv => NodeIsConnected
  BY DEF OpenIInv
<1> QED
  BY InitOpen, NextOpen, <1>1, PTL DEF OpenSpec

(* What is left of the search of p, by the place p has reached.            *)
LEMMA RankOf ==
  ASSUME OpenIInv, NEW p \in Process
  PROVE  /\ at[p] \in 1 .. NAddr + 1 /\ NAddr \in Nat
         /\ place[p] \in {"try", "listen"} => at[p] <= NAddr
         /\ place[p] = "socket" => OpenRank(p) = 3 * (NAddr + 1 - at[p]) + 1
         /\ place[p] = "try" => OpenRank(p) = 3 * (NAddr + 1 - at[p])
         /\ place[p] = "listen" => OpenRank(p) = 3 * (NAddr + 1 - at[p]) - 1
         /\ place[p] \notin {"socket", "try", "listen"} => OpenRank(p) = 0
<1>1. OpenTypeOK /\ SocketInv(p)
  BY Parts DEF ProcessInv
<1>2. at[p] \in 1 .. NAddr + 1 /\ NAddr \in Nat
  BY <1>1, OpenAssumption DEF OpenTypeOK
<1> QED
  BY <1>1, <1>2 DEF SocketInv, OpenRank

(* A system call of p.                                                     *)
LEMMA CallAdvances ==
  ASSUME OpenIInv, OpenIInv', NEW p \in Process, OpenStep(p)
  PROVE  OpenRank(p)' < OpenRank(p)
<1> USE DEF Move, Quit, NotListening, NextAddress
<1>1. OpenTypeOK
  BY Parts
<1>2. /\ at'[p] \in 1 .. NAddr + 1 /\ at[p] \in 1 .. NAddr + 1 /\ NAddr \in Nat
      /\ place'[p] = "socket" => OpenRank(p)' = 3 * (NAddr + 1 - at'[p]) + 1
      /\ place'[p] = "try" => OpenRank(p)' = 3 * (NAddr + 1 - at'[p])
      /\ place'[p] = "listen" => OpenRank(p)' = 3 * (NAddr + 1 - at'[p]) - 1
      /\ place'[p] \notin {"socket", "try", "listen"} => OpenRank(p)' = 0
  <2>1. OpenTypeOK'
    BY DEF OpenIInv, OpenInv
  <2> QED
    BY <1>1, <2>1, OpenAssumption DEF OpenTypeOK, OpenRank
<1>3. CASE Socket(p)
  <2>1. place[p] = "socket" /\ place'[p] = "try" /\ at'[p] = at[p]
    BY <1>1, <1>3 DEF Socket, OpenTypeOK
  <2> QED
    BY <1>2, <2>1, RankOf
<1>4. CASE SocketFails(p)
  <2>1. place[p] = "socket" /\ place'[p] = "socket" /\ at'[p] = at[p] + 1
    BY <1>1, <1>4 DEF SocketFails, OpenTypeOK
  <2> QED
    BY <1>2, <2>1, RankOf
<1>5. CASE Bind(p)
  <2>1. place[p] = "try" /\ place'[p] = "listen" /\ at'[p] = at[p]
    BY <1>1, <1>5 DEF Bind, OpenTypeOK
  <2> QED
    BY <1>2, <2>1, RankOf
<1>6. CASE Connect(p) \/ Listen(p) \/ ListenFails(p) \/ NoneLeft(p)
  <2>1. place'[p] \in {"done", "idle"} /\ place[p] \in {"socket", "try", "listen"}
    BY <1>1, <1>6 DEF Connect, Listen, ListenFails, NoneLeft, OpenTypeOK
  <2>2. OpenRank(p)' = 0
    BY <1>2, <2>1
  <2>3. OpenRank(p) > 0
    BY <1>2, <2>1, RankOf
  <2> QED
    BY <2>2, <2>3
<1>7. CASE TryFails(p)
  <2>1. place[p] = "try" /\ place'[p] = "socket" /\ at'[p] = at[p] + 1
    BY <1>1, <1>7 DEF TryFails, OpenTypeOK
  <2> QED
    BY <1>2, <2>1, RankOf
<1> QED
  BY <1>3, <1>4, <1>5, <1>6, <1>7 DEF OpenStep

(* Any step.                                                               *)
LEMMA SearchAdvances ==
  ASSUME OpenIInv, [OpenNext]_openVars, NEW p \in Process,
         place[p] \in {"socket", "try", "listen"}
  PROVE  /\ OpenRank(p) \in Nat /\ OpenRank(p)' <= OpenRank(p)
         /\ OpenStep(p) => OpenRank(p)' < OpenRank(p)
<1>1. OpenTypeOK /\ OpenIInv'
  BY Parts, NextOpen
<1>2. OpenRank(p) \in Nat
  BY RankOf
<1>3. OpenRank(p)' \in Int
  <2>1. OpenTypeOK'
    BY <1>1 DEF OpenIInv, OpenInv
  <2> QED
    BY <2>1, OpenAssumption DEF OpenTypeOK, OpenRank
<1>4. OpenRank(p)' <= OpenRank(p)
  <2>1. CASE OpenStep(p)
    BY <1>1, <1>2, <1>3, <2>1, CallAdvances
  <2>2. CASE OpenDie(p)
    <3>1. place'[p] = "idle"
      BY <1>1, <2>2 DEF OpenDie, Quit, Move, OpenTypeOK
    <3> QED
      BY <1>2, <3>1 DEF OpenRank
  <2>3. CASE at'[p] = at[p] /\ place'[p] = place[p]
    BY <1>2, <2>3 DEF OpenRank
  <2>4. ASSUME NEW o \in Process, o # p,
               Resolve(o) \/ OpenStep(o) \/ Keep(o) \/ Create(o) \/ OpenDie(o)
        PROVE  at'[p] = at[p] /\ place'[p] = place[p]
    BY <1>1, <2>4
    DEF Resolve, OpenStep, Socket, SocketFails, Bind, Connect, TryFails, Listen,
        ListenFails, NoneLeft, NotListening, Keep, Create, OpenDie, Quit, Move,
        OpenTypeOK
  <2>5. ~Resolve(p) /\ ~Keep(p) /\ ~Create(p)
    BY DEF Resolve, Keep, Create
  <2>6. UNCHANGED openVars => at'[p] = at[p] /\ place'[p] = place[p]
    BY DEF openVars
  <2> QED
    BY <2>1, <2>2, <2>3, <2>4, <2>5, <2>6 DEF OpenNext
<1> QED
  BY <1>1, <1>2, <1>4, CallAdvances

(* Every system call of a search brings it nearer to its end: no failure   *)
(* sends a process back to an address it has tried, for any list.          *)
THEOREM SearchIsBounded == OpenSpec => OpenAdvances
<1>1. OpenIInv /\ [OpenNext]_openVars =>
        [\A p \in Process :
           place[p] \in {"socket", "try", "listen"} =>
             /\ OpenRank(p) \in Nat /\ OpenRank(p)' <= OpenRank(p)
             /\ OpenStep(p) => OpenRank(p)' < OpenRank(p)]_openVars
  BY SearchAdvances
<1> QED
  BY InitOpen, NextOpen, <1>1, PTL DEF OpenSpec, OpenAdvances

(***************************************************************************)
(* VideoTransfer, for every size of field and image.                       *)
(***************************************************************************)
USE FrameAssumption

(* The invariant holds initially.                                          *)
LEMMA InitVideo == VideoInit => VideoInv
<1> SUFFICES ASSUME VideoInit PROVE VideoInv
  OBVIOUS
<1>1. Len(frames) = 0 /\ Len(shown) = 0 /\ DOMAIN frames = {}
  BY DEF VideoInit
<1>2. VideoTypeOK
  BY EmptySeq DEF VideoInit, VideoTypeOK
<1>3. FramesInv
  BY <1>1 DEF VideoInit, FramesInv, Ended
<1>4. ImagesAsSent
  BY <1>1 DEF VideoInit, ImagesAsSent, StepInv, Ended
<1> QED
  BY <1>2, <1>3, <1>4 DEF VideoInv

(* The images as numbers.                                                  *)
LEMMA FrameFacts ==
  ASSUME VideoTypeOK
  PROVE  /\ Len(frames) \in Nat /\ DOMAIN frames = 1 .. Len(frames)
         /\ \A i \in 1 .. Len(frames) :
              /\ frames[i] \in Image
              /\ frames[i].from \in Nat /\ frames[i].len \in Nat
              /\ Ended(i) \in Nat
              /\ Ended(i) = frames[i].from + frames[i].len
         /\ Ended(0) = 0 /\ Len(shown) \in Nat
<1>1. /\ Len(frames) \in Nat /\ DOMAIN frames = 1 .. Len(frames)
      /\ \A i \in 1 .. Len(frames) : frames[i] \in Image
      /\ Len(shown) \in Nat
  BY DEF VideoTypeOK
<1>2. \A i \in 1 .. Len(frames) : frames[i].from \in Nat /\ frames[i].len \in Nat
  BY <1>1 DEF Image
<1>3. Ended(0) = 0 /\ \A i \in 1 .. Len(frames) : Ended(i) = frames[i].from + frames[i].len
  BY <1>1 DEF Ended
<1> QED
  BY <1>1, <1>2, <1>3

(* The server sends an image.                                              *)
LEMMA ImageSentKeeps ==
  ASSUME VideoInv, NEW n \in Frame, SendImage(n)
  PROVE  VideoInv'
<1> DEFINE new == [from |-> stream + FieldSize, len |-> n]
<1>1. /\ VideoTypeOK /\ FramesInv /\ stream \in Nat /\ n \in Nat
      /\ new \in Image
      /\ new.from = stream + FieldSize /\ new.len = n
  BY DEF VideoInv, VideoTypeOK, Image
<1> HIDE DEF new
<1>2. PICK k \in Nat : k = Len(frames)
  BY <1>1, FrameFacts
<1>3. /\ frames' \in Seq(Image) /\ Len(frames') = k + 1
      /\ frames'[k + 1] = new /\ \A i \in 1 .. k : frames'[i] = frames[i]
  BY <1>1, <1>2, AppendProperties DEF SendImage, VideoTypeOK, new
<1>4. VideoTypeOK'
  BY <1>1, <1>3 DEF SendImage, VideoTypeOK
<1>5. /\ DOMAIN frames' = 1 .. k + 1 /\ stream' = stream + FieldSize + n
      /\ taken' = taken /\ over' = over /\ ~over
  BY <1>3 DEF SendImage
<1>6. /\ \A i \in 0 .. k : Ended(i)' = Ended(i) /\ Ended(i) \in Nat
      /\ Ended(k + 1)' = stream + FieldSize + n
      /\ Ended(k) = stream
  <2>1. Ended(k) = stream
    BY <1>1, <1>2, <1>5 DEF FramesInv
  <2>2. \A i \in 0 .. k : Ended(i)' = Ended(i) /\ Ended(i) \in Nat
    BY <1>1, <1>2, <1>3, FrameFacts DEF Ended
  <2>3. Ended(k + 1)' = stream + FieldSize + n
    BY <1>1, <1>2, <1>3 DEF Ended
  <2> QED
    BY <2>1, <2>2, <2>3
<1>7. ASSUME NEW i \in 1 .. k
      PROVE  /\ frames[i].from = FieldSize + Ended(i - 1)
             /\ \A j \in 1 .. k : i < j => Ended(i) + FieldSize <= frames[j].from
             /\ Ended(i) <= stream /\ Ended(i) \in Nat
  <2>1. /\ frames[i].from = FieldSize + Ended(i - 1)
        /\ \A j \in 1 .. k : i < j => Ended(i) + FieldSize <= frames[j].from
    BY <1>1, <1>2, FrameFacts DEF FramesInv
  <2>2. k \in 1 .. k /\ frames[k].from \in Nat /\ frames[k].len \in Nat
        /\ Ended(k) = frames[k].from + frames[k].len
    BY <1>1, <1>2, FrameFacts DEF Ended
  <2>3. i = k \/ i < k
    OBVIOUS
  <2>4. i < k => Ended(i) + FieldSize <= frames[k].from
    BY <2>1, <2>2
  <2> QED
    BY <1>6, <2>1, <2>2, <2>3, <2>4
<1>8. FramesInv'
  <2>1. ASSUME NEW i \in 1 .. k + 1
        PROVE  /\ frames'[i].from = FieldSize + Ended(i - 1)'
               /\ \A j \in 1 .. k + 1 :
                    i < j => Ended(i)' + FieldSize <= frames'[j].from
    <3>1. CASE i = k + 1
      BY <1>1, <1>3, <1>6, <3>1
    <3>2. CASE i \in 1 .. k
      <4>1. frames'[i].from = FieldSize + Ended(i - 1)'
        <5>1. i - 1 \in 0 .. k
          BY <3>2
        <5> QED
          BY <1>3, <1>6, <1>7, <3>2, <5>1
      <4>2. ASSUME NEW j \in 1 .. k + 1, i < j
            PROVE  Ended(i)' + FieldSize <= frames'[j].from
        <5>1. CASE j \in 1 .. k
          <6>1. Ended(i)' = Ended(i) /\ frames'[j] = frames[j]
            BY <1>3, <1>6, <3>2, <5>1
          <6>2. Ended(i) + FieldSize <= frames[j].from
            BY <1>7, <3>2, <4>2, <5>1
          <6> QED
            BY <6>1, <6>2
        <5>2. CASE j = k + 1
          BY <1>1, <1>3, <1>6, <1>7, <3>2, <5>2
        <5> QED
          BY <5>1, <5>2
      <4> QED
        BY <4>1, <4>2
    <3> QED
      BY <3>1, <3>2
  <2>2. taken' <= stream'
    BY <1>1, <1>5 DEF FramesInv, VideoTypeOK
  <2>3. Len(frames)' = k + 1 /\ Ended(Len(frames))' = stream' /\ stream' \in Nat
    BY <1>1, <1>3, <1>5, <1>6
  <2> QED
    BY <1>5, <2>1, <2>2, <2>3 DEF FramesInv
<1>9. ImagesAsSent'
  <2> SUFFICES ASSUME ~broken'
               PROVE  /\ Len(shown)' <= Len(frames)'
                      /\ \A j \in 1 .. Len(shown)' : shown'[j] = frames'[j]
                      /\ StepInv'
    BY DEF ImagesAsSent
  <2>1. /\ Len(shown) <= k /\ \A j \in 1 .. Len(shown) : shown[j] = frames[j]
        /\ StepInv /\ Len(shown) \in Nat
        /\ UNCHANGED <<client, len, count, first, shown, taken>>
    BY <1>1, <1>2, FrameFacts DEF VideoInv, ImagesAsSent, SendImage
  <2>2. StepInv'
    BY <1>2, <1>3, <1>6, <2>1 DEF StepInv, Received
  <2> QED
    BY <1>3, <2>1, <2>2
<1> QED
  BY <1>4, <1>8, <1>9 DEF VideoInv

(* The stream ends.                                                        *)
LEMMA VideoEndKeeps ==
  ASSUME VideoInv, NEW lost \in 0 .. stream - taken, StopSending(lost)
  PROVE  VideoInv'
<1>1. /\ VideoTypeOK /\ FramesInv /\ stream \in Nat /\ taken \in Nat
      /\ taken <= stream
  BY DEF VideoInv, VideoTypeOK, FramesInv
<1>2. /\ stream' = stream - lost /\ over' /\ stream' \in Nat /\ taken <= stream'
      /\ UNCHANGED <<frames, taken, client, len, count, first, broken, shown>>
  BY <1>1 DEF StopSending
<1>3. VideoTypeOK'
  BY <1>1, <1>2 DEF VideoTypeOK, StopSending
<1>4. FramesInv'
  <2>1. Ended(Len(frames)) \in Nat
    BY <1>1, FrameFacts DEF Ended
  <2> QED
    BY <1>1, <1>2, <2>1 DEF FramesInv, Ended
<1>5. ImagesAsSent'
  BY <1>2 DEF VideoInv, ImagesAsSent, StepInv, Ended, Received
<1> QED
  BY <1>3, <1>4, <1>5 DEF VideoInv

(* A whole field is that of the next image.                                *)
LEMMA FieldKeeps ==
  ASSUME VideoInv, NEW k \in 1 .. FieldSize, RecvField(k)
  PROVE  VideoInv'
<1>1. /\ VideoTypeOK /\ FramesInv /\ stream \in Nat /\ taken \in Nat
      /\ taken + k <= stream /\ client = "field" /\ broken \in BOOLEAN
  BY DEF VideoInv, VideoTypeOK, FramesInv, RecvField
<1>2. /\ taken' = taken + k /\ first' = taken + k /\ count' = 0
      /\ client' = "image" /\ broken' = (broken \/ k < FieldSize)
      /\ UNCHANGED <<frames, stream, over, shown>>
  BY DEF RecvField
<1>3. len' \in Nat
  BY <1>1, FrameFacts DEF RecvField
<1>4. VideoTypeOK'
  BY <1>1, <1>2, <1>3 DEF VideoTypeOK
<1>5. FramesInv'
  BY <1>1, <1>2 DEF FramesInv, Ended
<1>6. ImagesAsSent'
  <2> SUFFICES ASSUME ~broken'
               PROVE  /\ Len(shown)' <= Len(frames)'
                      /\ \A j \in 1 .. Len(shown)' : shown'[j] = frames'[j]
                      /\ StepInv'
    BY DEF ImagesAsSent
  <2>1. ~broken /\ k = FieldSize
    <3>1. ~broken /\ ~(k < FieldSize)
      BY <1>2, Zenon
    <3> QED
      BY <3>1
  <2>2. PICK n \in Nat : n = Len(shown)
    BY <1>1, FrameFacts
  <2>3. /\ n <= Len(frames) /\ taken = Ended(n)
        /\ \A j \in 1 .. n : shown[j] = frames[j]
    BY <1>1, <2>1, <2>2 DEF VideoInv, ImagesAsSent, StepInv
  <2>4. n < Len(frames)
    <3>1. stream <= Ended(Len(frames))
      BY <1>1 DEF FramesInv
    <3> QED
      BY <1>1, <2>1, <2>3, <3>1, FrameFacts
  <2>5. n + 1 \in 1 .. Len(frames) /\ frames[n + 1].from = taken + k
    <3>1. n + 1 \in 1 .. Len(frames) /\ (n + 1) - 1 = n
      BY <1>1, <2>4, FrameFacts
    <3>2. frames[n + 1].from = FieldSize + Ended(n)
      BY <1>1, <3>1, FrameFacts DEF FramesInv
    <3> QED
      BY <1>1, <2>1, <2>3, <3>1, <3>2
  <2>6. PICK i \in 1 .. Len(frames) :
          frames[i].from = taken + k /\ len' = frames[i].len
    BY <1>1, <2>1, <2>5, FrameFacts DEF RecvField
  <2>7. i = n + 1
    <3>1. \A a, b \in 1 .. Len(frames) :
            a < b => frames[a].from < frames[b].from
      <4> SUFFICES ASSUME NEW a \in 1 .. Len(frames), NEW b \in 1 .. Len(frames),
                          a < b
                   PROVE  frames[a].from < frames[b].from
        OBVIOUS
      <4>1. /\ Ended(a) + FieldSize <= frames[b].from
            /\ Ended(a) = frames[a].from + frames[a].len
        BY <1>1, FrameFacts DEF FramesInv
      <4>2. /\ frames[a].from \in Nat /\ frames[a].len \in Nat
            /\ frames[b].from \in Nat
        BY <1>1, FrameFacts
      <4> QED
        BY <4>1, <4>2
    <3> QED
      <4>1. i \in Int /\ frames[i].from \in Nat /\ frames[n + 1].from = frames[i].from
        BY <1>1, <2>5, <2>6, FrameFacts
      <4>2. ~(i < n + 1) /\ ~(n + 1 < i)
        BY <2>5, <3>1, <4>1
      <4> QED
        BY <4>1, <4>2
  <2>8. Received' = frames[n + 1]
    <3>1. frames[n + 1] \in Image
      BY <1>1, <2>5, FrameFacts
    <3>2. first' = frames[n + 1].from /\ len' = frames[n + 1].len
      BY <1>2, <2>5, <2>6, <2>7
    <3> QED
      BY <3>1, <3>2 DEF Received, Image
  <2>9. StepInv'
    <3>1. Len(shown)' = n /\ frames' = frames /\ client' = "image"
          /\ count' <= len' /\ taken' = first' + count'
      BY <1>1, <1>2, <1>3, <2>2
    <3> QED
      BY <2>4, <2>8, <3>1 DEF StepInv
  <2> QED
    BY <1>2, <2>2, <2>3, <2>9
<1> QED
  BY <1>4, <1>5, <1>6 DEF VideoInv

(* The bytes of an image, and what the client does with them.              *)
LEMMA ImageKeeps ==
  ASSUME VideoInv, RecvFieldFails \/ RecvByte \/ RecvNoByte \/ ShowImage \/ NoImage
  PROVE  VideoInv'
<1>1. /\ VideoTypeOK /\ FramesInv /\ stream \in Nat /\ taken \in Nat
      /\ count \in Nat /\ len \in Nat /\ first \in Nat
  BY DEF VideoInv, VideoTypeOK
<1>2. UNCHANGED <<frames, stream, over>>
  BY DEF RecvFieldFails, RecvByte, RecvNoByte, ShowImage, NoImage
<1>3. CASE RecvFieldFails \/ RecvNoByte
  <2>1. len' \in Nat
    BY <1>1, <1>3 DEF RecvFieldFails, RecvNoByte
  <2>2. VideoTypeOK'
    <3>1. /\ count' \in Nat /\ first' \in Nat /\ broken' \in BOOLEAN
          /\ client' \in {"field", "image", "exit"} /\ taken' = taken
          /\ shown' = shown
      <4>1. CASE RecvFieldFails
        BY <1>1, <4>1 DEF RecvFieldFails
      <4>2. CASE RecvNoByte
        BY <1>1, <4>2 DEF RecvNoByte
      <4> QED
        BY <1>3, <4>1, <4>2
    <3> QED
      BY <1>1, <1>2, <2>1, <3>1 DEF VideoTypeOK
  <2>3. FramesInv'
    BY <1>1, <1>2, <1>3 DEF FramesInv, Ended, RecvFieldFails, RecvNoByte
  <2>4. broken'
    BY <1>3 DEF RecvFieldFails, RecvNoByte
  <2> QED
    BY <2>2, <2>3, <2>4 DEF VideoInv, ImagesAsSent
<1>4. CASE RecvByte
  <2>1. VideoTypeOK' /\ FramesInv'
    BY <1>1, <1>4 DEF VideoTypeOK, FramesInv, Ended, RecvByte
  <2>2. ImagesAsSent'
    BY <1>1, <1>4
    DEF VideoInv, ImagesAsSent, StepInv, Received, RecvByte, Filled
  <2> QED
    BY <2>1, <2>2 DEF VideoInv
<1>5. CASE NoImage
  <2>1. VideoTypeOK' /\ FramesInv'
    BY <1>1, <1>5 DEF VideoTypeOK, FramesInv, Ended, NoImage
  <2>2. ImagesAsSent'
    BY <1>5 DEF VideoInv, ImagesAsSent, StepInv, NoImage
  <2> QED
    BY <2>1, <2>2 DEF VideoInv
<1>6. CASE ShowImage
  <2>1. Received \in Image /\ shown \in Seq(Image)
    BY <1>1 DEF Received, VideoTypeOK, Image
  <2>2. PICK n \in Nat : n = Len(shown)
    BY <1>1, FrameFacts
  <2>3. ~broken => /\ shown' \in Seq(Image) /\ Len(shown') = n + 1
                   /\ shown'[n + 1] = Received
                   /\ \A j \in 1 .. n : shown'[j] = shown[j]
    BY <1>6, <2>1, <2>2, AppendProperties DEF ShowImage
  <2>4. VideoTypeOK' /\ FramesInv'
    BY <1>1, <1>6, <2>1, <2>3 DEF VideoTypeOK, FramesInv, Ended, ShowImage
  <2>5. ImagesAsSent'
    <3> SUFFICES ASSUME ~broken'
                 PROVE  /\ Len(shown)' <= Len(frames)'
                        /\ \A j \in 1 .. Len(shown)' : shown'[j] = frames'[j]
                        /\ StepInv'
      BY DEF ImagesAsSent
    <3>1. /\ ~broken /\ client = "image" /\ client' = "field" /\ count >= len
          /\ taken' = taken
      BY <1>6 DEF ShowImage, Filled
    <3>2. /\ n < Len(frames) /\ Received = frames[n + 1] /\ count <= len
          /\ taken = first + count /\ \A j \in 1 .. n : shown[j] = frames[j]
      BY <2>2, <3>1 DEF VideoInv, ImagesAsSent, StepInv
    <3>3. taken = Ended(n + 1)
      BY <1>1, <3>1, <3>2 DEF Ended, Received
    <3>4. Len(shown') = n + 1 /\ \A j \in 1 .. n + 1 : shown'[j] = frames[j]
      BY <2>3, <3>1, <3>2
    <3>5. StepInv'
      BY <1>2, <3>1, <3>3, <3>4 DEF StepInv, Ended
    <3> QED
      BY <1>1, <1>2, <3>2, <3>4, <3>5, FrameFacts
  <2> QED
    BY <2>4, <2>5 DEF VideoInv
<1> QED
  BY <1>3, <1>4, <1>5, <1>6

(* The invariant is inductive.                                             *)
LEMMA NextVideo == VideoInv /\ [VideoNext]_videoVars => VideoInv'
<1> SUFFICES ASSUME VideoInv, [VideoNext]_videoVars PROVE VideoInv'
  OBVIOUS
<1>1. CASE UNCHANGED videoVars
  BY <1>1 DEF videoVars, VideoInv, VideoTypeOK, FramesInv, Ended, ImagesAsSent,
     StepInv, Received
<1>2. CASE VideoNext
  BY <1>2, ImageSentKeeps, VideoEndKeeps, FieldKeeps, ImageKeeps DEF VideoNext
<1> QED
  BY <1>1, <1>2

(* The client is in step until recv() returns less than it was asked for.  *)
THEOREM VideoInStep == VideoSpec => []ImagesAsSent
<1>1. VideoInv => ImagesAsSent
  BY DEF VideoInv
<1> QED
  BY InitVideo, NextVideo, <1>1, PTL DEF VideoSpec

(***************************************************************************)
(* The parts together.  A step of Library is one of one part, and leaves   *)
(* the variables of the others alone.                                      *)
(***************************************************************************)
(* What each part sees of a step.                                          *)
LEMMA EachPart ==
  ASSUME [LibraryNext]_parts
  PROVE  /\ [Next]_vars /\ [OpenNext]_openVars /\ [LtoaNext]_ltoaVars
         /\ [LegacyNext]_legacyVars /\ [VideoNext]_videoVars
<1>1. CASE UNCHANGED parts
  BY <1>1 DEF parts
<1>2. CASE LibraryNext
  BY <1>2 DEF LibraryNext, Only
<1> QED
  BY <1>1, <1>2

(* The behaviours of each part that a behaviour of Library holds.          *)
LEMMA EachBehaviour ==
  LibrarySpec =>
    /\ Init /\ [][Next]_vars
    /\ OpenInit /\ [][OpenNext]_openVars
    /\ LtoaSpec
    /\ LegacyInit /\ [][LegacyNext]_legacyVars
    /\ VideoSpec
<1>1. LibraryInit => Init /\ OpenInit /\ LtoaInit /\ LegacyInit /\ VideoInit
  BY DEF LibraryInit
<1>2. [LibraryNext]_parts =>
        /\ [Next]_vars /\ [OpenNext]_openVars /\ [LtoaNext]_ltoaVars
        /\ [LegacyNext]_legacyVars /\ [VideoNext]_videoVars
  BY EachPart
<1> QED
  BY <1>1, <1>2, PTL DEF LibrarySpec, LtoaSpec, VideoSpec

(* Every part of the library keeps its invariant beside the others: the    *)
(* buffer of robust I/O, the sockets, the digits, the older decoder and    *)
(* the images.                                                             *)
THEOREM LibraryIsSound ==
  LibrarySpec => [](/\ RioInv /\ OpenInv /\ OneServerPerAddress /\ NodeIsConnected
                    /\ DigitsAreRight /\ OverflowOnlyAtLongMin
                    /\ LegacyInv /\ ImagesAsSent)
<1>1. OpenIInv => OpenInv /\ OneServerPerAddress /\ NodeIsConnected
  BY DEF OpenIInv
<1>2. LibrarySpec => []OpenIInv
  BY EachBehaviour, InitOpen, NextOpen, PTL
<1>3. LibrarySpec => []RioInv
  BY EachBehaviour, InvInit, InvNext, PTL
<1>4. LibrarySpec => []LegacyInv
  BY EachBehaviour, InitLegacy, NextLegacy, PTL
<1> QED
  BY <1>1, <1>2, <1>3, <1>4, EachBehaviour, TextIsNumber, OnlyLongMinOverflows,
     VideoInStep, PTL

(* Robust I/O implements the stream of bytes beside the other parts.       *)
THEOREM LibraryStream == LibrarySpec => ImplementsStream
<1>1. Init => Stream!Init
  BY DEF Init, Stream!Init
<1>2. Init /\ [][Next]_vars => []RioInv
  BY InvInit, InvNext, PTL
<1> QED
  BY <1>1, <1>2, EachBehaviour, StreamStep, PTL
     DEF ImplementsStream, Stream!Safety, Stream!stream

(* Every loop of lib/unix_api.c has less to do after each of its steps,    *)
(* for every buffer, address list, number and way to cut a stream: reads,  *)
(* searches of an address and conversions cannot go round by themselves.   *)
(* Of Jdt::recvMsg(), which can, LegacyIsBounded says where.               *)
THEOREM LibraryAdvances == LibrarySpec => CallsAdvance
<1>1. RioInv /\ [Next]_vars =>
        [busy => /\ ReadRank' <= ReadRank
                 /\ ReadStep => ReadRank' < ReadRank]_vars
  BY CallAdvance
<1>2. OpenIInv /\ [OpenNext]_openVars =>
        [\A p \in Process :
           place[p] \in {"socket", "try", "listen"} =>
             /\ OpenRank(p) \in Nat /\ OpenRank(p)' <= OpenRank(p)
             /\ OpenStep(p) => OpenRank(p)' < OpenRank(p)]_openVars
  BY SearchAdvances
<1>3. LibrarySpec => RioAdvances
  BY <1>1, EachBehaviour, InvInit, InvNext, PTL DEF RioAdvances
<1>4. LibrarySpec => OpenAdvances
  BY <1>2, EachBehaviour, InitOpen, NextOpen, PTL DEF OpenAdvances
<1>5. LibrarySpec => LtoaAdvances
  BY EachBehaviour, ConversionEnds, PTL
<1> QED
  BY <1>3, <1>4, <1>5, PTL DEF CallsAdvance
=============================================================================
