--------------------------- MODULE EchoServerProofs ---------------------------
(***************************************************************************)
(* Theorems about EchoServer, for any number of clients, any descriptor    *)
(* limit, any buffer sizes and any backlog.                                *)
(***************************************************************************)
EXTENDS EchoServer, StreamLemmas

USE EchoAssumption DEF Fd, NoFd

\* The main thread handles a connection only between accept and the next one.
MainTyped == HasConn => mconn \in Client

TypeInv == TypeOK /\ MainTyped

LEMMA InitType == Init => TypeInv
<1> SUFFICES ASSUME Init PROVE TypeInv
  OBVIOUS
<1>1. TypeOK
  BY EmptySeq DEF Init, TypeOK, SetupPc
<1>2. MainTyped
  BY DEF Init, MainTyped, HasConn
<1>3. QED
  BY <1>1, <1>2 DEF TypeInv

\* Steps of the main thread.
LEMMA MainType == TypeInv /\ Main => TypeInv'
<1> SUFFICES ASSUME TypeInv, Main PROVE TypeInv'
  OBVIOUS
<1> USE DEF TypeInv, TypeOK, MainTyped, HasConn, SetupPc, LoopPc, LivePc, ServingPc, Ended, tcpVars
<1>1. CASE MainSetup
  <2>1. NextSetup[main] \in SetupPc \cup {"accept"}
    BY <1>1 DEF MainSetup, NextSetup
  <2>2. main' \in SetupPc \cup LoopPc \cup Ended /\ listening' \in BOOLEAN /\ ~HasConn'
    BY <1>1, <2>1 DEF MainSetup
  <2>3. QED
    BY <1>1, <2>2 DEF MainSetup
<1>2. CASE MainAccept
  <2>1. Head(acceptq) \in Client /\ Tail(acceptq) \in Seq(Client)
    BY <1>2, HeadTailProperties DEF MainAccept
  <2>2. PICK f \in Fd : mfd' = f /\ fdTable' = [fdTable EXCEPT ![f] = Head(acceptq)]
    BY <1>2 DEF MainAccept
  <2>3. fdTable' \in [Fd -> Client \cup {NoConn}] /\ mfd' \in Fd \cup {NoFd}
    BY <2>1, <2>2
  <2>4. QED
    BY <1>2, <2>1, <2>3 DEF MainAccept
<1>3. CASE MainAcceptFails
  BY <1>3 DEF MainAcceptFails, vars
<1>4. CASE MainMalloc
  BY <1>4 DEF MainMalloc
<1>5. CASE MainMallocFails
  BY <1>5 DEF MainMallocFails, MainClosesFd
<1>6. CASE MainCreate
  BY <1>6 DEF MainCreate
<1>7. CASE MainCreateFails
  BY <1>7 DEF MainCreateFails, MainClosesFd
<1>8. CASE MainDetach
  BY <1>8 DEF MainDetach
<1>9. QED
  BY <1>1, <1>2, <1>3, <1>4, <1>5, <1>6, <1>7, <1>8 DEF Main

LEMMA EndType == ASSUME NEW how \in Ended PROVE TypeInv /\ ProcessEnds(how) => TypeInv'
<1> SUFFICES ASSUME TypeInv, ProcessEnds(how) PROVE TypeInv'
  OBVIOUS
<1> USE DEF TypeInv, TypeOK, MainTyped, HasConn, Ended, ProcessEnds
<1>1. main' \in Ended /\ ~HasConn'
  OBVIOUS
<1>2. buf' \in [Client -> Seq(Byte)] /\ acceptq' \in Seq(Client)
  BY EmptySeq
<1>3. sock' \in [Client -> {"none", "estab", "shut", "closed"}]
  OBVIOUS
<1>4. /\ fdTable' \in [Fd -> Client \cup {NoConn}]
      /\ heap' \in [Client -> Fd \cup {NoFd}]
      /\ wpc' \in [Client -> LivePc \cup {"none", "done"}]
      /\ wfd' \in [Client -> Fd \cup {NoFd}]
      /\ copied' \in [Client -> BOOLEAN]
  OBVIOUS
<1>5. QED
  BY <1>1, <1>2, <1>3, <1>4

\* Steps of a worker.
LEMMA WorkerType == ASSUME NEW c \in Client PROVE TypeInv /\ Worker(c) => TypeInv'
<1> SUFFICES ASSUME TypeInv, Worker(c) PROVE TypeInv'
  OBVIOUS
<1> USE DEF TypeInv, TypeOK, MainTyped, HasConn, LivePc, ServingPc, tcpVars, WorkerGoesTo
<1>1. CASE WorkerStart(c)
  BY <1>1 DEF WorkerStart
<1>2. CASE RecvData(c)
  <2>0. PICK k \in Client : \E n \in 1..Len(toSrv[k]) :
          /\ buf' = [buf EXCEPT ![c] = SubSeq(toSrv[k], 1, n)]
          /\ toSrv' = [toSrv EXCEPT ![k] = SubSeq(@, n + 1, Len(@))]
    BY <1>2 DEF RecvData
  <2>1. PICK n \in 1..Len(toSrv[k]) :
          /\ buf' = [buf EXCEPT ![c] = SubSeq(toSrv[k], 1, n)]
          /\ toSrv' = [toSrv EXCEPT ![k] = SubSeq(@, n + 1, Len(@))]
    BY <2>0
  <2>2. SubSeq(toSrv[k], 1, n) \in Seq(Byte) /\ SubSeq(toSrv[k], n + 1, Len(toSrv[k])) \in Seq(Byte)
    <3>1. toSrv[k] \in Seq(Byte)
      OBVIOUS
    <3>2. n \in 0..Len(toSrv[k])
      BY <3>1, LenProperties
    <3>3. QED
      BY <3>1, <3>2, SplitSeq
  <2>3. buf' \in [Client -> Seq(Byte)] /\ toSrv' \in [Client -> Seq(Byte)]
    BY <2>1, <2>2
  <2>4. QED
    BY <1>2, <2>3 DEF RecvData
<1>3. CASE RecvEof(c)
  BY <1>3 DEF RecvEof
<1>4. CASE RecvError(c)
  BY <1>4 DEF RecvError
<1>5. CASE SendCopies(c)
  <2>1. PICK k \in Client :
          LET room == SockBuf - Len(toCli[k])
              n == IF Len(buf[c]) <= room THEN Len(buf[c]) ELSE room
          IN  /\ Len(toCli[k]) < SockBuf
              /\ toCli' = [toCli EXCEPT ![k] = @ \o SubSeq(buf[c], 1, n)]
              /\ buf' = [buf EXCEPT ![c] = SubSeq(@, n + 1, Len(@))]
              /\ WorkerGoesTo(c, IF n = Len(buf[c]) THEN "recv" ELSE "send")
    BY <1>5 DEF SendCopies
  <2> DEFINE room == SockBuf - Len(toCli[k])
             n == IF Len(buf[c]) <= room THEN Len(buf[c]) ELSE room
  <2>2. n \in 0..Len(buf[c])
    <3>1. Len(buf[c]) \in Nat /\ Len(toCli[k]) \in Nat
      BY LenProperties
    <3>2. Len(toCli[k]) < SockBuf
      BY <2>1
    <3>3. QED
      BY <3>1, <3>2
  <2>3. /\ toCli' = [toCli EXCEPT ![k] = @ \o SubSeq(buf[c], 1, n)]
        /\ buf' = [buf EXCEPT ![c] = SubSeq(@, n + 1, Len(@))]
    BY <2>1
  <2> HIDE DEF n
  <2>4. /\ toCli[k] \o SubSeq(buf[c], 1, n) \in Seq(Byte)
        /\ SubSeq(buf[c], n + 1, Len(buf[c])) \in Seq(Byte)
    BY <2>2, SplitSeq, ConcatProperties
  <2>5. buf' \in [Client -> Seq(Byte)] /\ toCli' \in [Client -> Seq(Byte)]
    BY <2>3, <2>4
  <2>6. wpc' \in [Client -> LivePc \cup {"none", "done"}]
    BY <2>1
  <2>7. QED
    BY <1>5, <2>5, <2>6 DEF SendCopies
<1>6. CASE SendReturnsShort(c)
  BY <1>6, EmptySeq DEF SendReturnsShort
<1>7. CASE SendFails(c)
  BY <1>7, EmptySeq DEF SendFails
<1>8. CASE WorkerSigpipe(c)
  BY <1>8, EndType DEF WorkerSigpipe, Ended
<1>9. CASE WorkerShutdown(c)
  BY <1>9 DEF WorkerShutdown
<1>10. CASE WorkerClose(c)
  BY <1>10 DEF WorkerClose
<1>11. CASE WorkerFree(c)
  BY <1>11 DEF WorkerFree
<1>12. QED
  BY <1>1, <1>2, <1>3, <1>4, <1>5, <1>6, <1>7, <1>8, <1>9, <1>10, <1>11 DEF Worker

\* Steps of a client and of the network.
LEMMA ClientType ==
  ASSUME NEW c \in Client
  PROVE  TypeInv /\ (User(c) \/ ClientReads(c) \/ Tcp(c)) => TypeInv'
<1> SUFFICES ASSUME TypeInv, User(c) \/ ClientReads(c) \/ Tcp(c) PROVE TypeInv'
  OBVIOUS
<1> USE DEF TypeInv, TypeOK, MainTyped, HasConn, serverVars
<1>1. CASE Connect(c)
  <2>1. Append(acceptq, c) \in Seq(Client)
    BY AppendProperties
  <2>2. QED
    BY <1>1, <2>1 DEF Connect
<1>2. CASE ClientSends(c)
  <2>1. PICK b \in Byte : /\ sent' = [sent EXCEPT ![c] = Append(@, b)]
                          /\ toSrv' = [toSrv EXCEPT ![c] = Append(@, b)]
    BY <1>2 DEF ClientSends
  <2>2. Append(sent[c], b) \in Seq(Byte) /\ Append(toSrv[c], b) \in Seq(Byte)
    BY AppendProperties
  <2>3. QED
    BY <1>2, <2>1, <2>2 DEF ClientSends
<1>3. CASE ClientReads(c)
  <2>1. /\ Append(rcvd[c], Head(toCli[c])) \in Seq(Byte)
        /\ Tail(toCli[c]) \in Seq(Byte)
    BY <1>3, HeadTailProperties, AppendProperties DEF ClientReads
  <2>2. QED
    BY <1>3, <2>1 DEF ClientReads
<1>4. CASE ClientCloses(c)
  BY <1>4 DEF ClientCloses
<1>5. CASE ClientAborts(c)
  <2>1. PICK n \in 0..Len(toSrv[c]) : toSrv' = [toSrv EXCEPT ![c] = SubSeq(@, 1, n)]
    BY <1>5 DEF ClientAborts
  <2>2. SubSeq(toSrv[c], 1, n) \in Seq(Byte)
    BY SplitSeq
  <2>3. QED
    BY <1>5, <2>1, <2>2 DEF ClientAborts
<1>6. CASE PeerResets(c)
  BY <1>6 DEF PeerResets
<1>7. CASE ResetArrives(c)
  BY <1>7, EmptySeq DEF ResetArrives
<1>8. QED
  BY <1>1, <1>2, <1>3, <1>4, <1>5, <1>6, <1>7 DEF User, Tcp

LEMMA NextType == TypeInv /\ [Next]_vars => TypeInv'
<1> SUFFICES ASSUME TypeInv, [Next]_vars PROVE TypeInv'
  OBVIOUS
<1>1. CASE Main
  BY <1>1, MainType
<1>2. CASE \E c \in Client : Worker(c)
  BY <1>2, WorkerType
<1>3. CASE Sigint
  BY <1>3, EndType DEF Sigint, Ended
<1>4. CASE \E c \in Client : User(c) \/ ClientReads(c) \/ Tcp(c)
  BY <1>4, ClientType
<1>5. CASE UNCHANGED vars
  BY <1>5 DEF vars, TypeInv, TypeOK, MainTyped, HasConn
<1>6. QED
  BY <1>1, <1>2, <1>3, <1>4, <1>5 DEF Next

\* Every variable keeps its type: in particular the server's locals never
\* hold a descriptor or a connection that does not exist.
THEOREM Typing == Spec => []TypeOK
<1>1. Spec => []TypeInv
  BY InitType, NextType, PTL DEF Spec
<1>2. TypeInv => TypeOK
  BY DEF TypeInv
<1>3. QED
  BY <1>1, <1>2, PTL

-------------------------------------------------------------------------------
(* Who owns a connection, a descriptor and a session.                      *)

ownerVars == <<main, mconn, mfd, fdTable, heap, wpc, wfd, detached, acceptq>>

LEMMA InitOwner == Init => OwnerInv
<1> SUFFICES ASSUME Init PROVE OwnerInv
  OBVIOUS
<1> USE DEF Init, HasConn, ServingPc, LivePc, FdOfWorker
<1>1. MainLocals
  BY DEF MainLocals
<1>2. Waiting
  BY DEF Waiting
<1>3. Unconnected /\ Detached /\ OwnConnection /\ NoLeakedFd /\ SessionOwned
  BY DEF Unconnected, Detached, OwnConnection, NoLeakedFd, SessionOwned
<1>4. QED
  BY <1>1, <1>2, <1>3 DEF OwnerInv

\* A step that touches neither threads nor descriptors nor the accept queue
\* changes no owner.
LEMMA OwnerFrame ==
  ASSUME OwnerInv, UNCHANGED ownerVars,
         \A c \in Client : peer'[c] = "idle" <=> peer[c] = "idle",
         acceptq \in Seq(Client)
  PROVE  OwnerInv'
<1> USE DEF OwnerInv, ownerVars, HasConn, FdOfWorker
<1>1. Waiting'
  <2>1. \A i \in 1..Len(acceptq) : acceptq[i] \in Client
    OBVIOUS
  <2>2. QED
    BY <2>1 DEF Waiting
<1>2. MainLocals' /\ Unconnected' /\ Detached'
  BY DEF MainLocals, Unconnected, Detached
<1>3. OwnConnection' /\ NoLeakedFd' /\ SessionOwned'
  BY DEF OwnConnection, NoLeakedFd, SessionOwned
<1>4. QED
  BY <1>1, <1>2, <1>3

\* A worker that goes from one place where it holds its connection to another.
LEMMA OwnerWorkerMoves ==
  ASSUME TypeInv, OwnerInv, NEW c \in Client,
         NEW pc \in ServingPc \ {"start"},
         wpc[c] \in ServingPc \ {"start"},
         wpc' = [wpc EXCEPT ![c] = pc],
         UNCHANGED <<main, mconn, mfd, fdTable, heap, wfd, detached, acceptq, peer>>
  PROVE  OwnerInv'
<1> USE DEF TypeInv, TypeOK, OwnerInv, HasConn, FdOfWorker, ServingPc, LivePc
<1>0. \A d \in Client : /\ wpc'[d] = "none" <=> wpc[d] = "none"
                        /\ wpc'[d] = "start" <=> wpc[d] = "start"
                        /\ wpc'[d] = "done" <=> wpc[d] = "done"
                        /\ wpc'[d] \in ServingPc <=> wpc[d] \in ServingPc
                        /\ wpc'[d] \in LivePc <=> wpc[d] \in LivePc
  OBVIOUS
<1> HIDE DEF ServingPc, LivePc
<1>1. MainLocals'
  BY <1>0 DEF MainLocals, MainTyped
<1>2. Waiting'
  <2>1. \A i \in 1..Len(acceptq) : acceptq[i] \in Client
    OBVIOUS
  <2>2. Waiting /\ acceptq' = acceptq /\ mconn' = mconn /\ main' = main /\ peer' = peer
    OBVIOUS
  <2>3. QED
    BY ONLY <1>0, <2>1, <2>2 DEF Waiting, HasConn
<1>3. Unconnected' /\ Detached'
  BY <1>0 DEF Unconnected, Detached
<1>4. OwnConnection'
  BY <1>0 DEF OwnConnection
<1>5. NoLeakedFd'
  BY <1>0 DEF NoLeakedFd
<1>6. SessionOwned'
  BY <1>0 DEF SessionOwned
<1>7. QED
  BY <1>1, <1>2, <1>3, <1>4, <1>5, <1>6

\* Steps of the main thread.
LEMMA OwnerAccept == TypeInv /\ OwnerInv /\ MainAccept => OwnerInv'
<1> SUFFICES ASSUME TypeInv, OwnerInv, MainAccept PROVE OwnerInv'
  OBVIOUS
<1> DEFINE c == acceptq[1]
<1> USE DEF TypeInv, TypeOK, OwnerInv
<1>1. /\ acceptq # <<>> /\ acceptq \in Seq(Client)
      /\ c = Head(acceptq) /\ c \in Client
      /\ Len(acceptq) \in Nat /\ 1 \in 1..Len(acceptq)
      /\ Len(Tail(acceptq)) = Len(acceptq) - 1
      /\ \A i \in 1..Len(Tail(acceptq)) :
           Tail(acceptq)[i] = acceptq[i + 1] /\ i + 1 \in 1..Len(acceptq)
  <2>1. acceptq # <<>> /\ acceptq \in Seq(Client)
    BY DEF MainAccept
  <2>2. Len(acceptq) \in Nat \ {0}
    BY <2>1, EmptySeq, LenProperties
  <2>3. QED
    BY <2>1, <2>2, HeadTailProperties
<1>2. PICK f \in Fd : /\ fdTable[f] = NoConn
                      /\ mfd' = f
                      /\ fdTable' = [fdTable EXCEPT ![f] = c]
  BY <1>1 DEF MainAccept
<1>3. /\ main = "accept" /\ main' = "malloc"
      /\ mconn' = c
      /\ acceptq' = Tail(acceptq)
      /\ UNCHANGED <<heap, wpc, wfd, detached, peer>>
  BY <1>1 DEF MainAccept
<1>4. wpc[c] = "none" /\ peer[c] # "idle"
  BY <1>1 DEF Waiting
<1>5. fdTable'[f] = c /\ \A g \in Fd : g # f => fdTable'[g] = fdTable[g]
  BY <1>2
<1> HIDE DEF c
<1>6. MainLocals'
  BY <1>1, <1>2, <1>3, <1>4, <1>5 DEF MainLocals, HasConn
<1>7. Waiting'
  <2>1. /\ Len(acceptq') = Len(acceptq) - 1
        /\ \A i \in 1..Len(acceptq') :
             acceptq'[i] = acceptq[i + 1] /\ i + 1 \in 1..Len(acceptq) /\ i \in Nat \ {0}
    BY <1>1, <1>3
  <2>2. \A i \in 1..Len(acceptq) : acceptq[i] = c => i = 1
    BY <1>1 DEF Waiting, c
  <2>3. Waiting /\ mconn' = c /\ UNCHANGED <<wpc, peer>>
    BY <1>3
  <2>4. ASSUME NEW i \in 1..Len(acceptq')
        PROVE  /\ acceptq'[i] # mconn'
               /\ peer'[acceptq'[i]] # "idle"
               /\ wpc'[acceptq'[i]] = "none"
    <3>1. acceptq'[i] = acceptq[i + 1] /\ i + 1 \in 1..Len(acceptq) /\ i + 1 # 1
      BY ONLY <2>1
    <3>2. QED
      BY ONLY <2>2, <2>3, <3>1 DEF Waiting
  <2>5. ASSUME NEW i \in 1..Len(acceptq'), NEW j \in 1..Len(acceptq'), acceptq'[i] = acceptq'[j]
        PROVE  i = j
    <3>1. acceptq[i + 1] = acceptq[j + 1] /\ i + 1 \in 1..Len(acceptq) /\ j + 1 \in 1..Len(acceptq)
      BY ONLY <2>1, <2>5
    <3>2. i + 1 = j + 1
      BY ONLY <2>3, <3>1 DEF Waiting
    <3>3. QED
      BY ONLY <2>1, <3>2
  <2>6. QED
    BY <2>4, <2>5 DEF Waiting
<1>8. Unconnected' /\ Detached'
  BY <1>3, <1>4 DEF Unconnected, Detached, HasConn
<1>9. OwnConnection'
  BY <1>2, <1>3, <1>5 DEF OwnConnection, FdOfWorker
<1>10. NoLeakedFd'
  BY <1>2, <1>3, <1>5 DEF NoLeakedFd, FdOfWorker
<1>11. SessionOwned'
  BY <1>3 DEF SessionOwned
<1>12. QED
  BY <1>6, <1>7, <1>8, <1>9, <1>10, <1>11

\* The error paths of the accept loop: client_fd is closed, the connection is
\* forgotten, and its session is not allocated any more.
LEMMA OwnerMainCloses ==
  ASSUME TypeInv, OwnerInv, main \in {"malloc", "create"}, MainClosesFd,
         heap' = [heap EXCEPT ![mconn] = NoFd]
  PROVE  OwnerInv'
<1> USE DEF TypeInv, TypeOK, OwnerInv, MainTyped
<1>1. /\ mconn \in Client /\ mfd \in Fd /\ fdTable[mfd] = mconn /\ wpc[mconn] = "none"
      /\ main' = "accept" /\ fdTable' = [fdTable EXCEPT ![mfd] = NoConn]
      /\ UNCHANGED <<wpc, wfd, detached, acceptq, peer>>
  BY DEF MainLocals, MainClosesFd, HasConn
<1>2. ~HasConn'
  BY <1>1 DEF HasConn
<1>3. \A d \in Client : d # mconn => heap'[d] = heap[d]
  OBVIOUS
<1>4. MainLocals'
  BY <1>1, <1>2 DEF MainLocals
<1>5. Waiting'
  <2>1. \A i \in 1..Len(acceptq) : acceptq[i] \in Client
    OBVIOUS
  <2>2. QED
    BY <1>1, <1>2, <2>1 DEF Waiting
<1>6. Unconnected' /\ Detached'
  BY <1>1, <1>2 DEF Unconnected, Detached
<1>7. OwnConnection'
  <2>1. \A d \in Client : wpc[d] \in ServingPc => d # mconn
    BY <1>1 DEF ServingPc
  <2>2. QED
    BY <1>1, <1>3, <2>1 DEF OwnConnection, FdOfWorker
<1>8. NoLeakedFd'
  <2>1. \A d \in Client : wpc[d] \in ServingPc => d # mconn
    BY <1>1 DEF ServingPc
  <2>2. QED
    BY <1>1, <1>3, <2>1 DEF NoLeakedFd, FdOfWorker
<1>9. SessionOwned'
  BY <1>1, <1>3 DEF SessionOwned, LivePc, ServingPc
<1>10. QED
  BY <1>4, <1>5, <1>6, <1>7, <1>8, <1>9

LEMMA OwnerMain == TypeInv /\ OwnerInv /\ Main => OwnerInv'
<1> SUFFICES ASSUME TypeInv, OwnerInv, Main PROVE OwnerInv'
  OBVIOUS
<1> USE DEF TypeInv, TypeOK, OwnerInv, MainTyped
<1>0. /\ acceptq \in Seq(Client)
      /\ \A i \in 1..Len(acceptq) : acceptq[i] \in Client
  OBVIOUS
<1>1. CASE MainSetup
  <2>1. /\ main \in SetupPc /\ main' \in SetupPc \cup {"accept", "returned"}
        /\ UNCHANGED <<mconn, mfd, fdTable, heap, wpc, wfd, detached, acceptq, peer>>
    BY <1>1 DEF MainSetup, NextSetup, SetupPc, tcpVars
  <2>2. ~HasConn /\ ~HasConn'
    BY <2>1 DEF HasConn, SetupPc
  <2>3. MainLocals' /\ Unconnected' /\ Detached'
    BY <2>1, <2>2 DEF MainLocals, Unconnected, Detached, HasConn
  <2>4. Waiting'
    BY <1>0, <2>1, <2>2 DEF Waiting
  <2>5. OwnConnection' /\ NoLeakedFd' /\ SessionOwned'
    BY <2>1, <2>2 DEF OwnConnection, NoLeakedFd, SessionOwned, HasConn, FdOfWorker
  <2>6. QED
    BY <2>3, <2>4, <2>5
<1>2. CASE MainAccept
  BY <1>2, OwnerAccept
<1>3. CASE MainAcceptFails
  BY <1>0, <1>3, OwnerFrame DEF MainAcceptFails, vars, ownerVars
<1>4. CASE MainMalloc
  <2>1. /\ main = "malloc" /\ main' = "create"
        /\ mconn \in Client /\ mfd \in Fd /\ fdTable[mfd] = mconn /\ wpc[mconn] = "none"
        /\ heap' = [heap EXCEPT ![mconn] = mfd]
        /\ UNCHANGED <<mconn, mfd, fdTable, wpc, wfd, detached, acceptq, peer>>
    BY <1>4 DEF MainMalloc, MainLocals, HasConn, tcpVars
  <2>2. heap'[mconn] = mfd /\ \A d \in Client : d # mconn => heap'[d] = heap[d]
    BY <2>1
  <2>3. MainLocals'
    BY <2>1, <2>2 DEF MainLocals
  <2>4. Waiting'
    BY <1>0, <2>1 DEF Waiting, HasConn
  <2>5. Unconnected' /\ Detached'
    BY <2>1 DEF Unconnected, Detached, HasConn
  <2>6. \A d \in Client : wpc[d] \in ServingPc => d # mconn
    BY <2>1 DEF ServingPc
  <2>7. OwnConnection' /\ NoLeakedFd'
    BY <2>1, <2>2, <2>6 DEF OwnConnection, NoLeakedFd, FdOfWorker
  <2>8. SessionOwned'
    BY <2>1, <2>2 DEF SessionOwned
  <2>9. QED
    BY <2>3, <2>4, <2>5, <2>7, <2>8
<1>5. CASE MainMallocFails
  <2>1. mconn \in Client /\ wpc[mconn] = "none" /\ main = "malloc"
    BY <1>5 DEF MainMallocFails, MainLocals, HasConn
  <2>2. heap[mconn] = NoFd
    BY <2>1 DEF SessionOwned, LivePc, ServingPc
  <2>3. heap' = [heap EXCEPT ![mconn] = NoFd]
    BY <1>5, <2>1, <2>2 DEF MainMallocFails
  <2>4. QED
    BY <1>5, <2>1, <2>3, OwnerMainCloses DEF MainMallocFails
<1>6. CASE MainCreate
  <2>1. /\ main = "create" /\ main' = "detach"
        /\ mconn \in Client /\ mfd \in Fd /\ fdTable[mfd] = mconn /\ wpc[mconn] = "none"
        /\ heap[mconn] = mfd
        /\ wpc' = [wpc EXCEPT ![mconn] = "start"]
        /\ UNCHANGED <<mconn, mfd, fdTable, heap, wfd, detached, acceptq, peer>>
    BY <1>6 DEF MainCreate, MainLocals, HasConn, tcpVars
  <2>2. wpc'[mconn] = "start" /\ \A d \in Client : d # mconn => wpc'[d] = wpc[d]
    BY <2>1
  <2>3. MainLocals'
    BY <2>1, <2>2 DEF MainLocals, HasConn
  <2>4. Waiting'
    <3>1. \A i \in 1..Len(acceptq) :
            acceptq[i] \in Client /\ acceptq[i] # mconn /\ wpc[acceptq[i]] = "none"
      BY <1>0, <2>1 DEF Waiting, HasConn
    <3>2. \A i \in 1..Len(acceptq) : wpc'[acceptq[i]] = "none"
      BY <2>2, <3>1
    <3>3. Waiting /\ UNCHANGED <<mconn, acceptq, peer>>
      BY <2>1
    <3>4. QED
      BY ONLY <3>1, <3>2, <3>3 DEF Waiting
  <2>5. Unconnected' /\ Detached'
    BY <2>1, <2>2 DEF Unconnected, Detached, HasConn
  <2>6. OwnConnection'
    BY <2>1, <2>2 DEF OwnConnection, FdOfWorker
  <2>7. NoLeakedFd'
    <3>1. SUFFICES ASSUME NEW f \in Fd, fdTable[f] # NoConn
                   PROVE  \E d \in Client : /\ wpc'[d] \in ServingPc
                                            /\ FdOfWorker(d)' = f
                                            /\ fdTable[f] = d
      BY <2>1 DEF NoLeakedFd
    <3>2. CASE f = mfd
      BY <2>1, <2>2, <3>2 DEF FdOfWorker, ServingPc
    <3>3. CASE f # mfd
      <4>1. PICK d \in Client : wpc[d] \in ServingPc /\ FdOfWorker(d) = f /\ fdTable[f] = d
        BY <2>1, <3>1, <3>3 DEF NoLeakedFd
      <4>2. d # mconn
        BY <2>1, <4>1 DEF ServingPc
      <4>3. QED
        BY <2>1, <2>2, <4>1, <4>2 DEF FdOfWorker
    <3>4. QED
      BY <3>2, <3>3
  <2>8. SessionOwned'
    BY <2>1, <2>2 DEF SessionOwned, LivePc, ServingPc
  <2>9. QED
    BY <2>3, <2>4, <2>5, <2>6, <2>7, <2>8
<1>7. CASE MainCreateFails
  BY <1>7, OwnerMainCloses DEF MainCreateFails
<1>8. CASE MainDetach
  <2>1. /\ main = "detach" /\ main' = "accept"
        /\ mconn \in Client /\ wpc[mconn] # "none"
        /\ detached' = detached \cup {mconn}
        /\ UNCHANGED <<fdTable, heap, wpc, wfd, acceptq, peer>>
    BY <1>8 DEF MainDetach, MainLocals, HasConn, tcpVars
  <2>2. ~HasConn'
    BY <2>1 DEF HasConn
  <2>3. MainLocals' /\ Unconnected' /\ Detached'
    BY <2>1, <2>2 DEF MainLocals, Unconnected, Detached
  <2>4. Waiting'
    BY <1>0, <2>1, <2>2 DEF Waiting
  <2>5. OwnConnection' /\ NoLeakedFd' /\ SessionOwned'
    BY <2>1 DEF OwnConnection, NoLeakedFd, SessionOwned, FdOfWorker
  <2>6. QED
    BY <2>3, <2>4, <2>5
<1>9. QED
  BY <1>1, <1>2, <1>3, <1>4, <1>5, <1>6, <1>7, <1>8 DEF Main

LEMMA OwnerEnd ==
  ASSUME TypeInv, OwnerInv, NEW how \in Ended, ProcessEnds(how) PROVE OwnerInv'
<1> USE DEF ProcessEnds
<1>1. ~HasConn' /\ main' \notin {"malloc", "create", "detach"}
  BY DEF HasConn, Ended
<1>2. /\ acceptq' = <<>> /\ Len(acceptq') = 0
      /\ \A c \in Client : wpc'[c] = "none" /\ heap'[c] = NoFd
      /\ \A f \in Fd : fdTable'[f] = NoConn
  OBVIOUS
<1>3. MainLocals' /\ Waiting' /\ Unconnected' /\ Detached'
  BY <1>1, <1>2 DEF MainLocals, Waiting, Unconnected, Detached
<1>4. OwnConnection' /\ NoLeakedFd' /\ SessionOwned'
  BY <1>1, <1>2 DEF OwnConnection, NoLeakedFd, SessionOwned, ServingPc, LivePc
<1>5. QED
  BY <1>3, <1>4 DEF OwnerInv

\* Steps of a worker.
LEMMA OwnerStart ==
  ASSUME TypeInv, OwnerInv, NEW c \in Client, WorkerStart(c) PROVE OwnerInv'
<1> USE DEF TypeInv, TypeOK, OwnerInv, MainTyped
<1>1. /\ wpc[c] = "start"
      /\ wfd' = [wfd EXCEPT ![c] = heap[c]]
      /\ wpc' = [wpc EXCEPT ![c] = "recv"]
      /\ UNCHANGED <<main, mconn, mfd, fdTable, heap, detached, acceptq, peer>>
  BY DEF WorkerStart, WorkerGoesTo, tcpVars
<1>2. /\ \A d \in Client : /\ wpc'[d] = "none" <=> wpc[d] = "none"
                           /\ wpc'[d] = "done" <=> wpc[d] = "done"
                           /\ wpc'[d] \in ServingPc <=> wpc[d] \in ServingPc
                           /\ wpc'[d] \in LivePc <=> wpc[d] \in LivePc
      /\ \A d \in Client : FdOfWorker(d)' = FdOfWorker(d)
  BY <1>1 DEF FdOfWorker, ServingPc, LivePc
<1>3. MainLocals' /\ Unconnected' /\ Detached'
  BY <1>1, <1>2 DEF MainLocals, Unconnected, Detached, HasConn
<1>4. Waiting'
  <2>1. \A i \in 1..Len(acceptq) : acceptq[i] \in Client
    OBVIOUS
  <2>2. Waiting /\ UNCHANGED <<main, mconn, acceptq, peer>>
    BY <1>1
  <2>3. QED
    BY ONLY <1>2, <2>1, <2>2 DEF Waiting, HasConn
<1>5. OwnConnection' /\ NoLeakedFd' /\ SessionOwned'
  BY <1>1, <1>2 DEF OwnConnection, NoLeakedFd, SessionOwned
<1>6. QED
  BY <1>3, <1>4, <1>5

LEMMA OwnerClose ==
  ASSUME TypeInv, OwnerInv, NEW c \in Client, WorkerClose(c) PROVE OwnerInv'
<1> USE DEF TypeInv, TypeOK, OwnerInv, MainTyped
<1>1. /\ wpc[c] = "close"
      /\ wpc' = [wpc EXCEPT ![c] = "free"]
      /\ fdTable' = [fdTable EXCEPT ![wfd[c]] = NoConn]
      /\ UNCHANGED <<main, mconn, mfd, heap, wfd, detached, acceptq, peer>>
  BY DEF WorkerClose, WorkerGoesTo
<1>2. wfd[c] \in Fd /\ fdTable[wfd[c]] = c
  BY <1>1 DEF OwnConnection, FdOfWorker, ServingPc
<1>3. /\ \A d \in Client : /\ wpc'[d] = "none" <=> wpc[d] = "none"
                           /\ wpc'[d] = "done" <=> wpc[d] = "done"
                           /\ wpc'[d] \in LivePc <=> wpc[d] \in LivePc
                           /\ wpc'[d] \in ServingPc <=> wpc[d] \in ServingPc /\ d # c
                           /\ FdOfWorker(d)' = FdOfWorker(d)
      /\ FdOfWorker(c) = wfd[c]
  BY <1>1 DEF FdOfWorker, ServingPc, LivePc
<1>4. /\ \A f \in Fd : f # wfd[c] => fdTable'[f] = fdTable[f]
      /\ fdTable'[wfd[c]] = NoConn
  BY <1>1, <1>2
<1>5. MainLocals'
  BY <1>1, <1>2, <1>3, <1>4 DEF MainLocals, HasConn
<1>6. Unconnected' /\ Detached'
  BY <1>1, <1>3 DEF Unconnected, Detached, HasConn
<1>7. Waiting'
  <2>1. \A i \in 1..Len(acceptq) : acceptq[i] \in Client
    OBVIOUS
  <2>2. Waiting /\ UNCHANGED <<main, mconn, acceptq, peer>>
    BY <1>1
  <2>3. QED
    BY ONLY <1>3, <2>1, <2>2 DEF Waiting, HasConn
<1>8. OwnConnection'
  <2>1. SUFFICES ASSUME NEW d \in Client, wpc'[d] \in ServingPc
                 PROVE  FdOfWorker(d)' \in Fd /\ fdTable'[FdOfWorker(d)'] = d
    BY DEF OwnConnection
  <2>2. d # c /\ FdOfWorker(d) \in Fd /\ fdTable[FdOfWorker(d)] = d
    BY <1>3, <2>1 DEF OwnConnection
  <2>3. FdOfWorker(d) # wfd[c]
    BY <1>2, <2>2
  <2>4. fdTable'[FdOfWorker(d)] = d
    BY <1>4, <2>2, <2>3
  <2>5. FdOfWorker(d)' = FdOfWorker(d)
    BY <1>3
  <2>6. QED
    BY <2>2, <2>4, <2>5
<1>9. NoLeakedFd'
  <2>1. SUFFICES ASSUME NEW f \in Fd, fdTable'[f] # NoConn
                 PROVE  \/ main \in {"malloc", "create"} /\ mfd = f /\ mconn = fdTable'[f]
                        \/ \E d \in Client : /\ wpc'[d] \in ServingPc
                                             /\ FdOfWorker(d)' = f
                                             /\ fdTable'[f] = d
    BY <1>1 DEF NoLeakedFd
  <2>2. f # wfd[c] /\ fdTable'[f] = fdTable[f] /\ fdTable[f] # NoConn
    BY <1>4, <2>1
  <2>3. CASE \E d \in Client : wpc[d] \in ServingPc /\ FdOfWorker(d) = f /\ fdTable[f] = d
    BY <1>3, <2>2, <2>3
  <2>4. QED
    BY <2>2, <2>3 DEF NoLeakedFd
<1>10. SessionOwned'
  BY <1>1, <1>3 DEF SessionOwned
<1>11. QED
  BY <1>5, <1>6, <1>7, <1>8, <1>9, <1>10

LEMMA OwnerFree ==
  ASSUME TypeInv, OwnerInv, NEW c \in Client, WorkerFree(c) PROVE OwnerInv'
<1> USE DEF TypeInv, TypeOK, OwnerInv, MainTyped
<1>1. /\ wpc[c] = "free"
      /\ wpc' = [wpc EXCEPT ![c] = "done"]
      /\ heap' = [heap EXCEPT ![c] = NoFd]
      /\ UNCHANGED <<main, mconn, mfd, fdTable, wfd, detached, acceptq, peer>>
  BY DEF WorkerFree, WorkerGoesTo, tcpVars
<1>2. /\ \A d \in Client : /\ wpc'[d] = "none" <=> wpc[d] = "none"
                           /\ wpc'[d] = "start" <=> wpc[d] = "start"
                           /\ wpc'[d] \in ServingPc <=> wpc[d] \in ServingPc
                           /\ d # c => wpc'[d] = wpc[d] /\ heap'[d] = heap[d]
                           /\ wpc[d] \in ServingPc => d # c
      /\ wpc'[c] = "done" /\ wpc'[c] \notin LivePc /\ heap'[c] = NoFd
  BY <1>1 DEF ServingPc, LivePc
<1>3. MainLocals'
  BY <1>1, <1>2 DEF MainLocals, HasConn
<1>4. Unconnected' /\ Detached'
  BY <1>1, <1>2 DEF Unconnected, Detached, HasConn
<1>5. Waiting'
  <2>1. \A i \in 1..Len(acceptq) : acceptq[i] \in Client
    OBVIOUS
  <2>2. Waiting /\ UNCHANGED <<main, mconn, acceptq, peer>>
    BY <1>1
  <2>3. QED
    BY ONLY <1>2, <2>1, <2>2 DEF Waiting, HasConn
<1>6. OwnConnection' /\ NoLeakedFd'
  BY <1>1, <1>2 DEF OwnConnection, NoLeakedFd, FdOfWorker
<1>7. SessionOwned'
  <2>1. c \in detached \/ (main = "detach" /\ mconn = c)
    BY <1>1 DEF Detached
  <2>2. ~(main = "create" /\ mconn = c)
    BY <1>1 DEF MainLocals
  <2>3. QED
    BY <1>1, <1>2, <2>1, <2>2 DEF SessionOwned
<1>8. QED
  BY <1>3, <1>4, <1>5, <1>6, <1>7

LEMMA OwnerWorker ==
  ASSUME TypeInv, OwnerInv, NEW c \in Client, Worker(c) PROVE OwnerInv'
<1> USE DEF WorkerGoesTo, tcpVars
<1>1. CASE RecvData(c) \/ RecvEof(c) \/ RecvError(c) \/ SendCopies(c)
             \/ SendReturnsShort(c) \/ SendFails(c) \/ WorkerShutdown(c)
  <2>1. UNCHANGED <<main, mconn, mfd, fdTable, heap, wfd, detached, acceptq, peer>>
    BY <1>1 DEF RecvData, RecvEof, RecvError, SendCopies, SendReturnsShort, SendFails,
                WorkerShutdown
  <2>2. /\ wpc[c] \in ServingPc \ {"start"}
        /\ \E pc \in ServingPc \ {"start"} : wpc' = [wpc EXCEPT ![c] = pc]
    BY <1>1 DEF RecvData, RecvEof, RecvError, SendCopies, SendReturnsShort, SendFails,
                WorkerShutdown, ServingPc
  <2>3. QED
    BY <2>1, <2>2, OwnerWorkerMoves
<1>2. CASE WorkerStart(c)
  BY <1>2, OwnerStart
<1>3. CASE WorkerClose(c)
  BY <1>3, OwnerClose
<1>4. CASE WorkerFree(c)
  BY <1>4, OwnerFree
<1>5. CASE WorkerSigpipe(c)
  BY <1>5, OwnerEnd DEF WorkerSigpipe, Ended
<1>6. QED
  BY <1>1, <1>2, <1>3, <1>4, <1>5 DEF Worker

\* Steps of a client and of the network.
LEMMA OwnerConnect ==
  ASSUME TypeInv, OwnerInv, NEW c \in Client, Connect(c) PROVE OwnerInv'
<1> USE DEF TypeInv, TypeOK, OwnerInv
<1>1. /\ peer[c] = "idle"
      /\ peer' = [peer EXCEPT ![c] = "open"]
      /\ acceptq' = Append(acceptq, c)
      /\ UNCHANGED <<main, mconn, mfd, fdTable, heap, wpc, wfd, detached>>
  BY DEF Connect, serverVars
<1>2. wpc[c] = "none" /\ (HasConn => mconn # c)
  BY <1>1 DEF Unconnected
<1>3. \A d \in Client : peer'[d] = "idle" => peer[d] = "idle"
  BY <1>1
<1>4. MainLocals' /\ Unconnected' /\ Detached'
  BY <1>1, <1>3 DEF MainLocals, Unconnected, Detached, HasConn
<1>5. Waiting'
  <2>1. /\ Len(acceptq') = Len(acceptq) + 1 /\ Len(acceptq) \in Nat
        /\ \A i \in 1..Len(acceptq) : acceptq'[i] = acceptq[i] /\ acceptq[i] \in Client
        /\ acceptq'[Len(acceptq) + 1] = c
    BY <1>1, AppendProperties, LenProperties
  <2>2. \A i \in 1..Len(acceptq) : peer'[acceptq[i]] # "idle"
    BY <1>1, <2>1 DEF Waiting
  <2>3. \A i \in 1..Len(acceptq) : acceptq[i] # c
    BY <1>1, <2>1 DEF Waiting
  <2>4. peer'[c] = "open"
    BY <1>1
  <2>5. Waiting /\ UNCHANGED <<main, mconn, wpc>>
    BY <1>1
  <2>6. QED
    BY ONLY <1>2, <2>1, <2>2, <2>3, <2>4, <2>5 DEF Waiting, HasConn
<1>6. OwnConnection' /\ NoLeakedFd' /\ SessionOwned'
  BY <1>1 DEF OwnConnection, NoLeakedFd, SessionOwned, FdOfWorker
<1>7. QED
  BY <1>4, <1>5, <1>6

LEMMA OwnerNext == TypeInv /\ OwnerInv /\ [Next]_vars => OwnerInv'
<1> SUFFICES ASSUME TypeInv, OwnerInv, [Next]_vars PROVE OwnerInv'
  OBVIOUS
<1>0. acceptq \in Seq(Client) /\ peer \in [Client -> {"idle", "open", "closed"}]
  BY DEF TypeInv, TypeOK
<1>1. CASE Main
  BY <1>1, OwnerMain
<1>2. CASE \E c \in Client : Worker(c)
  BY <1>2, OwnerWorker
<1>3. CASE Sigint
  BY <1>3, OwnerEnd DEF Sigint, Ended
<1>4. CASE \E c \in Client : Connect(c)
  BY <1>4, OwnerConnect
<1>5. CASE \E c \in Client : ClientSends(c) \/ ClientReads(c) \/ ClientCloses(c)
                               \/ ClientAborts(c) \/ Tcp(c)
  <2>1. UNCHANGED ownerVars
    BY <1>5 DEF ClientSends, ClientReads, ClientCloses, ClientAborts, Tcp, PeerResets,
                ResetArrives, ownerVars, serverVars
  <2>2. \A c \in Client : peer'[c] = "idle" <=> peer[c] = "idle"
    BY <1>0, <1>5 DEF ClientSends, ClientReads, ClientCloses, ClientAborts, Tcp, PeerResets,
                ResetArrives
  <2>3. QED
    BY <1>0, <2>1, <2>2, OwnerFrame
<1>6. CASE UNCHANGED vars
  BY <1>0, <1>6, OwnerFrame DEF vars, ownerVars
<1>7. QED
  BY <1>1, <1>2, <1>3, <1>4, <1>5, <1>6 DEF Next, User

LEMMA Owners == Spec => [](TypeInv /\ OwnerInv)
<1>1. Init => TypeInv /\ OwnerInv
  BY InitType, InitOwner
<1>2. TypeInv /\ OwnerInv /\ [Next]_vars => (TypeInv /\ OwnerInv)'
  BY NextType, OwnerNext
<1>3. QED
  BY <1>1, <1>2, PTL DEF Spec

\* No session ever works on another client's connection or on a closed
\* descriptor, however often descriptor numbers are reused.
THEOREM Ownership == Spec => []OwnConnection
<1>1. OwnerInv => OwnConnection
  BY DEF OwnerInv
<1>2. QED
  BY <1>1, Owners, PTL

\* No path through the accept loop or a worker loses track of a descriptor.
THEOREM NoLeak == Spec => []NoLeakedFd
<1>1. OwnerInv => NoLeakedFd
  BY DEF OwnerInv
<1>2. QED
  BY <1>1, Owners, PTL

\* Every session_t is freed once, by its last user, and every thread that has
\* exited is detached.
THEOREM Sessions == Spec => []SessionOwned
<1>1. OwnerInv => SessionOwned
  BY DEF OwnerInv
<1>2. QED
  BY <1>1, Owners, PTL
-------------------------------------------------------------------------------
(***************************************************************************)
(* Theorems about the bytes EchoServer carries: none is lost, duplicated,  *)
(* reordered or sent to another client, and the server implements          *)
(* EchoStreams.  They rest on Ownership: a worker's descriptor is its own  *)
(* client's connection.                                                    *)
(***************************************************************************)

\* While a worker talks to the kernel, the kernel finds its client behind its
\* descriptor.
LEMMA OwnConn ==
  ASSUME TypeInv, OwnerInv, NEW c \in Client, wpc[c] \in {"recv", "send", "shutdown", "close"}
  PROVE  Conn(c) = c
  BY DEF OwnerInv, OwnConnection, FdOfWorker, ServingPc, Conn

-------------------------------------------------------------------------------
(* The connections.                                                        *)

LEMMA InitTcp == Init => TcpInv
  BY DEF Init, TcpInv

LEMMA TcpMain == TypeInv /\ TcpInv /\ Main => TcpInv'
<1> SUFFICES ASSUME TypeInv, TcpInv, Main PROVE TcpInv'
  OBVIOUS
<1>1. UNCHANGED <<peer, fin, rst, skerr>>
  BY DEF Main, MainSetup, MainAccept, MainAcceptFails, MainMalloc, MainMallocFails, MainCreate,
         MainCreateFails, MainDetach, MainClosesFd, tcpVars, vars
<1>2. main' \notin LoopPc => main \notin LoopPc /\ sock' = sock
  BY DEF Main, MainSetup, MainAccept, MainAcceptFails, MainMalloc, MainMallocFails, MainCreate,
         MainCreateFails, MainDetach, MainClosesFd, tcpVars, vars, LoopPc, SetupPc
<1>3. QED
  BY <1>1, <1>2 DEF TcpInv

LEMMA TcpEnd == ASSUME TypeInv, TcpInv, NEW how \in Ended, ProcessEnds(how) PROVE TcpInv'
<1>1. UNCHANGED <<peer, fin, rst, skerr>>
  BY DEF ProcessEnds
<1>2. \A c \in Client : sock'[c] # "estab"
  BY DEF ProcessEnds
<1>3. QED
  BY <1>1, <1>2 DEF TcpInv

LEMMA TcpWorker == ASSUME TypeInv, TcpInv, NEW c \in Client, Worker(c) PROVE TcpInv'
<1> USE DEF tcpVars
<1>1. CASE WorkerSigpipe(c)
  BY <1>1, TcpEnd DEF WorkerSigpipe, Ended
<1>2. CASE ~WorkerSigpipe(c)
  <2>1. UNCHANGED <<main, peer, fin, rst>>
    BY <1>2 DEF Worker, WorkerStart, RecvData, RecvEof, RecvError, SendCopies,
                SendReturnsShort, SendFails, WorkerShutdown, WorkerClose, WorkerFree
  <2>2. skerr' = skerr \/ \E k \in Client : skerr' = [skerr EXCEPT ![k] = "none"]
    BY <1>2 DEF Worker, WorkerStart, RecvData, RecvEof, RecvError, SendCopies,
                SendReturnsShort, SendFails, WorkerShutdown, WorkerClose, WorkerFree
  <2>3. \/ sock' = sock
        \/ \E k \in Client : \/ sock' = [sock EXCEPT ![k] = "shut"]
                             \/ sock' = [sock EXCEPT ![k] = "closed"]
    BY <1>2 DEF Worker, WorkerStart, RecvData, RecvEof, RecvError, SendCopies,
                SendReturnsShort, SendFails, WorkerShutdown, WorkerClose, WorkerFree
  <2>4. \A d \in Client : /\ skerr'[d] # "none" => skerr[d] # "none"
                          /\ sock'[d] = "estab" => sock[d] = "estab"
    BY <2>2, <2>3 DEF TypeInv, TypeOK
  <2>5. QED
    BY <2>1, <2>4 DEF TcpInv
<1>3. QED
  BY <1>1, <1>2

LEMMA TcpClient ==
  ASSUME TypeInv, TcpInv, NEW c \in Client, User(c) \/ ClientReads(c) \/ Tcp(c)
  PROVE  TcpInv'
<1> USE DEF TypeInv, TypeOK, serverVars
<1>1. CASE Connect(c)
  BY <1>1 DEF Connect, TcpInv
<1>2. CASE ClientSends(c) \/ ClientReads(c)
  <2>1. UNCHANGED <<main, peer, fin, rst, skerr, sock>>
    BY <1>2 DEF ClientSends, ClientReads
  <2>2. QED
    BY <2>1 DEF TcpInv
<1>3. CASE ClientCloses(c)
  BY <1>3 DEF ClientCloses, TcpInv
<1>4. CASE ClientAborts(c)
  BY <1>4 DEF ClientAborts, TcpInv
<1>5. CASE PeerResets(c)
  BY <1>5 DEF PeerResets, TcpInv
<1>6. CASE ResetArrives(c)
  BY <1>6 DEF ResetArrives, TcpInv
<1>7. QED
  BY <1>1, <1>2, <1>3, <1>4, <1>5, <1>6 DEF User, Tcp

LEMMA TcpNext == TypeInv /\ TcpInv /\ [Next]_vars => TcpInv'
<1> SUFFICES ASSUME TypeInv, TcpInv, [Next]_vars PROVE TcpInv'
  OBVIOUS
<1>1. CASE Sigint
  BY <1>1, TcpEnd DEF Sigint, Ended
<1>2. CASE UNCHANGED vars
  BY <1>2 DEF vars, TcpInv
<1>3. QED
  BY <1>1, <1>2, TcpMain, TcpWorker, TcpClient DEF Next

\* A connection that was reset, or whose client gave up in the middle, stays so.
LEMMA OrderlyBefore ==
  ASSUME TypeInv, TcpInv, [Next]_vars, NEW c \in Client, Orderly(c)'
  PROVE  Orderly(c)
<1> USE DEF Orderly
<1>1. CASE \E d \in Client : User(d) \/ ClientReads(d) \/ Tcp(d)
  <2>1. PICK d \in Client : User(d) \/ ClientReads(d) \/ Tcp(d)
    BY <1>1
  <2> USE DEF TypeInv, TypeOK
  <2>2. CASE Connect(d) \/ ClientSends(d) \/ ClientReads(d)
    BY <2>2 DEF Connect, ClientSends, ClientReads
  <2>3. CASE ClientCloses(d)
    BY <2>3 DEF ClientCloses, TcpInv
  <2>4. CASE ClientAborts(d)
    BY <2>4 DEF ClientAborts, TcpInv
  <2>5. CASE PeerResets(d)
    BY <2>5 DEF PeerResets
  <2>6. CASE ResetArrives(d)
    BY <2>6 DEF ResetArrives
  <2>7. QED
    BY <2>1, <2>2, <2>3, <2>4, <2>5, <2>6 DEF User, Tcp
<1>2. CASE Main \/ Sigint \/ UNCHANGED vars
  BY <1>2 DEF Main, MainSetup, MainAccept, MainAcceptFails, MainMalloc, MainMallocFails,
              MainCreate, MainCreateFails, MainDetach, MainClosesFd, Sigint, ProcessEnds,
              tcpVars, vars
<1>3. CASE \E d \in Client : Worker(d)
  BY <1>3 DEF Worker, WorkerStart, RecvData, RecvEof, RecvError, SendCopies, SendReturnsShort,
              SendFails, WorkerShutdown, WorkerClose, WorkerFree, WorkerSigpipe, ProcessEnds,
              tcpVars
<1>4. QED
  BY <1>1, <1>2, <1>3 DEF Next
-------------------------------------------------------------------------------
(* The workers and their buffers.                                          *)

LEMMA InitWorker == Init => WorkerInv
  BY DEF Init, WorkerInv

LEMMA WorkerInvMain == TypeInv /\ OwnerInv /\ WorkerInv /\ Main => WorkerInv'
<1> SUFFICES ASSUME TypeInv, OwnerInv, WorkerInv, Main PROVE WorkerInv'
  OBVIOUS
<1>1. UNCHANGED <<buf, toSrv, fin, rst>>
  BY DEF Main, MainSetup, MainAccept, MainAcceptFails, MainMalloc, MainMallocFails, MainCreate,
         MainCreateFails, MainDetach, MainClosesFd, tcpVars, vars
<1>2. \/ /\ wpc' = wpc
         /\ main' \notin LoopPc => main \notin LoopPc
      \/ /\ main' \in LoopPc
         /\ mconn \in Client
         /\ wpc' = [wpc EXCEPT ![mconn] = "start"]
         /\ wpc[mconn] = "none"
  <2>1. CASE MainCreate
    BY <2>1 DEF MainCreate, OwnerInv, MainLocals, HasConn, LoopPc
  <2>2. CASE ~MainCreate
    BY <2>2 DEF Main, MainSetup, MainAccept, MainAcceptFails, MainMalloc, MainMallocFails,
                MainCreateFails, MainDetach, MainClosesFd, vars, LoopPc, SetupPc
  <2>3. QED
    BY <2>1, <2>2
<1>3. QED
  BY <1>1, <1>2 DEF WorkerInv, Orderly, TypeInv, TypeOK

LEMMA WorkerInvEnd ==
  ASSUME NEW how \in Ended, ProcessEnds(how) PROVE WorkerInv'
  BY DEF ProcessEnds, WorkerInv

LEMMA WorkerInvWorker ==
  ASSUME TypeInv, OwnerInv, TcpInv, WorkerInv, NEW c \in Client, Worker(c) PROVE WorkerInv'
<1> USE DEF TypeInv, TypeOK, tcpVars, WorkerGoesTo
<1>0. wpc[c] \in LivePc => main \in LoopPc
  BY DEF WorkerInv, LivePc, ServingPc
<1>1. CASE WorkerStart(c)
  BY <1>0, <1>1 DEF WorkerStart, WorkerInv, Orderly, LivePc, ServingPc
<1>2. CASE RecvData(c)
  <2>1. Conn(c) = c
    BY <1>2, OwnConn DEF RecvData
  <2>2. /\ wpc[c] = "recv" /\ main \in LoopPc
        /\ wpc' = [wpc EXCEPT ![c] = "send"]
        /\ \A d \in Client : d # c => buf'[d] = buf[d] /\ toSrv'[d] = toSrv[d]
        /\ UNCHANGED <<main, fin, rst>>
    BY <1>0, <1>2, <2>1 DEF RecvData, LivePc, ServingPc
  <2>3. QED
    BY <2>2 DEF WorkerInv, Orderly
<1>3. CASE RecvEof(c)
  <2>1. Conn(c) = c
    BY <1>3, OwnConn DEF RecvEof
  <2>2. QED
    BY <1>0, <1>3, <2>1 DEF RecvEof, WorkerInv, Orderly, LivePc, ServingPc
<1>4. CASE RecvError(c)
  <2>1. Conn(c) = c
    BY <1>4, OwnConn DEF RecvError
  <2>2. rst[c] = "arrived"
    BY <1>4, <2>1 DEF RecvError, TcpInv
  <2>3. QED
    BY <1>0, <1>4, <2>2 DEF RecvError, WorkerInv, Orderly, LivePc, ServingPc
<1>5. CASE SendCopies(c)
  <2>1. Conn(c) = c
    BY <1>5, OwnConn DEF SendCopies
  <2> DEFINE room == SockBuf - Len(toCli[c])
             n == IF Len(buf[c]) <= room THEN Len(buf[c]) ELSE room
  <2>2. /\ wpc[c] = "send" /\ main \in LoopPc
        /\ buf' = [buf EXCEPT ![c] = SubSeq(@, n + 1, Len(@))]
        /\ wpc' = [wpc EXCEPT ![c] = IF n = Len(buf[c]) THEN "recv" ELSE "send"]
        /\ UNCHANGED <<main, toSrv, fin, rst>>
    BY <1>0, <1>5, <2>1 DEF SendCopies, LivePc, ServingPc
  <2>3. n = Len(buf[c]) => buf'[c] = <<>>
    <3>1. buf[c] \in Seq(Byte) /\ Len(buf[c]) \in Nat
      BY LenProperties
    <3>2. SubSeq(buf[c], Len(buf[c]) + 1, Len(buf[c])) = <<>>
      BY <3>1, SubSeqEmpty
    <3>3. QED
      BY <2>2, <3>2
  <2> HIDE DEF n
  <2>4. QED
    BY <2>2, <2>3 DEF WorkerInv, Orderly
<1>6. CASE SendReturnsShort(c)
  BY <1>0, <1>6 DEF SendReturnsShort, WorkerInv, Orderly, LivePc, ServingPc
<1>7. CASE SendFails(c)
  <2>1. Conn(c) = c
    BY <1>7, OwnConn DEF SendFails
  <2>2. rst[c] = "arrived"
    BY <1>7, <2>1 DEF SendFails, TcpInv
  <2>3. QED
    BY <1>0, <1>7, <2>2 DEF SendFails, WorkerInv, Orderly, LivePc, ServingPc
<1>8. CASE WorkerSigpipe(c)
  BY <1>8, WorkerInvEnd DEF WorkerSigpipe, Ended
<1>9. CASE WorkerShutdown(c) \/ WorkerClose(c) \/ WorkerFree(c)
  <2>1. /\ wpc[c] \in {"shutdown", "close", "free"} /\ main \in LoopPc
        /\ \E pc \in {"close", "free", "done"} : wpc' = [wpc EXCEPT ![c] = pc]
        /\ UNCHANGED <<main, buf, toSrv, fin, rst>>
    BY <1>0, <1>9 DEF WorkerShutdown, WorkerClose, WorkerFree, LivePc, ServingPc
  <2>2. QED
    BY <2>1 DEF WorkerInv, Orderly
<1>10. QED
  BY <1>1, <1>2, <1>3, <1>4, <1>5, <1>6, <1>7, <1>8, <1>9 DEF Worker

LEMMA WorkerInvNext == TypeInv /\ OwnerInv /\ TcpInv /\ WorkerInv /\ [Next]_vars => WorkerInv'
<1> SUFFICES ASSUME TypeInv, OwnerInv, TcpInv, WorkerInv, [Next]_vars PROVE WorkerInv'
  OBVIOUS
<1>1. CASE \E c \in Client : User(c) \/ ClientReads(c) \/ Tcp(c)
  <2>1. PICK c \in Client : User(c) \/ ClientReads(c) \/ Tcp(c)
    BY <1>1
  <2>2. UNCHANGED <<main, wpc, buf>>
    BY <2>1 DEF User, Tcp, Connect, ClientSends, ClientReads, ClientCloses, ClientAborts,
                PeerResets, ResetArrives, serverVars
  <2>3. \A d \in Client : (Orderly(d)' /\ fin[d] /\ toSrv[d] = <<>>) => (fin'[d] /\ toSrv'[d] = <<>>)
    <3> USE DEF TypeInv, TypeOK
    <3>1. CASE ClientSends(c)
      BY <3>1 DEF ClientSends, TcpInv
    <3>2. CASE ClientCloses(c)
      BY <3>2 DEF ClientCloses
    <3>3. CASE ClientAborts(c)
      BY <3>3 DEF ClientAborts, TcpInv
    <3>4. CASE Connect(c) \/ ClientReads(c) \/ PeerResets(c) \/ ResetArrives(c)
      BY <3>4 DEF Connect, ClientReads, PeerResets, ResetArrives
    <3>5. QED
      BY <2>1, <3>1, <3>2, <3>3, <3>4 DEF User, Tcp
  <2>4. \A d \in Client : Orderly(d)' => Orderly(d)
    BY OrderlyBefore
  <2>5. QED
    BY <2>2, <2>3, <2>4 DEF WorkerInv
<1>2. CASE Sigint
  BY <1>2, WorkerInvEnd DEF Sigint, Ended
<1>3. CASE UNCHANGED vars
  BY <1>3 DEF vars, WorkerInv, Orderly
<1>4. QED
  BY <1>1, <1>2, <1>3, WorkerInvMain, WorkerInvWorker DEF Next
-------------------------------------------------------------------------------
(* The bytes.                                                              *)

\* Every byte of client c is somewhere on its round trip.
Lossless(c) == sent[c] = Stream(rcvd[c], toCli[c], buf[c], toSrv[c])

Streams(c) == <<sent[c], rcvd[c], toCli[c], buf[c], toSrv[c]>>

LEMMA InitStream == Init => NothingLost /\ Prefixes
<1> SUFFICES ASSUME Init, NEW c \in Client
             PROVE  Lossless(c) /\ \E rest \in Seq(Byte) :
                                     sent[c] = Stream(rcvd[c], toCli[c], <<>>, rest)
  BY DEF NothingLost, Prefixes, Lossless
<1>1. /\ sent[c] = <<>> /\ rcvd[c] = <<>> /\ toCli[c] = <<>>
      /\ buf[c] = <<>> /\ toSrv[c] = <<>>
  BY DEF Init
<1>2. <<>> \in Seq(Byte) /\ <<>> \o <<>> = <<>>
  BY EmptySeq, ConcatEmptySeq
<1>3. QED
  BY <1>1, <1>2 DEF Lossless, Stream

\* A step of a worker that does not end the process keeps the stream of every
\* orderly connection.
LEMMA StreamWorker ==
  ASSUME TypeInv, OwnerInv, TcpInv, WorkerInv, NEW c \in Client, Worker(c), ~WorkerSigpipe(c),
         NEW d \in Client, Orderly(d), Lossless(d)
  PROVE  Lossless(d)'
<1> USE DEF TypeInv, TypeOK, tcpVars
<1>1. CASE Streams(d)' = Streams(d)
  BY <1>1 DEF Streams, Lossless
<1>2. CASE WorkerStart(c) \/ RecvEof(c) \/ RecvError(c) \/ WorkerShutdown(c)
             \/ WorkerClose(c) \/ WorkerFree(c)
  BY <1>1, <1>2 DEF WorkerStart, RecvEof, RecvError, WorkerShutdown, WorkerClose, WorkerFree,
                    Streams
<1>3. CASE RecvData(c)
  <2>1. Conn(c) = c /\ buf[c] = <<>>
    BY <1>3, OwnConn DEF RecvData, WorkerInv
  <2>2. PICK n \in 1..Len(toSrv[c]) :
          /\ buf' = [buf EXCEPT ![c] = SubSeq(toSrv[c], 1, n)]
          /\ toSrv' = [toSrv EXCEPT ![c] = SubSeq(@, n + 1, Len(@))]
    BY <1>3, <2>1 DEF RecvData
  <2>3. UNCHANGED <<sent, rcvd, toCli>>
    BY <1>3 DEF RecvData
  <2>4. CASE d # c
    BY <1>1, <2>2, <2>3, <2>4 DEF Streams
  <2>5. CASE d = c
    <3>1. /\ rcvd[c] \in Seq(Byte) /\ toCli[c] \in Seq(Byte) /\ toSrv[c] \in Seq(Byte)
          /\ n \in 0..Len(toSrv[c])
      BY LenProperties
    <3>2. Stream(rcvd[c], toCli[c], SubSeq(toSrv[c], 1, n), SubSeq(toSrv[c], n + 1, Len(toSrv[c])))
            = Stream(rcvd[c], toCli[c], <<>>, toSrv[c])
      BY <3>1, FillEmpty
    <3>3. buf'[c] = SubSeq(toSrv[c], 1, n) /\ toSrv'[c] = SubSeq(toSrv[c], n + 1, Len(toSrv[c]))
      BY <2>2
    <3>4. QED
      BY <2>1, <2>3, <2>5, <3>2, <3>3 DEF Lossless
  <2>6. QED
    BY <2>4, <2>5
<1>4. CASE SendCopies(c)
  <2>1. Conn(c) = c
    BY <1>4, OwnConn DEF SendCopies
  <2> DEFINE room == SockBuf - Len(toCli[c])
             n == IF Len(buf[c]) <= room THEN Len(buf[c]) ELSE room
  <2>2. /\ Len(toCli[c]) < SockBuf
        /\ toCli' = [toCli EXCEPT ![c] = @ \o SubSeq(buf[c], 1, n)]
        /\ buf' = [buf EXCEPT ![c] = SubSeq(@, n + 1, Len(@))]
        /\ UNCHANGED <<sent, rcvd, toSrv>>
    BY <1>4, <2>1 DEF SendCopies
  <2>3. n \in 0..Len(buf[c])
    <3>1. Len(buf[c]) \in Nat /\ Len(toCli[c]) \in Nat
      BY LenProperties
    <3>2. QED
      BY <2>2, <3>1
  <2> HIDE DEF n
  <2>4. CASE d # c
    BY <1>1, <2>2, <2>4 DEF Streams
  <2>5. CASE d = c
    <3>1. rcvd[c] \in Seq(Byte) /\ toCli[c] \in Seq(Byte) /\ buf[c] \in Seq(Byte)
            /\ toSrv[c] \in Seq(Byte)
      OBVIOUS
    <3>2. Stream(rcvd[c], toCli[c] \o SubSeq(buf[c], 1, n), SubSeq(buf[c], n + 1, Len(buf[c])),
                 toSrv[c]) = Stream(rcvd[c], toCli[c], buf[c], toSrv[c])
      <4> DEFINE r == rcvd[c]
                 t == toCli[c]
                 k == buf[c]
                 q == toSrv[c]
      <4>1. r \in Seq(Byte) /\ t \in Seq(Byte) /\ k \in Seq(Byte) /\ q \in Seq(Byte)
              /\ n \in 0..Len(k)
        BY <2>3, <3>1
      <4> HIDE DEF r, t, k, q
      <4>2. Stream(r, t \o SubSeq(k, 1, n), SubSeq(k, n + 1, Len(k)), q) = Stream(r, t, k, q)
        BY ONLY <4>1, MovePrefix
      <4>3. QED
        BY <4>2 DEF r, t, k, q
    <3>3. /\ toCli'[c] = toCli[c] \o SubSeq(buf[c], 1, n)
          /\ buf'[c] = SubSeq(buf[c], n + 1, Len(buf[c]))
      BY <2>2
    <3>4. QED
      BY <2>2, <2>5, <3>2, <3>3 DEF Lossless
  <2>6. QED
    BY <2>4, <2>5
<1>5. CASE SendReturnsShort(c)
  <2>1. Conn(c) = c
    BY <1>5, OwnConn DEF SendReturnsShort
  <2>2. c # d
    BY <1>5, <2>1 DEF SendReturnsShort, TcpInv, Orderly
  <2>3. QED
    BY <1>1, <1>5, <2>2 DEF SendReturnsShort, Streams
<1>6. CASE SendFails(c)
  <2>1. Conn(c) = c
    BY <1>6, OwnConn DEF SendFails
  <2>2. c # d
    BY <1>6, <2>1 DEF SendFails, TcpInv, Orderly
  <2>3. QED
    BY <1>1, <1>6, <2>2 DEF SendFails, Streams
<1>7. QED
  BY <1>2, <1>3, <1>4, <1>5, <1>6 DEF Worker

\* What a client sends and reads.
LEMMA StreamSends ==
  ASSUME TypeInv, NEW c \in Client, ClientSends(c), NEW d \in Client, Lossless(d)
  PROVE  Lossless(d)'
<1> USE DEF TypeInv, TypeOK, serverVars
<1>1. PICK b \in Byte : /\ sent' = [sent EXCEPT ![c] = Append(@, b)]
                        /\ toSrv' = [toSrv EXCEPT ![c] = Append(@, b)]
                        /\ UNCHANGED <<rcvd, toCli, buf>>
  BY DEF ClientSends
<1>2. CASE d # c
  BY <1>1, <1>2 DEF Lossless
<1>3. CASE d = c
  <2>1. rcvd[c] \in Seq(Byte) /\ toCli[c] \in Seq(Byte) /\ buf[c] \in Seq(Byte)
          /\ toSrv[c] \in Seq(Byte)
    OBVIOUS
  <2>2. Append(Stream(rcvd[c], toCli[c], buf[c], toSrv[c]), b)
          = Stream(rcvd[c], toCli[c], buf[c], Append(toSrv[c], b))
    <3> DEFINE r == rcvd[c]
               t == toCli[c]
               k == buf[c]
               q == toSrv[c]
    <3>1. r \in Seq(Byte) /\ t \in Seq(Byte) /\ k \in Seq(Byte) /\ q \in Seq(Byte) /\ b \in Byte
      BY <2>1
    <3> HIDE DEF r, t, k, q
    <3>2. Appended(r, t, k, q, b)
      BY ONLY <3>1, AppendToLast
    <3>3. QED
      BY <3>2 DEF Appended, r, t, k, q
  <2>3. sent'[c] = Append(sent[c], b) /\ toSrv'[c] = Append(toSrv[c], b)
    BY <1>1
  <2>4. QED
    BY <1>1, <1>3, <2>2, <2>3 DEF Lossless
<1>4. QED
  BY <1>2, <1>3

\* Reading keeps the stream, whatever comes after the bytes under way.
LEMMA StreamReads ==
  ASSUME TypeInv, NEW c \in Client, ClientReads(c), NEW d \in Client
  PROVE  /\ UNCHANGED <<sent, buf, toSrv>>
         /\ \A b, q \in Seq(Byte) :
              Stream(rcvd'[d], toCli'[d], b, q) = Stream(rcvd[d], toCli[d], b, q)
<1> USE DEF TypeInv, TypeOK, serverVars
<1>1. /\ toCli[c] # <<>>
      /\ rcvd' = [rcvd EXCEPT ![c] = Append(@, Head(toCli[c]))]
      /\ toCli' = [toCli EXCEPT ![c] = Tail(@)]
      /\ UNCHANGED <<sent, buf, toSrv>>
  BY DEF ClientReads
<1>2. ASSUME NEW b \in Seq(Byte), NEW q \in Seq(Byte)
      PROVE  Stream(rcvd'[d], toCli'[d], b, q) = Stream(rcvd[d], toCli[d], b, q)
  <2>1. CASE d # c
    BY <1>1, <2>1
  <2>2. CASE d = c
    <3>1. rcvd[c] \in Seq(Byte) /\ toCli[c] \in Seq(Byte)
      OBVIOUS
    <3>2. Stream(Append(rcvd[c], Head(toCli[c])), Tail(toCli[c]), b, q)
            = Stream(rcvd[c], toCli[c], b, q)
      BY <1>1, <3>1, ReadHead
    <3>3. rcvd'[c] = Append(rcvd[c], Head(toCli[c])) /\ toCli'[c] = Tail(toCli[c])
      BY <1>1
    <3>4. QED
      BY <2>2, <3>2, <3>3
  <2>3. QED
    BY <2>1, <2>2
<1>3. QED
  BY <1>1, <1>2

\* Every other step leaves all streams alone, or takes the connection out of
\* the orderly ones, or ends the process.
LEMMA StreamOther ==
  ASSUME TypeInv, TcpInv, [Next]_vars, Running', NEW d \in Client, Orderly(d)',
         ~ \E c \in Client : Worker(c) \/ ClientSends(c) \/ ClientReads(c)
  PROVE  Running /\ Streams(d)' = Streams(d)
<1> USE DEF Running, Streams
<1>1. CASE Main \/ UNCHANGED vars
  BY <1>1 DEF Main, MainSetup, MainAccept, MainAcceptFails, MainMalloc, MainMallocFails,
              MainCreate, MainCreateFails, MainDetach, MainClosesFd, tcpVars, vars,
              SetupPc, LoopPc
<1>2. CASE Sigint
  BY <1>2 DEF Sigint, ProcessEnds, SetupPc, LoopPc
<1>3. CASE \E c \in Client : User(c) \/ Tcp(c)
  <2>1. PICK c \in Client : User(c) \/ Tcp(c)
    BY <1>3
  <2> USE DEF TypeInv, TypeOK, serverVars
  <2>2. CASE Connect(c) \/ ClientCloses(c) \/ PeerResets(c)
    BY <2>2 DEF Connect, ClientCloses, PeerResets
  <2>3. CASE ClientAborts(c)
    <3>1. ~Orderly(c)'
      BY <2>3 DEF ClientAborts, Orderly, TcpInv
    <3>2. QED
      BY <2>3, <3>1 DEF ClientAborts
  <2>4. CASE ResetArrives(c)
    <3>1. ~Orderly(c)'
      BY <2>4 DEF ResetArrives, Orderly
    <3>2. QED
      BY <2>4, <3>1 DEF ResetArrives
  <2>5. QED
    BY <2>1, <2>2, <2>3, <2>4 DEF User, Tcp
<1>4. QED
  BY <1>1, <1>2, <1>3 DEF Next

LEMMA LosslessNext ==
  TypeInv /\ OwnerInv /\ TcpInv /\ WorkerInv /\ NothingLost /\ [Next]_vars => NothingLost'
<1> SUFFICES ASSUME TypeInv, OwnerInv, TcpInv, WorkerInv, NothingLost, [Next]_vars,
                    Running', NEW d \in Client, Orderly(d)'
             PROVE  Lossless(d)'
  BY DEF NothingLost, Lossless
<1>1. Orderly(d)
  BY OrderlyBefore
<1>2. Running => Lossless(d)
  BY <1>1 DEF NothingLost, Lossless
<1>3. CASE \E c \in Client : Worker(c)
  <2>1. PICK c \in Client : Worker(c)
    BY <1>3
  <2>2. ~WorkerSigpipe(c)
    BY DEF WorkerSigpipe, ProcessEnds, Running, SetupPc, LoopPc
  <2>3. UNCHANGED main
    BY <2>1, <2>2 DEF Worker, WorkerStart, RecvData, RecvEof, RecvError, SendCopies,
                      SendReturnsShort, SendFails, WorkerShutdown, WorkerClose, WorkerFree
  <2>4. QED
    BY <1>1, <1>2, <2>1, <2>2, <2>3, StreamWorker DEF Running
<1>4. CASE \E c \in Client : ClientSends(c)
  <2>1. UNCHANGED main
    BY <1>4 DEF ClientSends, serverVars
  <2>2. QED
    BY <1>2, <1>4, <2>1, StreamSends DEF Running
<1>5. CASE \E c \in Client : ClientReads(c)
  <2>1. UNCHANGED main
    BY <1>5 DEF ClientReads, serverVars
  <2>2. /\ UNCHANGED <<sent, buf, toSrv>>
        /\ \A b, q \in Seq(Byte) :
             Stream(rcvd'[d], toCli'[d], b, q) = Stream(rcvd[d], toCli[d], b, q)
    BY <1>5, StreamReads
  <2>3. buf[d] \in Seq(Byte) /\ toSrv[d] \in Seq(Byte)
    BY DEF TypeInv, TypeOK
  <2>4. QED
    BY <1>2, <2>1, <2>2, <2>3 DEF Lossless, Running
<1>6. CASE ~ \E c \in Client : Worker(c) \/ ClientSends(c) \/ ClientReads(c)
  BY <1>2, <1>6, StreamOther DEF Lossless, Streams
<1>7. QED
  BY <1>3, <1>4, <1>5, <1>6

\* While the process runs, the bytes the worker holds and those it has not
\* received are the rest of the stream.
LEMMA PrefixesWhileRunning ==
  TypeInv /\ NothingLost /\ Running => Prefixes
<1> SUFFICES ASSUME TypeInv, NothingLost, Running, NEW c \in Client, Orderly(c)
             PROVE  \E rest \in Seq(Byte) : sent[c] = Stream(rcvd[c], toCli[c], <<>>, rest)
  BY DEF Prefixes
<1> DEFINE rest == buf[c] \o toSrv[c]
<1>1. rest \in Seq(Byte)
  BY ConcatProperties DEF TypeInv, TypeOK
<1>2. <<>> \o rest = rest
  BY <1>1, ConcatEmptySeq
<1>3. sent[c] = Stream(rcvd[c], toCli[c], <<>>, rest)
  BY <1>2 DEF NothingLost, Stream
<1>4. QED
  BY <1>1, <1>3

LEMMA PrefixesNext ==
  TypeInv /\ TcpInv /\ WorkerInv /\ Prefixes /\ [Next]_vars /\ ~Running' => Prefixes'
<1> SUFFICES ASSUME TypeInv, TcpInv, WorkerInv, Prefixes, [Next]_vars, ~Running',
                    NEW d \in Client, Orderly(d)'
             PROVE  \E rest \in Seq(Byte) : sent'[d] = Stream(rcvd'[d], toCli'[d], <<>>, rest)
  BY DEF Prefixes
<1>1. Orderly(d)
  BY OrderlyBefore
<1>2. PICK rest \in Seq(Byte) : sent[d] = Stream(rcvd[d], toCli[d], <<>>, rest)
  BY <1>1 DEF Prefixes
<1>3. CASE \E c \in Client : ClientReads(c)
  <2>1. /\ UNCHANGED <<sent, buf, toSrv>>
        /\ \A b, q \in Seq(Byte) :
             Stream(rcvd'[d], toCli'[d], b, q) = Stream(rcvd[d], toCli[d], b, q)
    BY <1>3, StreamReads
  <2>2. <<>> \in Seq(Byte)
    BY EmptySeq
  <2>3. QED
    BY <1>2, <2>1, <2>2
<1>4. CASE \E c \in Client : User(c) \/ Tcp(c)
  <2>1. PICK c \in Client : User(c) \/ Tcp(c)
    BY <1>4
  <2>2. UNCHANGED main
    BY <2>1 DEF User, Tcp, Connect, ClientSends, ClientCloses, ClientAborts, PeerResets,
                ResetArrives, serverVars
  <2>3. ~ClientSends(c)
    BY <2>2 DEF ClientSends, TcpInv, Running
  <2>4. UNCHANGED <<sent, rcvd>> /\ toCli'[d] = toCli[d]
    <3>1. CASE ResetArrives(c)
      BY <3>1 DEF ResetArrives, Orderly, TypeInv, TypeOK
    <3>2. CASE ~ResetArrives(c)
      BY <2>1, <2>3, <3>2 DEF User, Tcp, Connect, ClientCloses, ClientAborts, PeerResets
    <3>3. QED
      BY <3>1, <3>2
  <2>5. QED
    BY <1>2, <2>4
<1>5. CASE \E c \in Client : Worker(c)
  <2>1. PICK c \in Client : Worker(c)
    BY <1>5
  <2>2. WorkerSigpipe(c)
    <3>1. main \in LoopPc
      BY <2>1 DEF Worker, WorkerInv, WorkerStart, RecvData, RecvEof, RecvError, SendCopies,
                  SendReturnsShort, SendFails, WorkerShutdown, WorkerClose, WorkerFree,
                  WorkerSigpipe
    <3>2. QED
      BY <2>1, <3>1 DEF Running, Worker, WorkerStart, RecvData, RecvEof, RecvError, SendCopies,
                        SendReturnsShort, SendFails, WorkerShutdown, WorkerClose, WorkerFree
  <2>3. UNCHANGED <<sent, rcvd, toCli>>
    BY <2>2 DEF WorkerSigpipe, ProcessEnds
  <2>4. QED
    BY <1>2, <2>3
<1>6. CASE Main \/ Sigint \/ UNCHANGED vars
  <2>1. UNCHANGED <<sent, rcvd, toCli>>
    BY <1>6 DEF Main, MainSetup, MainAccept, MainAcceptFails, MainMalloc, MainMallocFails,
                MainCreate, MainCreateFails, MainDetach, MainClosesFd, Sigint, ProcessEnds,
                tcpVars, vars
  <2>2. QED
    BY <1>2, <2>1
<1>7. QED
  BY <1>3, <1>4, <1>5, <1>6 DEF Next

-------------------------------------------------------------------------------
(* The theorems.                                                           *)

IInv == TypeInv /\ OwnerInv /\ StreamInv

LEMMA InductiveInvariant == Spec => []IInv
<1>1. Init => IInv
  BY InitType, InitOwner, InitTcp, InitWorker, InitStream DEF IInv, StreamInv
<1>2. IInv /\ [Next]_vars => IInv'
  <2>1. SUFFICES ASSUME IInv, [Next]_vars PROVE IInv'
    OBVIOUS
  <2>2. TypeInv' /\ OwnerInv' /\ TcpInv' /\ WorkerInv' /\ NothingLost'
    BY <2>1, NextType, OwnerNext, TcpNext, WorkerInvNext, LosslessNext DEF IInv, StreamInv
  <2>3. CASE Running'
    <3>1. (TypeInv /\ NothingLost /\ Running => Prefixes)'
      BY PrefixesWhileRunning, PTL
    <3>2. QED
      BY <2>2, <2>3, <3>1 DEF IInv, StreamInv
  <2>4. CASE ~Running'
    BY <2>1, <2>2, <2>4, PrefixesNext DEF IInv, StreamInv
  <2>5. QED
    BY <2>3, <2>4
<1>3. QED
  BY <1>1, <1>2, PTL DEF Spec

\* Whatever the interleaving of workers, short receives and sends that block
\* half-way, every byte of a connection that was not reset is in exactly one
\* place, in order.
THEOREM Fidelity == Spec => []NothingLost
<1>1. IInv => NothingLost
  BY DEF IInv, StreamInv
<1>2. QED
  BY <1>1, InductiveInvariant, PTL

\* A session that ends because its client closed has echoed everything.
THEOREM EchoBeforeEnd == Spec => []EchoedBeforeClose
<1>1. IInv => EchoedBeforeClose
  <2>1. SUFFICES ASSUME IInv, NEW c \in Client, Orderly(c),
                        wpc[c] \in {"shutdown", "close", "free", "done"}
                 PROVE  sent[c] = rcvd[c] \o toCli[c]
    BY DEF EchoedBeforeClose
  <2>2. Running
    BY <2>1 DEF IInv, StreamInv, WorkerInv, Running
  <2>3. buf[c] = <<>> /\ toSrv[c] = <<>>
    BY <2>1 DEF IInv, StreamInv, WorkerInv
  <2>4. sent[c] = Stream(rcvd[c], toCli[c], <<>>, <<>>)
    BY <2>1, <2>2, <2>3 DEF IInv, StreamInv, NothingLost
  <2>5. toCli[c] \in Seq(Byte)
    BY <2>1 DEF IInv, TypeInv, TypeOK
  <2>6. <<>> \o <<>> = <<>> /\ toCli[c] \o <<>> = toCli[c]
    BY <2>5, EmptySeq, ConcatEmptySeq
  <2>7. QED
    BY <2>4, <2>6 DEF Stream
<1>2. QED
  BY <1>1, InductiveInvariant, PTL

\* A step of the server is a step of the echo service or none: a client that
\* reads gets the byte that follows what it has read in what it has sent.
LEMMA EchoStep == IInv /\ [Next]_vars => [Echo!Next]_<<sent, rcvd>>
<1> SUFFICES ASSUME IInv, [Next]_vars PROVE Echo!Next \/ UNCHANGED <<sent, rcvd>>
  OBVIOUS
<1> USE DEF IInv, TypeInv, TypeOK
<1>1. ASSUME NEW c \in Client, ClientSends(c) PROVE Echo!Next
  BY <1>1 DEF ClientSends, Echo!Next, Echo!Write
<1>2. ASSUME NEW c \in Client, ClientReads(c) PROVE Echo!Next
  <2>1. /\ peer[c] = "open" /\ toCli[c] # <<>>
        /\ rcvd' = [rcvd EXCEPT ![c] = Append(@, Head(toCli[c]))]
        /\ UNCHANGED sent
    BY <1>2 DEF ClientReads
  <2>2. Orderly(c)
    BY <2>1 DEF StreamInv, TcpInv, Orderly
  <2>3. PICK rest \in Seq(Byte) : sent[c] = Stream(rcvd[c], toCli[c], <<>>, rest)
    BY <2>2 DEF StreamInv, Prefixes
  <2> DEFINE r == rcvd[c]
             t == toCli[c]
  <2>4. r \in Seq(Byte) /\ t \in Seq(Byte) /\ t # <<>>
    BY <2>1
  <2> HIDE DEF r, t
  <2>5. t \o rest \in Seq(Byte) /\ t \o rest # <<>> /\ Head(t \o rest) = Head(t)
    <3>1. Len(t) \in Nat \ {0}
      BY ONLY <2>4, EmptySeq, LenProperties
    <3>2. /\ t \o rest \in Seq(Byte)
          /\ Len(t \o rest) = Len(t) + Len(rest)
          /\ (t \o rest)[1] = t[1]
      BY <2>3, <2>4, <3>1, ConcatProperties, LenProperties
    <3>3. Len(rest) \in Nat
      BY LenProperties
    <3>4. t \o rest # <<>>
      BY <3>1, <3>2, <3>3, EmptySeq
    <3>5. QED
      BY <2>4, <3>2, <3>4
  <2>6. sent[c] = r \o (t \o rest)
    <3>1. <<>> \o rest = rest
      BY ConcatEmptySeq
    <3>2. QED
      BY <2>3, <3>1 DEF Stream, r, t
  <2>7. Len(r) + 1 \in 1..Len(sent[c]) /\ sent[c][Len(r) + 1] = Head(t)
    <3> DEFINE s == t \o rest
    <3>1. s \in Seq(Byte) /\ s # <<>> /\ sent[c] = r \o s /\ Head(s) = Head(t)
      BY <2>5, <2>6
    <3> HIDE DEF s
    <3>2. Len(r) + 1 \in 1..Len(r \o s) /\ (r \o s)[Len(r) + 1] = Head(s)
      BY ONLY <2>4, <3>1, NextOfPrefix
    <3>3. QED
      BY ONLY <3>1, <3>2
  <2>8. Len(r) + 1 <= Len(sent[c])
    <3>1. Len(sent[c]) \in Nat
      BY LenProperties
    <3>2. QED
      BY <2>7, <3>1
  <2>9. Echo!ReadBack(c)
    <3>1. r = rcvd[c] /\ t = toCli[c]
      BY DEF r, t
    <3>2. QED
      BY ONLY <2>1, <2>7, <2>8, <3>1 DEF Echo!ReadBack
  <2>10. QED
    BY <2>9 DEF Echo!Next
<1>3. CASE Main \/ Sigint \/ UNCHANGED vars
  BY <1>3 DEF Main, MainSetup, MainAccept, MainAcceptFails, MainMalloc, MainMallocFails,
              MainCreate, MainCreateFails, MainDetach, MainClosesFd, Sigint, ProcessEnds,
              tcpVars, vars
<1>4. CASE \E c \in Client : Worker(c)
  BY <1>4 DEF Worker, WorkerStart, RecvData, RecvEof, RecvError, SendCopies, SendReturnsShort,
              SendFails, WorkerShutdown, WorkerClose, WorkerFree, WorkerSigpipe, ProcessEnds,
              tcpVars
<1>5. CASE \E c \in Client : Connect(c) \/ ClientCloses(c) \/ ClientAborts(c) \/ Tcp(c)
  BY <1>5 DEF Connect, ClientCloses, ClientAborts, Tcp, PeerResets, ResetArrives
<1>6. QED
  BY <1>1, <1>2, <1>3, <1>4, <1>5 DEF Next, User

\* The server implements the echo service.
THEOREM Refinement == Spec => EchoSpec
<1>1. Init => Echo!Init
  BY DEF Init, Echo!Init
<1>2. QED
  BY <1>1, EchoStep, InductiveInvariant, PTL DEF Spec, EchoSpec, Echo!Spec, Echo!streams
===============================================================================
