------------------------------ MODULE EchoServer ------------------------------
(***************************************************************************)
(* The multi-client echo server of modules/socket/socket_multi_server.c:   *)
(* a main thread that sets up the listener and accepts connections for     *)
(* ever, one detached worker thread per accepted connection, the           *)
(* process's descriptor table and its heap of session_t objects.           *)
(*                                                                         *)
(* A connection is named after the client that opens it (a client connects *)
(* once); the worker serving it, and its session_t, carry the same name.   *)
(* Workers reach a connection only through the descriptor number in their  *)
(* local client_fd, and descriptor numbers are reused (lowest free first), *)
(* so that a worker that kept a stale number would be seen to serve        *)
(* somebody else's connection.                                             *)
(*                                                                         *)
(* External, modelled from the calls the server makes: TCP between the     *)
(* client and the server (what recv, send, shutdown, close and accept of   *)
(* Linux do with an orderly close, a reset and a full buffer), and the     *)
(* clients themselves.                                                     *)
(***************************************************************************)
EXTENDS Naturals, Sequences, FiniteSets, ByteStreams

CONSTANTS Client,    \* clients, hence connections, workers and sessions
          NoConn,    \* no connection
          Byte,      \* payload bytes
          MaxBytes,  \* bound: bytes a client sends
          RecvSize,  \* bytes one recv may return (sizeof(buffer) - 1)
          SockBuf,   \* bytes the kernel holds for a client that does not read
          FdLimit,   \* descriptors left for connections (RLIMIT_NOFILE)
          Backlog    \* the backlog argument of listen

ASSUME EchoAssumption ==
  /\ NoConn \notin Client
  /\ MaxBytes \in Nat
  /\ RecvSize \in Nat \ {0}
  /\ SockBuf \in Nat \ {0}
  /\ FdLimit \in Nat
  /\ Backlog \in Nat

Fd == 1..FdLimit
NoFd == 0

VARIABLES
  main,      \* where the main thread is, or how the process ended
  listening, \* server_fd is an open socket
  mconn,     \* main's locals: the connection client_addr tells of ...
  mfd,       \* ... and client_fd
  fdTable,   \* descriptor -> the connection it refers to
  heap,      \* heap[c]: client_fd of the session_t of c, NoFd if not allocated
  wpc,       \* where worker c is
  wfd,       \* worker c's local client_fd
  buf,       \* worker c's buffer: received and not yet handed to send
  copied,    \* worker c's current send has already copied some bytes
  detached   \* workers on which pthread_detach was called

serverVars == <<main, listening, mconn, mfd, fdTable, heap, wpc, wfd, buf,
                copied, detached>>

VARIABLES
  acceptq,   \* connections established and not yet accepted
  peer,      \* the client's end: idle, open, closed
  sock,      \* the server's end: none, estab, shut, closed
  toSrv,     \* bytes under way to the server or waiting in its socket
  toCli,     \* bytes under way to the client or waiting in its socket
  fin,       \* the client's FIN has reached the server
  rst,       \* the client's RST: none, sent, arrived
  skerr,     \* the error pending on the server's socket
  sent,      \* everything the client has sent
  rcvd       \* everything the client has read

tcpVars == <<acceptq, peer, sock, toSrv, toCli, fin, rst, skerr, sent, rcvd>>
vars == <<main, listening, mconn, mfd, fdTable, heap, wpc, wfd, buf, copied,
          detached, acceptq, peer, sock, toSrv, toCli, fin, rst, skerr, sent, rcvd>>

SetupPc == {"socket", "setsockopt", "bind", "listen"}
LoopPc  == {"accept", "malloc", "create", "detach"}
Ended   == {"returned", "sigint", "sigpipe"}

\* The worker holds its descriptor; the worker exists.
ServingPc == {"start", "recv", "send", "shutdown", "close"}
LivePc    == ServingPc \cup {"free"}

TypeOK ==
  /\ main \in SetupPc \cup LoopPc \cup Ended
  /\ listening \in BOOLEAN
  /\ mconn \in Client \cup {NoConn}
  /\ mfd \in Fd \cup {NoFd}
  /\ fdTable \in [Fd -> Client \cup {NoConn}]
  /\ heap \in [Client -> Fd \cup {NoFd}]
  /\ wpc \in [Client -> LivePc \cup {"none", "done"}]
  /\ wfd \in [Client -> Fd \cup {NoFd}]
  /\ buf \in [Client -> Seq(Byte)]
  /\ copied \in [Client -> BOOLEAN]
  /\ detached \in SUBSET Client
  /\ acceptq \in Seq(Client)
  /\ peer \in [Client -> {"idle", "open", "closed"}]
  /\ sock \in [Client -> {"none", "estab", "shut", "closed"}]
  /\ toSrv \in [Client -> Seq(Byte)]
  /\ toCli \in [Client -> Seq(Byte)]
  /\ fin \in [Client -> BOOLEAN]
  /\ rst \in [Client -> {"none", "sent", "arrived"}]
  /\ skerr \in [Client -> {"none", "ECONNRESET", "EPIPE"}]
  /\ sent \in [Client -> Seq(Byte)]
  /\ rcvd \in [Client -> Seq(Byte)]

Init ==
  /\ main = "socket" /\ listening = FALSE /\ mconn = NoConn /\ mfd = NoFd
  /\ fdTable = [f \in Fd |-> NoConn]
  /\ heap = [c \in Client |-> NoFd]
  /\ wpc = [c \in Client |-> "none"]
  /\ wfd = [c \in Client |-> NoFd]
  /\ buf = [c \in Client |-> <<>>]
  /\ copied = [c \in Client |-> FALSE]
  /\ detached = {}
  /\ acceptq = <<>>
  /\ peer = [c \in Client |-> "idle"]
  /\ sock = [c \in Client |-> "none"]
  /\ toSrv = [c \in Client |-> <<>>]
  /\ toCli = [c \in Client |-> <<>>]
  /\ fin = [c \in Client |-> FALSE]
  /\ rst = [c \in Client |-> "none"]
  /\ skerr = [c \in Client |-> "none"]
  /\ sent = [c \in Client |-> <<>>]
  /\ rcvd = [c \in Client |-> <<>>]

-------------------------------------------------------------------------------
(* The main thread: socket_mgr_multi_server_start.                         *)

\* socket, setsockopt, bind and listen, in this order; when one fails the
\* function returns, closing server_fd if it was open.
NextSetup == [socket |-> "setsockopt", setsockopt |-> "bind",
              bind |-> "listen", listen |-> "accept"]

MainSetup ==
  /\ main \in SetupPc
  /\ \/ main' = NextSetup[main] /\ listening' = TRUE
     \/ main' = "returned" /\ listening' = FALSE
  /\ UNCHANGED <<mconn, mfd, fdTable, heap, wpc, wfd, buf, copied, detached>>
  /\ UNCHANGED tcpVars

\* accept takes the oldest waiting connection and the lowest free descriptor.
MainAccept ==
  /\ main = "accept"
  /\ acceptq # <<>>
  /\ \E f \in Fd :
       /\ fdTable[f] = NoConn
       /\ \A g \in Fd : fdTable[g] = NoConn => f <= g
       /\ mfd' = f
       /\ fdTable' = [fdTable EXCEPT ![f] = Head(acceptq)]
  /\ mconn' = Head(acceptq)
  /\ acceptq' = Tail(acceptq)
  /\ main' = "malloc"
  /\ UNCHANGED <<listening, heap, wpc, wfd, buf, copied, detached>>
  /\ UNCHANGED <<peer, sock, toSrv, toCli, fin, rst, skerr, sent, rcvd>>

\* Mutant of MainAcceptFails: the result of accept is not tested.
MainAcceptIgnoresFailure ==
  /\ main = "accept"
  /\ acceptq # <<>>
  /\ \A f \in Fd : fdTable[f] # NoConn
  /\ mfd' = NoFd - 1
  /\ mconn' = Head(acceptq)
  /\ main' = "malloc"
  /\ UNCHANGED <<listening, fdTable, heap, wpc, wfd, buf, copied, detached>>
  /\ UNCHANGED tcpVars

\* accept fails (no descriptor left: the connection stays in the queue); the
\* loop continues.
MainAcceptFails ==
  /\ main = "accept"
  /\ acceptq # <<>>
  /\ \A f \in Fd : fdTable[f] # NoConn
  /\ UNCHANGED vars

\* malloc succeeds and the session is filled in.
MainMalloc ==
  /\ main = "malloc"
  /\ heap' = [heap EXCEPT ![mconn] = mfd]
  /\ main' = "create"
  /\ UNCHANGED <<listening, mconn, mfd, fdTable, wpc, wfd, buf, copied, detached>>
  /\ UNCHANGED tcpVars

\* close(client_fd) by the main thread, without shutdown.
MainClosesFd ==
  /\ fdTable' = [fdTable EXCEPT ![mfd] = NoConn]
  /\ sock' = [sock EXCEPT ![mconn] = "closed"]
  /\ main' = "accept"
  /\ mconn' = NoConn
  /\ mfd' = NoFd
  /\ UNCHANGED <<listening, wpc, wfd, buf, copied, detached>>
  /\ UNCHANGED <<acceptq, peer, toSrv, toCli, fin, rst, skerr, sent, rcvd>>

\* Mutant of MainMallocFails: the loop continues without closing client_fd.
MainMallocFailsLeaks ==
  /\ main = "malloc"
  /\ main' = "accept" /\ mconn' = NoConn /\ mfd' = NoFd
  /\ UNCHANGED <<listening, fdTable, heap, wpc, wfd, buf, copied, detached>>
  /\ UNCHANGED tcpVars

\* malloc returns NULL: the connection is closed, the loop continues.
MainMallocFails ==
  /\ main = "malloc"
  /\ MainClosesFd
  /\ UNCHANGED heap

\* pthread_create starts the worker of the connection.
MainCreate ==
  /\ main = "create"
  /\ wpc' = [wpc EXCEPT ![mconn] = "start"]
  /\ main' = "detach"
  /\ UNCHANGED <<listening, mconn, mfd, fdTable, heap, wfd, buf, copied, detached>>
  /\ UNCHANGED tcpVars

\* Mutant of MainCreateFails: the session is not freed.
MainCreateFailsLeaks ==
  /\ main = "create"
  /\ MainClosesFd
  /\ UNCHANGED heap

\* pthread_create fails: the connection is closed and the session freed.
MainCreateFails ==
  /\ main = "create"
  /\ MainClosesFd
  /\ heap' = [heap EXCEPT ![mconn] = NoFd]

\* Mutant of MainDetach: the main thread closes client_fd, as the parent of a
\* forked server does.
MainDetachCloses ==
  /\ main = "detach"
  /\ MainClosesFd
  /\ UNCHANGED heap

\* pthread_detach; client_fd and client_addr go out of scope.
MainDetach ==
  /\ main = "detach"
  /\ detached' = detached \cup {mconn}
  /\ main' = "accept"
  /\ mconn' = NoConn
  /\ mfd' = NoFd
  /\ UNCHANGED <<listening, fdTable, heap, wpc, wfd, buf, copied>>
  /\ UNCHANGED tcpVars

Main == \/ MainSetup \/ MainAccept \/ MainAcceptFails
        \/ MainMalloc \/ MainMallocFails
        \/ MainCreate \/ MainCreateFails \/ MainDetach

-------------------------------------------------------------------------------
(* The end of the process: the kernel closes every descriptor, and memory  *)
(* and threads are gone.                                                   *)

ProcessEnds(how) ==
  /\ main' = how
  /\ listening' = FALSE /\ mconn' = NoConn /\ mfd' = NoFd
  /\ fdTable' = [f \in Fd |-> NoConn]
  /\ heap' = [c \in Client |-> NoFd]
  /\ wpc' = [c \in Client |-> "none"]
  /\ wfd' = [c \in Client |-> NoFd]
  /\ buf' = [c \in Client |-> <<>>]
  /\ copied' = [c \in Client |-> FALSE]
  /\ detached' = {}
  /\ acceptq' = <<>>
  /\ sock' = [c \in Client |-> IF sock[c] = "none" THEN "none" ELSE "closed"]
  /\ UNCHANGED <<peer, toSrv, toCli, fin, rst, skerr, sent, rcvd>>

\* "Press Ctrl+C to terminate server."
Sigint == main \in SetupPc \cup LoopPc /\ ProcessEnds("sigint")

-------------------------------------------------------------------------------
(* The workers: session_worker and session_handle_protocol.                *)

\* The connection the kernel finds behind worker c's client_fd.
Conn(c) == IF wfd[c] \in Fd THEN fdTable[wfd[c]] ELSE NoConn

WorkerGoesTo(c, pc) == wpc' = [wpc EXCEPT ![c] = pc]

\* The worker reads its session.
WorkerStart(c) ==
  /\ wpc[c] = "start"
  /\ wfd' = [wfd EXCEPT ![c] = heap[c]]
  /\ WorkerGoesTo(c, "recv")
  /\ UNCHANGED <<main, listening, mconn, mfd, fdTable, heap, buf, copied, detached>>
  /\ UNCHANGED tcpVars

\* Mutant of RecvData: the buffer is static, hence shared by the workers.
RecvIntoSharedBuffer(c) ==
  /\ wpc[c] = "recv"
  /\ \E k \in Client :
       /\ k = Conn(c)
       /\ toSrv[k] # <<>>
       /\ buf' = [d \in Client |-> <<Head(toSrv[k])>>]
       /\ toSrv' = [toSrv EXCEPT ![k] = Tail(@)]
  /\ WorkerGoesTo(c, "send")
  /\ UNCHANGED <<main, listening, mconn, mfd, fdTable, heap, wfd, copied, detached>>
  /\ UNCHANGED <<acceptq, peer, sock, toCli, fin, rst, skerr, sent, rcvd>>

\* Mutant of RecvData: recv waits for a full buffer (MSG_WAITALL).
RecvWaitsForAll(c) ==
  /\ wpc[c] = "recv"
  /\ \E k \in Client :
       /\ k = Conn(c)
       /\ Len(toSrv[k]) >= RecvSize
       /\ buf' = [buf EXCEPT ![c] = SubSeq(toSrv[k], 1, RecvSize)]
       /\ toSrv' = [toSrv EXCEPT ![k] = SubSeq(@, RecvSize + 1, Len(@))]
  /\ copied' = [copied EXCEPT ![c] = FALSE]
  /\ WorkerGoesTo(c, "send")
  /\ UNCHANGED <<main, listening, mconn, mfd, fdTable, heap, wfd, detached>>
  /\ UNCHANGED <<acceptq, peer, sock, toCli, fin, rst, skerr, sent, rcvd>>

\* recv returns n > 0 bytes: what has arrived, at most RecvSize of it.  Bytes
\* that arrived before a reset are still returned.
RecvData(c) ==
  /\ wpc[c] = "recv"
  /\ \E k \in Client :
       /\ k = Conn(c)
       /\ \E n \in 1..Len(toSrv[k]) :
            /\ n <= RecvSize
            /\ buf' = [buf EXCEPT ![c] = SubSeq(toSrv[k], 1, n)]
            /\ toSrv' = [toSrv EXCEPT ![k] = SubSeq(@, n + 1, Len(@))]
  /\ copied' = [copied EXCEPT ![c] = FALSE]
  /\ WorkerGoesTo(c, "send")
  /\ UNCHANGED <<main, listening, mconn, mfd, fdTable, heap, wfd, detached>>
  /\ UNCHANGED <<acceptq, peer, sock, toCli, fin, rst, skerr, sent, rcvd>>

\* Mutant of RecvEof: only a negative result ends the loop.
RecvEofIgnored(c) ==
  /\ wpc[c] = "recv"
  /\ \E k \in Client : k = Conn(c) /\ toSrv[k] = <<>> /\ fin[k]
  /\ UNCHANGED vars

\* recv returns 0: the client closed and everything it sent was read.  A reset
\* that follows the FIN changes nothing for recv.
RecvEof(c) ==
  /\ wpc[c] = "recv"
  /\ \E k \in Client : k = Conn(c) /\ toSrv[k] = <<>> /\ fin[k]
  /\ WorkerGoesTo(c, "shutdown")
  /\ UNCHANGED <<main, listening, mconn, mfd, fdTable, heap, wfd, buf, copied, detached>>
  /\ UNCHANGED tcpVars

\* recv returns -1: the pending error, once the data is read, if no FIN came.
RecvError(c) ==
  /\ wpc[c] = "recv"
  /\ \E k \in Client :
       /\ k = Conn(c)
       /\ toSrv[k] = <<>>
       /\ ~fin[k]
       /\ skerr[k] # "none"
       /\ skerr' = [skerr EXCEPT ![k] = "none"]
  /\ WorkerGoesTo(c, "shutdown")
  /\ UNCHANGED <<main, listening, mconn, mfd, fdTable, heap, wfd, buf, copied, detached>>
  /\ UNCHANGED <<acceptq, peer, sock, toSrv, toCli, fin, rst, sent, rcvd>>

\* Mutant of SendCopies: send does not block (the short count is ignored).
SendDropsTheRest(c) ==
  /\ wpc[c] = "send"
  /\ \E k \in Client :
       /\ k = Conn(c)
       /\ skerr[k] = "none"
       /\ Len(toCli[k]) < SockBuf
       /\ toCli' = [toCli EXCEPT ![k] = Append(@, Head(buf[c]))]
  /\ buf' = [buf EXCEPT ![c] = <<>>]
  /\ WorkerGoesTo(c, "recv")
  /\ UNCHANGED <<main, listening, mconn, mfd, fdTable, heap, wfd, copied, detached>>
  /\ UNCHANGED <<acceptq, peer, sock, toSrv, fin, rst, skerr, sent, rcvd>>

\* Mutant of SendCopies: one message per session.
SendThenEnds(c) ==
  /\ wpc[c] = "send"
  /\ \E k \in Client :
       /\ k = Conn(c)
       /\ skerr[k] = "none"
       /\ Len(toCli[k]) + Len(buf[c]) <= SockBuf
       /\ toCli' = [toCli EXCEPT ![k] = @ \o buf[c]]
  /\ buf' = [buf EXCEPT ![c] = <<>>]
  /\ WorkerGoesTo(c, "shutdown")
  /\ UNCHANGED <<main, listening, mconn, mfd, fdTable, heap, wfd, copied, detached>>
  /\ UNCHANGED <<acceptq, peer, sock, toSrv, fin, rst, skerr, sent, rcvd>>

\* send copies what fits into the socket's buffer; it returns once everything
\* is copied and blocks while nothing fits.
SendCopies(c) ==
  /\ wpc[c] = "send"
  /\ \E k \in Client :
       /\ k = Conn(c)
       /\ skerr[k] = "none"
       /\ Len(toCli[k]) < SockBuf
       /\ LET room == SockBuf - Len(toCli[k])
              n == IF Len(buf[c]) <= room THEN Len(buf[c]) ELSE room
          IN  /\ toCli' = [toCli EXCEPT ![k] = @ \o SubSeq(buf[c], 1, n)]
              /\ buf' = [buf EXCEPT ![c] = SubSeq(@, n + 1, Len(@))]
              /\ WorkerGoesTo(c, IF n = Len(buf[c]) THEN "recv" ELSE "send")
  /\ copied' = [copied EXCEPT ![c] = TRUE]
  /\ UNCHANGED <<main, listening, mconn, mfd, fdTable, heap, wfd, detached>>
  /\ UNCHANGED <<acceptq, peer, sock, toSrv, fin, rst, skerr, sent, rcvd>>

\* The connection is reset while send waits for room: send returns the count
\* copied so far, which the protocol loop takes for success.  The rest of the
\* buffer is overwritten by the next recv.
SendReturnsShort(c) ==
  /\ wpc[c] = "send"
  /\ copied[c]
  /\ \E k \in Client : k = Conn(c) /\ skerr[k] # "none"
  /\ buf' = [buf EXCEPT ![c] = <<>>]
  /\ WorkerGoesTo(c, "recv")
  /\ UNCHANGED <<main, listening, mconn, mfd, fdTable, heap, wfd, copied, detached>>
  /\ UNCHANGED tcpVars

\* send returns -1: the protocol loop ends.
SendFails(c) ==
  /\ wpc[c] = "send"
  /\ ~copied[c]
  /\ \E k \in Client :
       /\ k = Conn(c)
       /\ skerr[k] = "ECONNRESET"
       /\ skerr' = [skerr EXCEPT ![k] = "none"]
  /\ buf' = [buf EXCEPT ![c] = <<>>]
  /\ WorkerGoesTo(c, "shutdown")
  /\ UNCHANGED <<main, listening, mconn, mfd, fdTable, heap, wfd, copied, detached>>
  /\ UNCHANGED <<acceptq, peer, sock, toSrv, toCli, fin, rst, sent, rcvd>>

\* shutdown(client_fd, SHUT_RDWR).
WorkerShutdown(c) ==
  /\ wpc[c] = "shutdown"
  /\ \E k \in Client : k = Conn(c) /\ sock' = [sock EXCEPT ![k] = "shut"]
  /\ WorkerGoesTo(c, "close")
  /\ UNCHANGED <<main, listening, mconn, mfd, fdTable, heap, wfd, buf, copied, detached>>
  /\ UNCHANGED <<acceptq, peer, toSrv, toCli, fin, rst, skerr, sent, rcvd>>

\* close(client_fd).
WorkerClose(c) ==
  /\ wpc[c] = "close"
  /\ \E k \in Client : k = Conn(c) /\ sock' = [sock EXCEPT ![k] = "closed"]
  /\ fdTable' = [fdTable EXCEPT ![wfd[c]] = NoConn]
  /\ WorkerGoesTo(c, "free")
  /\ UNCHANGED <<main, listening, mconn, mfd, heap, wfd, buf, copied, detached>>
  /\ UNCHANGED <<acceptq, peer, toSrv, toCli, fin, rst, skerr, sent, rcvd>>

\* free(session), and the thread exits.
WorkerFree(c) ==
  /\ wpc[c] = "free"
  /\ heap' = [heap EXCEPT ![c] = NoFd]
  /\ WorkerGoesTo(c, "done")
  /\ UNCHANGED <<main, listening, mconn, mfd, fdTable, wfd, buf, copied, detached>>
  /\ UNCHANGED tcpVars

\* A send that has copied nothing fails with EPIPE.  Nothing in src/ ignores or
\* handles SIGPIPE and the call does not pass MSG_NOSIGNAL: the default action
\* ends the whole process.
WorkerSigpipe(c) ==
  /\ wpc[c] = "send"
  /\ ~copied[c]
  /\ \E k \in Client : k = Conn(c) /\ skerr[k] = "EPIPE"
  /\ ProcessEnds("sigpipe")

Worker(c) == \/ WorkerStart(c) \/ RecvData(c) \/ RecvEof(c) \/ RecvError(c)
             \/ SendCopies(c) \/ SendReturnsShort(c) \/ SendFails(c)
             \/ WorkerSigpipe(c)
             \/ WorkerShutdown(c) \/ WorkerClose(c) \/ WorkerFree(c)

-------------------------------------------------------------------------------
(* The clients and TCP.                                                    *)

\* connect: the handshake is completed by the kernel once the server listens.
\* The accept queue takes one connection more than the backlog.
Connect(c) ==
  /\ peer[c] = "idle"
  /\ main \in LoopPc
  /\ Len(acceptq) <= Backlog
  /\ peer' = [peer EXCEPT ![c] = "open"]
  /\ sock' = [sock EXCEPT ![c] = "estab"]
  /\ acceptq' = Append(acceptq, c)
  /\ UNCHANGED <<toSrv, toCli, fin, rst, skerr, sent, rcvd>>
  /\ UNCHANGED serverVars

\* The client sends a byte to a server that still holds the connection.
ClientSends(c) ==
  /\ peer[c] = "open"
  /\ sock[c] = "estab"
  /\ Len(sent[c]) < MaxBytes
  /\ \E b \in Byte :
       /\ sent' = [sent EXCEPT ![c] = Append(@, b)]
       /\ toSrv' = [toSrv EXCEPT ![c] = Append(@, b)]
  /\ UNCHANGED <<acceptq, peer, sock, toCli, fin, rst, skerr, rcvd>>
  /\ UNCHANGED serverVars

\* The client reads a byte.
ClientReads(c) ==
  /\ peer[c] = "open"
  /\ toCli[c] # <<>>
  /\ rcvd' = [rcvd EXCEPT ![c] = Append(@, Head(toCli[c]))]
  /\ toCli' = [toCli EXCEPT ![c] = Tail(@)]
  /\ UNCHANGED <<acceptq, peer, sock, toSrv, fin, rst, skerr, sent>>
  /\ UNCHANGED serverVars

\* The client closes: its FIN follows what it sent.
ClientCloses(c) ==
  /\ peer[c] = "open"
  /\ peer' = [peer EXCEPT ![c] = "closed"]
  /\ fin' = [fin EXCEPT ![c] = TRUE]
  /\ UNCHANGED <<acceptq, sock, toSrv, toCli, rst, skerr, sent, rcvd>>
  /\ UNCHANGED serverVars

\* The client closes with bytes it has not read: its kernel sends a reset
\* instead of a FIN and drops what it has not transmitted yet.
ClientAborts(c) ==
  /\ peer[c] = "open"
  /\ toCli[c] # <<>>
  /\ peer' = [peer EXCEPT ![c] = "closed"]
  /\ rst' = [rst EXCEPT ![c] = "sent"]
  /\ \E n \in 0..Len(toSrv[c]) : toSrv' = [toSrv EXCEPT ![c] = SubSeq(@, 1, n)]
  /\ UNCHANGED <<acceptq, sock, toCli, fin, skerr, sent, rcvd>>
  /\ UNCHANGED serverVars

\* Bytes reach a client that has closed: they are answered with a reset.
PeerResets(c) ==
  /\ peer[c] = "closed"
  /\ rst[c] = "none"
  /\ toCli[c] # <<>>
  /\ sock[c] = "estab"
  /\ rst' = [rst EXCEPT ![c] = "sent"]
  /\ UNCHANGED <<acceptq, peer, sock, toSrv, toCli, fin, skerr, sent, rcvd>>
  /\ UNCHANGED serverVars

\* The reset reaches the server's socket: a connection whose FIN was received
\* fails with EPIPE, another with ECONNRESET; unsent bytes are dropped.
ResetArrives(c) ==
  /\ rst[c] = "sent"
  /\ sock[c] = "estab"
  /\ rst' = [rst EXCEPT ![c] = "arrived"]
  /\ skerr' = [skerr EXCEPT ![c] = IF fin[c] THEN "EPIPE" ELSE "ECONNRESET"]
  /\ toCli' = [toCli EXCEPT ![c] = <<>>]
  /\ UNCHANGED <<acceptq, peer, sock, toSrv, fin, sent, rcvd>>
  /\ UNCHANGED serverVars

User(c) == Connect(c) \/ ClientSends(c) \/ ClientCloses(c) \/ ClientAborts(c)
Tcp(c)  == PeerResets(c) \/ ResetArrives(c)

Next ==
  \/ Main
  \/ \E c \in Client : Worker(c)
  \/ Sigint
  \/ \E c \in Client : User(c) \/ ClientReads(c) \/ Tcp(c)

Spec == Init /\ [][Next]_vars

-------------------------------------------------------------------------------
(* Safety.                                                                 *)

Running == main \in SetupPc \cup LoopPc

\* The descriptor worker c works with; before it has run, the one its session
\* will give it.
FdOfWorker(c) == IF wpc[c] = "start" THEN heap[c] ELSE wfd[c]

\* A worker that has not closed its connection yet holds an open descriptor
\* of its own client's connection, although descriptor numbers are reused as
\* soon as another worker closes (lines 60-75, 137, 158-163): no session ever
\* serves another session's client, and no thread uses a freed session.
OwnConnection ==
  \A c \in Client : wpc[c] \in ServingPc =>
    /\ FdOfWorker(c) \in Fd
    /\ fdTable[FdOfWorker(c)] = c

\* Every open connection descriptor has an owner that is going to close it:
\* the main thread between accept and pthread_create, or the worker.  No error
\* path of the accept loop (lines 153-168) leaks one.
NoLeakedFd ==
  \A f \in Fd : fdTable[f] # NoConn =>
    \/ main \in {"malloc", "create"} /\ mfd = f /\ mconn = fdTable[f]
    \/ \E c \in Client : /\ wpc[c] \in ServingPc
                         /\ FdOfWorker(c) = f
                         /\ fdTable[f] = c

\* A session_t is allocated exactly while the thread that will free it needs
\* it: from malloc (line 152) to pthread_create in the main thread, then until
\* free in its worker (line 77).  And a worker that has exited was detached,
\* or is about to be: none is left joinable for ever.
SessionOwned ==
  \A c \in Client :
    /\ heap[c] # NoFd <=> wpc[c] \in LivePc \/ (main = "create" /\ mconn = c)
    /\ wpc[c] = "done" => c \in detached \/ (main = "detach" /\ mconn = c)

\* As long as the connection of a client was not reset, every byte it sent is
\* in exactly one place, in order: read back by it, on its way back, in its
\* worker's buffer, or not yet received.  Short receives, sends that block
\* half-way and any interleaving of the workers lose, duplicate and reorder
\* nothing.
Orderly(c) == rst[c] = "none" \/ (rst[c] = "sent" /\ fin[c])

NothingLost ==
  Running => \A c \in Client : Orderly(c) =>
    sent[c] = Stream(rcvd[c], toCli[c], buf[c], toSrv[c])

\* A worker ends the session of a client that closed in an orderly way (line
\* 35) only after it has echoed everything that client ever sent.
EchoedBeforeClose ==
  \A c \in Client :
    (wpc[c] \in {"shutdown", "close", "free", "done"} /\ Orderly(c)) =>
       sent[c] = rcvd[c] \o toCli[c]

\* The server is what an echo service should be: whatever happens to the
\* connections, each client reads back a prefix of its own stream.
Echo == INSTANCE EchoStreams WITH echoed <- rcvd
EchoSpec == Echo!Spec

-------------------------------------------------------------------------------
(* What makes the invariants above inductive.                              *)

HasConn == main \in {"malloc", "create", "detach"}

\* What the main thread's locals mean between accept and the next accept.
MainLocals ==
  /\ HasConn => mconn \in Client
  /\ main \in {"malloc", "create"} =>
       mfd \in Fd /\ fdTable[mfd] = mconn /\ wpc[mconn] = "none"
  /\ main = "create" => heap[mconn] = mfd
  /\ main = "detach" => wpc[mconn] # "none"

\* A connection waiting to be accepted is waiting once and has no worker.
Waiting ==
  \A i \in 1..Len(acceptq) :
    /\ peer[acceptq[i]] # "idle"
    /\ wpc[acceptq[i]] = "none"
    /\ HasConn => mconn # acceptq[i]
    /\ \A j \in 1..Len(acceptq) : acceptq[i] = acceptq[j] => i = j

\* A client that has not connected is known to nobody.
Unconnected ==
  \A c \in Client : peer[c] = "idle" =>
    /\ wpc[c] = "none"
    /\ HasConn => mconn # c

\* Every worker was detached or is about to be.
Detached ==
  \A c \in Client : wpc[c] # "none" =>
    c \in detached \/ (main = "detach" /\ mconn = c)

OwnerInv == /\ MainLocals /\ Waiting /\ Unconnected /\ Detached
            /\ OwnConnection /\ NoLeakedFd /\ SessionOwned

\* What the state of a connection says of the client and of the process.
TcpInv ==
  \A c \in Client :
    /\ skerr[c] # "none" => rst[c] = "arrived"
    /\ rst[c] # "none" \/ fin[c] => peer[c] = "closed"
    /\ main \notin LoopPc => sock[c] # "estab"

\* A buffer holds something only while it is being sent, a worker that is
\* ending an orderly session has nothing left to receive, and workers exist
\* only while the main thread accepts connections.
WorkerInv ==
  \A c \in Client :
    /\ wpc[c] # "send" => buf[c] = <<>>
    /\ wpc[c] \in {"shutdown", "close", "free", "done"} /\ Orderly(c) =>
         toSrv[c] = <<>> /\ fin[c]
    /\ main \notin LoopPc => wpc[c] = "none"

\* What a client has read, and then what is on its way to it, starts what it
\* sent, even after the process has ended.
Prefixes ==
  \A c \in Client : Orderly(c) =>
    \E rest \in Seq(Byte) : sent[c] = Stream(rcvd[c], toCli[c], <<>>, rest)

StreamInv == TcpInv /\ WorkerInv /\ NothingLost /\ Prefixes

-------------------------------------------------------------------------------
(* Liveness.  The threads are scheduled, the network delivers, and clients *)
(* that keep a connection open read from it.  Nothing makes a client send  *)
(* or close, and nothing makes a user press Ctrl+C.                        *)

Fairness ==
  /\ WF_vars(Main)
  /\ \A c \in Client : WF_vars(Worker(c)) /\ WF_vars(Tcp(c)) /\ WF_vars(ClientReads(c))

FairSpec == Spec /\ Fairness

\* A byte sent to a client's worker comes back, unless the client closes or
\* the process ends.
EveryByteEchoed ==
  \A c \in Client, n \in 1..MaxBytes :
    (wpc[c] \in LivePc /\ Len(sent[c]) >= n)
      ~> (Len(rcvd[c]) >= n \/ peer[c] = "closed" \/ main \in Ended)

\* After all clients have closed, in whatever way and even while still waiting
\* to be accepted, the server gives back every descriptor and every session:
\* no worker stays blocked in recv or send on a dead connection, and running
\* out of descriptors is not for ever.
AllReleased ==
  (\A c \in Client : peer[c] = "closed" )
    ~> (/\ acceptq = <<>>
        /\ \A f \in Fd : fdTable[f] = NoConn
        /\ \A c \in Client : heap[c] = NoFd)

\* What docs/socket/socket.md:84 says: a client that goes away does not bring
\* the server down through SIGPIPE.
NeverSigpipe == main # "sigpipe"
===============================================================================
