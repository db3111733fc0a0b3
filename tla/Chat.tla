--------------------------------- MODULE Chat ---------------------------------
(***************************************************************************)
(* The two-way chat: the process of modules/socket/socket_server.c (the    *)
(* host, which serves one connection) and that of socket_client.c, joined  *)
(* by a TCP connection.  Each process has two threads: main reads what the *)
(* user types, and sends it; the receiver shows what arrives, and ends the *)
(* whole process with _exit when the connection ends.  They share the      *)
(* descriptor, input_buffer, the terminal mode and the screen.             *)
(*                                                                         *)
(* What a thread does while it holds input_mutex is one step: the sections *)
(* neither block nor nest.  Standard input is a terminal or a pipe.        *)
(*                                                                         *)
(* External: the users, and TCP as seen through connect, accept, recv,     *)
(* send, shutdown and close.                                               *)
(***************************************************************************)
EXTENDS Naturals, Sequences, SequencesExt, ByteStreams

CONSTANTS Terminal,  \* the processes whose standard input is a terminal
          Char,      \* what lines are made of
          CR,        \* the carriage return, which no user can type
          ExitLine,  \* the line "exit"
          MaxLine,   \* characters of a line: sizeof(input_buffer) - 1
          MaxSaid    \* bound: characters a user sends

Peer == {"host", "client"}
Other(p) == IF p = "host" THEN "client" ELSE "host"

Line == UNION {[1..n -> Char] : n \in 1..MaxLine}

Plain(s) == CR \notin Range(s)

ASSUME ChatAssumption ==
  /\ Terminal \subseteq {"host", "client"}
  /\ MaxLine \in Nat
  /\ CR \in Char
  /\ ExitLine \in Line /\ Plain(ExitLine)

ASSUME BoundAssumption == MaxSaid \in [Peer -> Nat]

\* is_interactive: isatty(0).
tty(p) == p \in Terminal

VARIABLES
  main,      \* where the main thread is, or how the process ended
  rcv,       \* where the receiver thread is
  term,      \* the mode the terminal is in
  orig,      \* orig_termios, static and zeroed until saved
  input,     \* input_buffer up to input_len, or the local input of a pipe
  line,      \* the characters on the terminal's last line, prompts left out
  chunk,     \* the receiver's buffer
  gone,      \* the client's disconnected_printed
  farewells  \* how often the client told its user that the chat is over

processVars == <<main, rcv, term, orig, input, line, chunk, gone, farewells>>

VARIABLES
  listening, \* the host's server_fd listens
  sock,      \* a process's end of the connection: none, open, shut, closed
  inbox,     \* what has arrived in a process's socket and was not received
  fin,       \* a process has sent a FIN
  err,       \* the reset of a process's connection: none, sent, the error, taken
  said,      \* everything a process has sent
  heard,     \* history: everything a process has received, and shown or cut off
  shown      \* everything a process has shown of what the other sent

tcpVars == <<listening, sock, inbox, fin, err, said, heard, shown>>
vars == <<main, rcv, term, orig, input, line, chunk, gone, farewells,
          listening, sock, inbox, fin, err, said, heard, shown>>

Ended   == {"returned", "exited", "sigpipe"}
MainPc  == {"start", "accept", "create", "save", "raw", "read", "send", "show",
            "reset", "bye", "shutdown", "close", "restore", "return"}
RcvPc   == {"none", "recv", "show", "eof", "error", "exit", "shutdown", "close",
            "restore", "_exit"}

TypeOK ==
  /\ main \in [Peer -> MainPc \cup Ended]
  /\ rcv \in [Peer -> RcvPc]
  /\ term \in [Peer -> {"cooked", "raw", "zeroed"}]
  /\ orig \in [Peer -> {"cooked", "raw", "zeroed"}]
  /\ input \in [Peer -> Line \cup {<<>>}]
  /\ line \in [Peer -> Seq(Char)]
  /\ chunk \in [Peer -> Seq(Char)]
  /\ gone \in BOOLEAN
  /\ farewells \in 0..2
  /\ listening \in BOOLEAN
  /\ sock \in [Peer -> {"none", "open", "shut", "closed"}]
  /\ inbox \in [Peer -> Seq(Char)]
  /\ fin \in [Peer -> BOOLEAN]
  /\ err \in [Peer -> {"none", "sent", "ECONNRESET", "EPIPE", "taken"}]
  /\ said \in [Peer -> Seq(Char)]
  /\ heard \in [Peer -> Seq(Char)]
  /\ shown \in [Peer -> Seq(Char)]

Init ==
  /\ main = [p \in Peer |-> "start"]
  /\ rcv = [p \in Peer |-> "none"]
  /\ term = [p \in Peer |-> "cooked"]
  /\ orig = [p \in Peer |-> "zeroed"]
  /\ input = [p \in Peer |-> <<>>]
  /\ line = [p \in Peer |-> <<>>]
  /\ chunk = [p \in Peer |-> <<>>]
  /\ gone = FALSE
  /\ farewells = 0
  /\ listening = FALSE
  /\ sock = [p \in Peer |-> "none"]
  /\ inbox = [p \in Peer |-> <<>>]
  /\ fin = [p \in Peer |-> FALSE]
  /\ err = [p \in Peer |-> "none"]
  /\ said = [p \in Peer |-> <<>>]
  /\ heard = [p \in Peer |-> <<>>]
  /\ shown = [p \in Peer |-> <<>>]

Running(p) == main[p] \in MainPc

-------------------------------------------------------------------------------
(* TCP.                                                                    *)

\* The other side, if it still has its connection, is sent a reset.
ResetSentTo(q) ==
  IF sock[q] \in {"open", "shut"} /\ err[q] = "none"
    THEN [err EXCEPT ![q] = "sent"] ELSE err

\* close: with bytes that were not received the connection is reset; otherwise
\* a FIN is sent, unless shutdown has sent it.
SocketClosed(p) ==
  /\ sock' = [sock EXCEPT ![p] = IF @ = "none" THEN "none" ELSE "closed"]
  /\ IF sock[p] \in {"open", "shut"} /\ inbox[p] # <<>>
       THEN err' = ResetSentTo(Other(p)) /\ UNCHANGED fin
       ELSE fin' = [fin EXCEPT ![p] = @ \/ sock[p] = "open"] /\ UNCHANGED err

\* The process ends: returned from main, _exit, or killed by SIGPIPE.  The
\* kernel closes what is open and the memory is gone; a connection nobody
\* accepted is reset.  The terminal stays in its mode.
ProcessEnds(p, how) ==
  /\ main' = [main EXCEPT ![p] = how]
  /\ rcv' = [rcv EXCEPT ![p] = "none"]
  /\ IF p = "host" /\ sock["host"] = "none"
       THEN err' = ResetSentTo("client") /\ UNCHANGED <<sock, fin>>
       ELSE SocketClosed(p)
  /\ listening' = (listening /\ p # "host")
  /\ orig' = [orig EXCEPT ![p] = "zeroed"]
  /\ input' = [input EXCEPT ![p] = <<>>]
  /\ line' = [line EXCEPT ![p] = <<>>]
  /\ chunk' = [chunk EXCEPT ![p] = <<>>]
  /\ inbox' = [inbox EXCEPT ![p] = <<>>]
  /\ UNCHANGED <<term, gone, farewells, said, heard, shown>>

\* The reset reaches p's socket: EPIPE if the other's FIN came first and p has
\* sent none.
ResetArrives(p) ==
  /\ err[p] = "sent"
  /\ sock[p] \in {"open", "shut"}
  /\ err' = [err EXCEPT ![p] = IF fin[Other(p)] /\ ~fin[p] THEN "EPIPE" ELSE "ECONNRESET"]
  /\ UNCHANGED <<listening, sock, inbox, fin, said, heard, shown>>
  /\ UNCHANGED processVars

-------------------------------------------------------------------------------
(* The main thread, up to the chat: socket_mgr_server_start and            *)
(* socket_mgr_client_start.                                                *)

MainGoesTo(p, pc) == main' = [main EXCEPT ![p] = pc]

\* socket, setsockopt, bind and listen.
HostListens ==
  /\ main["host"] = "start"
  /\ listening' = TRUE
  /\ MainGoesTo("host", "accept")
  /\ UNCHANGED <<sock, inbox, fin, err, said, heard, shown>>
  /\ UNCHANGED <<rcv, term, orig, input, line, chunk, gone, farewells>>

\* connect reaches a listening host; the kernel completes the handshake.
ClientConnects ==
  /\ main["client"] = "start"
  /\ listening
  /\ sock' = [sock EXCEPT !["client"] = "open"]
  /\ MainGoesTo("client", "create")
  /\ UNCHANGED <<listening, inbox, fin, err, said, heard, shown>>
  /\ UNCHANGED <<rcv, term, orig, input, line, chunk, gone, farewells>>

\* accept, called once.
HostAccepts ==
  /\ main["host"] = "accept"
  /\ sock["client"] # "none"
  /\ sock' = [sock EXCEPT !["host"] = "open"]
  /\ MainGoesTo("host", "create")
  /\ UNCHANGED <<listening, inbox, fin, err, said, heard, shown>>
  /\ UNCHANGED <<rcv, term, orig, input, line, chunk, gone, farewells>>

\* One of these calls fails: what is open is closed, and the function returns.
SetupFails(p) ==
  /\ \/ main[p] = "start" /\ (p = "client" => ~listening)
     \/ main[p] = "accept" /\ sock["client"] # "none"
     \/ main[p] = "create"
  /\ ProcessEnds(p, "returned")

\* pthread_create starts the receiver thread.
StartReceiver(p) ==
  /\ main[p] = "create"
  /\ rcv' = [rcv EXCEPT ![p] = "recv"]
  /\ MainGoesTo(p, IF tty(p) THEN "save" ELSE "read")
  /\ UNCHANGED <<term, orig, input, line, chunk, gone, farewells>>
  /\ UNCHANGED tcpVars

\* set_conio_terminal_mode: tcgetattr into orig_termios ...
SaveTerminal(p) ==
  /\ main[p] = "save"
  /\ orig' = [orig EXCEPT ![p] = term[p]]
  /\ MainGoesTo(p, "raw")
  /\ UNCHANGED <<rcv, term, input, line, chunk, gone, farewells>>
  /\ UNCHANGED tcpVars

\* ... and tcsetattr without ICANON and ECHO; then the first prompt.
RawTerminal(p) ==
  /\ main[p] = "raw"
  /\ term' = [term EXCEPT ![p] = "raw"]
  /\ MainGoesTo(p, "read")
  /\ UNCHANGED <<rcv, orig, input, line, chunk, gone, farewells>>
  /\ UNCHANGED tcpVars

-------------------------------------------------------------------------------
(* The main thread: the loop that reads standard input.                    *)

\* Mutant of Key: the buffer takes one character too many.
KeyOverruns(p) ==
  /\ main[p] = "read" /\ tty(p)
  /\ Len(input[p]) <= MaxLine
  /\ \E c \in Char \ {CR} : /\ input' = [input EXCEPT ![p] = Append(@, c)]
                             /\ line' = [line EXCEPT ![p] = Append(@, c)]
  /\ UNCHANGED <<main, rcv, term, orig, chunk, gone, farewells>>
  /\ UNCHANGED tcpVars

\* A printable character of a terminal goes into input_buffer and is echoed.
Key(p) ==
  /\ main[p] = "read" /\ tty(p)
  /\ Len(input[p]) < MaxLine
  /\ Len(said[p]) + Len(input[p]) < MaxSaid[p]
  /\ \E c \in Char \ {CR} : /\ input' = [input EXCEPT ![p] = Append(@, c)]
                             /\ line' = [line EXCEPT ![p] = Append(@, c)]
  /\ UNCHANGED <<main, rcv, term, orig, chunk, gone, farewells>>
  /\ UNCHANGED tcpVars

\* Backspace takes the last character from input_buffer and from the line.
Backspace(p) ==
  /\ main[p] = "read" /\ tty(p)
  /\ input[p] # <<>>
  /\ input' = [input EXCEPT ![p] = Front(@)]
  /\ line' = [line EXCEPT ![p] = IF @ = <<>> THEN @ ELSE Front(@)]
  /\ UNCHANGED <<main, rcv, term, orig, chunk, gone, farewells>>
  /\ UNCHANGED tcpVars

\* Enter, on an input that is not empty.
Enter(p) ==
  /\ main[p] = "read" /\ tty(p)
  /\ input[p] # <<>>
  /\ MainGoesTo(p, "send")
  /\ UNCHANGED <<rcv, term, orig, input, line, chunk, gone, farewells>>
  /\ UNCHANGED tcpVars

\* fgets returns a line of a pipe, which is not empty; the host cuts it off at the
\* first CR, the client does not.
Fgets(p) ==
  /\ main[p] = "read" /\ ~tty(p)
  /\ \E l \in Line : /\ p = "host" => Plain(l)
                    /\ Len(said[p]) + Len(l) <= MaxSaid[p]
                    /\ input' = [input EXCEPT ![p] = l]
  /\ MainGoesTo(p, "send")
  /\ UNCHANGED <<rcv, term, orig, line, chunk, gone, farewells>>
  /\ UNCHANGED tcpVars

\* read or fgets finds the end of the input: the loop ends.
Eof(p) ==
  /\ main[p] = "read"
  /\ MainGoesTo(p, "shutdown")
  /\ UNCHANGED <<rcv, term, orig, input, line, chunk, gone, farewells>>
  /\ UNCHANGED tcpVars

\* A connection that was reset, or that the receiver has shut, takes nothing.
Broken(p) == sock[p] = "shut" \/ err[p] \in {"ECONNRESET", "EPIPE", "taken"}

\* send outside the mutex: the line reaches the other's socket, or is dropped
\* and answered with a reset if the other has shut or closed it.
SendOk(p) ==
  /\ main[p] = "send"
  /\ sock[p] = "open" /\ ~Broken(p)
  /\ said' = [said EXCEPT ![p] = @ \o input[p]]
  /\ IF sock[Other(p)] = "open" \/ (listening /\ sock[Other(p)] = "none")
       THEN /\ inbox' = [inbox EXCEPT ![Other(p)] = @ \o input[p]]
            /\ UNCHANGED err
       ELSE /\ err' = [err EXCEPT ![p] = "sent"]
            /\ UNCHANGED inbox
  /\ MainGoesTo(p, "show")
  /\ UNCHANGED <<rcv, term, orig, input, line, chunk, gone, farewells>>
  /\ UNCHANGED <<listening, sock, fin, heard, shown>>

\* send returns -1, for a reset or because the receiver closed the descriptor:
\* the loop ends.
SendFails(p) ==
  /\ main[p] = "send"
  /\ sock[p] = "closed" \/ err[p] = "ECONNRESET"
  /\ err' = [err EXCEPT ![p] = IF sock[p] = "closed" THEN @ ELSE "taken"]
  /\ MainGoesTo(p, "shutdown")
  /\ UNCHANGED <<rcv, term, orig, input, line, chunk, gone, farewells>>
  /\ UNCHANGED <<listening, sock, inbox, fin, said, heard, shown>>

\* EPIPE, without MSG_NOSIGNAL and with SIGPIPE at its default: the process is
\* killed.
SendSigpipe(p) ==
  /\ main[p] = "send"
  /\ sock[p] # "closed" /\ Broken(p) /\ err[p] # "ECONNRESET"
  /\ ProcessEnds(p, "sigpipe")

\* The own line is printed, under the mutex; on a terminal the cursor is then
\* on a new line.
ShowOwnLine(p) ==
  /\ main[p] = "show"
  /\ line' = [line EXCEPT ![p] = <<>>]
  /\ MainGoesTo(p, "reset")
  /\ UNCHANGED <<rcv, term, orig, input, chunk, gone, farewells>>
  /\ UNCHANGED tcpVars

\* input_buffer is emptied under the mutex, and the next prompt printed where
\* the cursor is, unless the line was "exit".
ResetInput(p) ==
  /\ main[p] = "reset"
  /\ input' = [input EXCEPT ![p] = <<>>]
  /\ MainGoesTo(p, IF input[p] # ExitLine THEN "read"
                   ELSE IF p = "client" THEN "bye" ELSE "shutdown")
  /\ UNCHANGED <<rcv, term, orig, line, chunk, gone, farewells>>
  /\ UNCHANGED tcpVars

\* The client tells its user that the chat is over, unless that was done.
Farewell ==
  /\ farewells' = IF gone THEN farewells ELSE farewells + 1
  /\ gone' = TRUE

\* Mutant of Bye: disconnected_printed is not tested.
ByeUntested ==
  /\ main["client"] = "bye"
  /\ farewells' = farewells + 1
  /\ gone' = TRUE
  /\ MainGoesTo("client", "shutdown")
  /\ UNCHANGED <<rcv, term, orig, input, line, chunk>>
  /\ UNCHANGED tcpVars

\* The client's main thread after its own "exit".
Bye ==
  /\ main["client"] = "bye"
  /\ Farewell
  /\ MainGoesTo("client", "shutdown")
  /\ UNCHANGED <<rcv, term, orig, input, line, chunk>>
  /\ UNCHANGED tcpVars

\* shutdown(SHUT_RDWR): a FIN is sent, and a recv that waits returns.
SocketShut(p) ==
  /\ sock' = [sock EXCEPT ![p] = IF @ = "open" THEN "shut" ELSE @]
  /\ fin' = [fin EXCEPT ![p] = @ \/ sock[p] = "open"]

MainShutdown(p) ==
  /\ main[p] = "shutdown"
  /\ SocketShut(p)
  /\ MainGoesTo(p, "close")
  /\ UNCHANGED <<rcv, term, orig, input, line, chunk, gone, farewells>>
  /\ UNCHANGED <<listening, inbox, err, said, heard, shown>>

\* close of the connection and, in the host, of server_fd.
MainClose(p) ==
  /\ main[p] = "close"
  /\ SocketClosed(p)
  /\ listening' = (listening /\ p # "host")
  /\ MainGoesTo(p, "restore")
  /\ UNCHANGED <<rcv, term, orig, input, line, chunk, gone, farewells>>
  /\ UNCHANGED <<inbox, said, heard, shown>>

\* reset_terminal_mode: tcsetattr of orig_termios.
Restored(p) == term' = [term EXCEPT ![p] = IF tty(p) THEN orig[p] ELSE @]

MainRestore(p) ==
  /\ main[p] = "restore"
  /\ Restored(p)
  /\ MainGoesTo(p, "return")
  /\ UNCHANGED <<rcv, orig, input, line, chunk, gone, farewells>>
  /\ UNCHANGED tcpVars

\* The function returns, and with it the process: direct mode of app/main.c.
MainReturns(p) == main[p] = "return" /\ ProcessEnds(p, "returned")

-------------------------------------------------------------------------------
(* The receiver thread: receiver_thread of both files.                     *)

RcvGoesTo(p, pc) == rcv' = [rcv EXCEPT ![p] = pc]

\* buffer[strcspn(buffer, "\r\n")] = 0: the text in a buffer.
Text(buffer) == Cut(buffer, CR)

\* Mutant of Recv: the bytes stay in the socket (MSG_PEEK).
RecvPeeks(p) ==
  /\ rcv[p] = "recv"
  /\ sock[p] \in {"open", "shut"}
  /\ inbox[p] # <<>>
  /\ chunk' = [chunk EXCEPT ![p] = inbox[p]]
  /\ RcvGoesTo(p, IF Text(inbox[p]) = ExitLine THEN "exit" ELSE "show")
  /\ UNCHANGED <<main, term, orig, input, line, gone, farewells>>
  /\ UNCHANGED tcpVars

\* Mutant of Recv: what does not fit into the buffer is discarded, as on a
\* datagram socket.
RecvTruncates(p) ==
  /\ rcv[p] = "recv"
  /\ sock[p] \in {"open", "shut"}
  /\ inbox[p] # <<>>
  /\ chunk' = [chunk EXCEPT ![p] = <<Head(inbox[p])>>]
  /\ inbox' = [inbox EXCEPT ![p] = <<>>]
  /\ RcvGoesTo(p, IF Text(<<Head(inbox[p])>>) = ExitLine THEN "exit" ELSE "show")
  /\ UNCHANGED <<main, term, orig, input, line, gone, farewells>>
  /\ UNCHANGED <<listening, sock, fin, err, said, heard, shown>>

\* recv returns a part of what has arrived: TCP keeps no line together and no
\* two lines apart.  The line "exit" is recognised only when nothing comes with
\* it but what is cut off.
Recv(p) ==
  /\ rcv[p] = "recv"
  /\ sock[p] \in {"open", "shut"}
  /\ \E n \in 1..Len(inbox[p]) :
       LET part == SubSeq(inbox[p], 1, n) IN
         /\ chunk' = [chunk EXCEPT ![p] = part]
         /\ inbox' = [inbox EXCEPT ![p] = SubSeq(@, n + 1, Len(@))]
         /\ RcvGoesTo(p, IF Text(part) = ExitLine THEN "exit" ELSE "show")
  /\ UNCHANGED <<main, term, orig, input, line, gone, farewells>>
  /\ UNCHANGED <<listening, sock, fin, err, said, heard, shown>>

\* recv returns 0: the other's FIN, or the shutdown of the own main thread.
\* The last disjunct: main closed the descriptor while recv was waiting.
AtEof(p) ==
  \/ /\ sock[p] \in {"open", "shut"} /\ inbox[p] = <<>>
     /\ fin[Other(p)] \/ (err[p] # "ECONNRESET" /\ Broken(p))
  \/ sock[p] = "closed"

\* Mutant of RecvEof: the loop goes on.
RecvEofGoesOn(p) ==
  /\ rcv[p] = "recv"
  /\ AtEof(p)
  /\ UNCHANGED vars

RecvEof(p) ==
  /\ rcv[p] = "recv"
  /\ AtEof(p)
  /\ RcvGoesTo(p, "eof")
  /\ UNCHANGED <<main, term, orig, input, line, chunk, gone, farewells>>
  /\ UNCHANGED tcpVars

\* recv returns -1: a reset, or main closed the descriptor before recv.
RecvError(p) ==
  /\ rcv[p] = "recv"
  /\ \/ /\ sock[p] \in {"open", "shut"} /\ inbox[p] = <<>>
        /\ ~fin[Other(p)] /\ err[p] = "ECONNRESET"
        /\ err' = [err EXCEPT ![p] = "taken"]
     \/ sock[p] = "closed" /\ UNCHANGED err
  /\ RcvGoesTo(p, "error")
  /\ UNCHANGED <<main, term, orig, input, line, chunk, gone, farewells>>
  /\ UNCHANGED <<listening, sock, inbox, fin, said, heard, shown>>

\* The text is printed, also when there is none, under the mutex; on a terminal
\* it replaces the last line, and the prompt and what the user has typed so far
\* are printed again.
ShowText(p) ==
  /\ rcv[p] = "show"
  /\ shown' = [shown EXCEPT ![p] = @ \o Text(chunk[p])]
  /\ heard' = [heard EXCEPT ![p] = @ \o chunk[p]]
  /\ line' = [line EXCEPT ![p] = IF tty(p) THEN input[p] ELSE @]
  /\ chunk' = [chunk EXCEPT ![p] = <<>>]
  /\ RcvGoesTo(p, "recv")
  /\ UNCHANGED <<main, term, orig, input, gone, farewells>>
  /\ UNCHANGED <<listening, sock, inbox, fin, err, said>>

\* The end is announced, under the mutex: by the client unless its main thread
\* has done so, by the host always.  An error message leaves
\* disconnected_printed alone.
ShowEnd(p) ==
  /\ rcv[p] \in {"eof", "exit", "error"}
  /\ IF p = "client" /\ rcv[p] # "error"
       THEN Farewell
       ELSE UNCHANGED <<gone, farewells>>
  /\ line' = [line EXCEPT ![p] = <<>>]
  /\ RcvGoesTo(p, "shutdown")
  /\ UNCHANGED <<main, term, orig, input, chunk>>
  /\ UNCHANGED tcpVars

RcvShutdown(p) ==
  /\ rcv[p] = "shutdown"
  /\ SocketShut(p)
  /\ RcvGoesTo(p, "close")
  /\ UNCHANGED <<main, term, orig, input, line, chunk, gone, farewells>>
  /\ UNCHANGED <<listening, inbox, err, said, heard, shown>>

\* close, also of a descriptor that main has closed; the host's server_fd too.
RcvClose(p) ==
  /\ rcv[p] = "close"
  /\ SocketClosed(p)
  /\ listening' = (listening /\ p # "host")
  /\ RcvGoesTo(p, "restore")
  /\ UNCHANGED <<main, term, orig, input, line, chunk, gone, farewells>>
  /\ UNCHANGED <<inbox, said, heard, shown>>

RcvRestore(p) ==
  /\ rcv[p] = "restore"
  /\ Restored(p)
  /\ RcvGoesTo(p, "_exit")
  /\ UNCHANGED <<main, orig, input, line, chunk, gone, farewells>>
  /\ UNCHANGED tcpVars

\* _exit(0) ends the process, whatever its main thread is doing.
RcvExits(p) == rcv[p] = "_exit" /\ ProcessEnds(p, "exited")

-------------------------------------------------------------------------------
\* What waits for the user, and what does not.
Typing(p) == Key(p) \/ Backspace(p) \/ Enter(p) \/ Fgets(p) \/ Eof(p)

Setup(p) ==
  \/ p = "host" /\ (HostListens \/ HostAccepts)
  \/ p = "client" /\ ClientConnects
  \/ SetupFails(p) \/ StartReceiver(p) \/ SaveTerminal(p) \/ RawTerminal(p)

Main(p) ==
  \/ Setup(p)
  \/ SendOk(p) \/ SendFails(p) \/ SendSigpipe(p) \/ ShowOwnLine(p) \/ ResetInput(p)
  \/ p = "client" /\ Bye
  \/ MainShutdown(p) \/ MainClose(p) \/ MainRestore(p) \/ MainReturns(p)

Receiver(p) ==
  \/ Recv(p) \/ RecvEof(p) \/ RecvError(p) \/ ShowText(p) \/ ShowEnd(p)
  \/ RcvShutdown(p) \/ RcvClose(p) \/ RcvRestore(p) \/ RcvExits(p)

Next == \E p \in Peer : Typing(p) \/ Main(p) \/ Receiver(p) \/ ResetArrives(p)

Spec == Init /\ [][Next]_vars

-------------------------------------------------------------------------------
(* Safety.                                                                 *)

\* Each screen shows the other's words, in order, nothing twice and nothing
\* skipped but what comes with a CR, however TCP cuts the stream and the threads
\* interleave.
Channels == INSTANCE ChatChannels
ChatSpec == Channels!Spec

\* The client's two threads, which both see the end of the chat, tell its user
\* of it at most once (disconnected_printed: socket_client.c lines 59-67,
\* 92-101, 228-233 and 282-287).
ToldOnce == farewells <= 1

\* A receiver that ends because the other side closed in an orderly way has
\* received all that the other side ever sent, as long as its own side was open,
\* and has shown all of it - unless the other is a client that reads lines with a
\* CR from a pipe: what arrives together with a CR and after it is cut off.
EverythingShown ==
  \A p \in Peer :
    (rcv[p] = "eof" /\ sock[p] = "open" /\ err[p] = "none")
      => /\ heard[p] = said[Other(p)]
         /\ p = "client" \/ tty("client") \/ Plain(said["client"]) => shown[p] = said[Other(p)]

\* What docs/socket/socket.md:181 says: before the process ends the terminal
\* is back in its normal mode.
TerminalRestored ==
  \A p \in Peer : main[p] \in Ended => term[p] = "cooked"

\* What docs/socket/socket.md:291 says: input_mutex makes the display safe.
\* While the chat goes on, a user at the prompt sees what input_buffer holds.
TypedTextShown ==
  \A p \in Peer :
    (tty(p) /\ main[p] = "read" /\ rcv[p] \in {"recv", "show"})
      => line[p] = input[p]

-------------------------------------------------------------------------------
(* Liveness.  The threads are scheduled and the network delivers.  No user *)
(* has to type.                                                            *)

FairSpec ==
  /\ Spec
  /\ \A p \in Peer : /\ WF_vars(Main(p))
                     /\ WF_vars(Receiver(p))
                     /\ WF_vars(ResetArrives(p))

\* When one of two connected processes ends, for whatever reason, so does the
\* other, even while its user types nothing.
BothLeave ==
  \A p \in Peer :
    (main[p] \in Ended /\ sock["client"] # "none") ~> main[Other(p)] \in Ended
===============================================================================
