----------------------------- MODULE EchoStreams -----------------------------
(***************************************************************************)
(* What an echo service promises to its clients, with no server in it: a   *)
(* client writes a stream of bytes and reads back the same stream, in      *)
(* order, nothing added, nothing from anybody else.  Reading may stop at   *)
(* any point (the connection may be lost), but never skips a byte.         *)
(***************************************************************************)
EXTENDS Naturals, Sequences

CONSTANTS Client,  \* the clients of the service
          Byte     \* the bytes they may write

VARIABLES sent,    \* sent[c]: the stream client c has written so far
          echoed   \* echoed[c]: the stream client c has read back so far

streams == <<sent, echoed>>

Init == /\ sent = [c \in Client |-> <<>>]
        /\ echoed = [c \in Client |-> <<>>]

\* Client c writes one more byte.
Write(c) == /\ \E b \in Byte : sent' = [sent EXCEPT ![c] = Append(@, b)]
            /\ UNCHANGED echoed

\* Client c reads back the next byte of its own stream.
ReadBack(c) ==
  LET next == Len(echoed[c]) + 1
  IN  /\ next <= Len(sent[c])
      /\ echoed' = [echoed EXCEPT ![c] = Append(@, sent[c][next])]
      /\ UNCHANGED sent

Next == \E c \in Client : Write(c) \/ ReadBack(c)

Spec == Init /\ [][Next]_streams
==============================================================================
