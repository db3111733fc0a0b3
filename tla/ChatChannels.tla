----------------------------- MODULE ChatChannels -----------------------------
(***************************************************************************)
(* What the two-way chat promises to its two users, with no sockets and no *)
(* threads in it: each user's screen shows what the other has said, piece  *)
(* by piece and in order, nothing twice and nothing skipped but the rest   *)
(* of a piece after a CR.  Lines may come glued together or cut, and       *)
(* showing may stop at any point.                                          *)
(***************************************************************************)
EXTENDS Naturals, Sequences, ByteStreams

CONSTANTS Line, \* the lines a user may send
          CR    \* the carriage return

Peer == {"host", "client"}
Other(p) == IF p = "host" THEN "client" ELSE "host"

VARIABLES said,   \* said[p]: the stream of what p has sent
          heard,  \* heard[p]: how far p's screen has come in the other's stream
          shown   \* shown[p]: what p's screen has shown of it

chat == <<said, heard, shown>>

Init == /\ said = [p \in Peer |-> <<>>]
        /\ heard = [p \in Peer |-> <<>>]
        /\ shown = [p \in Peer |-> <<>>]

\* User p says one more line.
Say(p) == /\ \E l \in Line : said' = [said EXCEPT ![p] = @ \o l]
          /\ UNCHANGED <<heard, shown>>

\* The screen of p shows the next piece of what the other has said.
Show(p) ==
  /\ \E n \in Len(heard[p]) + 1 .. Len(said[Other(p)]) :
       LET piece == SubSeq(said[Other(p)], Len(heard[p]) + 1, n)
       IN /\ heard' = [heard EXCEPT ![p] = @ \o piece]
          /\ shown' = [shown EXCEPT ![p] = @ \o Cut(piece, CR)]
  /\ UNCHANGED said

Next == \E p \in Peer : Say(p) \/ Show(p)

Spec == Init /\ [][Next]_chat
===============================================================================
