-------------------------------- MODULE MCChat --------------------------------
(* Chat on a small instance. *)
EXTENDS Chat

Exit == <<"e">>

\* What each user may send: the client, whose lines may end in CR, at least as
\* much as the host.
OneEach == [p \in Peer |-> 1]
OneTwo  == [host |-> 1, client |-> 2]
TwoEach == [p \in Peer |-> 2]
===============================================================================
