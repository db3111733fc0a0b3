----------------------------- MODULE MCEchoServer -----------------------------
(* EchoServer on small instances. *)
EXTENDS EchoServer, TLC

Symmetry == Permutations(Client)
===============================================================================
