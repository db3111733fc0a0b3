------------------------------- MODULE MCDaemon -------------------------------
(* Daemon with a few process numbers. *)
EXTENDS Daemon
===============================================================================
