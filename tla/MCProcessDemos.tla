---------------------------- MODULE MCProcessDemos ----------------------------
(* ProcessDemos; its runs differ in the process numbers only. *)
EXTENDS ProcessDemos
===============================================================================
