--------------------------------- MODULE Prompt ---------------------------------
(***************************************************************************)
(* sysmgr is one thread that carries out one command at a time: the prompt *)
(* of cli/repl.c is what its managers share.  An operation begins at the   *)
(* prompt, goes through the positions named in its own module, one for     *)
(* each system call or program it waits for, tells the user how it ended,  *)
(* and is back at the prompt.                                              *)
(***************************************************************************)

VARIABLES
  pc,  \* "prompt", or where the operation under way is
  told \* what the last operation has told the user
===============================================================================
