---------------------------- MODULE MCInitScript ----------------------------
(* Instances of InitScript for TLC. *)
EXTENDS InitScript

AllCommands == Commands
BothScripts == BOOLEAN
RcTarget    == {FALSE}
=============================================================================
