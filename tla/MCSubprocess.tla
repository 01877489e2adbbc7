----------------------------- MODULE MCSubprocess -----------------------------
(***************************************************************************)
(* Finite instances of Subprocess: a command such as cargo, with a helper  *)
(* of its group that ignores SIGTERM and keeps the pipe open, one that     *)
(* does neither, and a daemon that left the group with the pipe open.      *)
(***************************************************************************)
EXTENDS Subprocess
=============================================================================
