------------------------------- MODULE MCProc -------------------------------
(* Instances of the process table for TLC.                                 *)
EXTENDS Proc
=============================================================================
