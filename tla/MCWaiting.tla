----------------------------- MODULE MCWaiting ------------------------------
(***************************************************************************)
(* Parts of the kernel in which processes wait for one another: for their  *)
(* turn on a processor (Sched), at the ends of a pipe (Pipe), and for a    *)
(* line of the console (Console).  They share nothing; part says which of  *)
(* them a behaviour is about.                                              *)
(***************************************************************************)
EXTENDS Sched, Pipe, Console

VARIABLE part

\* A negative number of tickets: the sum of the tickets may be negative, too.
MCTickets == {-1}

\* Ratios with which the rank soon exceeds MIN_BJF_RANK.
MCRatios == {<<0, 2, 1>>}

WaitingInit == part \in {"sched", "pipe", "console"} /\ SchedInit /\ PipeInit /\ ConsoleInit

WaitingNext ==
  /\ UNCHANGED part
  /\ \/ part = "sched" /\ SchedNext /\ UNCHANGED <<pipevars, consvars>>
     \/ part = "pipe" /\ PipeNext /\ UNCHANGED <<schedvars, consvars>>
     \/ part = "console" /\ ConsoleNext /\ UNCHANGED <<schedvars, pipevars>>

WaitingSpec == WaitingInit /\ [][WaitingNext]_<<part, schedvars, pipevars, consvars>>

WaitingSymmetry == Permutations(PipeWriter) \union Permutations(ConsReader)

=============================================================================
