----------------------------- MODULE AtomicDisk ------------------------------
(***************************************************************************)
(* What the write-ahead log of xv6/log.c promises to the file system: a    *)
(* disk on which the writes of an operation survive a crash either all or  *)
(* not at all.  Operations run concurrently between Begin and End, see     *)
(* each other's writes, and become stable together, at a moment when none  *)
(* of them is in progress.  A crash takes the disk back to that moment.    *)
(* The promise is kept up to the step that overruns the log.               *)
(***************************************************************************)
CONSTANTS
  Proc,     \* the processes that make file system calls
  Block,    \* the blocks of the file system
  Data      \* the contents of a block

VARIABLES
  cur,      \* block -> the contents a file system call reads
  stable,   \* block -> the contents after a crash
  active,   \* the processes between begin_op() and end_op()
  sound     \* the log has not been overrun

vars == <<cur, stable, active>>

Init ==
  /\ stable \in [Block -> Data]
  /\ cur = stable
  /\ active = {}

Begin(p) ==
  /\ p \notin active
  /\ active' = active \union {p}
  /\ UNCHANGED <<cur, stable>>

Write(p, b, d) ==
  /\ p \in active
  /\ cur' = [cur EXCEPT ![b] = d]
  /\ UNCHANGED <<stable, active>>

End(p) ==
  /\ p \in active
  /\ active' = active \ {p}
  /\ UNCHANGED <<cur, stable>>

Commit ==
  /\ active = {}
  /\ stable' = cur
  /\ UNCHANGED <<cur, active>>

Crash ==
  /\ cur' = stable
  /\ active' = {}
  /\ UNCHANGED stable

Next ==
  \/ \E p \in Proc : Begin(p) \/ End(p)
  \/ \E p \in Proc, b \in Block, d \in Data : Write(p, b, d)
  \/ Commit
  \/ Crash

\* A step after the log was overrun may do anything.
SoundNext == sound' => Next

Spec == Init /\ [][SoundNext]_vars

==============================================================================
