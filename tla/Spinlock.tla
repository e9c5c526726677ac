------------------------------- MODULE Spinlock ------------------------------
(***************************************************************************)
(* The spin-locks of xv6/spinlock.c, and the interrupt flag they work on.  *)
(*                                                                         *)
(* acquire() is three steps: pushcli() with the test for a lock that the   *)
(* processor holds already, the exchange that gets the lock, and the       *)
(* assignment of lk->cpu.  release() is two: lk->cpu is cleared, and then  *)
(* lk->locked with popcli().  Between them other processors take steps,    *)
(* and so does an interrupt handler, if interrupts are on.                 *)
(***************************************************************************)
EXTENDS Integers, FiniteSets

CONSTANTS
  CPU,       \* the processors
  Lock,      \* the spin-locks
  MaxNest,   \* bound: the locks a processor holds at a time
  NoCPU      \* lk->cpu == 0

ASSUME SpinAssumption ==
  /\ NoCPU \notin CPU
  /\ IsFiniteSet(Lock)
  /\ MaxNest \in Nat

VARIABLES
  locked, cpu,      \* struct spinlock
  ncli, intena,     \* struct cpu
  IF_flag,          \* the processors that accept interrupts
  acq,              \* processor -> where it is in acquire() or release(), or "out"
  panicked          \* the processors that have called panic()

spinvars == <<locked, cpu, ncli, intena, IF_flag, acq, panicked>>

SpinInit ==
  /\ locked = [k \in Lock |-> FALSE]
  /\ cpu = [k \in Lock |-> NoCPU]
  /\ ncli = [c \in CPU |-> 0]
  /\ intena = [c \in CPU |-> FALSE]
  /\ IF_flag = CPU
  /\ acq = [c \in CPU |-> "out"]
  /\ panicked = {}

holding(c, k) == locked[k] /\ cpu[k] = c

-----------------------------------------------------------------------------
\* Mutant: the flag is saved by every pushcli.
SavedFlagAlways(c) == c \in IF_flag

\* pushcli saves the flag only when it is the outermost one.
SavedFlag(c) == IF ncli[c] = 0 THEN c \in IF_flag ELSE intena[c]

\* Mutant: pushcli leaves interrupts on.
clear_IF_none(c) == IF_flag

\* cli()
clear_IF(c) == IF_flag \ {c}

pushcli(c) ==
  /\ ncli' = [ncli EXCEPT ![c] = @ + 1]
  /\ intena' = [intena EXCEPT ![c] = SavedFlag(c)]
  /\ IF_flag' = clear_IF(c)

\* popcli: both of its panics, and sti() when it is the outermost one.
popcli(c) ==
  /\ ncli' = [ncli EXCEPT ![c] = @ - 1]
  /\ IF_flag' = IF ncli[c] = 1 /\ intena[c] THEN IF_flag \union {c} ELSE IF_flag
  /\ panicked' = IF c \in IF_flag \/ ncli[c] < 1 THEN panicked \union {c} ELSE panicked
  /\ UNCHANGED intena

\* acquire: pushcli(), and panic if this processor holds the lock.
AcquireStart(c, k) ==
  /\ acq[c] = "out" /\ c \notin panicked
  /\ ncli[c] < MaxNest
  /\ pushcli(c)
  /\ acq' = [acq EXCEPT ![c] = "spin"]
  /\ panicked' = IF holding(c, k) THEN panicked \union {c} ELSE panicked
  /\ UNCHANGED <<locked, cpu>>

\* acquire: the exchange returns 0.
AcquireXchg(c, k) ==
  /\ acq[c] = "spin" /\ c \notin panicked
  /\ ~locked[k]
  /\ locked' = [locked EXCEPT ![k] = TRUE]
  /\ acq' = [acq EXCEPT ![c] = "got"]
  /\ UNCHANGED <<cpu, ncli, intena, IF_flag, panicked>>

\* acquire: lk->cpu = mycpu().
AcquireEnd(c, k) ==
  /\ acq[c] = "got"
  /\ cpu' = [cpu EXCEPT ![k] = c]
  /\ acq' = [acq EXCEPT ![c] = "out"]
  /\ UNCHANGED <<locked, ncli, intena, IF_flag, panicked>>

\* release: panic unless this processor holds the lock; lk->cpu = 0.
ReleaseStart(c, k) ==
  /\ acq[c] = "out" /\ c \notin panicked
  /\ IF holding(c, k)
     THEN cpu' = [cpu EXCEPT ![k] = NoCPU] /\ UNCHANGED panicked
     ELSE panicked' = panicked \union {c} /\ UNCHANGED cpu
  /\ acq' = [acq EXCEPT ![c] = "drop"]
  /\ UNCHANGED <<locked, ncli, intena, IF_flag>>

\* release: lk->locked = 0, and popcli().
ReleaseEnd(c, k) ==
  /\ acq[c] = "drop" /\ c \notin panicked
  /\ locked' = [locked EXCEPT ![k] = FALSE]
  /\ popcli(c)
  /\ acq' = [acq EXCEPT ![c] = "out"]
  /\ UNCHANGED cpu

-----------------------------------------------------------------------------
SpinTypeOK ==
  /\ locked \in [Lock -> BOOLEAN]
  /\ cpu \in [Lock -> CPU \union {NoCPU}]
  /\ ncli \in [CPU -> 0 .. MaxNest]
  /\ intena \in [CPU -> BOOLEAN]
  /\ IF_flag \subseteq CPU
  /\ acq \in [CPU -> {"out", "spin", "got", "drop"}]
  /\ panicked \subseteq CPU

==============================================================================
