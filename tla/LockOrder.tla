------------------------------ MODULE LockOrder ------------------------------
(***************************************************************************)
(* The kernel's code paths as the sequences of spin-locks they take and    *)
(* release, run by several processors with interrupts, on the spin-locks   *)
(* of module Spinlock.                                                     *)
(*                                                                         *)
(* A processor starts a path with interrupts on, in a system call or in    *)
(* scheduler(), and whenever they are on an interrupt may put a handler on *)
(* top of it, which runs with interrupts off until it returns.  A path     *)
(* that sleeps gives its lock up and takes it again; what the processor    *)
(* does in between are other paths.                                        *)
(***************************************************************************)
EXTENDS Spinlock, Sequences

CONSTANTS
  CPU0,           \* the processor that counts ticks
  ProcessPaths,   \* the paths of system calls and of scheduler()
  DevicePaths     \* the handlers of device interrupts

VARIABLE run      \* processor -> the rest of its path and of its handler, outermost first

vars == <<spinvars, run>>

A(k) == <<"acquire", k>>
R(k) == <<"release", k>>

-----------------------------------------------------------------------------
(* The paths.  sleep() reacquires the lock it was given.                   *)

wakeup == <<A("ptable"), R("ptable")>>

\* Mutant: the lock is taken again before ptable.lock is released.
sleepSwapped(k) == <<A("ptable"), R(k), A(k), R("ptable")>>

sleep(k) == <<A("ptable"), R(k), R("ptable"), A(k)>>

\* sem_acquire, begin_op, piperead, acquiresleep, iderw: wait under a lock.
Waiter(k) == <<A(k)>> \o sleep(k) \o <<R(k)>>

\* sem_release, end_op, pipeclose, releasesleep: wake under a lock.
Waker(k) == <<A(k)>> \o wakeup \o <<R(k)>>

pipewrite == <<A("pipe")>> \o wakeup \o sleep("pipe") \o wakeup \o <<R("pipe")>>
sys_sleep == Waiter("ticks")
sys_uptime == <<A("ticks"), R("ticks")>>
consoleread == Waiter("cons")
cprintf == <<A("cons"), R("cons")>>
kfree == <<A("kmem"), R("kmem")>>
wait == <<A("ptable")>> \o kfree \o <<R("ptable")>>

\* allocproc: the number of tickets is a random number.
allocproc == <<A("ptable"), R("ptable")>> \o kfree \o <<A("ticks"), R("ticks")>>

\* scheduler, when there are no tickets to draw.
scheduler == <<A("ptable"), R("ptable")>>

\* scheduler, when lottery() draws a ticket.
lottery == <<A("ptable"), A("ticks"), R("ticks"), R("ptable")>>

print_all_procs == cprintf \o <<A("ptable")>> \o cprintf \o <<R("ptable")>>

\* The timer interrupt: the clock on the first processor, and yield().
timer(c) == IF c = CPU0 THEN Waker("ticks") \o wakeup ELSE wakeup

ideintr == Waker("ide")
consoleintr == Waker("cons")

\* The locks that are taken before ptable.lock: those of a semaphore, a pipe, the
\* log, a sleep-lock, the disk queue, the clock and the console.
Outer == Lock \ {"ptable", "kmem"}

\* The paths without the two that take a lock under ptable.lock which others
\* take before it.  Locks whose handler wakes are not woken under by a process.
OrderedPaths ==
  {Waiter(k) : k \in Outer} \union {Waker(k) : k \in Outer \ {"ticks", "cons", "ide"}}
    \union {pipewrite, sys_sleep, sys_uptime, consoleread, cprintf, wait, allocproc, scheduler}

KernelPaths == OrderedPaths \union {lottery, print_all_procs}

ASSUME LockOrderAssumption ==
  /\ {"ptable", "ticks", "cons", "kmem", "pipe", "ide"} \subseteq Lock
  /\ ProcessPaths \subseteq KernelPaths
  /\ DevicePaths \subseteq {consoleintr, ideintr}

-----------------------------------------------------------------------------
Init ==
  /\ SpinInit
  /\ run = [c \in CPU |-> << >>]

\* The frame that runs on c, and the lock of its next operation.
Top(c) == run[c][Len(run[c])]
Op(c) == Head(Top(c))[1]
Of(c) == Head(Top(c))[2]
Busy(c) == run[c] # << >> /\ Top(c) # << >>

Start(c, P) ==
  /\ run[c] = << >>
  /\ run' = [run EXCEPT ![c] = <<P>>]
  /\ UNCHANGED spinvars

\* An interrupt gate turns interrupts off.
Interrupt(c, H) ==
  /\ c \in IF_flag /\ c \notin panicked
  /\ Len(run[c]) = 1 /\ acq[c] = "out"
  /\ run' = [run EXCEPT ![c] = Append(@, H)]
  /\ IF_flag' = IF_flag \ {c}
  /\ UNCHANGED <<locked, cpu, ncli, intena, acq, panicked>>

\* The handler returns and turns interrupts on, or the path ends.
Return(c) ==
  /\ run[c] # << >> /\ Top(c) = << >>
  /\ run' = [run EXCEPT ![c] = SubSeq(@, 1, Len(@) - 1)]
  /\ IF_flag' = IF Len(run[c]) = 2 THEN IF_flag \union {c} ELSE IF_flag
  /\ UNCHANGED <<locked, cpu, ncli, intena, acq, panicked>>

\* c takes a step of the operation at the head of its path.
Step(c) ==
  /\ Busy(c)
  /\ IF Op(c) = "acquire"
     THEN AcquireStart(c, Of(c)) \/ AcquireXchg(c, Of(c)) \/ AcquireEnd(c, Of(c))
     ELSE ReleaseStart(c, Of(c)) \/ ReleaseEnd(c, Of(c))
  /\ run' = IF acq'[c] = "out" THEN [run EXCEPT ![c][Len(run[c])] = Tail(@)] ELSE run

Next ==
  \E c \in CPU :
    \/ \E P \in ProcessPaths : Start(c, P)
    \/ \E H \in DevicePaths \union {timer(c)} : Interrupt(c, H)
    \/ Return(c)
    \/ Step(c)

Spec == Init /\ [][Next]_vars

-----------------------------------------------------------------------------
(* Properties.                                                             *)

\* No processor waits for itself: an interrupt never finds a lock that the
\* code it interrupted holds, and every release is by the holder, so that no
\* panic of acquire(), release() or popcli() happens.
NoPanic == panicked = {}

\* Interrupts are on exactly when the processor has no lock and runs no
\* handler: nested acquire() and release() calls restore the flag that the
\* outermost pushcli() found.
FlagMatches ==
  /\ SpinTypeOK
  /\ \A c \in CPU : c \in IF_flag <=> ncli[c] = 0 /\ Len(run[c]) < 2

\* "Loops (spins) until the lock is acquired": processors never spin in a
\* circle, each for a lock that another one of them holds.
NoCircularWait ==
  \A S \in (SUBSET CPU) \ {{}} :
    ~ \A c \in S : Busy(c) /\ acq[c] = "spin" /\ locked[Of(c)] /\ cpu[Of(c)] \in S

==============================================================================
