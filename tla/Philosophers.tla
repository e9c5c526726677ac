---------------------------- MODULE Philosophers -----------------------------
(***************************************************************************)
(* The dining philosophers of xv6/phillsofs.c, on the kernel semaphores of *)
(* module Semaphore.  Fork f is semaphore f, initialised to 1 by the main  *)
(* process before it forks philosopher 1, 2, ..., SEMCOUNT.                *)
(*                                                                         *)
(* Philosopher id uses forks l = id - 1 and r = id % SEMCOUNT.  The calls  *)
(* of sleep() only let time pass and are left out, as are the messages.    *)
(* Instead of the game, other programs may run that use one semaphore in   *)
(* any way a client of a mutex can, and be killed.                         *)
(***************************************************************************)
EXTENDS Semaphore

CONSTANTS
  SEMCOUNT,    \* philosophers, and forks
  EATROUND     \* meals per philosopher

ASSUME PhilAssumption ==
  /\ SEMCOUNT \in Nat \ {0, 1}
  /\ EATROUND \in Nat \ {0}
  /\ Process = 1 .. SEMCOUNT
  /\ Sem = 0 .. SEMCOUNT - 1

VARIABLES
  main,    \* the next index in the loop of init_game(), then of start_game(); then "wait".
           \* "other" for other programs
  step,    \* philosopher -> "unborn", its place in the loop, "exited", or "reaped"
  round    \* philosopher -> the loop variable i

vars == <<semvars, main, step, round>>

l(p) == p - 1
r(p) == p % SEMCOUNT

Init ==
  /\ SemInit
  /\ at = [p \in Process |-> 0]
  /\ main \in {<<"init", 0>>, <<"other", 0>>}
  /\ step = [p \in Process |-> "unborn"]
  /\ round = [p \in Process |-> 0]

-----------------------------------------------------------------------------
\* init_game: sem_init(i, 1).
InitGame ==
  /\ main[1] = "init"
  /\ sem_init(main[2], 1)
  /\ main' = IF main[2] + 1 < SEMCOUNT THEN <<"init", main[2] + 1>> ELSE <<"fork", 0>>
  /\ UNCHANGED <<step, round>>

\* start_game: fork philosopher i + 1.
ForkPhilosopher ==
  /\ main[1] = "fork"
  /\ step' = [step EXCEPT ![main[2] + 1] = "first"]
  /\ main' = IF main[2] + 1 < SEMCOUNT THEN <<"fork", main[2] + 1>> ELSE <<"wait", 0>>
  /\ UNCHANGED <<semvars, round>>

\* start_game: while (wait()).  wait() returns a pid, or -1 when no child is
\* left; neither ends the loop.
WaitLoop ==
  /\ main[1] = "wait"
  /\ \/ \E p \in Process : step[p] = "exited" /\ step' = [step EXCEPT ![p] = "reaped"]
     \/ (\A p \in Process : step[p] = "reaped") /\ UNCHANGED step
  /\ UNCHANGED <<semvars, main, round>>

\* The fork p takes next: those with an even id take the left one first.
ForkToTake(p) == IF (p % 2 = 0) = (step[p] = "first") THEN l(p) ELSE r(p)

\* sem_acquire of the next fork; the philosopher goes on when the call returns.
PickUp(p) ==
  /\ step[p] \in {"first", "second"}
  /\ \/ AcquireFree(p, ForkToTake(p))
     \/ AcquireWait(p, ForkToTake(p))
     \/ AcquireWoken(p)
  /\ step' = [step EXCEPT ![p] = IF st'[p] # "user" THEN @
                                 ELSE IF @ = "first" THEN "second" ELSE "served"]
  /\ UNCHANGED <<main, round>>

\* "philosopher %d begins eating with forks %d , %d"
BeginEating(p) ==
  /\ step[p] = "served"
  /\ step' = [step EXCEPT ![p] = "eating"]
  /\ UNCHANGED <<semvars, main, round>>

\* sem_release(l)
PutDownLeft(p) ==
  /\ step[p] = "eating"
  /\ sem_release(p, l(p))
  /\ step' = [step EXCEPT ![p] = "right"]
  /\ UNCHANGED <<main, round>>

\* Mutant: one meal too few.
PutDownRightLess(p) ==
  /\ step[p] = "right"
  /\ sem_release(p, r(p))
  /\ round' = [round EXCEPT ![p] = @ + 1]
  /\ step' = [step EXCEPT ![p] = IF round'[p] < EATROUND - 1 THEN "first" ELSE "exited"]
  /\ UNCHANGED main

\* sem_release(r), and the next meal or exit().
PutDownRight(p) ==
  /\ step[p] = "right"
  /\ sem_release(p, r(p))
  /\ round' = [round EXCEPT ![p] = @ + 1]
  /\ step' = [step EXCEPT ![p] = IF round'[p] < EATROUND THEN "first" ELSE "exited"]
  /\ UNCHANGED main

OtherPrograms ==
  /\ main[1] = "other"
  /\ Clients({0})
  /\ UNCHANGED <<main, step, round>>

philosopher(p) ==
  PickUp(p) \/ BeginEating(p) \/ PutDownLeft(p) \/ PutDownRight(p)

Next ==
  \/ InitGame
  \/ ForkPhilosopher
  \/ WaitLoop
  \/ \E p \in Process : philosopher(p)
  \/ OtherPrograms

\* Every process that can go on does so in the end: the scheduler runs it.
Fairness ==
  /\ WF_vars(InitGame \/ ForkPhilosopher)
  /\ WF_vars(WaitLoop)
  /\ \A p \in Process : WF_vars(philosopher(p))

Spec == Init /\ [][Next]_vars /\ Fairness

-----------------------------------------------------------------------------
(* Properties.                                                             *)

\* "philosopher %d begins eating with forks %d , %d": no two philosophers eat
\* with the same fork at the same time.
ForkExclusive ==
  \A p, q \in Process : p # q /\ step[p] = "eating" /\ step[q] = "eating" =>
    {l(p), r(p)} \intersect {l(q), r(q)} = {}

\* Nobody starves: every philosopher has all its meals and is reaped.  A waiter
\* gets its fork although its neighbours overtake it between sem_release()'s
\* wakeup and its own decrement.
EveryoneEats ==
  main[1] # "other" => \A p \in Process : <>(step[p] = "reaped" /\ round[p] = EATROUND)

==============================================================================
