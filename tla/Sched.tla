-------------------------------- MODULE Sched --------------------------------
(***************************************************************************)
(* The choice of the next process in xv6/proc.c: fix_queues, round_robin,  *)
(* lottery and bjf, as scheduler() calls them, and the system calls that   *)
(* change a process's queue and parameters.                                *)
(*                                                                         *)
(* A pass of scheduler() from acquire(&ptable.lock) to swtch() is one      *)
(* step.  A tick interrupts every processor, and the process it runs       *)
(* yields before the next tick; in between it may sleep, exit or make one  *)
(* of the calls, and a processor that has nothing to run goes on looking.  *)
(* Module Proc has the locking and the states that are left out here.      *)
(*                                                                         *)
(* Time is unbounded: instead of ticks and entered_queue the state has     *)
(* their difference, up to STARVING_THRESHOLD, from where on fix_queues    *)
(* makes no distinction.  Where the code uses the time itself (the random  *)
(* number, the rank), a pass takes any value of Clock for it, and any of   *)
(* Cycles for executed_cycle, which grows by 0.1 and is kept in tenths, as *)
(* are the ranks.                                                          *)
(***************************************************************************)
EXTENDS Integers, FiniteSets, FiniteSetsExt

CONSTANTS
  NPROC,                 \* processes are 1 .. NPROC, in the order of ptable
  CPU,                   \* the processors
  STARVING_THRESHOLD, MIN_BJF_RANK, DEFAULT_MAX_TICKETS,
  Clock,                 \* values of ticks
  Cycles,                \* values of executed_cycle
  Queues, Tickets, Ratios,   \* the arguments of the set_ calls
  MaxSets                \* bound: the number of set_ calls

\* There are 64 processes, and the threshold is 8000 ticks.
ASSUME SchedAssumption ==
  /\ NPROC \in Nat \ {0} /\ CPU # {}
  /\ STARVING_THRESHOLD \in Nat /\ STARVING_THRESHOLD > NPROC
  /\ DEFAULT_MAX_TICKETS \in Nat \ {0}
  /\ Clock \subseteq Nat /\ Cycles \subseteq Nat
  /\ Queues \subseteq Int /\ Tickets \subseteq Int /\ Ratios \subseteq Int \X Int \X Int
  /\ MaxSets \in Nat

Process == 1 .. NPROC
None == 0
Unlinked == 0     \* the queue of a slot that is not in use

\* The wait after which a process counts as starved.
WaitBound == STARVING_THRESHOLD + NPROC

VARIABLES
  state, queue, tickets,   \* struct proc
  ratio,     \* process -> <<priority_ratio, arrival_time_ratio, executed_cycle_ratio>>
  age,       \* process -> ticks - entered_queue, up to STARVING_THRESHOLD
  proc,      \* processor -> the process it runs, or None
  due,       \* the processors whose timer interrupt is not handled yet
  wait,      \* RUNNABLE process -> the ticks since it became so, or a call last
             \* changed its queue, up to WaitBound + 1
  sets       \* the number of set_ calls so far

schedvars == <<state, queue, tickets, ratio, age, proc, due, wait, sets>>

priority == 1    \* set by allocproc, and never changed

-----------------------------------------------------------------------------
(* The choice, at time t with the executed cycles cy.                      *)

\* generate_random_number(1, max).
generate_random_number(t, max) ==
  IF 1 >= max THEN (IF max > 0 THEN max ELSE -max)
  ELSE LET rand == (1 + ((1 + ((t + 2) % max) * (t + 1) * 132) % max))
                   * (1 + (t % max)) * (1 + ((2 * max) % max))
       IN (rand % max) + 1

\* Mutant: only processes of queues 2 and 3 are promoted.
StarvingBelow(p) == state[p] = "RUNNABLE" /\ queue[p] \in {2, 3} /\ age[p] >= STARVING_THRESHOLD

\* fix_queues promotes a process that has waited for too long.
Starving(p) == state[p] = "RUNNABLE" /\ age[p] >= STARVING_THRESHOLD

\* queue, and ticks - entered_queue, after fix_queues.
FixedQueue == [p \in Process |-> IF Starving(p) THEN 1 ELSE queue[p]]
FixedAge == [p \in Process |-> IF Starving(p) THEN 0 ELSE age[p]]

\* The RUNNABLE processes of queue k, once fix_queues has run.
InQueue(k) == {p \in Process : state[p] = "RUNNABLE" /\ FixedQueue[p] = k}

\* The first process of S in the order of ptable, or None.
First(S) == IF S = {} THEN None ELSE Min(S)

\* Mutant: the first process in the order of ptable.
round_robinFirst == First({p \in InQueue(1) : FixedAge[p] > 0})

\* round_robin: the longest wait, of those that have waited at all.
round_robin ==
  LET S == {p \in InQueue(1) : FixedAge[p] > 0}
  IN First({p \in S : \A q \in S : FixedAge[p] >= FixedAge[q]})

\* The tickets of the processes in S.
TicketSum(S) == MapThenSumSet(LAMBDA p : tickets[p], S)

\* lottery: the first process at which the tickets reach the winning one.
lottery(t) ==
  LET S == InQueue(2)
      winning_ticket == generate_random_number(t, TicketSum(S))
  IN First({p \in S : winning_ticket <= TicketSum({q \in S : q <= p})})

\* get_rank, in tenths.
get_rank(p, t, cy) ==
  10 * priority * ratio[p][1] + 10 * (t - FixedAge[p]) * ratio[p][2] + cy[p] * ratio[p][3]

\* bjf: the smallest rank, of those below MIN_BJF_RANK.
bjf(t, cy) ==
  LET S == {p \in InQueue(3) : get_rank(p, t, cy) < 10 * MIN_BJF_RANK}
  IN First({p \in S : \A q \in S : get_rank(p, t, cy) <= get_rank(q, t, cy)})

\* scheduler: the queues in the order of their priority.
Choice(t, cy) ==
  IF round_robin # None THEN round_robin
  ELSE IF lottery(t) # None THEN lottery(t)
  ELSE bjf(t, cy)

\* The executed cycles matter only to processes of queue 3.
CyclesOf == IF InQueue(3) = {} THEN {[p \in Process |-> 0]} ELSE [Process -> Cycles]

-----------------------------------------------------------------------------
\* A slot is set up by allocproc; the first process is there at the start.
NewTickets(t) == generate_random_number(t, DEFAULT_MAX_TICKETS)

SchedInit ==
  /\ state = [p \in Process |-> IF p = 1 THEN "RUNNABLE" ELSE "UNUSED"]
  /\ queue = [p \in Process |-> IF p = 1 THEN 1 ELSE Unlinked]
  /\ tickets = [p \in Process |-> IF p = 1 THEN NewTickets(0) ELSE 0]
  /\ ratio = [p \in Process |-> <<1, 1, 1>>]
  /\ age = [p \in Process |-> 0]
  /\ proc = [c \in CPU |-> None]
  /\ due = {}
  /\ wait = [p \in Process |-> 0]
  /\ sets = 0

\* The timer interrupts all processors.  A processor in scheduler() has passed
\* through its loop since the last tick, and found nothing to promote or run.
Tick ==
  /\ due = {}
  /\ (\E c \in CPU : proc[c] = None) =>
       /\ \A p \in Process : ~Starving(p)
       /\ \E t \in Clock, cy \in CyclesOf : Choice(t, cy) = None
  /\ due' = {c \in CPU : proc[c] # None}
  /\ age' = [p \in Process |-> IF state[p] = "UNUSED" THEN 0
                               ELSE Min({age[p] + 1, STARVING_THRESHOLD})]
  /\ wait' = [p \in Process |-> IF state[p] # "RUNNABLE" THEN 0
                                ELSE Min({wait[p] + 1, WaitBound + 1})]
  /\ UNCHANGED <<state, queue, tickets, ratio, proc, sets>>

\* scheduler: fix_queues, the choice, and the switch to the chosen process.
scheduler(c, t, cy) ==
  /\ proc[c] = None
  /\ queue' = FixedQueue
  /\ LET p == Choice(t, cy)
     IN /\ age' = [q \in Process |-> IF q = p THEN 0 ELSE FixedAge[q]]
        /\ state' = [q \in Process |-> IF q = p THEN "RUNNING" ELSE state[q]]
        /\ wait' = [q \in Process |-> IF q = p THEN 0 ELSE wait[q]]
        /\ proc' = [proc EXCEPT ![c] = p]
  /\ UNCHANGED <<tickets, ratio, due, sets>>

\* The process of c leaves the processor in state s.
GiveUp(c, s) ==
  /\ proc[c] # None
  /\ state' = [state EXCEPT ![proc[c]] = s]
  /\ proc' = [proc EXCEPT ![c] = None]
  /\ due' = due \ {c}
  /\ UNCHANGED <<wait, sets>>

\* trap: the timer interrupt makes the process yield.
yield(c) ==
  /\ c \in due
  /\ GiveUp(c, "RUNNABLE")
  /\ UNCHANGED <<queue, tickets, ratio, age>>

sleep(c) ==
  /\ GiveUp(c, "SLEEPING")
  /\ UNCHANGED <<queue, tickets, ratio, age>>

\* exit and wait, of any process but the first.  What the slot holds is then of
\* no account: allocproc sets all of it.
exit(c) ==
  /\ proc[c] # 1
  /\ GiveUp(c, "UNUSED")
  /\ queue' = [queue EXCEPT ![proc[c]] = Unlinked]
  /\ tickets' = [tickets EXCEPT ![proc[c]] = 0]
  /\ ratio' = [ratio EXCEPT ![proc[c]] = <<1, 1, 1>>]
  /\ age' = [age EXCEPT ![proc[c]] = 0]

\* wakeup1: entered_queue keeps the time at which the process last ran.
wakeup1(p) ==
  /\ state[p] = "SLEEPING"
  /\ state' = [state EXCEPT ![p] = "RUNNABLE"]
  /\ UNCHANGED <<queue, tickets, ratio, age, proc, due, wait, sets>>

\* fork, with the fields that allocproc sets.
fork(c, p, t) ==
  /\ proc[c] # None
  /\ state[p] = "UNUSED"
  /\ state' = [state EXCEPT ![p] = "RUNNABLE"]
  /\ queue' = [queue EXCEPT ![p] = 1]
  /\ tickets' = [tickets EXCEPT ![p] = NewTickets(t)]
  /\ ratio' = [ratio EXCEPT ![p] = <<1, 1, 1>>]
  /\ age' = [age EXCEPT ![p] = 0]
  /\ UNCHANGED <<proc, due, wait, sets>>

-----------------------------------------------------------------------------
(* The calls, by a running process; a pid names a slot in use.             *)

Sets(c) == proc[c] # None /\ sets < MaxSets /\ sets' = sets + 1

Live == {p \in Process : state[p] # "UNUSED"}

set_proc_queue(c, p, k) ==
  /\ Sets(c)
  /\ queue' = [queue EXCEPT ![p] = k]
  /\ wait' = [wait EXCEPT ![p] = 0]
  /\ UNCHANGED <<state, tickets, ratio, age, proc, due>>

set_lottery_params(c, p, n) ==
  /\ Sets(c)
  /\ tickets' = [tickets EXCEPT ![p] = n]
  /\ UNCHANGED <<state, queue, ratio, age, proc, due, wait>>

set_a_proc_bjf_params(c, p, r) ==
  /\ Sets(c)
  /\ ratio' = [ratio EXCEPT ![p] = r]
  /\ UNCHANGED <<state, queue, tickets, age, proc, due, wait>>

set_all_bjf_params(c, r) ==
  /\ Sets(c)
  /\ ratio' = [p \in Process |-> IF p \in Live THEN r ELSE ratio[p]]
  /\ UNCHANGED <<state, queue, tickets, age, proc, due, wait>>

SchedNext ==
  \/ Tick
  \/ \E c \in CPU, t \in Clock, cy \in CyclesOf : scheduler(c, t, cy)
  \/ \E c \in CPU : yield(c) \/ sleep(c) \/ exit(c)
  \/ \E p \in Process : wakeup1(p)
  \/ \E c \in CPU, p \in Process, t \in Clock : fork(c, p, t)
  \/ \E c \in CPU, p \in Live, k \in Queues : set_proc_queue(c, p, k)
  \/ \E c \in CPU, p \in Live, n \in Tickets : set_lottery_params(c, p, n)
  \/ \E c \in CPU, p \in Live, r \in Ratios : set_a_proc_bjf_params(c, p, r)
  \/ \E c \in CPU, r \in Ratios : set_all_bjf_params(c, r)

SchedSpec == SchedInit /\ [][SchedNext]_schedvars

-----------------------------------------------------------------------------
(* Properties.                                                             *)

SchedTypeOK ==
  /\ state \in [Process -> {"UNUSED", "RUNNABLE", "RUNNING", "SLEEPING"}]
  /\ queue \in [Process -> Queues \union {Unlinked, 1}]
  /\ tickets \in [Process -> Tickets \union 0 .. DEFAULT_MAX_TICKETS]
  /\ ratio \in [Process -> Ratios \union {<<1, 1, 1>>}]
  /\ age \in [Process -> 0 .. STARVING_THRESHOLD]
  /\ proc \in [CPU -> Process \union {None}]
  /\ due \subseteq CPU
  /\ wait \in [Process -> 0 .. WaitBound + 1]
  /\ sets \in 0 .. MaxSets

\* No process starves.  Whatever its queue, tickets and rank, and even in a
\* queue that does not exist, a RUNNABLE process that no call moves waits at
\* most STARVING_THRESHOLD ticks for its promotion, and after it for a turn of
\* the other processes: a promotion puts it behind those that wait in queue 1,
\* and each of them goes behind it once it has run.
NoStarvation ==
  /\ SchedTypeOK
  /\ \A p \in Process : wait[p] <= WaitBound

\* A process of queue 1 has a turn within NPROC ticks of becoming RUNNABLE or
\* of its promotion, whichever is later: none of the others is chosen twice
\* before it, although each may sleep and wake up, or come from another queue,
\* in the meantime.
RoundRobinTurn ==
  \A p \in Process : state[p] = "RUNNABLE" /\ queue[p] = 1 =>
    Min({age[p], wait[p]}) <= NPROC

==============================================================================
