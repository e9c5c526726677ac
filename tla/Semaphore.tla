------------------------------ MODULE Semaphore ------------------------------
(***************************************************************************)
(* The kernel semaphores of xv6/proc.c: semtable, sem_init, sem_acquire    *)
(* and sem_release.                                                        *)
(*                                                                         *)
(* The body of each operation runs under semtable[i].lock and is one step. *)
(* A process that has to wait gives the lock up in sleep(), which module   *)
(* Proc shows to lose no wakeup; once woken it takes the lock again, in a  *)
(* second step, and other processes may come in between.  A caller acts    *)
(* as a client of a mutex does: it acquires what it does not hold,         *)
(* releases what it holds, and uses a semaphore only once it is            *)
(* initialised, as phillsofs.c does.                                       *)
(*                                                                         *)
(* kill() takes a waiter out of its sleep; sem_acquire knows nothing of    *)
(* it, so that the victim takes the semaphore, leaves its entry in the     *)
(* queue, and exits on its way to user space.  Its slot of the process     *)
(* table is then used for another process, which can wait as well: the     *)
(* queue, a ring as large as the process table, can get more entries than  *)
(* it has places, and the oldest are overwritten.                          *)
(***************************************************************************)
EXTENDS Integers, FiniteSets

CONSTANTS
  Process,             \* the slots of the process table that use semaphores
  Sem,                 \* the indices of semtable in use
  MAX_SEMAPHORE_PROC,  \* the size of a semaphore's queue
  Values,              \* the values sem_init is called with
  MaxKills,            \* bound: the number of kill() calls
  Nobody               \* an entry of a queue that was never written

ASSUME SemAssumption ==
  /\ Nobody \notin Process
  /\ IsFiniteSet(Process) /\ IsFiniteSet(Sem)
  /\ MaxKills \in Nat
  /\ MAX_SEMAPHORE_PROC \in Nat \ {0}
  /\ Values \subseteq Int

VARIABLES
  value, front_proc_index, procs_queue_size, queue,   \* struct semaphore
  ready,     \* the semaphores that sem_init has been called for
  st,        \* process -> "user", or its position in sem_acquire: "asleep", "woken"
  at,        \* process -> the semaphore of its last call of sem_acquire
  held,      \* process -> the semaphores it has acquired and not released
  killed,    \* the processes whose killed flag is set
  kills,     \* the number of kill() calls so far
  overrun    \* the semaphores whose queue has been written when it was full

semtable == <<value, front_proc_index, procs_queue_size, queue>>
semvars == <<semtable, ready, st, at, held, killed, kills, overrun>>

Index == 0 .. MAX_SEMAPHORE_PROC - 1

\* Before sem_init, semtable is the zeroed memory the kernel starts with.
SemInit ==
  /\ value = [s \in Sem |-> 0]
  /\ front_proc_index = [s \in Sem |-> 0]
  /\ procs_queue_size = [s \in Sem |-> 0]
  /\ queue = [s \in Sem |-> [i \in Index |-> Nobody]]
  /\ ready = {}
  /\ st = [p \in Process |-> "user"]
  /\ at \in [Process -> Sem]
  /\ held = [p \in Process |-> {}]
  /\ killed = {}
  /\ kills = 0
  /\ overrun = {}

-----------------------------------------------------------------------------
\* sem_init: no lock is taken.
sem_init(s, v) ==
  /\ s \notin ready
  /\ value' = [value EXCEPT ![s] = v]
  /\ front_proc_index' = [front_proc_index EXCEPT ![s] = 0]
  /\ procs_queue_size' = [procs_queue_size EXCEPT ![s] = 0]
  /\ ready' = ready \union {s}
  /\ UNCHANGED <<queue, st, at, held, killed, kills, overrun>>

\* p makes a system call: a process that has been killed exits instead.
Calls(p) == st[p] = "user" /\ p \notin killed

\* sem_acquire when the value is positive.
AcquireFree(p, s) ==
  /\ Calls(p) /\ s \in ready \ held[p]
  /\ value[s] > 0
  /\ value' = [value EXCEPT ![s] = @ - 1]
  /\ held' = [held EXCEPT ![p] = @ \union {s}]
  /\ at' = [at EXCEPT ![p] = s]
  /\ UNCHANGED <<front_proc_index, procs_queue_size, queue, ready, st, killed, kills, overrun>>

\* Mutant: the entry is put at the front of the ring.
PushFront(s, p) == [queue EXCEPT ![s][front_proc_index[s]] = p]

\* The queue of s with p at its end.
Push(s, p) ==
  [queue EXCEPT ![s][(front_proc_index[s] + procs_queue_size[s]) % MAX_SEMAPHORE_PROC] = p]

\* sem_acquire otherwise: enter the queue and sleep on &p->pid.
AcquireWait(p, s) ==
  /\ Calls(p) /\ s \in ready \ held[p]
  /\ value[s] <= 0
  /\ queue' = Push(s, p)
  /\ procs_queue_size' = [procs_queue_size EXCEPT ![s] = @ + 1]
  /\ st' = [st EXCEPT ![p] = "asleep"]
  /\ at' = [at EXCEPT ![p] = s]
  /\ overrun' = IF procs_queue_size[s] < MAX_SEMAPHORE_PROC THEN overrun ELSE overrun \union {s}
  /\ UNCHANGED <<value, front_proc_index, ready, held, killed, kills>>

\* sem_acquire after sleep() returns: the value is not tested again.
AcquireWoken(p) ==
  /\ st[p] = "woken"
  /\ value' = [value EXCEPT ![at[p]] = @ - 1]
  /\ held' = [held EXCEPT ![p] = @ \union {at[p]}]
  /\ st' = [st EXCEPT ![p] = "user"]
  /\ UNCHANGED <<front_proc_index, procs_queue_size, queue, ready, at, killed, kills, overrun>>

\* Mutant: a release wakes someone only when no one holds the semaphore.
WakesNone(s) == value[s] + 1 > 1 /\ procs_queue_size[s] > 0

\* sem_release takes a process out of the queue and wakes it.
Wakes(s) == value[s] + 1 > 0 /\ procs_queue_size[s] > 0

\* The ring without its first entry.
Pop(s) == [front_proc_index EXCEPT ![s] = (@ + 1) % MAX_SEMAPHORE_PROC]

\* sem_release: wakeup(&queue[front]->pid) wakes that process if it sleeps.
sem_release(p, s) ==
  /\ Calls(p) /\ s \in held[p]
  /\ value' = [value EXCEPT ![s] = @ + 1]
  /\ held' = [held EXCEPT ![p] = @ \ {s}]
  /\ IF Wakes(s)
     THEN /\ front_proc_index' = Pop(s)
          /\ procs_queue_size' = [procs_queue_size EXCEPT ![s] = @ - 1]
          /\ st' = [q \in Process |->
                      IF q = queue[s][front_proc_index[s]] /\ st[q] = "asleep"
                      THEN "woken" ELSE st[q]]
     ELSE UNCHANGED <<front_proc_index, procs_queue_size, st>>
  /\ UNCHANGED <<queue, ready, at, killed, kills, overrun>>

\* kill: set the flag, and end the sleep whatever it is for.
kill(p) ==
  /\ kills < MaxKills
  /\ killed' = killed \union {p}
  /\ st' = [st EXCEPT ![p] = IF @ = "asleep" THEN "woken" ELSE @]
  /\ kills' = kills + 1
  /\ UNCHANGED <<semtable, ready, at, held, overrun>>

\* A killed process exits with what it holds; fork() uses its slot again.
ExitAndFork(p) ==
  /\ st[p] = "user" /\ p \in killed
  /\ killed' = killed \ {p}
  /\ held' = [held EXCEPT ![p] = {}]
  /\ UNCHANGED <<semtable, ready, st, at, kills, overrun>>

\* Programs that use the semaphores in S.
Clients(S) ==
  \/ \E s \in S, v \in Values : sem_init(s, v)
  \/ \E p \in Process, s \in S :
       AcquireFree(p, s) \/ AcquireWait(p, s) \/ sem_release(p, s)
  \/ \E p \in Process : AcquireWoken(p) \/ kill(p) \/ ExitAndFork(p)

SemSpec == SemInit /\ [][Clients(Sem)]_semvars

-----------------------------------------------------------------------------
(* Properties.                                                             *)

SemTypeOK ==
  /\ value \in [Sem -> Int]
  /\ front_proc_index \in [Sem -> Index]
  /\ procs_queue_size \in [Sem -> 0 .. Cardinality(Process) + MaxKills]
  /\ queue \in [Sem -> [Index -> Process \union {Nobody}]]
  /\ ready \subseteq Sem
  /\ st \in [Process -> {"user", "asleep", "woken"}]
  /\ at \in [Process -> Sem]
  /\ held \in [Process -> SUBSET Sem]
  /\ killed \subseteq Process
  /\ kills \in 0 .. MaxKills
  /\ overrun \subseteq Sem

\* The entries of the ring of s.
Waiting(s) ==
  {queue[s][(front_proc_index[s] + i) % MAX_SEMAPHORE_PROC] : i \in 0 .. procs_queue_size[s] - 1}

\* The processes that sleep on s.
Sleepers(s) == {p \in Process : st[p] = "asleep" /\ at[p] = s}

\* The ring forgets no sleeper until it is written when full, which nothing in
\* sem_acquire() prevents.  It takes more kills than the ring has places beyond
\* one per process: besides the sleepers, a queue has one entry for each kill()
\* at most, until one of them is overrun.
QueueOfSleepers ==
  /\ SemTypeOK
  /\ \A s \in Sem \ overrun : Sleepers(s) \subseteq Waiting(s)
  /\ overrun = {} => \A s \in Sem : procs_queue_size[s] <= Cardinality(Sleepers(s)) + kills
  /\ overrun # {} => Cardinality(Process) + kills > MAX_SEMAPHORE_PROC

\* Nobody sleeps on a semaphore that is available: while its value is positive
\* and processes sleep on it, that many woken ones are on their way to it,
\* although any of them may be overtaken.  A kill() costs one wakeup at most, as
\* long as no queue is overrun.
NoSleeperLeftBehind ==
  \A s \in ready : overrun = {} /\ Sleepers(s) # {} =>
    value[s] <= Cardinality({p \in Process : st[p] = "woken" /\ at[p] = s}) + kills

==============================================================================
