------------------------------ MODULE SemProofs ------------------------------
(***************************************************************************)
(* For any number of processes, semaphores and kill() calls, and any size  *)
(* of the queues: the queue of a semaphore has every process that sleeps   *)
(* on it until it is written when full, which takes more kills than it has *)
(* places beyond one per process, and up to then no process is left asleep *)
(* on a semaphore that is available.                                       *)
(***************************************************************************)
EXTENDS Semaphore, Remainders, FiniteSetTheorems, TLAPS

\* The position in the ring of s of its i-th entry.
Slot(s, i) == (front_proc_index[s] + i) % MAX_SEMAPHORE_PROC

\* The entries of all queues, and the processes that sleep.
Places == 0 .. Cardinality(Process) + MaxKills
Entries == {e \in Sem \X Places : e[2] < procs_queue_size[e[1]]}
Asleep == {p \in Process : st[p] = "asleep"}
Woken(s) == {p \in Process : st[p] = "woken" /\ at[p] = s}

\* A process in sem_acquire waits for a semaphore that is initialised.
Initialised ==
  /\ \A s \in Sem \ ready : procs_queue_size[s] = 0
  /\ \A p \in Process : st[p] # "user" => at[p] \in ready
  /\ \A p \in Process : held[p] \subseteq ready

\* A sleeper is in the queue of its semaphore.
InQueue ==
  \A p \in Asleep : at[p] \notin overrun =>
    \E i \in 0 .. procs_queue_size[at[p]] - 1 : queue[at[p]][Slot(at[p], i)] = p

\* All queues together have an entry for each sleeper and one for each kill(): an
\* entry that a kill() left in one queue can end a sleep in another, whose entry
\* is then left there.
FewEntries == Cardinality(Entries) <= Cardinality(Asleep) + kills

\* A queue that is overrun has more entries than places.
Overruns == overrun # {} => Cardinality(Process) + kills > MAX_SEMAPHORE_PROC

\* The entries that no sleeper has will cost a wakeup each.
Pending ==
  \A s \in Sem : overrun = {} /\ Sleepers(s) # {} =>
    value[s] + procs_queue_size[s] <= Cardinality(Sleepers(s)) + Cardinality(Woken(s)) + kills

\* The inductive invariant.
SemInv == SemTypeOK /\ Initialised /\ InQueue /\ FewEntries /\ Overruns /\ Pending

-----------------------------------------------------------------------------
(* Rings and cardinalities.                                                *)

\* The sets that are counted are finite.
LEMMA Finite ==
  /\ IsFiniteSet(Entries) /\ IsFiniteSet(Asleep)
  /\ \A s : IsFiniteSet(Sleepers(s)) /\ IsFiniteSet(Woken(s))
<1>1. IsFiniteSet(Process) /\ IsFiniteSet(Sem) /\ IsFiniteSet(Places)
  <2>1. 0 \in Int /\ Cardinality(Process) + MaxKills \in Int
    BY SemAssumption, FS_CardinalityType
  <2>2. IsFiniteSet(0 .. Cardinality(Process) + MaxKills)
    BY <2>1, FS_Interval
  <2> QED BY <2>2, SemAssumption DEF Places
<1>2. IsFiniteSet(Sem \X Places)
  BY <1>1, FS_Product
<1>3. IsFiniteSet(Entries)
  BY <1>2, FS_Subset DEF Entries
<1>4. IsFiniteSet(Asleep)
  BY <1>1, FS_Subset DEF Asleep
<1>5. ASSUME NEW s PROVE IsFiniteSet(Sleepers(s)) /\ IsFiniteSet(Woken(s))
  BY <1>1, FS_Subset DEF Sleepers, Woken
<1> QED BY <1>3, <1>4, <1>5

\* Their cardinalities are numbers, in this state and the next.
LEMMA Counts ==
  /\ Cardinality(Entries) \in Nat /\ Cardinality(Asleep) \in Nat
  /\ \A s : Cardinality(Sleepers(s)) \in Nat /\ Cardinality(Woken(s)) \in Nat
BY Finite, FS_CardinalityType

\* Entry i of the ring that begins at f has its slot, and is the only one there.
LEMMA RingSlots ==
  ASSUME NEW f \in Index, NEW i \in Nat, NEW j \in Nat, i < j, j < MAX_SEMAPHORE_PROC
  PROVE  (f + i) % MAX_SEMAPHORE_PROC # (f + j) % MAX_SEMAPHORE_PROC
<1> DEFINE a == f + i
           e == j - i
<1>0. MAX_SEMAPHORE_PROC \in Nat \ {0}
  BY SemAssumption
<1>1. a \in Nat /\ e \in 1 .. MAX_SEMAPHORE_PROC - 1 /\ f + j = a + e
  BY <1>0 DEF Index
<1> HIDE DEF a, e
<1>2. (a + e) % MAX_SEMAPHORE_PROC # a % MAX_SEMAPHORE_PROC
  BY <1>0, <1>1, ModDistinct
<1> QED BY <1>1, <1>2 DEF a

\* The slot of an entry is in the ring.
LEMMA SlotIndex ==
  ASSUME NEW f \in Index, NEW i \in Nat
  PROVE  (f + i) % MAX_SEMAPHORE_PROC \in Index
<1>1. MAX_SEMAPHORE_PROC \in Nat \ {0} /\ f + i \in Nat
  BY SemAssumption DEF Index
<1> QED BY <1>1, ModDiv DEF Index

\* The ring without its first entry begins one slot further on.
LEMMA NextSlot ==
  ASSUME NEW f \in Index, NEW i \in Nat
  PROVE  (((f + 1) % MAX_SEMAPHORE_PROC) + i) % MAX_SEMAPHORE_PROC = (f + (i + 1)) % MAX_SEMAPHORE_PROC
<1>1. MAX_SEMAPHORE_PROC \in Nat \ {0} /\ f + 1 \in Nat /\ (f + 1) + i = f + (i + 1)
  BY SemAssumption DEF Index
<1>2. (((f + 1) % MAX_SEMAPHORE_PROC) + i) % MAX_SEMAPHORE_PROC = ((f + 1) + i) % MAX_SEMAPHORE_PROC
  BY <1>1, ModAdd
<1> QED BY <1>1, <1>2

\* The entries of one queue are as many as its size says.
LEMMA QueueEntries ==
  ASSUME SemTypeOK, NEW s \in Sem
  PROVE  LET Mine == {s} \X (0 .. procs_queue_size[s] - 1)
         IN  Mine \subseteq Entries /\ IsFiniteSet(Mine) /\ Cardinality(Mine) = procs_queue_size[s]
<1> DEFINE n == procs_queue_size[s]
           Mine == {s} \X (0 .. n - 1)
<1>0. n \in 0 .. Cardinality(Process) + MaxKills /\ n \in Nat
  BY SemAssumption DEF SemTypeOK
<1>1. Mine \subseteq Entries
  BY <1>0, SemAssumption, FS_CardinalityType DEF Entries, Places
<1>2. IsFiniteSet(0 .. n - 1) /\ Cardinality(0 .. n - 1) = n
  <2>1. 0 \in Int /\ n - 1 \in Int
    BY <1>0
  <2>2. IsFiniteSet(0 .. n - 1) /\ Cardinality(0 .. n - 1) = IF 0 > n - 1 THEN 0 ELSE (n - 1) - 0 + 1
    BY <2>1, FS_Interval
  <2> QED BY <1>0, <2>2
<1>3. IsFiniteSet(Mine) /\ Cardinality(Mine) = n
  <2>1. IsFiniteSet({s}) /\ Cardinality({s}) = 1
    BY FS_Singleton
  <2>2. IsFiniteSet(Mine) /\ Cardinality(Mine) = Cardinality({s}) * Cardinality(0 .. n - 1)
    BY <1>2, <2>1, FS_Product
  <2> HIDE DEF Mine, n
  <2> QED BY <1>0, <1>2, <2>1, <2>2
<1> QED BY <1>1, <1>3

\* There are processes enough for what is in one queue, besides the killed ones.
LEMMA SizeBound ==
  ASSUME SemInv, NEW s \in Sem, NEW p \in Process, st[p] # "asleep"
  PROVE  procs_queue_size[s] < Cardinality(Process) + kills
<1> DEFINE Mine == {s} \X (0 .. procs_queue_size[s] - 1)
<1>1. SemTypeOK /\ kills \in Nat /\ Cardinality(Entries) <= Cardinality(Asleep) + kills
  BY SemAssumption DEF SemInv, SemTypeOK, FewEntries
<1>2. Mine \subseteq Entries /\ IsFiniteSet(Mine) /\ Cardinality(Mine) = procs_queue_size[s]
  BY <1>1, QueueEntries
<1>3. procs_queue_size[s] \in Nat
  BY <1>1, <1>2, FS_CardinalityType
<1>4. procs_queue_size[s] <= Cardinality(Entries)
  <2> HIDE DEF Mine
  <2>1. Cardinality(Mine) <= Cardinality(Entries)
    BY <1>2, Finite, FS_Subset
  <2> QED BY <1>2, <2>1
<1>5. Cardinality(Asleep) < Cardinality(Process) /\ Cardinality(Process) \in Nat
  <2>1. Asleep \subseteq Process /\ Asleep # Process /\ IsFiniteSet(Process)
    BY SemAssumption DEF Asleep
  <2>2. /\ Cardinality(Asleep) <= Cardinality(Process)
        /\ Cardinality(Process) = Cardinality(Asleep) => Process = Asleep
    BY <2>1, FS_Subset
  <2>3. Cardinality(Process) \in Nat
    BY <2>1, FS_CardinalityType
  <2> QED BY <2>1, <2>2, <2>3, Counts
<1> QED BY <1>1, <1>3, <1>4, <1>5, Counts

\* A queue has an entry for each of its sleepers and one for each kill() at most:
\* the sleepers of the other queues have their entries there.
LEMMA QueueBound ==
  ASSUME SemInv, NEW s \in Sem, overrun = {}
  PROVE  procs_queue_size[s] <= Cardinality(Sleepers(s)) + kills
<1> DEFINE n == procs_queue_size[s]
           Mine == {s} \X (0 .. n - 1)
           Rest == Entries \ Mine
           Others == Asleep \ Sleepers(s)
           where(p) == CHOOSE i \in 0 .. procs_queue_size[at[p]] - 1 : queue[at[p]][Slot(at[p], i)] = p
           f == [p \in Others |-> <<at[p], where(p)>>]
<1>0. SemTypeOK /\ n \in Nat /\ kills \in Nat
  BY SemAssumption DEF SemInv, SemTypeOK
<1>1. Mine \subseteq Entries
  BY <1>0, QueueEntries
<1>2. IsFiniteSet(Mine) /\ Cardinality(Mine) = n
  BY <1>0, QueueEntries
<1>3. ASSUME NEW p \in Others
      PROVE  /\ where(p) \in 0 .. procs_queue_size[at[p]] - 1 /\ queue[at[p]][Slot(at[p], where(p))] = p
             /\ f[p] = <<at[p], where(p)>> /\ f[p] \in Rest
  <2>1. p \in Process /\ p \in Asleep /\ at[p] \in Sem /\ at[p] # s
    BY <1>0 DEF Asleep, Sleepers, SemTypeOK
  <2>2. where(p) \in 0 .. procs_queue_size[at[p]] - 1 /\ queue[at[p]][Slot(at[p], where(p))] = p
    BY <2>1 DEF SemInv, InQueue
  <2>3. f[p] = <<at[p], where(p)>>
    OBVIOUS
  <2> HIDE DEF where, f
  <2>4. procs_queue_size[at[p]] \in 0 .. Cardinality(Process) + MaxKills
    BY <1>0, <2>1 DEF SemTypeOK
  <2>5. <<at[p], where(p)>> \in Entries
    BY <2>1, <2>2, <2>4, SemAssumption, FS_CardinalityType DEF Entries, Places
  <2> QED BY <2>1, <2>2, <2>3, <2>5
<1> HIDE DEF where, f
<1>4. f \in Injection(Others, Rest)
  <2>1. f \in [Others -> Rest]
    <3>1. f = [p \in Others |-> f[p]]
      BY DEF f
    <3> QED BY <1>3, <3>1
  <2>2. ASSUME NEW p \in Others, NEW q \in Others, f[p] = f[q] PROVE p = q
    <3>1. at[p] = at[q] /\ where(p) = where(q)
      BY <1>3, <2>2
    <3> QED BY <1>3, <3>1
  <2> QED BY <2>1, <2>2 DEF Injection, IsInjective
<1>5. IsFiniteSet(Rest) /\ Cardinality(Rest) = Cardinality(Entries) - Cardinality(Mine)
  <2>1. Entries \intersect Mine = Mine
    BY <1>1
  <2> HIDE DEF Mine
  <2> QED BY <2>1, Finite, FS_Difference
<1>6. Cardinality(Others) <= Cardinality(Rest)
  <2> HIDE DEF Rest, Others
  <2> QED BY <1>4, <1>5, FS_Injection
<1>7. Cardinality(Others) = Cardinality(Asleep) - Cardinality(Sleepers(s))
  <2>1. Asleep \intersect Sleepers(s) = Sleepers(s)
    BY DEF Asleep, Sleepers
  <2> QED BY <2>1, Finite, FS_Difference
<1>8. Cardinality(Entries) <= Cardinality(Asleep) + kills
  BY DEF SemInv, FewEntries
<1> HIDE DEF n, Mine, Rest, Others
<1>9. procs_queue_size[s] = n /\ n \in Nat
  BY <1>0 DEF n
<1> QED BY <1>0, <1>2, <1>5, <1>6, <1>7, <1>8, <1>9, Counts

-----------------------------------------------------------------------------
(* What the steps do to the sets that are counted.                         *)

\* A step in which nobody goes to sleep or wakes up.
LEMMA SameSleepers ==
  ASSUME \A q \in Process : st'[q] = st[q], \A q \in Process : st[q] # "user" => at'[q] = at[q]
  PROVE  Asleep' = Asleep /\ \A t : Sleepers(t)' = Sleepers(t) /\ Woken(t)' = Woken(t)
BY DEF Asleep, Sleepers, Woken

\* A step that leaves the queues alone, in which nobody goes to sleep.
LEMMA QueuesKept ==
  ASSUME SemInv, UNCHANGED <<front_proc_index, procs_queue_size, queue, overrun>>,
         \A q \in Asleep' : q \in Asleep /\ at'[q] = at[q]
  PROVE  Entries' = Entries /\ InQueue'
<1>1. Entries' = Entries
  BY DEF Entries
<1>2. InQueue'
  BY DEF SemInv, InQueue, Slot
<1> QED BY <1>1, <1>2

\* p wakes up: it is one sleeper less, and one more on its way to its semaphore.
LEMMA WakeOne ==
  ASSUME NEW p \in Asleep, UNCHANGED at,
         \A q \in Process : st'[q] = IF q = p THEN "woken" ELSE st[q]
  PROVE  /\ Asleep' = Asleep \ {p} /\ Cardinality(Asleep') = Cardinality(Asleep) - 1
         /\ \A t : Sleepers(t)' \subseteq Sleepers(t)
         /\ \A t : t = at[p] => /\ Cardinality(Sleepers(t)') = Cardinality(Sleepers(t)) - 1
                              /\ Cardinality(Woken(t)') = Cardinality(Woken(t)) + 1
         /\ \A t : t # at[p] => Sleepers(t)' = Sleepers(t) /\ Woken(t)' = Woken(t)
<1>1. p \in Process /\ st[p] = "asleep"
  BY DEF Asleep
<1>2. Asleep' = Asleep \ {p}
  BY <1>1 DEF Asleep
<1>3. \A t : t = at[p] => Sleepers(t)' = Sleepers(t) \ {p} /\ p \in Sleepers(t)
  BY <1>1 DEF Sleepers
<1>4. \A t : t = at[p] => Woken(t)' = Woken(t) \union {p} /\ p \notin Woken(t)
  BY <1>1 DEF Woken
<1>5. \A t : t # at[p] => Sleepers(t)' = Sleepers(t) /\ Woken(t)' = Woken(t)
  BY <1>1 DEF Sleepers, Woken
<1>6. Cardinality(Asleep \ {p}) = Cardinality(Asleep) - 1
  BY Finite, FS_RemoveElement
<1>7. \A t : t = at[p] => Cardinality(Sleepers(t) \ {p}) = Cardinality(Sleepers(t)) - 1
  BY <1>3, Finite, FS_RemoveElement
<1>8. \A t : t = at[p] => Cardinality(Woken(t) \union {p}) = Cardinality(Woken(t)) + 1
  BY <1>4, Finite, FS_AddElement
<1>9. \A t : Sleepers(t)' \subseteq Sleepers(t)
  BY <1>1 DEF Sleepers
<1> QED BY <1>2, <1>3, <1>4, <1>5, <1>6, <1>7, <1>8, <1>9

\* The facts on cardinalities hold in the next state too.
LEMMA CountsNext ==
  /\ Cardinality(Entries') \in Nat /\ Cardinality(Asleep') \in Nat
  /\ \A s : Cardinality(Sleepers(s)') \in Nat /\ Cardinality(Woken(s)') \in Nat
<1>1. (/\ Cardinality(Entries) \in Nat /\ Cardinality(Asleep) \in Nat
       /\ \A s : Cardinality(Sleepers(s)) \in Nat /\ Cardinality(Woken(s)) \in Nat)'
  BY Counts, PTL
<1> QED BY <1>1

-----------------------------------------------------------------------------
(* The steps.                                                              *)

\* Initially no semaphore is initialised and nobody sleeps.
LEMMA SemInvInit == SemInit => SemInv
<1> SUFFICES ASSUME SemInit PROVE SemInv
  OBVIOUS
<1>0. /\ 0 \in Index /\ MAX_SEMAPHORE_PROC \in Nat \ {0} /\ MaxKills \in Nat
      /\ 0 \in 0 .. Cardinality(Process) + MaxKills
  BY SemAssumption, FS_CardinalityType DEF Index
<1>1. SemTypeOK
  BY <1>0 DEF SemInit, SemTypeOK
<1>2. Asleep = {} /\ \A s : Sleepers(s) = {}
  BY DEF SemInit, Asleep, Sleepers
<1>3. Initialised
  BY DEF SemInit, Initialised
<1>4. InQueue /\ Pending
  BY <1>2 DEF InQueue, Pending
<1>5. Entries = {}
  <2>1. \A i \in Places : ~(i < 0)
    BY SemAssumption, FS_CardinalityType DEF Places
  <2> QED BY <2>1 DEF Entries, SemInit
<1>6. FewEntries
  <2>1. Cardinality(Entries) = 0 /\ Cardinality(Asleep) = 0 /\ kills = 0
    BY <1>2, <1>5, FS_EmptySet DEF SemInit
  <2> QED BY <2>1 DEF FewEntries
<1>7. Overruns
  BY DEF SemInit, Overruns
<1> QED BY <1>1, <1>3, <1>4, <1>6, <1>7 DEF SemInv

\* sem_init of a semaphore that nobody uses yet.
LEMMA sem_initKeeps ==
  ASSUME SemInv, NEW s \in Sem, NEW v \in Int, sem_init(s, v)
  PROVE  SemInv'
<1>0. SemTypeOK /\ Initialised /\ 0 \in Index
  BY SemAssumption DEF SemInv, Index
<1>1. /\ s \notin ready /\ ready' = ready \union {s}
      /\ value' = [value EXCEPT ![s] = v]
      /\ front_proc_index' = [front_proc_index EXCEPT ![s] = 0]
      /\ procs_queue_size' = [procs_queue_size EXCEPT ![s] = 0]
      /\ UNCHANGED <<queue, st, at, held, killed, kills, overrun>>
  BY DEF sem_init
<1>2. procs_queue_size' = procs_queue_size
  BY <1>0, <1>1 DEF SemTypeOK, Initialised
<1>3. SemTypeOK'
  BY <1>0, <1>1, <1>2 DEF SemTypeOK
<1>4. Initialised'
  BY <1>0, <1>1, <1>2 DEF Initialised
<1>5. Asleep' = Asleep /\ \A t : Sleepers(t)' = Sleepers(t) /\ Woken(t)' = Woken(t)
  BY <1>1, SameSleepers
<1>6. \A p \in Asleep : at[p] # s
  BY <1>0, <1>1 DEF Asleep, Initialised
<1>7. InQueue'
  <2> SUFFICES ASSUME NEW p \in Asleep, at[p] \notin overrun
               PROVE  \E i \in 0 .. procs_queue_size[at[p]] - 1 : queue[at[p]][Slot(at[p], i)'] = p
    BY <1>1, <1>2, <1>5 DEF InQueue
  <2>1. at[p] \in Sem /\ at[p] # s
    BY <1>0, <1>6 DEF Asleep, SemTypeOK
  <2>2. front_proc_index'[at[p]] = front_proc_index[at[p]]
    BY <1>0, <1>1, <2>1 DEF SemTypeOK
  <2> QED BY <1>1, <2>2 DEF SemInv, InQueue, Slot
<1>8. Entries' = Entries
  BY <1>2 DEF Entries
<1>9. FewEntries'
  BY <1>1, <1>5, <1>8 DEF SemInv, FewEntries
<1>10. Pending'
  <2> SUFFICES ASSUME NEW t \in Sem, overrun = {}, Sleepers(t) # {}
               PROVE  value'[t] + procs_queue_size[t] <= Cardinality(Sleepers(t)) + Cardinality(Woken(t)) + kills
    BY <1>1, <1>2, <1>5 DEF Pending
  <2>1. t # s
    BY <1>6 DEF Sleepers, Asleep
  <2>2. value'[t] = value[t]
    BY <1>0, <1>1, <2>1 DEF SemTypeOK
  <2> QED BY <2>2 DEF SemInv, Pending
<1>11. Overruns'
  BY <1>1 DEF SemInv, Overruns
<1> QED BY <1>3, <1>4, <1>7, <1>9, <1>10, <1>11 DEF SemInv

\* A step in which nobody goes to sleep or wakes up, queues stay and values do not
\* grow.
LEMMA QuietKeeps ==
  ASSUME SemInv, UNCHANGED <<front_proc_index, procs_queue_size, queue, overrun>>, SemTypeOK', Initialised',
         \A q \in Process : st'[q] = st[q], \A q \in Process : st[q] # "user" => at'[q] = at[q],
         kills' >= kills, \A t \in Sem : value'[t] <= value[t]
  PROVE  SemInv'
<1>0. SemTypeOK /\ kills \in Nat /\ kills' \in Nat
  BY SemAssumption DEF SemInv, SemTypeOK
<1>1. Asleep' = Asleep /\ \A t : Sleepers(t)' = Sleepers(t) /\ Woken(t)' = Woken(t)
  BY SameSleepers
<1>2. Entries' = Entries /\ InQueue'
  <2>1. \A q \in Asleep' : q \in Asleep /\ at'[q] = at[q]
    BY <1>1 DEF Asleep
  <2> QED BY <2>1, QueuesKept
<1>3. FewEntries'
  BY <1>0, <1>1, <1>2, Counts DEF SemInv, FewEntries
<1>4. Pending'
  <2> SUFFICES ASSUME NEW t \in Sem, overrun = {}, Sleepers(t) # {}
               PROVE  value'[t] + procs_queue_size[t] <= Cardinality(Sleepers(t)) + Cardinality(Woken(t)) + kills'
    BY <1>1 DEF Pending
  <2>1. value[t] + procs_queue_size[t] <= Cardinality(Sleepers(t)) + Cardinality(Woken(t)) + kills
    BY DEF SemInv, Pending
  <2>2. value[t] \in Int /\ value'[t] \in Int /\ procs_queue_size[t] \in Int /\ value'[t] <= value[t]
    BY <1>0 DEF SemTypeOK
  <2> QED BY <1>0, <2>1, <2>2, Counts
<1>5. Overruns'
  <2>1. Cardinality(Process) \in Nat /\ MAX_SEMAPHORE_PROC \in Nat
    BY SemAssumption, FS_CardinalityType
  <2> QED BY <1>0, <2>1 DEF SemInv, Overruns
<1> QED BY <1>2, <1>3, <1>4, <1>5 DEF SemInv

\* sem_acquire of a semaphore that is available.
LEMMA AcquireFreeKeeps ==
  ASSUME SemInv, NEW p \in Process, NEW s \in Sem, AcquireFree(p, s)
  PROVE  SemInv'
<1>0. SemTypeOK /\ Initialised /\ kills \in Nat
  BY SemAssumption DEF SemInv, SemTypeOK
<1>1. /\ st[p] = "user" /\ s \in ready /\ value' = [value EXCEPT ![s] = @ - 1]
      /\ held' = [held EXCEPT ![p] = @ \union {s}] /\ at' = [at EXCEPT ![p] = s]
      /\ UNCHANGED <<front_proc_index, procs_queue_size, queue, ready, st, killed, kills, overrun>>
  BY DEF AcquireFree, Calls
<1>2. SemTypeOK'
  BY <1>0, <1>1 DEF SemTypeOK
<1>3. Initialised'
  BY <1>0, <1>1 DEF SemTypeOK, Initialised
<1>4. \A q \in Process : st[q] # "user" => at'[q] = at[q]
  BY <1>0, <1>1 DEF SemTypeOK
<1>5. \A t \in Sem : value'[t] <= value[t]
  BY <1>0, <1>1 DEF SemTypeOK
<1> QED BY <1>0, <1>1, <1>2, <1>3, <1>4, <1>5, QuietKeeps

\* A killed process exits, and its slot is used again.
LEMMA ExitAndForkKeeps ==
  ASSUME SemInv, NEW p \in Process, ExitAndFork(p)
  PROVE  SemInv'
<1>0. SemTypeOK /\ Initialised /\ kills \in Nat
  BY SemAssumption DEF SemInv, SemTypeOK
<1>1. /\ killed' = killed \ {p} /\ held' = [held EXCEPT ![p] = {}]
      /\ UNCHANGED <<value, front_proc_index, procs_queue_size, queue, ready, st, at, kills, overrun>>
  BY DEF ExitAndFork, semtable
<1>2. SemTypeOK'
  BY <1>0, <1>1 DEF SemTypeOK
<1>3. Initialised'
  BY <1>0, <1>1 DEF SemTypeOK, Initialised
<1>4. \A t \in Sem : value'[t] <= value[t]
  BY <1>0, <1>1 DEF SemTypeOK
<1> QED BY <1>0, <1>1, <1>2, <1>3, <1>4, QuietKeeps

\* sem_acquire of a semaphore that is not available: if the queue has room for p,
\* which is the last entry, the others stay.
LEMMA AcquireWaitKeeps ==
  ASSUME SemInv, NEW p \in Process, NEW s \in Sem, AcquireWait(p, s)
  PROVE  SemInv'
<1> DEFINE n == procs_queue_size[s]
           end == Slot(s, n)
<1>0. SemTypeOK /\ Initialised /\ kills \in Nat /\ MAX_SEMAPHORE_PROC \in Nat \ {0} /\ kills <= MaxKills /\ MaxKills \in Nat
  BY SemAssumption DEF SemInv, SemTypeOK
<1>1. /\ st[p] = "user" /\ s \in ready /\ value[s] <= 0
      /\ queue' = [queue EXCEPT ![s] = [queue[s] EXCEPT ![end] = p]]
      /\ procs_queue_size' = [procs_queue_size EXCEPT ![s] = n + 1]
      /\ st' = [st EXCEPT ![p] = "asleep"] /\ at' = [at EXCEPT ![p] = s]
      /\ overrun' = IF n < MAX_SEMAPHORE_PROC THEN overrun ELSE overrun \union {s}
      /\ UNCHANGED <<value, front_proc_index, ready, held, killed, kills>>
  BY DEF AcquireWait, Calls, Push, Slot
<1>2. /\ n \in Nat /\ value[s] \in Int /\ front_proc_index[s] \in Index
      /\ overrun = {} => n <= Cardinality(Sleepers(s)) + kills
      /\ overrun \subseteq overrun' /\ overrun' \subseteq Sem
  BY <1>0, <1>1, QueueBound DEF SemTypeOK
<1>3. n < Cardinality(Process) + kills /\ Cardinality(Process) \in Nat
  BY <1>1, SizeBound, SemAssumption, FS_CardinalityType
<1>4. end \in Index
  BY <1>2, SlotIndex DEF Slot
<1>5. n < MAX_SEMAPHORE_PROC => \A i \in 0 .. n - 1 : Slot(s, i) # end
  <2> SUFFICES ASSUME n < MAX_SEMAPHORE_PROC, NEW i \in 0 .. n - 1 PROVE Slot(s, i) # Slot(s, n)
    OBVIOUS
  <2>1. i \in Nat /\ i < n
    BY <1>2
  <2> QED BY <1>2, <2>1, RingSlots DEF Slot
<1> HIDE DEF n, end
<1>6. /\ queue'[s][end] = p
      /\ \A k \in Index : k # end => queue'[s][k] = queue[s][k]
      /\ \A t \in Sem : t # s => queue'[t] = queue[t] /\ procs_queue_size'[t] = procs_queue_size[t]
      /\ procs_queue_size'[s] = n + 1
  BY <1>0, <1>1, <1>4 DEF SemTypeOK
<1>7. SemTypeOK'
  <2>1. queue[s] \in [Index -> Process \union {Nobody}]
    BY <1>0 DEF SemTypeOK
  <2>2. [queue[s] EXCEPT ![end] = p] \in [Index -> Process \union {Nobody}]
    BY <1>4, <2>1
  <2>3. queue' \in [Sem -> [Index -> Process \union {Nobody}]]
    BY <1>0, <1>1, <2>2 DEF SemTypeOK
  <2>4. n + 1 \in 0 .. Cardinality(Process) + MaxKills
    BY <1>0, <1>2, <1>3
  <2>5. procs_queue_size' \in [Sem -> 0 .. Cardinality(Process) + MaxKills]
    BY <1>0, <1>1, <2>4 DEF SemTypeOK
  <2>6. st' \in [Process -> {"user", "asleep", "woken"}] /\ at' \in [Process -> Sem]
    BY <1>0, <1>1 DEF SemTypeOK
  <2> QED BY <1>0, <1>1, <1>2, <2>3, <2>5, <2>6 DEF SemTypeOK
<1>8. /\ st'[p] = "asleep" /\ at'[p] = s
      /\ \A q \in Process : q # p => st'[q] = st[q] /\ at'[q] = at[q]
  BY <1>0, <1>1 DEF SemTypeOK
<1>9. Initialised'
  <2>1. \A t \in Sem \ ready : procs_queue_size'[t] = 0
    BY <1>0, <1>1, <1>6 DEF Initialised
  <2>2. \A q \in Process : st'[q] # "user" => at'[q] \in ready
    BY <1>0, <1>1, <1>8 DEF Initialised
  <2> QED BY <1>0, <1>1, <2>1, <2>2 DEF Initialised
<1>10. /\ Asleep' = Asleep \union {p} /\ p \notin Asleep
       /\ Sleepers(s)' = Sleepers(s) \union {p} /\ p \notin Sleepers(s)
       /\ \A t : t # s => Sleepers(t)' = Sleepers(t)
       /\ \A t : Woken(t)' = Woken(t)
  BY <1>1, <1>8 DEF Asleep, Sleepers, Woken
<1>11. Cardinality(Asleep') = Cardinality(Asleep) + 1 /\ Cardinality(Sleepers(s)') = Cardinality(Sleepers(s)) + 1
  BY <1>10, Finite, FS_AddElement
<1>12. Entries' = Entries \union {<<s, n>>} /\ <<s, n>> \notin Entries
  <2>1. n \in Places
    BY <1>0, <1>2, <1>3 DEF Places
  <2>2. \A k \in Places : k < n + 1 <=> k < n \/ k = n
    BY <1>0, <1>2, <1>3 DEF Places
  <2>3. ~(n < n) /\ procs_queue_size[s] = n
    BY <1>2 DEF n
  <2> QED BY <1>6, <2>1, <2>2, <2>3 DEF Entries
<1>13. FewEntries'
  <2>1. Cardinality(Entries') = Cardinality(Entries) + 1
    BY <1>12, Finite, FS_AddElement
  <2>2. Cardinality(Entries) <= Cardinality(Asleep) + kills
    BY DEF SemInv, FewEntries
  <2> QED BY <1>0, <1>1, <1>11, <2>1, <2>2, Counts DEF FewEntries
<1>14. InQueue'
  <2> SUFFICES ASSUME NEW q \in Asleep', at'[q] \notin overrun'
               PROVE  \E i \in 0 .. procs_queue_size'[at'[q]] - 1 : queue'[at'[q]][Slot(at'[q], i)] = q
    BY <1>1 DEF InQueue, Slot
  <2>1. CASE q = p
    <3>1. n \in 0 .. (n + 1) - 1 /\ queue'[s][Slot(s, n)] = p
      BY <1>2, <1>6 DEF end
    <3> QED BY <1>6, <1>8, <2>1, <3>1
  <2>2. CASE q # p
    <3>1. q \in Process /\ q \in Asleep /\ at'[q] = at[q] /\ at[q] \in Sem /\ at[q] \notin overrun
      BY <1>0, <1>2, <1>8, <1>10, <2>2 DEF Asleep, SemTypeOK
    <3>2. PICK i \in 0 .. procs_queue_size[at[q]] - 1 : queue[at[q]][Slot(at[q], i)] = q
      BY <3>1 DEF SemInv, InQueue
    <3>3. CASE at[q] = s
      <4>1. i \in 0 .. n - 1 /\ i \in Nat /\ i \in 0 .. (n + 1) - 1
        BY <1>2, <3>2, <3>3 DEF n
      <4>2. n < MAX_SEMAPHORE_PROC
        BY <1>1, <3>1, <3>3
      <4>3. Slot(s, i) \in Index /\ Slot(s, i) # end
        BY <1>2, <1>5, <4>1, <4>2, SlotIndex DEF Slot
      <4> QED BY <1>6, <3>1, <3>2, <3>3, <4>1, <4>3
    <3>4. CASE at[q] # s
      BY <1>6, <3>1, <3>2, <3>4
    <3> QED BY <3>3, <3>4
  <2> QED BY <2>1, <2>2
<1>15. Pending'
  <2> SUFFICES ASSUME NEW t \in Sem, overrun = {}, Sleepers(t)' # {}
               PROVE  value[t] + procs_queue_size'[t] <= Cardinality(Sleepers(t)') + Cardinality(Woken(t)') + kills
    BY <1>1, <1>2 DEF Pending
  <2>1. CASE t = s
    <3>1. procs_queue_size'[t] = n + 1 /\ Cardinality(Sleepers(t)') = Cardinality(Sleepers(s)) + 1
      BY <1>6, <1>11, <2>1
    <3>2. value[t] \in Int /\ value[t] <= 0
      BY <1>1, <1>2, <2>1
    <3> QED BY <1>0, <1>2, <3>1, <3>2, Counts, CountsNext
  <2>2. CASE t # s
    BY <1>6, <1>10, <2>2 DEF SemInv, Pending
  <2> QED BY <2>1, <2>2
<1>16. Overruns'
  <2> SUFFICES ASSUME overrun' # {} PROVE Cardinality(Process) + kills > MAX_SEMAPHORE_PROC
    BY <1>1 DEF Overruns
  <2>1. CASE n < MAX_SEMAPHORE_PROC
    BY <1>1, <2>1 DEF SemInv, Overruns
  <2>2. CASE ~(n < MAX_SEMAPHORE_PROC)
    BY <1>0, <1>2, <1>3, <2>2
  <2> QED BY <2>1, <2>2
<1> QED BY <1>7, <1>9, <1>13, <1>14, <1>15, <1>16 DEF SemInv

\* A woken process takes its semaphore, whatever the value.
LEMMA AcquireWokenKeeps ==
  ASSUME SemInv, NEW p \in Process, AcquireWoken(p)
  PROVE  SemInv'
<1>0. SemTypeOK /\ Initialised /\ kills \in Nat
  BY SemAssumption DEF SemInv, SemTypeOK
<1>s. PICK s : s = at[p]
  OBVIOUS
<1>1. /\ st[p] = "woken" /\ value' = [value EXCEPT ![s] = @ - 1]
      /\ held' = [held EXCEPT ![p] = @ \union {s}] /\ st' = [st EXCEPT ![p] = "user"]
      /\ UNCHANGED <<front_proc_index, procs_queue_size, queue, ready, at, killed, kills, overrun>>
  BY <1>s DEF AcquireWoken
<1>2. s \in Sem /\ s \in ready
  BY <1>0, <1>1, <1>s DEF SemTypeOK, Initialised
<1>3. /\ value'[s] = value[s] - 1 /\ \A t \in Sem : t # s => value'[t] = value[t]
      /\ st'[p] = "user" /\ \A q \in Process : q # p => st'[q] = st[q]
  BY <1>0, <1>1, <1>2 DEF SemTypeOK
<1>4. SemTypeOK'
  BY <1>0, <1>1, <1>2 DEF SemTypeOK
<1>5. Initialised'
  BY <1>0, <1>1, <1>2, <1>3 DEF SemTypeOK, Initialised
<1>6. /\ Asleep' = Asleep /\ \A t : Sleepers(t)' = Sleepers(t)
      /\ Woken(s)' = Woken(s) \ {p} /\ p \in Woken(s) /\ \A t : t # s => Woken(t)' = Woken(t)
  BY <1>1, <1>3, <1>s DEF Asleep, Sleepers, Woken
<1>7. Entries' = Entries /\ InQueue'
  <2>1. \A q \in Asleep' : q \in Asleep /\ at'[q] = at[q]
    BY <1>1, <1>6
  <2> QED BY <1>1, <2>1, QueuesKept
<1>8. FewEntries'
  BY <1>1, <1>6, <1>7 DEF SemInv, FewEntries
<1>9. Pending'
  <2> SUFFICES ASSUME NEW t \in Sem, overrun = {}, Sleepers(t) # {}
               PROVE  value'[t] + procs_queue_size[t] <= Cardinality(Sleepers(t)) + Cardinality(Woken(t)') + kills
    BY <1>1, <1>6 DEF Pending
  <2>1. value[t] + procs_queue_size[t] <= Cardinality(Sleepers(t)) + Cardinality(Woken(t)) + kills
    BY DEF SemInv, Pending
  <2>2. value[t] \in Int /\ procs_queue_size[t] \in Int
    BY <1>0 DEF SemTypeOK
  <2>3. CASE t = s
    <3>1. Cardinality(Woken(t)') = Cardinality(Woken(t)) - 1
      <4>1. Woken(t)' = Woken(t) \ {p} /\ p \in Woken(t)
        BY <1>6, <2>3
      <4> QED BY <4>1, Finite, FS_RemoveElement
    <3>2. value'[t] = value[t] - 1
      BY <1>3, <2>3
    <3> QED BY <1>0, <2>1, <2>2, <3>1, <3>2, Counts
  <2>4. CASE t # s
    BY <1>3, <1>6, <2>1, <2>4
  <2> QED BY <2>3, <2>4
<1>10. Overruns'
  BY <1>1 DEF SemInv, Overruns
<1> QED BY <1>4, <1>5, <1>7, <1>8, <1>9, <1>10 DEF SemInv

\* kill() of a process that sleeps leaves its entry in the queue.
LEMMA killKeeps ==
  ASSUME SemInv, NEW p \in Process, kill(p)
  PROVE  SemInv'
<1>0. SemTypeOK /\ Initialised /\ kills \in Nat /\ MaxKills \in Nat
  BY SemAssumption DEF SemInv, SemTypeOK
<1>1. /\ kills < MaxKills /\ killed' = killed \union {p} /\ kills' = kills + 1
      /\ st' = [st EXCEPT ![p] = IF @ = "asleep" THEN "woken" ELSE @]
      /\ UNCHANGED <<value, front_proc_index, procs_queue_size, queue, ready, at, held, overrun>>
  BY DEF kill, semtable
<1>2. SemTypeOK'
  <2>1. kills' \in 0 .. MaxKills
    BY <1>0, <1>1
  <2>2. st' \in [Process -> {"user", "asleep", "woken"}]
    BY <1>0, <1>1 DEF SemTypeOK
  <2> QED BY <1>0, <1>1, <2>1, <2>2 DEF SemTypeOK
<1>3. Initialised'
  BY <1>0, <1>1 DEF SemTypeOK, Initialised
<1>4. CASE st[p] # "asleep"
  <2>1. \A q \in Process : st'[q] = st[q]
    BY <1>0, <1>1, <1>4 DEF SemTypeOK
  <2>2. kills' >= kills /\ \A t \in Sem : value'[t] <= value[t]
    BY <1>0, <1>1 DEF SemTypeOK
  <2> QED BY <1>1, <1>2, <1>3, <2>1, <2>2, QuietKeeps
<1>5. CASE st[p] = "asleep"
  <2>1. p \in Asleep /\ \A q \in Process : st'[q] = IF q = p THEN "woken" ELSE st[q]
    BY <1>0, <1>1, <1>5 DEF SemTypeOK, Asleep
  <2>2. /\ Asleep' = Asleep \ {p} /\ Cardinality(Asleep') = Cardinality(Asleep) - 1
        /\ \A t : Sleepers(t)' \subseteq Sleepers(t)
        /\ \A t : t = at[p] => /\ Cardinality(Sleepers(t)') = Cardinality(Sleepers(t)) - 1
                                /\ Cardinality(Woken(t)') = Cardinality(Woken(t)) + 1
        /\ \A t : t # at[p] => Sleepers(t)' = Sleepers(t) /\ Woken(t)' = Woken(t)
    BY <1>1, <2>1, WakeOne
  <2>3. Entries' = Entries /\ InQueue'
    <3>1. \A q \in Asleep' : q \in Asleep /\ at'[q] = at[q]
      BY <1>1, <2>2
    <3> QED BY <1>1, <3>1, QueuesKept
  <2>4. FewEntries'
    <3>1. Cardinality(Entries) <= Cardinality(Asleep) + kills
      BY DEF SemInv, FewEntries
    <3> QED BY <1>0, <1>1, <2>2, <2>3, <3>1, Counts DEF FewEntries
  <2>5. Pending'
    <3> SUFFICES ASSUME NEW t \in Sem, overrun = {}, Sleepers(t)' # {}
                 PROVE  value[t] + procs_queue_size[t] <= Cardinality(Sleepers(t)') + Cardinality(Woken(t)') + (kills + 1)
      BY <1>1 DEF Pending
    <3>1. Sleepers(t) # {}
      BY <2>2
    <3>2. value[t] + procs_queue_size[t] <= Cardinality(Sleepers(t)) + Cardinality(Woken(t)) + kills
      BY <3>1 DEF SemInv, Pending
    <3>3. value[t] \in Int /\ procs_queue_size[t] \in Int
      BY <1>0 DEF SemTypeOK
    <3>4. Cardinality(Sleepers(t)') + Cardinality(Woken(t)') = Cardinality(Sleepers(t)) + Cardinality(Woken(t))
      <4>1. CASE t = at[p]
        <5>1. Cardinality(Sleepers(t)) \in Nat /\ Cardinality(Woken(t)) \in Nat
          BY Counts
        <5> QED BY <2>2, <4>1, <5>1
      <4>2. CASE t # at[p]
        BY <2>2, <4>2
      <4> QED BY <4>1, <4>2
    <3> QED BY <1>0, <3>2, <3>3, <3>4, Counts, CountsNext
  <2>6. Overruns'
    <3>1. Cardinality(Process) \in Nat /\ MAX_SEMAPHORE_PROC \in Nat
      BY SemAssumption, FS_CardinalityType
    <3> QED BY <1>0, <1>1, <3>1 DEF SemInv, Overruns
  <2> QED BY <1>2, <1>3, <2>3, <2>4, <2>5, <2>6 DEF SemInv
<1> QED BY <1>4, <1>5

\* sem_release takes the first entry out of the queue, and wakes the process if it
\* still sleeps, be it on another semaphore; or there is nobody to wake.
LEMMA sem_releaseKeeps ==
  ASSUME SemInv, NEW p \in Process, NEW s \in Sem, sem_release(p, s)
  PROVE  SemInv'
<1> DEFINE n == procs_queue_size[s]
           f == front_proc_index[s]
           first == queue[s][f]
<1>0. SemTypeOK /\ Initialised /\ kills \in Nat /\ MAX_SEMAPHORE_PROC \in Nat \ {0}
  BY SemAssumption DEF SemInv, SemTypeOK
<1>1. /\ s \in held[p] /\ value' = [value EXCEPT ![s] = @ + 1] /\ held' = [held EXCEPT ![p] = @ \ {s}]
      /\ UNCHANGED <<queue, ready, at, killed, kills, overrun>>
  BY DEF sem_release
<1>2. /\ n \in Nat /\ value[s] \in Int /\ f \in Index /\ n \in 0 .. Cardinality(Process) + MaxKills
      /\ overrun = {} => n <= Cardinality(Sleepers(s)) + kills
  BY <1>0, QueueBound DEF SemTypeOK
<1>3. value'[s] = value[s] + 1 /\ \A t \in Sem : t # s => value'[t] = value[t]
  BY <1>0, <1>1 DEF SemTypeOK
<1>4. value' \in [Sem -> Int] /\ held' \in [Process -> SUBSET Sem] /\ \A q \in Process : held'[q] \subseteq ready
  BY <1>0, <1>1 DEF SemTypeOK, Initialised
<1>5. Overruns'
  BY <1>1 DEF SemInv, Overruns
<1>6. CASE ~Wakes(s)
  <2>1. UNCHANGED <<front_proc_index, procs_queue_size, st>>
    BY <1>6 DEF sem_release
  <2>2. SemTypeOK' /\ Initialised'
    BY <1>0, <1>1, <1>4, <2>1 DEF SemTypeOK, Initialised
  <2>3. Asleep' = Asleep /\ \A t : Sleepers(t)' = Sleepers(t) /\ Woken(t)' = Woken(t)
    BY <1>1, <2>1, SameSleepers
  <2>4. Entries' = Entries /\ InQueue'
    <3>1. \A q \in Asleep' : q \in Asleep /\ at'[q] = at[q]
      BY <1>1, <2>3
    <3> QED BY <1>1, <2>1, <3>1, QueuesKept
  <2>5. FewEntries'
    BY <1>1, <2>3, <2>4 DEF SemInv, FewEntries
  <2>6. Pending'
    <3> SUFFICES ASSUME NEW t \in Sem, overrun = {}, Sleepers(t) # {}
                 PROVE  value'[t] + procs_queue_size[t] <= Cardinality(Sleepers(t)) + Cardinality(Woken(t)) + kills
      BY <1>1, <2>1, <2>3 DEF Pending
    <3>1. CASE t = s
      <4>1. PICK q \in Asleep : at[q] = s
        BY <3>1 DEF Sleepers, Asleep
      <4>2. n > 0
        BY <1>2, <4>1 DEF SemInv, InQueue
      <4>3. value[s] + 1 <= 0
        BY <1>2, <1>6, <4>2 DEF Wakes
      <4> QED BY <1>0, <1>2, <1>3, <3>1, <4>3, Counts
    <3>2. CASE t # s
      BY <1>3, <3>2 DEF SemInv, Pending
    <3> QED BY <3>1, <3>2
  <2> QED BY <1>5, <2>2, <2>4, <2>5, <2>6 DEF SemInv
<1>7. CASE Wakes(s)
  <2>1. /\ front_proc_index' = [front_proc_index EXCEPT ![s] = (f + 1) % MAX_SEMAPHORE_PROC]
        /\ procs_queue_size' = [procs_queue_size EXCEPT ![s] = n - 1]
        /\ \A q \in Process : st'[q] = IF q = first /\ st[q] = "asleep" THEN "woken" ELSE st[q]
        /\ st' \in [Process -> {"user", "asleep", "woken"}]
        /\ n > 0
    BY <1>0, <1>7 DEF sem_release, Pop, Wakes, SemTypeOK
  <2>2. (f + 1) % MAX_SEMAPHORE_PROC \in Index /\ n - 1 \in 0 .. Cardinality(Process) + MaxKills
    <3>1. (f + 1) % MAX_SEMAPHORE_PROC \in Index
      BY <1>2, SlotIndex
    <3>2. Cardinality(Process) + MaxKills \in Nat
      BY SemAssumption, FS_CardinalityType
    <3>3. n - 1 \in 0 .. Cardinality(Process) + MaxKills
      BY <1>2, <2>1, <3>2
    <3> QED BY <3>1, <3>3
  <2>3. SemTypeOK'
    BY <1>0, <1>1, <1>4, <2>1, <2>2 DEF SemTypeOK
  <2>4. /\ front_proc_index'[s] = (f + 1) % MAX_SEMAPHORE_PROC /\ procs_queue_size'[s] = n - 1
        /\ \A t \in Sem : t # s => front_proc_index'[t] = front_proc_index[t] /\ procs_queue_size'[t] = procs_queue_size[t]
    BY <1>0, <2>1 DEF SemTypeOK
  <2>5. Initialised'
    <3>1. s \in ready
      BY <1>0, <1>1 DEF Initialised
    <3> QED BY <1>0, <1>1, <1>4, <2>1, <2>4, <3>1 DEF Initialised
  <2> HIDE DEF n, f, first
  <2>6. Entries' = Entries \ {<<s, n - 1>>} /\ <<s, n - 1>> \in Entries
    <3>0. Cardinality(Process) + MaxKills \in Nat
      BY SemAssumption, FS_CardinalityType
    <3>1. n - 1 \in Places /\ n - 1 < n
      BY <1>2, <2>1, <3>0 DEF Places
    <3>2. \A k \in Places : k < n - 1 <=> k < n /\ k # n - 1
      BY <1>2, <3>0 DEF Places
    <3>3. procs_queue_size[s] = n
      BY DEF n
    <3> QED BY <2>4, <3>1, <3>2, <3>3 DEF Entries
  <2>7. Cardinality(Entries') = Cardinality(Entries) - 1
    BY <2>6, Finite, FS_RemoveElement
  <2>8. ASSUME NEW q \in Asleep' PROVE q \in Asleep /\ q # first /\ q \in Process /\ at[q] \in Sem
    BY <1>0, <2>1, <2>8 DEF Asleep, SemTypeOK
  <2>9. InQueue'
    <3> SUFFICES ASSUME NEW q \in Asleep', at[q] \notin overrun
                 PROVE  \E i \in 0 .. procs_queue_size'[at[q]] - 1 :
                          queue[at[q]][(front_proc_index'[at[q]] + i) % MAX_SEMAPHORE_PROC] = q
      BY <1>1 DEF InQueue, Slot
    <3>1. PICK i \in 0 .. procs_queue_size[at[q]] - 1 : queue[at[q]][Slot(at[q], i)] = q
      BY <2>8 DEF SemInv, InQueue
    <3>2. CASE at[q] = s
      <4>1. i \in 0 .. n - 1 /\ queue[s][(f + i) % MAX_SEMAPHORE_PROC] = q
        BY <3>1, <3>2 DEF n, f, Slot
      <4>2. i # 0
        <5>1. f % MAX_SEMAPHORE_PROC = f /\ f + 0 = f
          BY <1>0, <1>2 DEF Index
        <5> QED BY <2>8, <4>1, <5>1 DEF first, f
      <4>3. i - 1 \in Nat /\ i - 1 \in 0 .. (n - 1) - 1 /\ (i - 1) + 1 = i
        BY <1>2, <4>1, <4>2
      <4>4. (((f + 1) % MAX_SEMAPHORE_PROC) + (i - 1)) % MAX_SEMAPHORE_PROC = (f + ((i - 1) + 1)) % MAX_SEMAPHORE_PROC
        BY <1>2, <4>3, NextSlot
      <4>5. queue[s][(front_proc_index'[s] + (i - 1)) % MAX_SEMAPHORE_PROC] = q
        BY <2>4, <4>1, <4>3, <4>4
      <4> QED BY <2>4, <3>2, <4>3, <4>5
    <3>3. CASE at[q] # s
      BY <2>4, <2>8, <3>1, <3>3 DEF Slot
    <3> QED BY <3>2, <3>3
  <2>10. CASE first \in Asleep
    <3>1. \A q \in Process : st'[q] = IF q = first THEN "woken" ELSE st[q]
      BY <2>1, <2>10 DEF Asleep
    <3>2. /\ Asleep' = Asleep \ {first} /\ Cardinality(Asleep') = Cardinality(Asleep) - 1
          /\ \A t : Sleepers(t)' \subseteq Sleepers(t)
          /\ \A t : t = at[first] => /\ Cardinality(Sleepers(t)') = Cardinality(Sleepers(t)) - 1
                                      /\ Cardinality(Woken(t)') = Cardinality(Woken(t)) + 1
          /\ \A t : t # at[first] => Sleepers(t)' = Sleepers(t) /\ Woken(t)' = Woken(t)
      BY <1>1, <2>10, <3>1, WakeOne
    <3>3. FewEntries'
      <4>1. Cardinality(Entries) <= Cardinality(Asleep) + kills
        BY DEF SemInv, FewEntries
      <4> QED BY <1>0, <1>1, <2>7, <3>2, <4>1, Counts DEF FewEntries
    <3>4. Pending'
      <4> SUFFICES ASSUME NEW t \in Sem, overrun = {}, Sleepers(t)' # {}
                   PROVE  value'[t] + procs_queue_size'[t] <= Cardinality(Sleepers(t)') + Cardinality(Woken(t)') + kills
        BY <1>1 DEF Pending
      <4>1. value[t] + procs_queue_size[t] <= Cardinality(Sleepers(t)) + Cardinality(Woken(t)) + kills
        BY <3>2 DEF SemInv, Pending
      <4>2. Cardinality(Sleepers(t)') + Cardinality(Woken(t)') = Cardinality(Sleepers(t)) + Cardinality(Woken(t))
        <5>1. CASE t = at[first]
          <6>1. Cardinality(Sleepers(t)) \in Nat /\ Cardinality(Woken(t)) \in Nat
            BY Counts
          <6> QED BY <3>2, <5>1, <6>1
        <5>2. CASE t # at[first]
          BY <3>2, <5>2
        <5> QED BY <5>1, <5>2
      <4>3. value'[t] + procs_queue_size'[t] = value[t] + procs_queue_size[t]
        <5>1. CASE t = s
          BY <1>2, <1>3, <2>4, <5>1 DEF n
        <5>2. CASE t # s
          BY <1>3, <2>4, <5>2
        <5> QED BY <5>1, <5>2
      <4> QED BY <4>1, <4>2, <4>3
    <3> QED BY <1>5, <2>3, <2>5, <2>9, <3>3, <3>4 DEF SemInv
  <2>11. CASE first \notin Asleep
    <3>1. \A q \in Process : st'[q] = st[q]
      BY <2>1, <2>11 DEF Asleep
    <3>2. Asleep' = Asleep /\ \A t : Sleepers(t)' = Sleepers(t) /\ Woken(t)' = Woken(t)
      BY <1>1, <3>1, SameSleepers
    <3>3. FewEntries'
      <4>1. Cardinality(Entries) <= Cardinality(Asleep) + kills
        BY DEF SemInv, FewEntries
      <4> QED BY <1>0, <1>1, <2>7, <3>2, <4>1, Counts DEF FewEntries
    <3>4. Pending'
      <4> SUFFICES ASSUME NEW t \in Sem, overrun = {}, Sleepers(t) # {}
                   PROVE  value'[t] + procs_queue_size'[t] <= Cardinality(Sleepers(t)) + Cardinality(Woken(t)) + kills
        BY <1>1, <3>2 DEF Pending
      <4>1. value[t] + procs_queue_size[t] <= Cardinality(Sleepers(t)) + Cardinality(Woken(t)) + kills
        BY DEF SemInv, Pending
      <4>2. value'[t] + procs_queue_size'[t] = value[t] + procs_queue_size[t]
        <5>1. CASE t = s
          BY <1>2, <1>3, <2>4, <5>1 DEF n
        <5>2. CASE t # s
          BY <1>3, <2>4, <5>2
        <5> QED BY <5>1, <5>2
      <4> QED BY <4>1, <4>2
    <3> QED BY <1>5, <2>3, <2>5, <2>9, <3>3, <3>4 DEF SemInv
  <2> QED BY <2>10, <2>11
<1> QED BY <1>6, <1>7

-----------------------------------------------------------------------------
(* The theorems.                                                           *)

\* Every step of programs that use semaphores keeps the invariant.
LEMMA SemInvStep == ASSUME SemInv, NEW S \in SUBSET Sem, Clients(S) PROVE SemInv'
<1>1. ASSUME NEW s \in S, NEW v \in Values, sem_init(s, v) PROVE SemInv'
  BY <1>1, sem_initKeeps, SemAssumption
<1>2. ASSUME NEW p \in Process, NEW s \in S, AcquireFree(p, s) \/ AcquireWait(p, s) \/ sem_release(p, s)
      PROVE  SemInv'
  BY <1>2, AcquireFreeKeeps, AcquireWaitKeeps, sem_releaseKeeps
<1>3. ASSUME NEW p \in Process, AcquireWoken(p) \/ kill(p) \/ ExitAndFork(p) PROVE SemInv'
  BY <1>3, AcquireWokenKeeps, killKeeps, ExitAndForkKeeps
<1> QED BY <1>1, <1>2, <1>3 DEF Clients

\* A step that changes no semaphore.
LEMMA SemInvStutters == ASSUME SemInv, UNCHANGED semvars PROVE SemInv'
<1>1. UNCHANGED <<value, front_proc_index, procs_queue_size, queue, ready, st, at, held, killed, kills, overrun>>
  BY DEF semvars, semtable
<1>2. SemTypeOK' /\ Initialised'
  BY <1>1 DEF SemInv, SemTypeOK, Initialised
<1>3. kills' >= kills /\ \A t \in Sem : value'[t] <= value[t]
  BY <1>1, SemAssumption DEF SemInv, SemTypeOK
<1> QED BY <1>1, <1>2, <1>3, QuietKeeps

\* The invariant holds in every state.
LEMMA SemInvariant == SemSpec => []SemInv
<1>1. SemInv /\ [Clients(Sem)]_semvars => SemInv'
  BY SemInvStep, SemInvStutters
<1> QED BY <1>1, SemInvInit, PTL DEF SemSpec

\* A queue has an entry for every sleeper.
LEMMA SleepersFit ==
  ASSUME SemInv, NEW s \in Sem \ overrun
  PROVE  Cardinality(Sleepers(s)) <= procs_queue_size[s]
<1> DEFINE n == procs_queue_size[s]
           where(p) == CHOOSE i \in 0 .. n - 1 : queue[s][Slot(s, i)] = p
           f == [p \in Sleepers(s) |-> where(p)]
<1>1. n \in Nat
  BY SemAssumption DEF SemInv, SemTypeOK
<1>2. \A p \in Sleepers(s) : where(p) \in 0 .. n - 1 /\ queue[s][Slot(s, where(p))] = p
  BY DEF SemInv, InQueue, Sleepers, Asleep
<1>3. IsFiniteSet(0 .. n - 1) /\ Cardinality(0 .. n - 1) = n
  <2>1. 0 \in Int /\ n - 1 \in Int
    BY <1>1
  <2>2. IsFiniteSet(0 .. n - 1) /\ Cardinality(0 .. n - 1) = IF 0 > n - 1 THEN 0 ELSE (n - 1) - 0 + 1
    BY <2>1, FS_Interval
  <2> QED BY <1>1, <2>2
<1> HIDE DEF n, where
<1>4. f \in Injection(Sleepers(s), 0 .. n - 1)
  <2>1. f \in [Sleepers(s) -> 0 .. n - 1]
    BY <1>2
  <2>2. ASSUME NEW p \in Sleepers(s), NEW q \in Sleepers(s), f[p] = f[q] PROVE p = q
    <3>1. where(p) = where(q)
      BY <2>2
    <3> QED BY <1>2, <3>1
  <2> HIDE DEF f
  <2> QED BY <2>1, <2>2 DEF Injection, IsInjective
<1>5. Cardinality(Sleepers(s)) <= n
  BY <1>3, <1>4, FS_Injection
<1> QED BY <1>5 DEF n

\* What the invariant says of a queue.
LEMMA SemInvQueue == SemInv => QueueOfSleepers
<1> SUFFICES ASSUME SemInv, NEW s \in Sem \ overrun PROVE Sleepers(s) \subseteq Waiting(s)
  BY QueueBound DEF QueueOfSleepers, SemInv, Overruns
<1>1. \A p \in Sleepers(s) : p \in Asleep /\ at[p] = s
  BY DEF Sleepers, Asleep
<1> QED BY <1>1 DEF SemInv, InQueue, Slot, Waiting

\* What it says of a semaphore that is available.
LEMMA SemInvAvailable == SemInv => NoSleeperLeftBehind
<1> SUFFICES ASSUME SemInv, NEW s \in ready, overrun = {}, Sleepers(s) # {}
             PROVE  value[s] <= Cardinality(Woken(s)) + kills
  BY DEF NoSleeperLeftBehind, Woken
<1>1. s \in Sem /\ value[s] \in Int /\ procs_queue_size[s] \in Nat /\ kills \in Nat
  BY SemAssumption DEF SemInv, SemTypeOK
<1>2. value[s] + procs_queue_size[s] <= Cardinality(Sleepers(s)) + Cardinality(Woken(s)) + kills
  BY <1>1 DEF SemInv, Pending
<1>3. Cardinality(Sleepers(s)) <= procs_queue_size[s]
  BY <1>1, SleepersFit
<1> QED BY <1>1, <1>2, <1>3, Counts

\* In every run of programs that call sem_init, sem_acquire and sem_release on
\* semaphores of the kernel, and are killed as often as one likes, the queue of a
\* semaphore holds every process that sleeps on it until sem_acquire() writes it
\* when it is full; and that takes a kill() for each place the queue has beyond
\* one per process, and one more.
THEOREM QueueOfSleepersAlways == SemSpec => []QueueOfSleepers
BY SemInvariant, SemInvQueue, PTL

\* In every such run, until a queue is written when full, no process sleeps on a
\* semaphore whose units exceed the woken processes that are about to take one and
\* the wakeups that kills have cost.
THEOREM NoSleeperLeftBehindAlways == SemSpec => []NoSleeperLeftBehind
BY SemInvariant, SemInvAvailable, PTL

==============================================================================
