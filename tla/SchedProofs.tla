---------------------------- MODULE SchedProofs ------------------------------
(***************************************************************************)
(* Proofs about module Sched: a process of queue 1 has its turn within     *)
(* NPROC ticks, and no process waits for longer than STARVING_THRESHOLD    *)
(* and NPROC ticks.                                                        *)
(***************************************************************************)
EXTENDS Sched, Remainders, FiniteSetTheorems, WellFoundedInduction, TLAPS

\* The processors that have chosen a process since the last tick.
Fresh == {c \in CPU : c \notin due /\ proc[c] # None}

\* The ticks for which p has waited in queue 1.
Waited(p) == IF age[p] <= wait[p] THEN age[p] ELSE wait[p]

\* The processes that round_robin does not choose before p.
Behind(p) == {q \in Process \ {p} : age[q] < age[p]}

-----------------------------------------------------------------------------
(* The inductive invariant.                                                *)

\* A processor runs a process of its own, and only who is RUNNABLE waits.
Running ==
  /\ \A c \in CPU : proc[c] # None => state[proc[c]] = "RUNNING"
  /\ \A c, d \in CPU : c # d /\ proc[c] # None => proc[c] # proc[d]
  /\ \A p \in Process : state[p] # "RUNNABLE" => wait[p] = 0

\* A pass of scheduler() has promoted those who had waited for too long.
Promoted ==
  Fresh # {} => \A p \in Process : state[p] = "RUNNABLE" /\ wait[p] > 0 => age[p] < STARVING_THRESHOLD

\* Every tick that p waits, another process goes behind it for good.
Turns ==
  \A p \in Process : state[p] = "RUNNABLE" /\ queue[p] = 1 =>
    Waited(p) <= Cardinality(Behind(p)) + IF Fresh = {} THEN 1 ELSE 0

\* In the other queues entered_queue is no later than the beginning of the wait.
Waits ==
  \A p \in Process : state[p] = "RUNNABLE" =>
    wait[p] <= age[p] + IF queue[p] = 1 THEN STARVING_THRESHOLD ELSE 0

SchedInv == SchedTypeOK /\ Running /\ Promoted /\ Turns /\ Waits

-----------------------------------------------------------------------------
(* Numbers and sets.                                                       *)

\* A function with integer values has a least one on a finite set.
LEMMA LeastValue ==
  ASSUME NEW S, S # {}, IsFiniteSet(S), NEW f, \A x \in S : f[x] \in Int
  PROVE  \E x \in S : \A y \in S : f[x] <= f[y]
<1> DEFINE Below(x) == {y \in S : f[y] < f[x]}
           T == {Below(x) : x \in S}
<1>1. T \subseteq SUBSET S /\ T # {}
  OBVIOUS
<1>2. \E X \in T : \A Y \in T : ~(<<Y, X>> \in StrictSubsetOrdering(S))
  <2> HIDE DEF T
  <2>1. IsWellFoundedOn(StrictSubsetOrdering(S), SUBSET S)
    BY Zenon, FS_StrictSubsetOrderingWellFounded, FS_FiniteSubsetsOfFinite
  <2> QED BY Zenon, <1>1, <2>1, WFMin
<1>3. PICK x \in S : \A y \in S : ~(<<Below(y), Below(x)>> \in StrictSubsetOrdering(S))
  BY Zenon, <1>2
<1>4. ASSUME NEW y \in S, f[y] < f[x] PROVE FALSE
  <2>1. y \in Below(x) /\ y \notin Below(y) /\ Below(y) \subseteq Below(x)
    BY <1>4
  <2>2. Below(y) \in SUBSET S /\ Below(x) \in SUBSET S
    OBVIOUS
  <2> HIDE DEF Below
  <2>3. <<Below(y), Below(x)>> \in StrictSubsetOrdering(S)
    BY Zenon, <2>1, <2>2 DEF StrictSubsetOrdering
  <2> QED BY Zenon, <1>3, <2>3
<1> QED BY <1>4

\* The process table is finite.
LEMMA ProcessFinite == IsFiniteSet(Process) /\ Cardinality(Process) = NPROC /\ \A S \in SUBSET Process : IsFiniteSet(S)
<1>1. IsFiniteSet(Process) /\ Cardinality(Process) = NPROC
  BY SchedAssumption, FS_Interval DEF Process
<1> QED BY Zenon, <1>1, FS_Subset

\* The less of two numbers.
LEMMA MinOfTwo ==
  ASSUME NEW a \in Nat, NEW b \in Nat
  PROVE  Min({a, b}) = IF a <= b THEN a ELSE b
<1>1. \E x \in {a, b} : \A y \in {a, b} : x <= y
  OBVIOUS
<1>2. Min({a, b}) \in {a, b} /\ \A y \in {a, b} : Min({a, b}) <= y
  BY Zenon, <1>1 DEF Min
<1> QED BY <1>2

\* The first process of a set.
LEMMA FirstIs ==
  ASSUME NEW S \in SUBSET Process
  PROVE  /\ S = {} => First(S) = None
         /\ S # {} => First(S) \in S /\ First(S) # None
<1>1. 0 \notin S /\ IsFiniteSet(S) /\ \A x \in S : x \in Int
  <2>1. 0 \notin S /\ \A x \in S : x \in Int
    BY DEF Process
  <2> QED BY Zenon, <2>1, ProcessFinite
<1>2. ASSUME S # {} PROVE Min(S) \in S
  <2> DEFINE f == [x \in S |-> x]
  <2>1. \A x \in S : f[x] = x /\ f[x] \in Int
    BY Zenon, <1>1
  <2> HIDE DEF f
  <2>2. \E x \in S : \A y \in S : f[x] <= f[y]
    BY Zenon, <1>1, <1>2, <2>1, LeastValue
  <2>3. \E x \in S : \A y \in S : x <= y
    BY Zenon, <2>1, <2>2
  <2> QED BY Zenon, <2>3 DEF Min
<1> QED BY Zenon, <1>1, <1>2 DEF First, None

-----------------------------------------------------------------------------
(* The choice.                                                             *)

\* What is chosen is RUNNABLE.
LEMMA ChoiceIs ==
  ASSUME NEW t, NEW cy
  PROVE  /\ Choice(t, cy) \in Process \union {None}
         /\ Choice(t, cy) # None => state[Choice(t, cy)] = "RUNNABLE"
<1> DEFINE Run == {p \in Process : state[p] = "RUNNABLE"}
<1>1. round_robin \in Run \union {None}
  <2> DEFINE S == {p \in InQueue(1) : FixedAge[p] > 0}
             X == {p \in S : \A q \in S : FixedAge[p] >= FixedAge[q]}
  <2>1. X \in SUBSET Process /\ X \subseteq Run
    BY Zenon DEF InQueue
  <2>2. round_robin = First(X)
    BY Zenon DEF round_robin
  <2> HIDE DEF X
  <2> QED BY Zenon, <2>1, <2>2, FirstIs
<1>2. lottery(t) \in Run \union {None}
  <2> DEFINE S == InQueue(2)
             n == generate_random_number(t, TicketSum(S))
             X == {p \in S : n <= TicketSum({q \in S : q <= p})}
  <2>1. X \in SUBSET Process /\ X \subseteq Run
    BY Zenon DEF InQueue
  <2>2. lottery(t) = First(X)
    BY Zenon DEF lottery
  <2> HIDE DEF X
  <2> QED BY Zenon, <2>1, <2>2, FirstIs
<1>3. bjf(t, cy) \in Run \union {None}
  <2> DEFINE S == {p \in InQueue(3) : get_rank(p, t, cy) < 10 * MIN_BJF_RANK}
             X == {p \in S : \A q \in S : get_rank(p, t, cy) <= get_rank(q, t, cy)}
  <2>1. X \in SUBSET Process /\ X \subseteq Run
    BY Zenon DEF InQueue
  <2>2. bjf(t, cy) = First(X)
    BY Zenon DEF bjf
  <2> HIDE DEF X
  <2> QED BY Zenon, <2>1, <2>2, FirstIs
<1>4. Choice(t, cy) \in Run \union {None}
  BY Zenon, <1>1, <1>2, <1>3 DEF Choice
<1> QED BY Zenon, <1>4

\* While p waits in queue 1 somebody is chosen, who has waited as long as p.
LEMMA RoundRobinIs ==
  ASSUME SchedTypeOK, NEW p \in Process, state[p] = "RUNNABLE", FixedQueue[p] = 1, FixedAge[p] > 0, NEW t, NEW cy
  PROVE  Choice(t, cy) \in Process /\ Choice(t, cy) # None /\ FixedAge[Choice(t, cy)] >= FixedAge[p]
<1> DEFINE S == {q \in InQueue(1) : FixedAge[q] > 0}
           X == {q \in S : \A r \in S : FixedAge[q] >= FixedAge[r]}
<1>1. p \in S /\ X \in SUBSET Process /\ \A q \in S : q \in Process
  BY Zenon DEF InQueue
<1>2. \A q \in Process : FixedAge[q] \in 0 .. STARVING_THRESHOLD
  BY SchedAssumption DEF FixedAge, SchedTypeOK
<1>3. X # {}
  <2>1. \A q \in S : FixedAge[q] \in 0 .. STARVING_THRESHOLD
    BY Zenon, <1>1, <1>2
  <2> HIDE DEF S
  <2> DEFINE f == [q \in S |-> -FixedAge[q]]
  <2>2. \A q \in S : f[q] = -FixedAge[q] /\ f[q] \in Int
    BY <2>1, SchedAssumption
  <2>3. IsFiniteSet(S)
    <3>1. S \in SUBSET Process
      BY Zenon, <1>1
    <3> QED BY Zenon, <3>1, ProcessFinite
  <2> HIDE DEF f
  <2>4. \E q \in S : \A r \in S : f[q] <= f[r]
    BY Zenon, <1>1, <2>2, <2>3, LeastValue
  <2>5. \E q \in S : \A r \in S : FixedAge[q] >= FixedAge[r]
    BY <2>1, <2>2, <2>4, SchedAssumption
  <2> QED BY Zenon, <2>5
<1>4. round_robin = First(X)
  BY Zenon DEF round_robin
<1>5. \A q \in X : q \in Process /\ FixedAge[q] >= FixedAge[p]
  BY Zenon, <1>1
<1> HIDE DEF X
<1>6. round_robin \in X /\ round_robin # None
  BY Zenon, <1>1, <1>3, <1>4, FirstIs
<1> QED BY Zenon, <1>5, <1>6 DEF Choice

-----------------------------------------------------------------------------
(* Waiting.                                                                *)

\* Who is behind a process.
LEMMA BehindCounts ==
  ASSUME NEW p \in Process
  PROVE  IsFiniteSet(Behind(p)) /\ Cardinality(Behind(p)) \in Nat /\ Cardinality(Behind(p)) <= NPROC - 1
<1>1. IsFiniteSet(Process) /\ Cardinality(Process) = NPROC
  BY Zenon, ProcessFinite
<1>2. IsFiniteSet(Process \ {p}) /\ Cardinality(Process \ {p}) = NPROC - 1
  BY Zenon, <1>1, FS_RemoveElement
<1>3. Behind(p) \in SUBSET (Process \ {p})
  BY Zenon DEF Behind
<1>4. IsFiniteSet(Behind(p)) /\ Cardinality(Behind(p)) <= NPROC - 1
  BY <1>2, <1>3, FS_Subset
<1> QED BY Zenon, <1>4, FS_CardinalityType

\* The same in the next state.
LEMMA BehindCountsNext ==
  ASSUME NEW p \in Process
  PROVE  IsFiniteSet(Behind(p)') /\ Cardinality(Behind(p)') \in Nat
<1>1. \A q \in Process : IsFiniteSet(Behind(q)) /\ Cardinality(Behind(q)) \in Nat
  BY Zenon, BehindCounts
<1>2. (\A q \in Process : IsFiniteSet(Behind(q)) /\ Cardinality(Behind(q)) \in Nat)'
  BY <1>1, PTL
<1> QED BY Zenon, <1>2

\* Nobody comes out from behind p while the age of p is kept.
LEMMA BehindGrows ==
  ASSUME SchedTypeOK, SchedTypeOK', NEW p \in Process, age'[p] = age[p], \A q \in Process : age'[q] <= age[q]
  PROVE  Behind(p) \subseteq Behind(p)' /\ Cardinality(Behind(p)) <= Cardinality(Behind(p)')
<1>1. Behind(p) \subseteq Behind(p)'
  <2>1. \A q \in Process : age[q] \in Int /\ age'[q] \in Int
    BY SchedAssumption DEF SchedTypeOK
  <2> QED BY <2>1 DEF Behind
<1> QED BY Zenon, <1>1, BehindCountsNext, FS_Subset

\* Steps that neither choose a process nor count a tick.
LEMMA QuietKeeps ==
  ASSUME SchedInv, SchedTypeOK', Fresh' \subseteq Fresh, \A p \in Process : age'[p] <= age[p],
         \A p \in Process : state'[p] = "RUNNABLE" =>
           \/ wait'[p] = 0
           \/ state[p] = "RUNNABLE" /\ age'[p] = age[p] /\ wait'[p] = wait[p] /\ queue'[p] = queue[p]
  PROVE  Promoted' /\ Turns' /\ Waits'
<1>0. SchedTypeOK /\ \A p \in Process : age[p] \in Nat /\ wait[p] \in Nat /\ age'[p] \in Nat
  BY SchedAssumption DEF SchedInv, SchedTypeOK
<1>1. Promoted'
  <2> SUFFICES ASSUME Fresh' # {}, NEW p \in Process, state'[p] = "RUNNABLE", wait'[p] > 0
               PROVE  age'[p] < STARVING_THRESHOLD
    BY Zenon DEF Promoted
  <2>1. Fresh # {} /\ state[p] = "RUNNABLE" /\ age'[p] = age[p] /\ wait'[p] = wait[p]
    OBVIOUS
  <2> QED BY Zenon, <2>1 DEF SchedInv, Promoted
<1>2. Turns'
  <2> SUFFICES ASSUME NEW p \in Process, state'[p] = "RUNNABLE", queue'[p] = 1
               PROVE  Waited(p)' <= Cardinality(Behind(p)') + IF Fresh' = {} THEN 1 ELSE 0
    BY Zenon DEF Turns
  <2>1. CASE wait'[p] = 0
    <3>1. Waited(p)' = 0
      BY <1>0, <2>1 DEF Waited
    <3> QED BY <3>1, BehindCountsNext
  <2>2. CASE wait'[p] # 0
    <3>1. state[p] = "RUNNABLE" /\ age'[p] = age[p] /\ wait'[p] = wait[p] /\ queue[p] = 1
      BY Zenon, <2>2
    <3>2. Waited(p)' = Waited(p) /\ Waited(p) \in Nat
      BY Zenon, <1>0, <3>1 DEF Waited
    <3>3. Waited(p) <= Cardinality(Behind(p)) + IF Fresh = {} THEN 1 ELSE 0
      BY Zenon, <3>1 DEF SchedInv, Turns
    <3>4. Cardinality(Behind(p)) <= Cardinality(Behind(p)')
      BY Zenon, <1>0, <3>1, BehindGrows
    <3> QED BY <3>2, <3>3, <3>4, BehindCounts, BehindCountsNext
  <2> QED BY Zenon, <2>1, <2>2
<1>3. Waits'
  <2> SUFFICES ASSUME NEW p \in Process, state'[p] = "RUNNABLE"
               PROVE  wait'[p] <= age'[p] + IF queue'[p] = 1 THEN STARVING_THRESHOLD ELSE 0
    BY Zenon DEF Waits
  <2>1. CASE wait'[p] = 0
    BY <1>0, <2>1, SchedAssumption
  <2>2. CASE wait'[p] # 0
    BY Zenon, <2>2 DEF SchedInv, Waits
  <2> QED BY Zenon, <2>1, <2>2
<1> QED BY Zenon, <1>1, <1>2, <1>3

-----------------------------------------------------------------------------
(* The steps.                                                              *)

\* The number of tickets of a new process.
LEMMA TicketsIs == ASSUME NEW t \in Nat PROVE NewTickets(t) \in 0 .. DEFAULT_MAX_TICKETS
<1> DEFINE n == DEFAULT_MAX_TICKETS
<1>0. n \in Nat \ {0}
  BY Zenon, SchedAssumption
<1> HIDE DEF n
<1>1. CASE 1 >= n
  <2>1. generate_random_number(t, n) = n
    BY <1>0, <1>1 DEF generate_random_number
  <2> QED BY <1>0, <2>1 DEF NewTickets, n
<1>2. CASE ~(1 >= n)
  <2> DEFINE a == (t + 2) % n
             b == (1 + a * (t + 1) * 132) % n
             c == t % n
             d == (2 * n) % n
             r == (1 + b) * (1 + c) * (1 + d)
  <2>1. a \in Nat /\ c \in Nat /\ d \in Nat
    BY <1>0, ModDiv
  <2>2. 1 + a * (t + 1) * 132 \in Nat
    <3> HIDE DEF a
    <3> QED BY <2>1
  <2>3. b \in Nat
    <3> DEFINE x == 1 + a * (t + 1) * 132
    <3>1. x \in Nat
      BY Zenon, <2>2
    <3>2. b = x % n
      OBVIOUS
    <3> HIDE DEF x, b
    <3> QED BY <1>0, <3>1, <3>2, ModDiv
  <2>4. generate_random_number(t, n) = (r % n) + 1
    BY Zenon, <1>2 DEF generate_random_number
  <2> HIDE DEF a, b, c, d
  <2>5. r \in Nat
    BY <2>1, <2>3
  <2> HIDE DEF r
  <2>6. r % n \in 0 .. n - 1
    BY Zenon, <1>0, <2>5, ModDiv
  <2>7. (r % n) + 1 \in 0 .. n
    BY <1>0, <2>6
  <2> QED BY Zenon, <2>4, <2>7 DEF NewTickets, n
<1> QED BY Zenon, <1>1, <1>2

\* A processor in scheduler(): its pass.
LEMMA schedulerKeeps ==
  ASSUME SchedInv, NEW c \in CPU, NEW t, NEW cy, scheduler(c, t, cy)
  PROVE  SchedInv'
<1>0. /\ SchedTypeOK /\ STARVING_THRESHOLD \in Nat /\ NPROC \in Nat /\ STARVING_THRESHOLD > NPROC
      /\ \A p \in Process : age[p] \in 0 .. STARVING_THRESHOLD /\ wait[p] \in Nat
  BY SchedAssumption DEF SchedInv, SchedTypeOK, WaitBound
<1> PICK p : p = Choice(t, cy)
  OBVIOUS
<1>1. /\ proc[c] = None /\ queue' = FixedQueue
      /\ age' = [q \in Process |-> IF q = p THEN 0 ELSE FixedAge[q]]
      /\ state' = [q \in Process |-> IF q = p THEN "RUNNING" ELSE state[q]]
      /\ wait' = [q \in Process |-> IF q = p THEN 0 ELSE wait[q]]
      /\ proc' = [proc EXCEPT ![c] = p]
      /\ UNCHANGED <<tickets, ratio, due, sets>>
  BY Zenon DEF scheduler
<1>2. p \in Process \union {None} /\ (p # None => state[p] = "RUNNABLE")
  BY Zenon, ChoiceIs
<1>3. \A q \in Process : /\ FixedAge[q] = IF Starving(q) THEN 0 ELSE age[q]
                         /\ FixedQueue[q] = IF Starving(q) THEN 1 ELSE queue[q]
                         /\ Starving(q) <=> state[q] = "RUNNABLE" /\ age[q] >= STARVING_THRESHOLD
  BY Zenon DEF FixedAge, FixedQueue, Starving
<1>4. \A q \in Process : /\ age'[q] = IF q = p THEN 0 ELSE FixedAge[q]
                         /\ state'[q] = IF q = p THEN "RUNNING" ELSE state[q]
                         /\ wait'[q] = IF q = p THEN 0 ELSE wait[q]
                         /\ queue'[q] = FixedQueue[q]
                         /\ FixedAge[q] \in 0 .. STARVING_THRESHOLD /\ FixedAge[q] <= age[q]
  BY <1>0, <1>1, <1>3
<1>5. proc'[c] = p /\ \A d \in CPU : d # c => proc'[d] = proc[d]
  BY Zenon, <1>0, <1>1 DEF SchedTypeOK
<1>6. SchedTypeOK'
  <2>1. queue' \in [Process -> Queues \union {Unlinked, 1}]
    BY Zenon, <1>0, <1>1 DEF FixedQueue, SchedTypeOK
  <2>2. age' \in [Process -> 0 .. STARVING_THRESHOLD]
    BY <1>0, <1>1, <1>4
  <2>3. state' \in [Process -> {"UNUSED", "RUNNABLE", "RUNNING", "SLEEPING"}]
    BY Zenon, <1>0, <1>1 DEF SchedTypeOK
  <2>4. wait' \in [Process -> 0 .. WaitBound + 1]
    BY <1>0, <1>1 DEF SchedTypeOK, WaitBound
  <2>5. proc' \in [CPU -> Process \union {None}]
    BY Zenon, <1>0, <1>1, <1>2 DEF SchedTypeOK
  <2> QED BY Zenon, <1>0, <1>1, <2>1, <2>2, <2>3, <2>4, <2>5 DEF SchedTypeOK
<1>7. Running'
  <2>1. ASSUME NEW d \in CPU, proc'[d] # None PROVE state'[proc'[d]] = "RUNNING"
    <3>1. proc'[d] \in Process
      BY Zenon, <1>6, <2>1 DEF SchedTypeOK
    <3>2. CASE d = c
      BY Zenon, <1>4, <1>5, <3>1, <3>2
    <3>3. CASE d # c
      <4>1. state[proc[d]] = "RUNNING" /\ proc'[d] = proc[d]
        BY Zenon, <1>5, <2>1, <3>3 DEF SchedInv, Running
      <4> QED BY Zenon, <1>4, <3>1, <4>1
    <3> QED BY Zenon, <3>2, <3>3
  <2>2. ASSUME NEW d \in CPU, NEW e \in CPU, d # e, proc'[d] # None PROVE proc'[d] # proc'[e]
    <3>1. ASSUME NEW x \in CPU, x # c, proc[x] # None PROVE proc[x] # p
      BY Zenon, <1>2, <3>1 DEF SchedInv, Running
    <3>2. CASE d # c /\ e # c
      BY Zenon, <1>5, <2>2, <3>2 DEF SchedInv, Running
    <3>3. CASE d = c
      BY Zenon, <1>5, <2>2, <3>1, <3>3
    <3>4. CASE e = c
      BY Zenon, <1>5, <2>2, <3>1, <3>4
    <3> QED BY Zenon, <3>2, <3>3, <3>4
  <2>3. \A q \in Process : state'[q] # "RUNNABLE" => wait'[q] = 0
    BY Zenon, <1>4 DEF SchedInv, Running
  <2> QED BY Zenon, <2>1, <2>2, <2>3 DEF Running
<1>8. Promoted'
  BY <1>0, <1>3, <1>4 DEF Promoted
<1>9. ASSUME NEW q \in Process, state'[q] = "RUNNABLE"
      PROVE  /\ q # p /\ state[q] = "RUNNABLE" /\ wait'[q] = wait[q] /\ age'[q] = FixedAge[q]
             /\ Starving(q) => age'[q] = 0 /\ queue'[q] = 1
             /\ ~Starving(q) => age'[q] = age[q] /\ queue'[q] = queue[q]
  BY Zenon, <1>3, <1>4, <1>9
<1>10. Turns'
  <2> SUFFICES ASSUME NEW q \in Process, state'[q] = "RUNNABLE", queue'[q] = 1
               PROVE  Waited(q)' <= Cardinality(Behind(q)') + IF Fresh' = {} THEN 1 ELSE 0
    BY Zenon DEF Turns
  <2>1. CASE age'[q] = 0 \/ wait'[q] = 0
    <3>1. Waited(q)' = 0
      BY <1>0, <1>4, <1>9, <2>1 DEF Waited
    <3> QED BY <3>1, BehindCountsNext
  <2>2. CASE age'[q] # 0 /\ wait'[q] # 0
    <3>1. ~Starving(q) /\ age'[q] = age[q] /\ queue[q] = 1 /\ FixedAge[q] = age[q] /\ FixedQueue[q] = 1
      BY Zenon, <1>3, <1>9, <2>2
    <3>2. p \in Process /\ p # None /\ FixedAge[p] >= FixedAge[q]
      <4>1. FixedAge[q] > 0
        BY <1>4, <2>2, <3>1, <1>9
      <4> QED BY <1>0, <1>9, <3>1, <4>1, RoundRobinIs
    <3>3. p \in Behind(q)' /\ p \notin Behind(q)
      BY <1>0, <1>3, <1>4, <1>9, <2>2, <3>1, <3>2 DEF Behind
    <3>4. Behind(q) \union {p} \subseteq Behind(q)'
      <4>1. \A r \in Process : age'[r] <= age[r]
        BY <1>0, <1>4
      <4> QED BY Zenon, <1>0, <1>6, <3>1, <3>3, <4>1, BehindGrows
    <3>5. Cardinality(Behind(q)) + 1 <= Cardinality(Behind(q)')
      <4>1. Cardinality(Behind(q) \union {p}) = Cardinality(Behind(q)) + 1
        BY Zenon, <3>3, BehindCounts, FS_AddElement
      <4>2. Cardinality(Behind(q) \union {p}) <= Cardinality(Behind(q)')
        BY Zenon, <3>4, BehindCountsNext, FS_Subset
      <4> QED BY Zenon, <4>1, <4>2
    <3>6. Waited(q)' = Waited(q) /\ Waited(q) \in Nat
      BY <1>0, <1>9, <3>1 DEF Waited
    <3>7. Waited(q) <= Cardinality(Behind(q)) + IF Fresh = {} THEN 1 ELSE 0
      BY Zenon, <1>9, <3>1 DEF SchedInv, Turns
    <3> QED BY <3>5, <3>6, <3>7, BehindCounts, BehindCountsNext
  <2> QED BY Zenon, <2>1, <2>2
<1>11. Waits'
  <2> SUFFICES ASSUME NEW q \in Process, state'[q] = "RUNNABLE"
               PROVE  wait'[q] <= age'[q] + IF queue'[q] = 1 THEN STARVING_THRESHOLD ELSE 0
    BY Zenon DEF Waits
  <2>1. CASE ~Starving(q)
    BY Zenon, <1>9, <2>1 DEF SchedInv, Waits
  <2>2. CASE Starving(q)
    <3>1. age[q] = STARVING_THRESHOLD
      BY <1>0, <1>3, <2>2
    <3>2. wait[q] <= STARVING_THRESHOLD
      <4>1. CASE queue[q] = 1
        <5>1. Waited(q) <= Cardinality(Behind(q)) + IF Fresh = {} THEN 1 ELSE 0
          BY Zenon, <1>9, <4>1 DEF SchedInv, Turns
        <5>2. Waited(q) <= NPROC
          BY <1>0, <5>1, BehindCounts DEF Waited
        <5> QED BY <1>0, <3>1, <5>2 DEF Waited
      <4>2. CASE queue[q] # 1
        BY <1>0, <1>9, <3>1, <4>2 DEF SchedInv, Waits
      <4> QED BY Zenon, <4>1, <4>2
    <3> QED BY <1>0, <1>9, <2>2, <3>2
  <2> QED BY Zenon, <2>1, <2>2
<1> QED BY Zenon, <1>6, <1>7, <1>8, <1>10, <1>11 DEF SchedInv

\* The first process waits from the start.
LEMMA SchedInvInit == SchedInit => SchedInv
<1> SUFFICES ASSUME SchedInit PROVE SchedInv
  OBVIOUS
<1>0. /\ STARVING_THRESHOLD \in Nat /\ NPROC \in Nat /\ 1 \in Process /\ None = 0
      /\ NewTickets(0) \in 0 .. DEFAULT_MAX_TICKETS /\ DEFAULT_MAX_TICKETS \in Nat /\ MaxSets \in Nat
  BY SchedAssumption, TicketsIs DEF Process, None
<1>1. SchedTypeOK
  <2>1. tickets \in [Process -> Tickets \union 0 .. DEFAULT_MAX_TICKETS]
    BY <1>0 DEF SchedInit
  <2>2. wait \in [Process -> 0 .. WaitBound + 1] /\ age \in [Process -> 0 .. STARVING_THRESHOLD]
    BY <1>0 DEF SchedInit, WaitBound
  <2>3. /\ state \in [Process -> {"UNUSED", "RUNNABLE", "RUNNING", "SLEEPING"}]
        /\ queue \in [Process -> Queues \union {Unlinked, 1}]
        /\ ratio \in [Process -> Ratios \union {<<1, 1, 1>>}]
    BY Zenon DEF SchedInit
  <2> QED BY <1>0, <2>1, <2>2, <2>3 DEF SchedInit, SchedTypeOK
<1>2. \A p \in Process : age[p] = 0 /\ wait[p] = 0
  BY Zenon DEF SchedInit
<1>3. Fresh = {}
  BY Zenon DEF Fresh, SchedInit
<1>4. Running
  BY Zenon, <1>2 DEF Running, SchedInit
<1>5. Turns
  <2>1. \A p \in Process : Waited(p) = 0
    BY Zenon, <1>2 DEF Waited
  <2> QED BY <1>3, <2>1, BehindCounts DEF Turns
<1>6. Waits
  BY <1>0, <1>2 DEF Waits
<1> QED BY Zenon, <1>1, <1>3, <1>4, <1>5, <1>6 DEF SchedInv, Promoted

\* A tick: who waits for it has seen another process go behind it.
LEMMA TickKeeps == ASSUME SchedInv, Tick PROVE SchedInv'
<1>0. /\ SchedTypeOK /\ STARVING_THRESHOLD \in Nat /\ NPROC \in Nat \ {0} /\ STARVING_THRESHOLD > NPROC
      /\ \A p \in Process : age[p] \in 0 .. STARVING_THRESHOLD /\ wait[p] \in 0 .. WaitBound + 1
      /\ WaitBound + 1 \in Nat /\ WaitBound \in Nat
  BY SchedAssumption DEF SchedInv, SchedTypeOK, WaitBound
<1>1. ASSUME NEW p \in Process
      PROVE  /\ age'[p] = IF state[p] = "UNUSED" THEN 0
                          ELSE IF age[p] + 1 <= STARVING_THRESHOLD THEN age[p] + 1 ELSE STARVING_THRESHOLD
             /\ wait'[p] = IF state[p] # "RUNNABLE" THEN 0
                           ELSE IF wait[p] + 1 <= WaitBound + 1 THEN wait[p] + 1 ELSE WaitBound + 1
  <2>1. Min({age[p] + 1, STARVING_THRESHOLD}) = IF age[p] + 1 <= STARVING_THRESHOLD THEN age[p] + 1 ELSE STARVING_THRESHOLD
    BY <1>0, MinOfTwo
  <2>2. Min({wait[p] + 1, WaitBound + 1}) = IF wait[p] + 1 <= WaitBound + 1 THEN wait[p] + 1 ELSE WaitBound + 1
    BY <1>0, MinOfTwo
  <2> QED BY Zenon, <2>1, <2>2 DEF Tick
<1>2. state' = state /\ queue' = queue /\ proc' = proc /\ due = {} /\ due' = {c \in CPU : proc[c] # None}
  BY Zenon DEF Tick
<1>3. SchedTypeOK'
  <2>1. \A p \in Process : age'[p] \in 0 .. STARVING_THRESHOLD /\ wait'[p] \in 0 .. WaitBound + 1
    BY <1>0, <1>1
  <2>2. age' \in [Process -> 0 .. STARVING_THRESHOLD] /\ wait' \in [Process -> 0 .. WaitBound + 1]
    BY Zenon, <2>1 DEF Tick
  <2> QED BY Zenon, <1>0, <2>2 DEF Tick, SchedTypeOK
<1>4. Fresh' = {}
  BY Zenon, <1>2 DEF Fresh
<1>5. Running'
  <2>1. \A p \in Process : state[p] # "RUNNABLE" => wait'[p] = 0
    BY Zenon, <1>1
  <2> QED BY Zenon, <1>2, <2>1 DEF SchedInv, Running
<1>6. ASSUME NEW p \in Process, state[p] = "RUNNABLE", wait[p] > 0
      PROVE  age[p] < STARVING_THRESHOLD /\ age'[p] = age[p] + 1
  <2>1. age[p] < STARVING_THRESHOLD
    <3>1. CASE \E c \in CPU : proc[c] = None
      BY <1>0, <1>6, <3>1 DEF Tick, Starving
    <3>2. CASE ~\E c \in CPU : proc[c] = None
      <4>1. Fresh # {}
        BY Zenon, <1>2, <3>2, SchedAssumption DEF Fresh
      <4> QED BY Zenon, <1>6, <4>1 DEF SchedInv, Promoted
    <3> QED BY Zenon, <3>1, <3>2
  <2> QED BY <1>0, <1>1, <1>6, <2>1
<1>7. Turns'
  <2> SUFFICES ASSUME NEW p \in Process, state[p] = "RUNNABLE", queue[p] = 1
               PROVE  Waited(p)' <= Cardinality(Behind(p)') + 1
    BY Zenon, <1>2, <1>4 DEF Turns
  <2>0. /\ age'[p] \in Nat /\ wait'[p] \in Nat /\ age'[p] <= age[p] + 1 /\ wait'[p] <= wait[p] + 1
        /\ Waited(p)' = IF age'[p] <= wait'[p] THEN age'[p] ELSE wait'[p]
    BY <1>0, <1>1 DEF Waited
  <2>1. CASE wait[p] = 0 \/ age[p] = 0
    <3>1. Waited(p)' <= 1 /\ Waited(p)' \in Nat
      BY <1>0, <2>0, <2>1
    <3> QED BY <3>1, BehindCountsNext
  <2>2. CASE wait[p] # 0 /\ age[p] # 0
    <3>1. age[p] < STARVING_THRESHOLD /\ age'[p] = age[p] + 1
      BY <1>0, <1>6, <2>2
    <3>2. Fresh # {}
      <4>1. SUFFICES ASSUME NEW c \in CPU, proc[c] = None PROVE FALSE
        BY Zenon, <1>2, SchedAssumption DEF Fresh
      <4>2. PICK t \in Clock, cy \in CyclesOf : Choice(t, cy) = None
        BY Zenon, <4>1 DEF Tick
      <4>3. FixedQueue[p] = 1 /\ FixedAge[p] = age[p] /\ FixedAge[p] > 0
        BY <1>0, <2>2, <3>1 DEF FixedQueue, FixedAge, Starving
      <4> QED BY Zenon, <1>0, <4>2, <4>3, RoundRobinIs
    <3>3. Waited(p) <= Cardinality(Behind(p)) /\ Waited(p) \in Nat
      <4>1. Waited(p) <= Cardinality(Behind(p)) + IF Fresh = {} THEN 1 ELSE 0
        BY Zenon DEF SchedInv, Turns
      <4> QED BY <1>0, <3>2, <4>1, BehindCounts DEF Waited
    <3>4. Cardinality(Behind(p)) <= Cardinality(Behind(p)')
      <4>1. \A q \in Process : age'[q] <= age[q] + 1 /\ age'[q] \in Nat /\ age[q] \in Nat
        BY <1>0, <1>1
      <4>2. Behind(p) \subseteq Behind(p)'
        BY <3>1, <4>1 DEF Behind
      <4> QED BY Zenon, <4>2, BehindCountsNext, FS_Subset
    <3>5. Waited(p)' <= Waited(p) + 1 /\ Waited(p)' \in Nat
      BY <1>0, <2>0 DEF Waited
    <3> QED BY <3>3, <3>4, <3>5, BehindCounts, BehindCountsNext
  <2> QED BY Zenon, <2>1, <2>2
<1>8. Waits'
  <2> SUFFICES ASSUME NEW p \in Process, state[p] = "RUNNABLE"
               PROVE  wait'[p] <= age'[p] + IF queue[p] = 1 THEN STARVING_THRESHOLD ELSE 0
    BY Zenon, <1>2 DEF Waits
  <2>0. wait[p] <= age[p] + IF queue[p] = 1 THEN STARVING_THRESHOLD ELSE 0
    BY Zenon DEF SchedInv, Waits
  <2>1. CASE wait[p] = 0
    BY <1>0, <1>1, <2>1
  <2>2. CASE wait[p] # 0
    <3>1. age'[p] = age[p] + 1 /\ wait'[p] <= wait[p] + 1 /\ wait'[p] \in Nat
      BY <1>0, <1>1, <1>6, <2>2
    <3> QED BY <1>0, <2>0, <3>1
  <2> QED BY Zenon, <2>1, <2>2
<1> QED BY Zenon, <1>3, <1>4, <1>5, <1>7, <1>8 DEF SchedInv, Promoted

\* A process gives its processor up.
LEMMA GiveUpKeeps ==
  ASSUME SchedInv, NEW c \in CPU, NEW s \in {"UNUSED", "RUNNABLE", "SLEEPING"}, GiveUp(c, s),
         /\ queue' \in [Process -> Queues \union {Unlinked, 1}]
         /\ tickets' \in [Process -> Tickets \union 0 .. DEFAULT_MAX_TICKETS]
         /\ ratio' \in [Process -> Ratios \union {<<1, 1, 1>>}]
         /\ age' \in [Process -> 0 .. STARVING_THRESHOLD],
         \A p \in Process : age'[p] <= age[p] /\ (p # proc[c] => age'[p] = age[p] /\ queue'[p] = queue[p])
  PROVE  SchedInv'
<1>0. SchedTypeOK /\ Running
  BY Zenon DEF SchedInv
<1>1. proc[c] \in Process /\ proc[c] # None /\ state[proc[c]] = "RUNNING" /\ wait[proc[c]] = 0
  BY <1>0 DEF GiveUp, SchedTypeOK, Running
<1>2. SchedTypeOK'
  <2>1. state' \in [Process -> {"UNUSED", "RUNNABLE", "RUNNING", "SLEEPING"}]
    BY Zenon, <1>0 DEF GiveUp, SchedTypeOK
  <2>2. proc' \in [CPU -> Process \union {None}] /\ due' \subseteq CPU
    BY Zenon, <1>0 DEF GiveUp, SchedTypeOK
  <2> QED BY Zenon, <1>0, <2>1, <2>2 DEF GiveUp, SchedTypeOK
<1>3. /\ proc'[c] = None /\ \A d \in CPU : d # c => proc'[d] = proc[d]
      /\ state'[proc[c]] = s /\ \A p \in Process : p # proc[c] => state'[p] = state[p]
      /\ wait' = wait /\ due' = due \ {c}
  BY Zenon, <1>0, <1>1 DEF GiveUp, SchedTypeOK
<1>4. Running'
  <2>1. ASSUME NEW d \in CPU, proc'[d] # None PROVE state'[proc'[d]] = "RUNNING"
    <3>1. d # c /\ proc'[d] = proc[d] /\ proc[d] # proc[c] /\ proc[d] \in Process
      BY <1>0, <1>1, <1>3, <2>1 DEF Running, SchedTypeOK
    <3> QED BY <1>0, <1>3, <2>1, <3>1 DEF Running
  <2>2. \A d, e \in CPU : d # e /\ proc'[d] # None => proc'[d] # proc'[e]
    BY <1>0, <1>3 DEF Running
  <2>3. \A p \in Process : state'[p] # "RUNNABLE" => wait'[p] = 0
    BY Zenon, <1>0, <1>1, <1>3 DEF Running
  <2> QED BY Zenon, <2>1, <2>2, <2>3 DEF Running
<1>5. Fresh' \subseteq Fresh
  BY Zenon, <1>3 DEF Fresh
<1>6. \A p \in Process : state'[p] = "RUNNABLE" =>
        \/ wait'[p] = 0
        \/ state[p] = "RUNNABLE" /\ age'[p] = age[p] /\ wait'[p] = wait[p] /\ queue'[p] = queue[p]
  BY Zenon, <1>1, <1>3
<1>7. Promoted' /\ Turns' /\ Waits'
  BY Zenon, <1>2, <1>5, <1>6, QuietKeeps
<1> QED BY Zenon, <1>2, <1>4, <1>7 DEF SchedInv

\* yield, sleep and exit.
LEMMA yieldKeeps == ASSUME SchedInv, NEW c \in CPU, yield(c) \/ sleep(c) \/ exit(c) PROVE SchedInv'
<1>0. SchedTypeOK /\ STARVING_THRESHOLD \in Nat /\ DEFAULT_MAX_TICKETS \in Nat
      /\ \A p \in Process : age[p] \in 0 .. STARVING_THRESHOLD
  BY Zenon, SchedAssumption DEF SchedInv, SchedTypeOK
<1>1. CASE yield(c) \/ sleep(c)
  <2>1. UNCHANGED <<queue, tickets, ratio, age>>
    BY Zenon, <1>1 DEF yield, sleep
  <2>2. \E s \in {"UNUSED", "RUNNABLE", "SLEEPING"} : GiveUp(c, s)
    BY Zenon, <1>1 DEF yield, sleep
  <2>3. \A p \in Process : age'[p] <= age[p] /\ (p # proc[c] => age'[p] = age[p] /\ queue'[p] = queue[p])
    BY <1>0, <2>1
  <2> QED BY Zenon, <1>0, <2>1, <2>2, <2>3, GiveUpKeeps DEF SchedTypeOK
<1>2. CASE exit(c)
  <2>1. GiveUp(c, "UNUSED") /\ proc[c] \in Process
    BY Zenon, <1>0, <1>2 DEF exit, GiveUp, SchedTypeOK
  <2>2. \A p \in Process : age'[p] = (IF p = proc[c] THEN 0 ELSE age[p]) /\ queue'[p] = IF p = proc[c] THEN Unlinked ELSE queue[p]
    BY Zenon, <1>0, <1>2 DEF exit, SchedTypeOK
  <2>3. \A p \in Process : age'[p] <= age[p] /\ (p # proc[c] => age'[p] = age[p] /\ queue'[p] = queue[p])
    BY <1>0, <2>2
  <2>4. queue' \in [Process -> Queues \union {Unlinked, 1}]
    BY Zenon, <1>0, <1>2, <2>1 DEF exit, SchedTypeOK
  <2>5. tickets' \in [Process -> Tickets \union 0 .. DEFAULT_MAX_TICKETS]
    BY <1>0, <1>2, <2>1 DEF exit, SchedTypeOK
  <2>6. ratio' \in [Process -> Ratios \union {<<1, 1, 1>>}]
    BY Zenon, <1>0, <1>2, <2>1 DEF exit, SchedTypeOK
  <2>7. age' \in [Process -> 0 .. STARVING_THRESHOLD]
    BY <1>0, <1>2, <2>1 DEF exit, SchedTypeOK
  <2> QED BY Zenon, <2>1, <2>3, <2>4, <2>5, <2>6, <2>7, GiveUpKeeps
<1> QED BY Zenon, <1>1, <1>2

\* wakeup1 and fork: another process is RUNNABLE.
LEMMA forkKeeps ==
  ASSUME SchedInv, NEW p \in Process,
         wakeup1(p) \/ \E c \in CPU, t \in Clock : fork(c, p, t)
  PROVE  SchedInv'
<1>0. SchedTypeOK /\ Running /\ STARVING_THRESHOLD \in Nat /\ DEFAULT_MAX_TICKETS \in Nat
      /\ \A q \in Process : age[q] \in 0 .. STARVING_THRESHOLD
  BY Zenon, SchedAssumption DEF SchedInv, SchedTypeOK
<1>1. /\ state[p] \in {"SLEEPING", "UNUSED"} /\ state' = [state EXCEPT ![p] = "RUNNABLE"]
      /\ proc' = proc /\ due' = due /\ wait' = wait /\ sets' = sets
  BY Zenon DEF wakeup1, fork
<1>2. /\ queue' \in [Process -> Queues \union {Unlinked, 1}] /\ \A q \in Process : q # p => queue'[q] = queue[q]
      /\ tickets' \in [Process -> Tickets \union 0 .. DEFAULT_MAX_TICKETS]
      /\ ratio' \in [Process -> Ratios \union {<<1, 1, 1>>}]
      /\ age' \in [Process -> 0 .. STARVING_THRESHOLD] /\ \A q \in Process : age'[q] <= age[q] /\ (q # p => age'[q] = age[q])
  <2>1. CASE wakeup1(p)
    <3>1. UNCHANGED <<queue, tickets, ratio, age>>
      BY Zenon, <2>1 DEF wakeup1
    <3> QED BY <1>0, <3>1 DEF SchedTypeOK
  <2>2. CASE \E c \in CPU, t \in Clock : fork(c, p, t)
    <3>1. PICK c \in CPU, t \in Clock : fork(c, p, t)
      BY Zenon, <2>2
    <3>2. NewTickets(t) \in 0 .. DEFAULT_MAX_TICKETS
      BY Zenon, SchedAssumption, TicketsIs
    <3>3. tickets' \in [Process -> Tickets \union 0 .. DEFAULT_MAX_TICKETS]
      BY Zenon, <1>0, <3>1, <3>2 DEF fork, SchedTypeOK
    <3>4. queue' \in [Process -> Queues \union {Unlinked, 1}] /\ \A q \in Process : q # p => queue'[q] = queue[q]
      BY Zenon, <1>0, <3>1 DEF fork, SchedTypeOK
    <3>5. ratio' \in [Process -> Ratios \union {<<1, 1, 1>>}]
      BY Zenon, <1>0, <3>1 DEF fork, SchedTypeOK
    <3>6. age' \in [Process -> 0 .. STARVING_THRESHOLD] /\ \A q \in Process : age'[q] = IF q = p THEN 0 ELSE age[q]
      BY <1>0, <3>1 DEF fork, SchedTypeOK
    <3>7. \A q \in Process : age'[q] <= age[q] /\ (q # p => age'[q] = age[q])
      BY <1>0, <3>6
    <3> QED BY Zenon, <3>3, <3>4, <3>5, <3>6, <3>7
  <2> QED BY Zenon, <2>1, <2>2
<1>3. SchedTypeOK'
  <2>1. state' \in [Process -> {"UNUSED", "RUNNABLE", "RUNNING", "SLEEPING"}]
    BY Zenon, <1>0, <1>1 DEF SchedTypeOK
  <2> QED BY Zenon, <1>0, <1>1, <1>2, <2>1 DEF SchedTypeOK
<1>4. \A q \in Process : state'[q] = IF q = p THEN "RUNNABLE" ELSE state[q]
  BY Zenon, <1>0, <1>1 DEF SchedTypeOK
<1>5. Running'
  <2>1. ASSUME NEW d \in CPU, proc'[d] # None PROVE state'[proc'[d]] = "RUNNING"
    <3>1. proc[d] \in Process /\ state[proc[d]] = "RUNNING"
      BY Zenon, <1>0, <1>1, <2>1 DEF Running, SchedTypeOK
    <3> QED BY Zenon, <1>1, <1>4, <3>1
  <2> QED BY Zenon, <1>0, <1>1, <1>4, <2>1 DEF Running
<1>6. Fresh' = Fresh
  BY Zenon, <1>1 DEF Fresh
<1>7. \A q \in Process : state'[q] = "RUNNABLE" =>
        \/ wait'[q] = 0
        \/ state[q] = "RUNNABLE" /\ age'[q] = age[q] /\ wait'[q] = wait[q] /\ queue'[q] = queue[q]
  BY Zenon, <1>0, <1>1, <1>2, <1>4 DEF Running
<1>8. Promoted' /\ Turns' /\ Waits'
  BY Zenon, <1>2, <1>3, <1>6, <1>7, QuietKeeps
<1> QED BY Zenon, <1>3, <1>5, <1>8 DEF SchedInv

\* The calls.
LEMMA CallsKeep ==
  ASSUME SchedInv, NEW c \in CPU,
         \/ \E p \in Live, k \in Queues : set_proc_queue(c, p, k)
         \/ \E p \in Live, n \in Tickets : set_lottery_params(c, p, n)
         \/ \E p \in Live, r \in Ratios : set_a_proc_bjf_params(c, p, r)
         \/ \E r \in Ratios : set_all_bjf_params(c, r)
  PROVE  SchedInv'
<1>0. SchedTypeOK /\ Running /\ STARVING_THRESHOLD \in Nat /\ MaxSets \in Nat /\ 0 \in 0 .. WaitBound + 1
      /\ \A q \in Process : age[q] \in 0 .. STARVING_THRESHOLD
  BY SchedAssumption DEF SchedInv, SchedTypeOK, WaitBound
<1>1. state' = state /\ age' = age /\ proc' = proc /\ due' = due /\ sets' \in 0 .. MaxSets
  <2>1. Sets(c)
    BY Zenon DEF set_proc_queue, set_lottery_params, set_a_proc_bjf_params, set_all_bjf_params
  <2>2. sets' \in 0 .. MaxSets
    BY <1>0, <2>1 DEF Sets, SchedTypeOK
  <2> QED BY Zenon, <2>2 DEF set_proc_queue, set_lottery_params, set_a_proc_bjf_params, set_all_bjf_params
<1>2. /\ SchedTypeOK'
      /\ \A q \in Process : wait'[q] = 0 \/ (wait'[q] = wait[q] /\ queue'[q] = queue[q])
  <2>1. CASE \E p \in Live, k \in Queues : set_proc_queue(c, p, k)
    <3>1. PICK p \in Live, k \in Queues : set_proc_queue(c, p, k)
      BY Zenon, <2>1
    <3>2. queue' \in [Process -> Queues \union {Unlinked, 1}] /\ wait' \in [Process -> 0 .. WaitBound + 1]
      BY Zenon, <1>0, <3>1 DEF set_proc_queue, SchedTypeOK
    <3>3. \A q \in Process : wait'[q] = 0 \/ (wait'[q] = wait[q] /\ queue'[q] = queue[q])
      BY Zenon, <1>0, <3>1 DEF set_proc_queue, SchedTypeOK
    <3> QED BY Zenon, <1>0, <1>1, <3>1, <3>2, <3>3 DEF set_proc_queue, SchedTypeOK
  <2>2. CASE \E p \in Live, n \in Tickets : set_lottery_params(c, p, n)
    <3>1. PICK p \in Live, n \in Tickets : set_lottery_params(c, p, n)
      BY Zenon, <2>2
    <3>2. tickets' \in [Process -> Tickets \union 0 .. DEFAULT_MAX_TICKETS]
      BY Zenon, <1>0, <3>1 DEF set_lottery_params, SchedTypeOK
    <3> QED BY Zenon, <1>0, <1>1, <3>1, <3>2 DEF set_lottery_params, SchedTypeOK
  <2>3. CASE \E p \in Live, r \in Ratios : set_a_proc_bjf_params(c, p, r)
    <3>1. PICK p \in Live, r \in Ratios : set_a_proc_bjf_params(c, p, r)
      BY Zenon, <2>3
    <3>2. ratio' \in [Process -> Ratios \union {<<1, 1, 1>>}]
      BY Zenon, <1>0, <3>1 DEF set_a_proc_bjf_params, SchedTypeOK
    <3> QED BY Zenon, <1>0, <1>1, <3>1, <3>2 DEF set_a_proc_bjf_params, SchedTypeOK
  <2>4. CASE \E r \in Ratios : set_all_bjf_params(c, r)
    <3>1. PICK r \in Ratios : set_all_bjf_params(c, r)
      BY Zenon, <2>4
    <3>2. ratio' \in [Process -> Ratios \union {<<1, 1, 1>>}]
      BY Zenon, <1>0, <3>1 DEF set_all_bjf_params, SchedTypeOK
    <3> QED BY Zenon, <1>0, <1>1, <3>1, <3>2 DEF set_all_bjf_params, SchedTypeOK
  <2> QED BY Zenon, <2>1, <2>2, <2>3, <2>4
<1>3. Running'
  BY Zenon, <1>0, <1>1, <1>2 DEF Running
<1>4. Fresh' = Fresh
  BY Zenon, <1>1 DEF Fresh
<1>5. Promoted' /\ Turns' /\ Waits'
  <2>1. \A q \in Process : age'[q] <= age[q]
    BY <1>0, <1>1
  <2>2. \A q \in Process : state'[q] = "RUNNABLE" =>
          \/ wait'[q] = 0
          \/ state[q] = "RUNNABLE" /\ age'[q] = age[q] /\ wait'[q] = wait[q] /\ queue'[q] = queue[q]
    BY Zenon, <1>1, <1>2
  <2> QED BY Zenon, <1>2, <1>4, <2>1, <2>2, QuietKeeps
<1> QED BY Zenon, <1>2, <1>3, <1>5 DEF SchedInv

-----------------------------------------------------------------------------
\* The invariant holds throughout.
THEOREM SchedInvariant == SchedSpec => []SchedInv
<1>1. SchedInit => SchedInv
  BY Zenon, SchedInvInit
<1>2. SchedInv /\ [SchedNext]_schedvars => SchedInv'
  <2> SUFFICES ASSUME SchedInv, [SchedNext]_schedvars PROVE SchedInv'
    OBVIOUS
  <2>1. CASE Tick
    BY Zenon, <2>1, TickKeeps
  <2>2. CASE \E c \in CPU, t \in Clock, cy \in CyclesOf : scheduler(c, t, cy)
    BY Zenon, <2>2, schedulerKeeps
  <2>3. CASE \E c \in CPU : yield(c) \/ sleep(c) \/ exit(c)
    BY Zenon, <2>3, yieldKeeps
  <2>4. CASE \/ \E p \in Process : wakeup1(p)
             \/ \E c \in CPU, p \in Process, t \in Clock : fork(c, p, t)
    BY Zenon, <2>4, forkKeeps
  <2>5. CASE \/ \E c \in CPU, p \in Live, k \in Queues : set_proc_queue(c, p, k)
             \/ \E c \in CPU, p \in Live, n \in Tickets : set_lottery_params(c, p, n)
             \/ \E c \in CPU, p \in Live, r \in Ratios : set_a_proc_bjf_params(c, p, r)
             \/ \E c \in CPU, r \in Ratios : set_all_bjf_params(c, r)
    BY Zenon, <2>5, CallsKeep
  <2>6. CASE UNCHANGED schedvars
    BY Zenon, <2>6 DEF schedvars, SchedInv, SchedTypeOK, Running, Promoted, Turns, Waits, Fresh, Waited, Behind
  <2> QED BY Zenon, <2>1, <2>2, <2>3, <2>4, <2>5, <2>6 DEF SchedNext
<1> QED BY <1>1, <1>2, PTL DEF SchedSpec

\* A process of queue 1 has a turn within NPROC ticks: every tick that it waits,
\* round_robin has put another process behind it.
THEOREM RoundRobinTurnAlways == SchedSpec => []RoundRobinTurn
<1>1. SchedInv => RoundRobinTurn
  <2> SUFFICES ASSUME SchedInv, NEW p \in Process, state[p] = "RUNNABLE", queue[p] = 1
               PROVE  Min({age[p], wait[p]}) <= NPROC
    BY Zenon DEF RoundRobinTurn
  <2>1. age[p] \in Nat /\ wait[p] \in Nat
    BY SchedAssumption DEF SchedInv, SchedTypeOK, WaitBound
  <2>2. Min({age[p], wait[p]}) = Waited(p) /\ Waited(p) \in Nat
    BY Zenon, <2>1, MinOfTwo DEF Waited
  <2>3. Waited(p) <= Cardinality(Behind(p)) + IF Fresh = {} THEN 1 ELSE 0
    BY Zenon DEF SchedInv, Turns
  <2>4. NPROC \in Nat /\ Cardinality(Behind(p)) \in Nat /\ Cardinality(Behind(p)) <= NPROC - 1
    BY Zenon, BehindCounts, SchedAssumption
  <2> QED BY <2>2, <2>3, <2>4
<1> QED BY <1>1, SchedInvariant, PTL

\* No process waits for longer than fix_queues takes to promote it, and then for
\* a turn of queue 1.
THEOREM NoStarvationAlways == SchedSpec => []NoStarvation
<1>1. SchedInv => NoStarvation
  <2> SUFFICES ASSUME SchedInv, NEW p \in Process PROVE wait[p] <= WaitBound
    BY Zenon DEF NoStarvation, SchedInv
  <2>0. /\ age[p] \in 0 .. STARVING_THRESHOLD /\ wait[p] \in Nat
        /\ STARVING_THRESHOLD \in Nat /\ NPROC \in Nat /\ WaitBound = STARVING_THRESHOLD + NPROC
    BY SchedAssumption DEF SchedInv, SchedTypeOK, WaitBound
  <2>1. CASE state[p] # "RUNNABLE"
    BY <2>0, <2>1 DEF SchedInv, Running
  <2>2. CASE state[p] = "RUNNABLE" /\ queue[p] # 1
    BY <2>0, <2>2 DEF SchedInv, Waits
  <2>3. CASE state[p] = "RUNNABLE" /\ queue[p] = 1
    <3>1. Waited(p) <= Cardinality(Behind(p)) + IF Fresh = {} THEN 1 ELSE 0
      BY Zenon, <2>3 DEF SchedInv, Turns
    <3>2. Waited(p) <= NPROC
      BY <2>0, <3>1, BehindCounts DEF Waited
    <3>3. wait[p] <= age[p] + STARVING_THRESHOLD
      BY Zenon, <2>3 DEF SchedInv, Waits
    <3> QED BY <2>0, <3>2, <3>3 DEF Waited
  <2> QED BY Zenon, <2>1, <2>2, <2>3
<1> QED BY <1>1, SchedInvariant, PTL

==============================================================================
