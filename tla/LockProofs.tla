----------------------------- MODULE LockProofs ------------------------------
(***************************************************************************)
(* Proofs about module LockOrder: on the kernel's paths no spin-lock       *)
(* panics and the interrupt flag is restored, and on those that keep the   *)
(* lock order no processors wait in a circle.                              *)
(***************************************************************************)
EXTENDS LockOrder, FiniteSetTheorems, SequenceTheorems, TLAPS

Path == Seq({"acquire", "release"} \X Lock)

\* An operation of a processor that has the locks H leaves it with K.  "before"
\* relates a lock to those that may be taken while it is held.
Legal(before, op, H, K) ==
  \/ /\ op[1] = "acquire" /\ op[2] \notin H
     /\ \A j \in H : <<j, op[2]>> \in before
     /\ K = H \union {op[2]}
  \/ /\ op[1] = "release" /\ op[2] \in H
     /\ K = H \ {op[2]}

\* h[i] are the locks that a processor has after i operations of P.
Trace(before, P, h) ==
  /\ h \in [0 .. Len(P) -> SUBSET Lock]
  /\ \A i \in 1 .. Len(P) : Legal(before, P[i], h[i - 1], h[i])

\* The path P takes a processor that has the locks H to one that has K.
Fits(before, P, H, K) ==
  \E h : Trace(before, P, h) /\ h[0] = H /\ h[Len(P)] = K

\* The locks c has at the head of its path: those it holds, and the one whose
\* release has begun.
Has(c) == {k \in Lock : holding(c, k)} \union (IF acq[c] = "drop" THEN {Of(c)} ELSE {})

-----------------------------------------------------------------------------
(* The inductive invariant.                                                *)

Typed ==
  /\ SpinTypeOK /\ panicked = {}
  /\ run \in [CPU -> Seq(Path)]
  /\ \A c \in CPU : Len(run[c]) \in 0 .. 2

\* What is left of a path fits what the processor has, and an interrupted path
\* has no lock.
Frame(before, c) ==
  /\ run[c] = << >> => Has(c) = {} /\ acq[c] = "out"
  /\ run[c] # << >> => Fits(before, Top(c), Has(c), {})
  /\ Len(run[c]) = 2 => Fits(before, run[c][1], {}, {})
  /\ acq[c] # "out" => Busy(c) /\ Op(c) = IF acq[c] = "drop" THEN "release" ELSE "acquire"

\* ncli counts the locks of a processor and the one it is about to take, and
\* intena is the flag to restore.
Flag(c) ==
  /\ ncli[c] = Cardinality(Has(c)) + IF acq[c] \in {"spin", "got"} THEN 1 ELSE 0
  /\ c \in IF_flag <=> ncli[c] = 0 /\ Len(run[c]) < 2
  /\ ncli[c] > 0 => (intena[c] <=> Len(run[c]) < 2)

\* A lock that is being taken or given up is locked, is nobody's, and is so by one
\* processor only.
Between(c) == acq[c] \in {"got", "drop"}

Locks ==
  /\ \A k \in Lock : cpu[k] # NoCPU => locked[k]
  /\ \A c \in CPU : Between(c) => locked[Of(c)] /\ cpu[Of(c)] = NoCPU
  /\ \A c, d \in CPU : c # d /\ Between(c) /\ Between(d) => Of(c) # Of(d)

LockInv(before) == Typed /\ (\A c \in CPU : Frame(before, c) /\ Flag(c)) /\ Locks

-----------------------------------------------------------------------------
(* Paths.                                                                  *)

Operation == {"acquire", "release"} \X Lock

\* A path that has ended leaves what it found.
LEMMA FitsEmpty == ASSUME NEW before, NEW H, NEW K, Fits(before, << >>, H, K) PROVE H = K
BY Zenon DEF Fits

\* The rest of a path fits what its first operation leaves.
LEMMA FitsTail ==
  ASSUME NEW before, NEW P \in Path, P # << >>, NEW H, NEW L, Fits(before, P, H, L)
  PROVE  H \in SUBSET Lock /\ \E K \in SUBSET Lock : Legal(before, Head(P), H, K) /\ Fits(before, Tail(P), K, L)
<1>1. Len(P) \in Nat \ {0} /\ Head(P) = P[1] /\ Len(Tail(P)) = Len(P) - 1
      /\ \A i \in 1 .. Len(P) - 1 : Tail(P)[i] = P[i + 1]
  BY HeadTailProperties, EmptySeq DEF Path
<1>2. PICK h : Trace(before, P, h) /\ h[0] = H /\ h[Len(P)] = L
  BY Zenon DEF Fits
<1>3. h \in [0 .. Len(P) -> SUBSET Lock] /\ \A i \in 1 .. Len(P) : Legal(before, P[i], h[i - 1], h[i])
  BY Zenon, <1>2 DEF Trace
<1> DEFINE n == Len(P)
           g == [i \in 0 .. n - 1 |-> h[i + 1]]
<1>4. Legal(before, Head(P), H, h[1]) /\ h[1] \in SUBSET Lock /\ H \in SUBSET Lock
  <2>1. 1 \in 1 .. Len(P) /\ 1 - 1 = 0 /\ 0 \in 0 .. Len(P) /\ 1 \in 0 .. Len(P)
    BY <1>1
  <2> QED BY Zenon, <1>1, <1>2, <1>3, <2>1
<1>5. g \in [0 .. n - 1 -> SUBSET Lock] /\ g[0] = h[1] /\ g[n - 1] = L
  BY <1>1, <1>2, <1>3
<1>6. ASSUME NEW i \in 1 .. n - 1 PROVE Legal(before, Tail(P)[i], g[i - 1], g[i])
  <2>1. i + 1 \in 1 .. n /\ (i + 1) - 1 = i /\ i - 1 \in 0 .. n - 1 /\ (i - 1) + 1 = i /\ i \in 0 .. n - 1
    BY <1>1
  <2>2. g[i - 1] = h[i] /\ g[i] = h[i + 1] /\ Tail(P)[i] = P[i + 1]
    BY Zenon, <1>1, <2>1
  <2>3. Legal(before, P[i + 1], h[i], h[i + 1])
    BY Zenon, <1>3, <2>1
  <2> QED BY Zenon, <2>2, <2>3
<1> HIDE DEF g
<1>7. Fits(before, Tail(P), h[1], L)
  BY Zenon, <1>1, <1>5, <1>6 DEF Fits, Trace
<1> QED BY Zenon, <1>4, <1>7

\* A path of a single operation.
LEMMA FitsOne ==
  ASSUME NEW before, NEW op \in Operation, NEW H \in SUBSET Lock, NEW K \in SUBSET Lock, Legal(before, op, H, K)
  PROVE  <<op>> \in Path /\ Fits(before, <<op>>, H, K)
<1> DEFINE h == [i \in 0 .. 1 |-> IF i = 0 THEN H ELSE K]
           P == <<op>>
<1>1. P \in Path /\ Len(P) = 1 /\ P[1] = op
  BY DEF Path, Operation
<1>2. h \in [0 .. 1 -> SUBSET Lock] /\ h[0] = H /\ h[1] = K
  OBVIOUS
<1> HIDE DEF h, P
<1>3. \A i \in 1 .. 1 : i = 1 /\ i - 1 = 0
  OBVIOUS
<1>4. Fits(before, P, H, K)
  BY Zenon, <1>1, <1>2, <1>3 DEF Fits, Trace
<1> QED BY Zenon, <1>1, <1>4 DEF P

\* One path after another.
LEMMA FitsConcat ==
  ASSUME NEW before, NEW P \in Path, NEW Q \in Path, NEW H, NEW K, NEW L,
         Fits(before, P, H, K), Fits(before, Q, K, L)
  PROVE  P \o Q \in Path /\ Fits(before, P \o Q, H, L)
<1> DEFINE m == Len(P)
           n == Len(Q)
           S == P \o Q
<1>1. /\ m \in Nat /\ n \in Nat /\ S \in Path /\ Len(S) = m + n
      /\ \A i \in 1 .. m + n : S[i] = IF i <= m THEN P[i] ELSE Q[i - m]
  BY Zenon, ConcatProperties, LenProperties DEF Path
<1>2. PICK g : Trace(before, P, g) /\ g[0] = H /\ g[m] = K
  BY Zenon DEF Fits
<1>3. PICK h : Trace(before, Q, h) /\ h[0] = K /\ h[n] = L
  BY Zenon DEF Fits
<1>4. /\ g \in [0 .. m -> SUBSET Lock] /\ \A i \in 1 .. m : Legal(before, P[i], g[i - 1], g[i])
      /\ h \in [0 .. n -> SUBSET Lock] /\ \A i \in 1 .. n : Legal(before, Q[i], h[i - 1], h[i])
  BY Zenon, <1>2, <1>3 DEF Trace
<1> HIDE DEF m, n, S
<1> DEFINE f == [i \in 0 .. m + n |-> IF i <= m THEN g[i] ELSE h[i - m]]
<1>5. f \in [0 .. m + n -> SUBSET Lock] /\ f[0] = H
  BY <1>1, <1>2, <1>4
<1>6. f[m + n] = L
  BY <1>1, <1>2, <1>3
<1>7. ASSUME NEW i \in 1 .. m + n PROVE Legal(before, S[i], f[i - 1], f[i])
  <2>1. CASE i <= m
    <3>1. i \in 1 .. m /\ S[i] = P[i] /\ f[i - 1] = g[i - 1] /\ f[i] = g[i]
      BY <1>1, <2>1
    <3> QED BY Zenon, <1>4, <3>1
  <2>2. CASE ~(i <= m)
    <3>1. i - m \in 1 .. n /\ S[i] = Q[i - m] /\ f[i] = h[i - m]
      BY <1>1, <2>2
    <3>2. f[i - 1] = h[(i - m) - 1]
      <4>1. CASE i = m + 1
        BY <1>1, <1>2, <1>3, <4>1
      <4>2. CASE i # m + 1
        BY <1>1, <2>2, <4>2
      <4> QED BY Zenon, <4>1, <4>2
    <3> QED BY Zenon, <1>4, <3>1, <3>2
  <2> QED BY Zenon, <2>1, <2>2
<1> HIDE DEF f
<1>8. Fits(before, S, H, L)
  BY Zenon, <1>1, <1>5, <1>6, <1>7 DEF Fits, Trace
<1> QED BY Zenon, <1>1, <1>8 DEF S

-----------------------------------------------------------------------------
(* The steps.                                                              *)

\* Every path that is started fits, from no lock to none.
PathsFit(before) ==
  \A P \in ProcessPaths \union DevicePaths \union {timer(c) : c \in CPU} :
    P \in Path /\ Fits(before, P, {}, {})

\* What a step of another processor leaves alone.
Same(d) ==
  /\ run'[d] = run[d] /\ acq'[d] = acq[d] /\ ncli'[d] = ncli[d] /\ intena'[d] = intena[d]
  /\ d \in IF_flag' <=> d \in IF_flag
  /\ \A k \in Lock : holding(d, k)' <=> holding(d, k)

\* A processor that a step leaves alone.
LEMMA SameKeeps ==
  ASSUME NEW before, NEW d \in CPU, Frame(before, d), Flag(d), Same(d)
  PROVE  Frame(before, d)' /\ Flag(d)' /\ Of(d)' = Of(d) /\ Between(d)' = Between(d)
<1>1. /\ run'[d] = run[d] /\ acq'[d] = acq[d] /\ ncli'[d] = ncli[d] /\ intena'[d] = intena[d]
      /\ d \in IF_flag' <=> d \in IF_flag
  BY Zenon DEF Same
<1>2. Top(d)' = Top(d)
  BY Zenon, <1>1 DEF Top
<1>3. Of(d)' = Of(d) /\ Op(d)' = Op(d) /\ Busy(d)' = Busy(d) /\ Between(d)' = Between(d)
  BY Zenon, <1>1, <1>2 DEF Of, Op, Busy, Between
<1>4. Has(d)' = Has(d)
  BY Zenon, <1>1, <1>3 DEF Has, Same
<1>5. Frame(before, d)'
  BY Zenon, <1>1, <1>2, <1>3, <1>4 DEF Frame
<1>6. Flag(d)'
  BY Zenon, <1>1, <1>4 DEF Flag
<1> QED BY Zenon, <1>3, <1>5, <1>6

\* The invariant, when one processor moves.
LEMMA OneMoves ==
  ASSUME NEW before, NEW c \in CPU, LockInv(before), Typed', Frame(before, c)', Flag(c)',
         \A d \in CPU \ {c} : Same(d),
         \A k \in Lock : cpu'[k] # NoCPU => locked'[k],
         \A d \in CPU : Between(d)' => locked'[Of(d)'] /\ cpu'[Of(d)'] = NoCPU,
         Between(c)' => \A d \in CPU \ {c} : Between(d) => Of(d) # Of(c)'
  PROVE  LockInv(before)'
<1>1. \A d \in CPU \ {c} : Frame(before, d)' /\ Flag(d)' /\ Of(d)' = Of(d) /\ Between(d)' = Between(d)
  BY Zenon, SameKeeps DEF LockInv
<1>2. ASSUME NEW d \in CPU, NEW e \in CPU, d # e, Between(d)', Between(e)' PROVE Of(d)' # Of(e)'
  <2>1. CASE d # c /\ e # c
    BY Zenon, <1>1, <1>2, <2>1 DEF LockInv, Locks
  <2>2. CASE d = c
    BY Zenon, <1>1, <1>2, <2>2
  <2>3. CASE e = c
    BY Zenon, <1>1, <1>2, <2>3
  <2> QED BY Zenon, <2>1, <2>2, <2>3
<1>3. Locks'
  BY Zenon, <1>2 DEF Locks
<1> QED BY Zenon, <1>1, <1>3 DEF LockInv

\* The frame that runs, and the sets of locks.
LEMMA Stack ==
  ASSUME Typed, NEW c \in CPU
  PROVE  /\ run[c] \in Seq(Path) /\ Len(run[c]) \in 0 .. 2
         /\ run[c] # << >> => Len(run[c]) \in 1 .. 2 /\ Top(c) \in Path
         /\ Len(run[c]) = 2 => run[c][1] \in Path
         /\ IsFiniteSet({k \in Lock : holding(c, k)})
<1>1. run[c] \in Seq(Path) /\ Len(run[c]) \in 0 .. 2
  BY Zenon DEF Typed
<1>2. ASSUME run[c] # << >> PROVE Len(run[c]) \in 1 .. 2 /\ Top(c) \in Path
  <2>1. Len(run[c]) \in 1 .. 2
    BY <1>1, <1>2, EmptySeq
  <2>2. Len(run[c]) \in 1 .. Len(run[c])
    BY <2>1
  <2> QED BY Zenon, <1>1, <2>1, <2>2, ElementOfSeq DEF Top
<1>3. ASSUME Len(run[c]) = 2 PROVE run[c][1] \in Path
  <2>1. 1 \in 1 .. Len(run[c])
    BY <1>3
  <2> QED BY Zenon, <1>1, <2>1, ElementOfSeq
<1>4. IsFiniteSet({k \in Lock : holding(c, k)})
  BY Zenon, SpinAssumption, FS_Subset
<1> QED BY Zenon, <1>1, <1>2, <1>3, <1>4

\* The operation at the head of a path: its lock, and what is left after it.
LEMMA HeadFits ==
  ASSUME NEW before, Typed, NEW c \in CPU, Frame(before, c), Busy(c)
  PROVE  /\ Of(c) \in Lock /\ Op(c) \in {"acquire", "release"} /\ Tail(Top(c)) \in Path
         /\ Op(c) = "acquire" => /\ Of(c) \notin Has(c) /\ \A j \in Has(c) : <<j, Of(c)>> \in before
                                 /\ Fits(before, Tail(Top(c)), Has(c) \union {Of(c)}, {})
         /\ Op(c) = "release" => /\ Of(c) \in Has(c)
                                 /\ Fits(before, Tail(Top(c)), Has(c) \ {Of(c)}, {})
<1>1. Top(c) \in Path /\ Top(c) # << >> /\ Fits(before, Top(c), Has(c), {})
  BY Zenon, Stack DEF Busy, Frame
<1>2. Head(Top(c)) \in {"acquire", "release"} \X Lock /\ Tail(Top(c)) \in Path
  BY Zenon, <1>1, HeadTailProperties DEF Path
<1>3. PICK K \in SUBSET Lock : Legal(before, Head(Top(c)), Has(c), K) /\ Fits(before, Tail(Top(c)), K, {})
  BY Zenon, <1>1, FitsTail
<1>4. Of(c) \in Lock /\ Op(c) \in {"acquire", "release"} /\ Of(c) = Head(Top(c))[2] /\ Op(c) = Head(Top(c))[1]
  BY Zenon, <1>2 DEF Of, Op
<1> QED BY Zenon, <1>2, <1>3, <1>4 DEF Legal

\* A step that ends an operation takes it off the path.
LEMMA Popped ==
  ASSUME Typed, NEW c \in CPU, Busy(c), Tail(Top(c)) \in Path,
         run' = [run EXCEPT ![c][Len(run[c])] = Tail(@)]
  PROVE  /\ run' \in [CPU -> Seq(Path)] /\ Len(run'[c]) = Len(run[c]) /\ Top(c)' = Tail(Top(c))
         /\ Len(run[c]) = 2 => run'[c][1] = run[c][1]
         /\ \A d \in CPU \ {c} : run'[d] = run[d]
<1> DEFINE s == run[c]
           n == Len(run[c])
           t == [s EXCEPT ![n] = Tail(Top(c))]
<1>1. s \in Seq(Path) /\ n \in 1 .. 2 /\ n \in 1 .. Len(s)
  <2>1. run[c] # << >>
    BY Zenon DEF Busy
  <2>2. s \in Seq(Path) /\ n \in 1 .. 2
    BY Zenon, <2>1, Stack
  <2>3. \A i \in 1 .. 2 : i \in 1 .. i
    OBVIOUS
  <2> QED BY Zenon, <2>2, <2>3
<1>2. t \in Seq(Path) /\ Len(t) = Len(s) /\ \A j \in 1 .. Len(s) : t[j] = IF j = n THEN Tail(Top(c)) ELSE s[j]
  BY <1>1, ExceptSeq
<1>3. run' = [run EXCEPT ![c] = t]
  BY Zenon DEF Top
<1> HIDE DEF t
<1>4. run' \in [CPU -> Seq(Path)] /\ run'[c] = t /\ \A d \in CPU \ {c} : run'[d] = run[d]
  BY Zenon, <1>2, <1>3 DEF Typed
<1>5. Top(c)' = Tail(Top(c))
  BY Zenon, <1>1, <1>2, <1>4 DEF Top
<1>6. n = 2 => run'[c][1] = run[c][1]
  BY <1>1, <1>2, <1>4
<1> QED BY Zenon, <1>2, <1>4, <1>5, <1>6

\* A processor starts a path.
LEMMA StartKeeps ==
  ASSUME NEW before, PathsFit(before), LockInv(before), NEW c \in CPU, NEW P \in ProcessPaths, Start(c, P)
  PROVE  LockInv(before)'
<1>0. Typed /\ Frame(before, c) /\ Flag(c) /\ Locks /\ P \in Path /\ Fits(before, P, {}, {})
  BY Zenon DEF LockInv, PathsFit
<1>1. run[c] = << >> /\ run' = [run EXCEPT ![c] = <<P>>]
      /\ UNCHANGED <<locked, cpu, ncli, intena, IF_flag, acq, panicked>>
  BY Zenon DEF Start, spinvars
<1>2. run' \in [CPU -> Seq(Path)] /\ run'[c] = <<P>> /\ \A d \in CPU \ {c} : run'[d] = run[d]
  <2>1. <<P>> \in Seq(Path)
    BY <1>0
  <2> HIDE DEF Path
  <2> QED BY Zenon, <1>0, <1>1, <2>1 DEF Typed
<1>3. Len(run'[c]) = 1 /\ Top(c)' = P /\ run'[c] # << >> /\ Len(run[c]) = 0
  BY Zenon, <1>1, <1>2 DEF Top
<1>4. Typed'
  BY <1>0, <1>1, <1>2, <1>3 DEF Typed, SpinTypeOK
<1>5. Has(c) = {} /\ acq[c] = "out" /\ acq'[c] = "out"
  BY Zenon, <1>0, <1>1 DEF Frame
<1>6. Has(c)' = {}
  BY Zenon, <1>1, <1>5 DEF Has, holding
<1>7. Frame(before, c)'
  BY <1>0, <1>3, <1>5, <1>6 DEF Frame
<1>8. Flag(c)'
  BY <1>0, <1>1, <1>3, <1>5, <1>6 DEF Flag
<1>9. \A d \in CPU \ {c} : Same(d)
  BY Zenon, <1>1, <1>2 DEF Same, holding
<1>10. ~Between(c)' /\ \A d \in CPU \ {c} : Of(d)' = Of(d) /\ Between(d)' = Between(d)
  BY Zenon, <1>1, <1>2, <1>5 DEF Between, Of, Top
<1>11. \A d \in CPU : Between(d)' => locked'[Of(d)'] /\ cpu'[Of(d)'] = NoCPU
  BY Zenon, <1>0, <1>1, <1>10 DEF Locks
<1>12. \A k \in Lock : cpu'[k] # NoCPU => locked'[k]
  BY Zenon, <1>0, <1>1 DEF Locks
<1> QED BY Zenon, <1>4, <1>7, <1>8, <1>9, <1>10, <1>11, <1>12, OneMoves

\* An interrupt finds the processor without a lock.
LEMMA InterruptKeeps ==
  ASSUME NEW before, PathsFit(before), LockInv(before), NEW c \in CPU,
         NEW H \in DevicePaths \union {timer(c)}, Interrupt(c, H)
  PROVE  LockInv(before)'
<1>0. Typed /\ Frame(before, c) /\ Flag(c) /\ Locks /\ H \in Path /\ Fits(before, H, {}, {})
  BY Zenon DEF LockInv, PathsFit
<1>1. /\ c \in IF_flag /\ Len(run[c]) = 1 /\ acq[c] = "out" /\ run' = [run EXCEPT ![c] = Append(@, H)]
      /\ IF_flag' = IF_flag \ {c}
      /\ UNCHANGED <<locked, cpu, ncli, intena, acq, panicked>>
  BY Zenon DEF Interrupt
<1>2. run[c] \in Seq(Path) /\ run[c] # << >> /\ Top(c) = run[c][1]
  <2>1. run[c] \in Seq(Path)
    BY Zenon, <1>0, Stack
  <2>2. run[c] # << >>
    <3>1. Len(<< >>) = 0
      OBVIOUS
    <3> QED BY <1>1, <3>1
  <2> QED BY Zenon, <1>1, <2>1, <2>2 DEF Top
<1> DEFINE s == Append(run[c], H)
<1>3. s \in Seq(Path) /\ Len(s) = 2 /\ s[1] = run[c][1] /\ s[2] = H /\ s # << >>
  <2>1. /\ s \in Seq(Path) /\ s # << >> /\ Len(s) = Len(run[c]) + 1
        /\ \A i \in 1 .. Len(run[c]) : s[i] = run[c][i]
        /\ s[Len(run[c]) + 1] = H
    BY <1>0, <1>2, AppendProperties
  <2>2. Len(run[c]) + 1 = 2 /\ 1 \in 1 .. Len(run[c])
    BY <1>1
  <2> HIDE DEF s
  <2> QED BY Zenon, <2>1, <2>2
<1>4. run' = [run EXCEPT ![c] = s]
  BY Zenon, <1>1
<1> HIDE DEF s
<1>5. run' \in [CPU -> Seq(Path)] /\ run'[c] = s /\ \A d \in CPU \ {c} : run'[d] = run[d]
  BY Zenon, <1>0, <1>3, <1>4 DEF Typed
<1>6. Typed'
  <2>1. \A d \in CPU : Len(run'[d]) \in 0 .. 2
    <3>1. 2 \in 0 .. 2
      OBVIOUS
    <3> QED BY Zenon, <1>0, <1>3, <1>5, <3>1 DEF Typed
  <2>2. SpinTypeOK' /\ panicked' = {}
    BY Zenon, <1>0, <1>1 DEF Typed, SpinTypeOK
  <2> QED BY Zenon, <1>5, <2>1, <2>2 DEF Typed
<1>7. Has(c) = {} /\ ncli[c] = 0
  <2>1. ncli[c] = 0 /\ Cardinality(Has(c)) + 0 = 0
    BY Zenon, <1>0, <1>1 DEF Flag
  <2>2. IsFiniteSet(Has(c))
    BY Zenon, <1>0, <1>1, Stack DEF Has
  <2>3. Cardinality(Has(c)) \in Nat
    BY Zenon, <2>2, FS_CardinalityType
  <2> QED BY <2>1, <2>2, <2>3, FS_EmptySet
<1>8. Has(c)' = {} /\ Top(c)' = H /\ run'[c][1] = Top(c)
  BY Zenon, <1>1, <1>2, <1>3, <1>5, <1>7 DEF Has, holding, Top
<1>9. Frame(before, c)'
  <2>1. Fits(before, run'[c][1], {}, {})
    BY Zenon, <1>0, <1>2, <1>7, <1>8 DEF Frame
  <2> QED BY Zenon, <1>0, <1>1, <1>3, <1>5, <1>8, <2>1 DEF Frame
<1>10. Flag(c)'
  BY <1>0, <1>1, <1>3, <1>5, <1>7, <1>8 DEF Flag
<1>11. \A d \in CPU \ {c} : Same(d)
  BY Zenon, <1>1, <1>5 DEF Same, holding
<1>12. ~Between(c)' /\ \A d \in CPU \ {c} : Of(d)' = Of(d) /\ Between(d)' = Between(d)
  BY Zenon, <1>1, <1>5 DEF Between, Of, Top
<1>13. \A d \in CPU : Between(d)' => locked'[Of(d)'] /\ cpu'[Of(d)'] = NoCPU
  BY Zenon, <1>0, <1>1, <1>12 DEF Locks
<1>14. \A k \in Lock : cpu'[k] # NoCPU => locked'[k]
  BY Zenon, <1>0, <1>1 DEF Locks
<1> QED BY Zenon, <1>6, <1>9, <1>10, <1>11, <1>12, <1>13, <1>14, OneMoves

\* A path or a handler that ends has given up its locks.
LEMMA ReturnKeeps ==
  ASSUME NEW before, LockInv(before), NEW c \in CPU, Return(c)
  PROVE  LockInv(before)'
<1>0. Typed /\ Frame(before, c) /\ Flag(c) /\ Locks
  BY Zenon DEF LockInv
<1>1. /\ run[c] # << >> /\ Top(c) = << >> /\ run' = [run EXCEPT ![c] = SubSeq(@, 1, Len(@) - 1)]
      /\ IF_flag' = IF Len(run[c]) = 2 THEN IF_flag \union {c} ELSE IF_flag
      /\ UNCHANGED <<locked, cpu, ncli, intena, acq, panicked>>
  BY Zenon DEF Return
<1>2. run[c] \in Seq(Path) /\ Len(run[c]) \in 1 .. 2 /\ (Len(run[c]) = 2 => run[c][1] \in Path)
  BY Zenon, <1>0, <1>1, Stack
<1> DEFINE n == Len(run[c])
           s == SubSeq(run[c], 1, n - 1)
<1>3. s \in Seq(Path) /\ Len(s) = n - 1 /\ (n = 2 => s[1] = run[c][1] /\ s # << >>) /\ (n = 1 => s = << >>)
  <2>1. CASE n = 1
    <3>1. s = << >>
      BY <2>1, SubSeqEmpty
    <3> QED BY <2>1, <3>1, EmptySeq
  <2>2. CASE n = 2
    <3>1. \A i \in 1 .. 1 : run[c][i] \in Path
      BY <1>2, <2>2
    <3>2. s = SubSeq(run[c], 1, 1)
      BY <2>2
    <3>3. SubSeq(run[c], 1, 1) \in Seq(Path) /\ Len(SubSeq(run[c], 1, 1)) = 1
          /\ \A i \in 1 .. 1 : SubSeq(run[c], 1, 1)[i] = run[c][1 + i - 1]
      <4>1. 1 \in Int /\ 1 - 1 + 1 = 1
        OBVIOUS
      <4> QED BY <3>1, <4>1, SubSeqProperties
    <3>4. s[1] = run[c][1]
      BY <3>2, <3>3
    <3> QED BY <2>2, <3>2, <3>3, <3>4, EmptySeq
  <2> QED BY <1>2, <2>1, <2>2
<1>4. run' = [run EXCEPT ![c] = s]
  BY Zenon, <1>1
<1> HIDE DEF s
<1>5. run' \in [CPU -> Seq(Path)] /\ run'[c] = s /\ \A d \in CPU \ {c} : run'[d] = run[d]
  BY Zenon, <1>0, <1>3, <1>4 DEF Typed
<1>6. Typed'
  BY <1>0, <1>1, <1>2, <1>3, <1>5 DEF Typed, SpinTypeOK
<1>7. Has(c) = {} /\ acq[c] = "out"
  BY Zenon, <1>0, <1>1, FitsEmpty DEF Frame, Busy
<1>8. Has(c)' = {} /\ ncli[c] = 0
  <2>1. Has(c)' = {}
    BY Zenon, <1>1, <1>7 DEF Has, holding
  <2>2. Cardinality(Has(c)) = 0
    BY Zenon, <1>7, FS_EmptySet
  <2> QED BY <1>0, <1>7, <2>1, <2>2 DEF Flag
<1>9. Frame(before, c)'
  <2>1. CASE n = 1
    BY <1>1, <1>3, <1>5, <1>7, <1>8, <2>1 DEF Frame
  <2>2. CASE n = 2
    <3>1. Top(c)' = run[c][1] /\ Len(run'[c]) = 1 /\ run'[c] # << >>
      <4>1. n - 1 = 1
        BY <2>2
      <4> QED BY Zenon, <1>3, <1>5, <2>2, <4>1 DEF Top
    <3>2. Fits(before, run[c][1], {}, {})
      BY Zenon, <1>0, <2>2 DEF Frame
    <3> QED BY <1>1, <1>7, <1>8, <3>1, <3>2 DEF Frame
  <2> QED BY <1>2, <2>1, <2>2
<1>10. Flag(c)'
  <2>1. Len(run'[c]) < 2 /\ c \in IF_flag' /\ ncli'[c] = 0 /\ acq'[c] = "out"
    BY <1>0, <1>1, <1>2, <1>3, <1>5, <1>7, <1>8 DEF Flag
  <2> QED BY <1>8, <2>1, FS_EmptySet DEF Flag
<1>11. \A d \in CPU \ {c} : Same(d)
  BY Zenon, <1>1, <1>5 DEF Same, holding
<1>12. ~Between(c)' /\ \A d \in CPU \ {c} : Of(d)' = Of(d) /\ Between(d)' = Between(d)
  BY Zenon, <1>1, <1>5, <1>7 DEF Between, Of, Top
<1>13. \A d \in CPU : Between(d)' => locked'[Of(d)'] /\ cpu'[Of(d)'] = NoCPU
  BY Zenon, <1>0, <1>1, <1>12 DEF Locks
<1>14. \A k \in Lock : cpu'[k] # NoCPU => locked'[k]
  BY Zenon, <1>0, <1>1 DEF Locks
<1> QED BY Zenon, <1>6, <1>9, <1>10, <1>11, <1>12, <1>13, <1>14, OneMoves

\* What an operation needs to know of its processor.
LEMMA Ready ==
  ASSUME NEW before, LockInv(before), NEW c \in CPU, Busy(c)
  PROVE  /\ Typed /\ Frame(before, c) /\ Flag(c) /\ Locks /\ run[c] # << >> /\ Top(c) # << >>
         /\ Of(c) \in Lock /\ Tail(Top(c)) \in Path /\ Len(run[c]) \in 1 .. 2
         /\ IsFiniteSet(Has(c)) /\ Cardinality(Has(c)) \in Nat
         /\ \A d \in CPU : c # NoCPU /\ (d # c /\ Between(c) /\ Between(d) => Of(d) # Of(c))
<1>1. Typed /\ Frame(before, c) /\ Flag(c) /\ Locks /\ run[c] # << >> /\ Top(c) # << >>
  BY Zenon DEF LockInv, Busy
<1>2. Of(c) \in Lock /\ Tail(Top(c)) \in Path /\ Len(run[c]) \in 1 .. 2
  BY Zenon, <1>1, HeadFits, Stack
<1>3. IsFiniteSet(Has(c))
  <2>1. IsFiniteSet({k \in Lock : holding(c, k)}) /\ IsFiniteSet({}) /\ IsFiniteSet({Of(c)})
    BY Zenon, <1>1, Stack, FS_EmptySet, FS_Singleton
  <2> QED BY Zenon, <2>1, FS_Union DEF Has
<1>4. Cardinality(Has(c)) \in Nat
  BY Zenon, <1>3, FS_CardinalityType
<1> QED BY Zenon, <1>1, <1>2, <1>3, <1>4, SpinAssumption DEF Locks

\* acquire() begins: the processor does not have the lock.
LEMMA AcquireStartKeeps ==
  ASSUME NEW before, LockInv(before), NEW c \in CPU, Busy(c), Op(c) = "acquire",
         AcquireStart(c, Of(c)), UNCHANGED run
  PROVE  LockInv(before)'
<1>0. /\ Typed /\ Frame(before, c) /\ Flag(c) /\ Locks /\ run[c] # << >> /\ Of(c) \in Lock
      /\ Len(run[c]) \in 1 .. 2 /\ Cardinality(Has(c)) \in Nat
  BY Zenon, Ready
<1>1. /\ acq[c] = "out" /\ ncli[c] < MaxNest /\ ncli' = [ncli EXCEPT ![c] = @ + 1]
      /\ intena' = [intena EXCEPT ![c] = IF ncli[c] = 0 THEN c \in IF_flag ELSE intena[c]]
      /\ IF_flag' = IF_flag \ {c} /\ acq' = [acq EXCEPT ![c] = "spin"]
      /\ panicked' = IF holding(c, Of(c)) THEN panicked \union {c} ELSE panicked
      /\ UNCHANGED <<locked, cpu>>
  BY Zenon DEF AcquireStart, pushcli, SavedFlag, clear_IF
<1>2. Of(c) \notin Has(c) /\ panicked' = panicked
  BY Zenon, <1>0, <1>1, HeadFits DEF Has
<1>3. /\ acq'[c] = "spin" /\ ncli'[c] = ncli[c] + 1 /\ ncli[c] \in Nat
      /\ intena'[c] = IF ncli[c] = 0 THEN c \in IF_flag ELSE intena[c]
      /\ \A d \in CPU \ {c} : acq'[d] = acq[d] /\ ncli'[d] = ncli[d] /\ intena'[d] = intena[d]
  BY <1>0, <1>1, SpinAssumption DEF Typed, SpinTypeOK
<1>4. Typed'
  <2>1. ncli[c] + 1 \in 0 .. MaxNest
    BY <1>0, <1>1, SpinAssumption DEF Typed, SpinTypeOK
  <2>2. ncli' \in [CPU -> 0 .. MaxNest]
    BY Zenon, <1>0, <1>1, <2>1 DEF Typed, SpinTypeOK
  <2>3. intena' \in [CPU -> BOOLEAN]
    <3> DEFINE v == IF ncli[c] = 0 THEN c \in IF_flag ELSE intena[c]
    <3>1. intena \in [CPU -> BOOLEAN] /\ intena' = [intena EXCEPT ![c] = v]
      BY Zenon, <1>0, <1>1 DEF Typed, SpinTypeOK
    <3>2. intena[c] \in BOOLEAN
      BY Zenon, <3>1
    <3>3. v \in BOOLEAN
      <4>1. CASE ncli[c] = 0
        BY <4>1
      <4>2. CASE ncli[c] # 0
        BY Zenon, <3>2, <4>2
      <4> QED BY Zenon, <4>1, <4>2
    <3> HIDE DEF v
    <3> QED BY Zenon, <3>1, <3>3
  <2>4. acq' \in [CPU -> {"out", "spin", "got", "drop"}]
    BY Zenon, <1>0, <1>1 DEF Typed, SpinTypeOK
  <2> QED BY Zenon, <1>0, <1>1, <1>2, <2>2, <2>3, <2>4 DEF Typed, SpinTypeOK
<1>5. Top(c)' = Top(c) /\ Of(c)' = Of(c) /\ Op(c)' = Op(c) /\ Busy(c)' = Busy(c)
  BY Zenon DEF Top, Of, Op, Busy
<1>6. Has(c)' = Has(c)
  BY Zenon, <1>1, <1>3 DEF Has, holding
<1>7. Frame(before, c)'
  BY Zenon, <1>0, <1>3, <1>5, <1>6 DEF Frame
<1>8. Flag(c)'
  <2>1. ncli[c] = Cardinality(Has(c))
    BY <1>0, <1>1 DEF Flag
  <2>2. intena'[c] <=> Len(run[c]) < 2
    <3>1. CASE ncli[c] = 0
      BY Zenon, <1>0, <1>3, <3>1 DEF Flag
    <3>2. CASE ncli[c] > 0
      BY Zenon, <1>0, <1>3, <3>2 DEF Flag
    <3> QED BY <1>3, <3>1, <3>2
  <2> QED BY <1>1, <1>3, <1>6, <2>1, <2>2 DEF Flag
<1>9. \A d \in CPU \ {c} : Same(d)
  BY Zenon, <1>1, <1>3 DEF Same, holding
<1>10. ~Between(c)' /\ \A d \in CPU \ {c} : Of(d)' = Of(d) /\ Between(d)' = Between(d)
  BY Zenon, <1>3 DEF Between, Of, Top
<1>11. \A d \in CPU : Between(d)' => locked'[Of(d)'] /\ cpu'[Of(d)'] = NoCPU
  BY Zenon, <1>0, <1>1, <1>10 DEF Locks
<1>12. \A k \in Lock : cpu'[k] # NoCPU => locked'[k]
  BY Zenon, <1>0, <1>1 DEF Locks
<1> QED BY Zenon, <1>4, <1>7, <1>8, <1>9, <1>10, <1>11, <1>12, OneMoves

\* The exchange gets a lock that nobody has.
LEMMA AcquireXchgKeeps ==
  ASSUME NEW before, LockInv(before), NEW c \in CPU, Busy(c), Op(c) = "acquire",
         AcquireXchg(c, Of(c)), UNCHANGED run
  PROVE  LockInv(before)'
<1>0. Typed /\ Frame(before, c) /\ Flag(c) /\ Locks /\ run[c] # << >> /\ Of(c) \in Lock
  BY Zenon, Ready
<1>1. /\ acq[c] = "spin" /\ ~locked[Of(c)] /\ locked' = [locked EXCEPT ![Of(c)] = TRUE]
      /\ acq' = [acq EXCEPT ![c] = "got"]
      /\ UNCHANGED <<cpu, ncli, intena, IF_flag, panicked>>
  BY Zenon DEF AcquireXchg
<1>2. /\ acq'[c] = "got" /\ \A d \in CPU \ {c} : acq'[d] = acq[d]
      /\ \A k \in Lock : locked'[k] = IF k = Of(c) THEN TRUE ELSE locked[k]
      /\ cpu[Of(c)] = NoCPU
  BY Zenon, <1>0, <1>1 DEF Typed, SpinTypeOK, Locks
<1>3. Typed'
  BY Zenon, <1>0, <1>1 DEF Typed, SpinTypeOK
<1>4. Top(c)' = Top(c) /\ Of(c)' = Of(c) /\ Op(c)' = Op(c) /\ Busy(c)' = Busy(c)
  BY Zenon DEF Top, Of, Op, Busy
<1>5. \A d \in CPU, k \in Lock : holding(d, k)' <=> holding(d, k)
  BY <1>0, <1>1, <1>2, SpinAssumption DEF holding, Typed, SpinTypeOK
<1>6. Has(c)' = Has(c)
  BY Zenon, <1>1, <1>2, <1>5 DEF Has
<1>7. Frame(before, c)'
  BY Zenon, <1>0, <1>1, <1>2, <1>4, <1>6 DEF Frame
<1>8. Flag(c)'
  BY Zenon, <1>0, <1>1, <1>2, <1>6 DEF Flag
<1>9. \A d \in CPU \ {c} : Same(d)
  BY Zenon, <1>1, <1>2, <1>5 DEF Same
<1>10. \A d \in CPU \ {c} : Of(d)' = Of(d) /\ Between(d)' = Between(d)
  BY Zenon, <1>2 DEF Between, Of, Top
<1>11. ASSUME NEW d \in CPU \ {c}, Between(d) PROVE Of(d) # Of(c) /\ locked[Of(d)] /\ cpu[Of(d)] = NoCPU /\ Of(d) \in Lock
  <2>1. Busy(d)
    BY Zenon, <1>11 DEF LockInv, Frame, Between
  <2> QED BY Zenon, <1>0, <1>1, <1>11, <2>1, Ready DEF Locks
<1>12. \A d \in CPU : Between(d)' => locked'[Of(d)'] /\ cpu'[Of(d)'] = NoCPU
  <2>1. locked'[Of(c)'] /\ cpu'[Of(c)'] = NoCPU
    BY Zenon, <1>0, <1>1, <1>2, <1>4
  <2>2. ASSUME NEW d \in CPU \ {c}, Between(d)' PROVE locked'[Of(d)'] /\ cpu'[Of(d)'] = NoCPU
    <3>1. Of(d)' = Of(d) /\ Between(d)
      BY Zenon, <1>10, <2>2
    <3> QED BY Zenon, <1>1, <1>2, <1>11, <3>1
  <2> QED BY Zenon, <2>1, <2>2
<1>13. \A k \in Lock : cpu'[k] # NoCPU => locked'[k]
  BY Zenon, <1>0, <1>1, <1>2 DEF Locks
<1>14. \A d \in CPU \ {c} : Between(d) => Of(d) # Of(c)'
  BY Zenon, <1>4, <1>11
<1> QED BY Zenon, <1>3, <1>7, <1>8, <1>9, <1>12, <1>13, <1>14, OneMoves

\* acquire() ends: the lock is the processor's.
LEMMA AcquireEndKeeps ==
  ASSUME NEW before, LockInv(before), NEW c \in CPU, Busy(c), Op(c) = "acquire",
         AcquireEnd(c, Of(c)), run' = [run EXCEPT ![c][Len(run[c])] = Tail(@)]
  PROVE  LockInv(before)'
<1>0. /\ Typed /\ Frame(before, c) /\ Flag(c) /\ Locks /\ run[c] # << >> /\ Of(c) \in Lock
      /\ Tail(Top(c)) \in Path /\ Len(run[c]) \in 1 .. 2
      /\ IsFiniteSet(Has(c)) /\ Cardinality(Has(c)) \in Nat /\ c # NoCPU
  BY Zenon, Ready
<1> PICK k \in Lock : k = Of(c)
  BY Zenon, <1>0
<1>1. /\ acq[c] = "got" /\ cpu' = [cpu EXCEPT ![k] = c] /\ acq' = [acq EXCEPT ![c] = "out"]
      /\ UNCHANGED <<locked, ncli, intena, IF_flag, panicked>>
  BY Zenon DEF AcquireEnd
<1>2. /\ acq'[c] = "out" /\ \A d \in CPU \ {c} : acq'[d] = acq[d]
      /\ \A j \in Lock : cpu'[j] = IF j = k THEN c ELSE cpu[j]
      /\ locked[k] /\ cpu[k] = NoCPU
  BY Zenon, <1>0, <1>1 DEF Typed, SpinTypeOK, Locks, Between
<1>3. /\ run' \in [CPU -> Seq(Path)] /\ Len(run'[c]) = Len(run[c]) /\ Top(c)' = Tail(Top(c))
      /\ Len(run[c]) = 2 => run'[c][1] = run[c][1]
      /\ \A d \in CPU \ {c} : run'[d] = run[d]
  BY Zenon, <1>0, Popped
<1>4. Typed'
  <2>1. \A d \in CPU : Len(run'[d]) \in 0 .. 2
    BY Zenon, <1>0, <1>3 DEF Typed
  <2>2. SpinTypeOK' /\ panicked' = {}
    BY Zenon, <1>0, <1>1 DEF Typed, SpinTypeOK
  <2> QED BY Zenon, <1>3, <2>1, <2>2 DEF Typed
<1>5. \A d \in CPU \ {c}, j \in Lock : holding(d, j)' <=> holding(d, j)
  BY <1>0, <1>1, <1>2, SpinAssumption DEF holding
<1>6. Has(c)' = Has(c) \union {k} /\ k \notin Has(c) /\ Fits(before, Tail(Top(c)), Has(c) \union {k}, {})
  <2>1. k \notin Has(c) /\ Fits(before, Tail(Top(c)), Has(c) \union {k}, {})
    BY Zenon, <1>0, HeadFits
  <2> QED BY <1>1, <1>2, <2>1 DEF Has, holding
<1>7. Cardinality(Has(c)') = Cardinality(Has(c)) + 1
  BY Zenon, <1>0, <1>6, FS_AddElement
<1>8. Frame(before, c)'
  <2>1. run'[c] # << >>
    BY <1>0, <1>3
  <2> QED BY Zenon, <1>0, <1>2, <1>3, <1>6, <2>1 DEF Frame
<1>9. Flag(c)'
  BY <1>0, <1>1, <1>2, <1>3, <1>7 DEF Flag
<1>10. \A d \in CPU \ {c} : Same(d)
  BY Zenon, <1>1, <1>2, <1>3, <1>5 DEF Same
<1>11. ~Between(c)' /\ \A d \in CPU \ {c} : Of(d)' = Of(d) /\ Between(d)' = Between(d)
  BY Zenon, <1>2, <1>3 DEF Between, Of, Top
<1>12. ASSUME NEW d \in CPU \ {c}, Between(d) PROVE Of(d) # k /\ locked[Of(d)] /\ cpu[Of(d)] = NoCPU /\ Of(d) \in Lock
  <2>1. Busy(d)
    BY Zenon, <1>12 DEF LockInv, Frame, Between
  <2>2. Between(c)
    BY Zenon, <1>1 DEF Between
  <2> QED BY Zenon, <1>0, <1>12, <2>1, <2>2, Ready DEF Locks
<1>13. ASSUME NEW d \in CPU, Between(d)' PROVE locked'[Of(d)'] /\ cpu'[Of(d)'] = NoCPU
  <2>1. d # c /\ Of(d)' = Of(d) /\ Between(d)
    BY Zenon, <1>11, <1>13
  <2> QED BY <1>1, <1>2, <1>12, <2>1
<1>14. \A j \in Lock : cpu'[j] # NoCPU => locked'[j]
  BY Zenon, <1>0, <1>1, <1>2 DEF Locks
<1> QED BY Zenon, <1>4, <1>8, <1>9, <1>10, <1>11, <1>13, <1>14, OneMoves

\* release() begins: the processor holds the lock.
LEMMA ReleaseStartKeeps ==
  ASSUME NEW before, LockInv(before), NEW c \in CPU, Busy(c), Op(c) = "release",
         ReleaseStart(c, Of(c)), UNCHANGED run
  PROVE  LockInv(before)'
<1>0. Typed /\ Frame(before, c) /\ Flag(c) /\ Locks /\ run[c] # << >> /\ Of(c) \in Lock /\ c # NoCPU
  BY Zenon, Ready
<1> PICK k \in Lock : k = Of(c)
  BY Zenon, <1>0
<1>1. acq[c] = "out" /\ acq' = [acq EXCEPT ![c] = "drop"] /\ UNCHANGED <<locked, ncli, intena, IF_flag>>
  BY Zenon DEF ReleaseStart
<1>2. holding(c, k)
  BY Zenon, <1>0, <1>1, HeadFits DEF Has
<1>3. cpu' = [cpu EXCEPT ![k] = NoCPU] /\ UNCHANGED panicked
  BY Zenon, <1>2 DEF ReleaseStart
<1>4. /\ acq'[c] = "drop" /\ \A d \in CPU \ {c} : acq'[d] = acq[d]
      /\ \A j \in Lock : cpu'[j] = IF j = k THEN NoCPU ELSE cpu[j]
      /\ locked[k] /\ cpu[k] = c
  BY Zenon, <1>0, <1>1, <1>2, <1>3 DEF Typed, SpinTypeOK, holding
<1>5. Typed'
  BY Zenon, <1>0, <1>1, <1>3 DEF Typed, SpinTypeOK
<1>6. Top(c)' = Top(c) /\ Of(c)' = k /\ Op(c)' = Op(c) /\ Busy(c)' = Busy(c)
  BY Zenon DEF Top, Of, Op, Busy
<1>7. \A d \in CPU \ {c}, j \in Lock : holding(d, j)' <=> holding(d, j)
  BY Zenon, <1>1, <1>4, SpinAssumption DEF holding
<1>8. Has(c)' = Has(c)
  <2>1. \A j \in Lock : j # k => (holding(c, j)' <=> holding(c, j))
    BY Zenon, <1>1, <1>4 DEF holding
  <2> QED BY Zenon, <1>1, <1>2, <1>4, <1>6, <2>1 DEF Has
<1>9. Frame(before, c)'
  BY Zenon, <1>0, <1>4, <1>6, <1>8 DEF Frame
<1>10. Flag(c)'
  BY Zenon, <1>0, <1>1, <1>4, <1>8 DEF Flag
<1>11. \A d \in CPU \ {c} : Same(d)
  BY Zenon, <1>1, <1>4, <1>7 DEF Same
<1>12. \A d \in CPU \ {c} : Of(d)' = Of(d) /\ Between(d)' = Between(d)
  BY Zenon, <1>4 DEF Between, Of, Top
<1>13. ASSUME NEW d \in CPU \ {c}, Between(d) PROVE Of(d) # k /\ locked[Of(d)] /\ cpu[Of(d)] = NoCPU /\ Of(d) \in Lock
  <2>1. Busy(d)
    BY Zenon, <1>13 DEF LockInv, Frame, Between
  <2> QED BY <1>0, <1>4, <1>13, <2>1, Ready DEF Locks
<1>14. \A d \in CPU : Between(d)' => locked'[Of(d)'] /\ cpu'[Of(d)'] = NoCPU
  <2>1. locked'[Of(c)'] /\ cpu'[Of(c)'] = NoCPU
    BY Zenon, <1>1, <1>4, <1>6
  <2>2. ASSUME NEW d \in CPU \ {c}, Between(d)' PROVE locked'[Of(d)'] /\ cpu'[Of(d)'] = NoCPU
    <3>1. Of(d)' = Of(d) /\ Between(d)
      BY Zenon, <1>12, <2>2
    <3> QED BY Zenon, <1>1, <1>4, <1>13, <3>1
  <2> QED BY Zenon, <2>1, <2>2
<1>15. \A j \in Lock : cpu'[j] # NoCPU => locked'[j]
  BY Zenon, <1>0, <1>1, <1>4 DEF Locks
<1>16. \A d \in CPU \ {c} : Between(d) => Of(d) # Of(c)'
  BY Zenon, <1>6, <1>13
<1> QED BY Zenon, <1>5, <1>9, <1>10, <1>11, <1>14, <1>15, <1>16, OneMoves

\* release() ends, and restores the interrupt flag with the last lock.
LEMMA ReleaseEndKeeps ==
  ASSUME NEW before, LockInv(before), NEW c \in CPU, Busy(c), Op(c) = "release",
         ReleaseEnd(c, Of(c)), run' = [run EXCEPT ![c][Len(run[c])] = Tail(@)]
  PROVE  LockInv(before)'
<1>0. /\ Typed /\ Frame(before, c) /\ Flag(c) /\ Locks /\ run[c] # << >> /\ Of(c) \in Lock
      /\ Tail(Top(c)) \in Path /\ Len(run[c]) \in 1 .. 2
      /\ IsFiniteSet(Has(c)) /\ Cardinality(Has(c)) \in Nat /\ c # NoCPU
  BY Zenon, Ready
<1> PICK k \in Lock : k = Of(c)
  BY Zenon, <1>0
<1>1. /\ acq[c] = "drop" /\ locked' = [locked EXCEPT ![k] = FALSE] /\ acq' = [acq EXCEPT ![c] = "out"]
      /\ ncli' = [ncli EXCEPT ![c] = @ - 1]
      /\ IF_flag' = IF ncli[c] = 1 /\ intena[c] THEN IF_flag \union {c} ELSE IF_flag
      /\ panicked' = IF c \in IF_flag \/ ncli[c] < 1 THEN panicked \union {c} ELSE panicked
      /\ UNCHANGED <<cpu, intena>>
  BY Zenon DEF ReleaseEnd, popcli
<1>2. locked[k] /\ cpu[k] = NoCPU
  BY Zenon, <1>0, <1>1 DEF Locks, Between
<1>3. /\ run' \in [CPU -> Seq(Path)] /\ Len(run'[c]) = Len(run[c]) /\ Top(c)' = Tail(Top(c))
      /\ Len(run[c]) = 2 => run'[c][1] = run[c][1]
      /\ \A d \in CPU \ {c} : run'[d] = run[d]
  BY Zenon, <1>0, Popped
<1>4. k \in Has(c) /\ Fits(before, Tail(Top(c)), Has(c) \ {k}, {})
  BY Zenon, <1>0, HeadFits
<1>5. Cardinality(Has(c) \ {k}) = Cardinality(Has(c)) - 1 /\ Cardinality(Has(c) \ {k}) \in Nat
  <2>1. IsFiniteSet(Has(c) \ {k}) /\ Cardinality(Has(c) \ {k}) = Cardinality(Has(c)) - 1
    BY Zenon, <1>0, <1>4, FS_RemoveElement
  <2> QED BY Zenon, <2>1, FS_CardinalityType
<1>6. ncli[c] = Cardinality(Has(c)) /\ ncli[c] >= 1 /\ c \notin IF_flag /\ ncli[c] \in 0 .. MaxNest
  <2>1. ncli[c] = Cardinality(Has(c)) /\ ncli[c] \in 0 .. MaxNest
    BY <1>0, <1>1 DEF Flag, Typed, SpinTypeOK
  <2>2. ncli[c] >= 1
    BY <1>0, <1>5, <2>1
  <2> QED BY <1>0, <2>1, <2>2 DEF Flag
<1>7. /\ acq'[c] = "out" /\ ncli'[c] = ncli[c] - 1 /\ panicked' = panicked
      /\ \A d \in CPU \ {c} : acq'[d] = acq[d] /\ ncli'[d] = ncli[d] /\ (d \in IF_flag' <=> d \in IF_flag)
      /\ \A j \in Lock : locked'[j] = IF j = k THEN FALSE ELSE locked[j]
  <2>1. acq'[c] = "out" /\ ncli'[c] = ncli[c] - 1 /\ \A d \in CPU \ {c} : acq'[d] = acq[d] /\ ncli'[d] = ncli[d]
    BY Zenon, <1>0, <1>1 DEF Typed, SpinTypeOK
  <2>2. panicked' = panicked
    BY <1>1, <1>6, SpinAssumption
  <2>3. \A d \in CPU \ {c} : d \in IF_flag' <=> d \in IF_flag
    BY Zenon, <1>1
  <2>4. \A j \in Lock : locked'[j] = IF j = k THEN FALSE ELSE locked[j]
    BY Zenon, <1>0, <1>1 DEF Typed, SpinTypeOK
  <2> QED BY Zenon, <2>1, <2>2, <2>3, <2>4
<1>8. Typed'
  <2>1. \A d \in CPU : Len(run'[d]) \in 0 .. 2
    BY Zenon, <1>0, <1>3 DEF Typed
  <2>2. ncli[c] - 1 \in 0 .. MaxNest
    BY <1>6, SpinAssumption
  <2>3. ncli' \in [CPU -> 0 .. MaxNest]
    BY Zenon, <1>0, <1>1, <2>2 DEF Typed, SpinTypeOK
  <2>4. IF_flag' \subseteq CPU /\ panicked' = {}
    BY Zenon, <1>0, <1>1, <1>7 DEF Typed, SpinTypeOK
  <2>5. locked' \in [Lock -> BOOLEAN] /\ acq' \in [CPU -> {"out", "spin", "got", "drop"}]
    BY Zenon, <1>0, <1>1 DEF Typed, SpinTypeOK
  <2> QED BY Zenon, <1>0, <1>1, <1>3, <2>1, <2>3, <2>4, <2>5 DEF Typed, SpinTypeOK
<1>9. \A d \in CPU, j \in Lock : holding(d, j)' <=> holding(d, j)
  BY Zenon, <1>0, <1>1, <1>2, <1>7, SpinAssumption DEF holding
<1>10. Has(c)' = Has(c) \ {k}
  <2>1. ~holding(c, k)
    BY Zenon, <1>0, <1>2 DEF holding
  <2> QED BY Zenon, <1>1, <1>7, <1>9, <2>1 DEF Has
<1>11. Frame(before, c)'
  <2>1. run'[c] # << >>
    BY <1>0, <1>3
  <2> QED BY Zenon, <1>0, <1>3, <1>4, <1>7, <1>10, <2>1 DEF Frame
<1>12. Flag(c)'
  <2>1. intena[c] <=> Len(run[c]) < 2
    BY <1>0, <1>6 DEF Flag
  <2>2. c \in IF_flag' <=> ncli[c] = 1 /\ intena[c]
    BY Zenon, <1>1, <1>6
  <2>3. c \in IF_flag' <=> ncli'[c] = 0 /\ Len(run[c]) < 2
    BY <1>6, <1>7, <2>1, <2>2
  <2> QED BY <1>1, <1>3, <1>5, <1>6, <1>7, <1>10, <2>1, <2>3 DEF Flag
<1>13. \A d \in CPU \ {c} : Same(d)
  BY Zenon, <1>1, <1>3, <1>7, <1>9 DEF Same
<1>14. ~Between(c)' /\ \A d \in CPU \ {c} : Of(d)' = Of(d) /\ Between(d)' = Between(d)
  BY Zenon, <1>3, <1>7 DEF Between, Of, Top
<1>15. ASSUME NEW d \in CPU \ {c}, Between(d) PROVE Of(d) # k /\ locked[Of(d)] /\ cpu[Of(d)] = NoCPU /\ Of(d) \in Lock
  <2>1. Busy(d)
    BY Zenon, <1>15 DEF LockInv, Frame, Between
  <2>2. Between(c)
    BY Zenon, <1>1 DEF Between
  <2> QED BY Zenon, <1>0, <1>15, <2>1, <2>2, Ready DEF Locks
<1>16. ASSUME NEW d \in CPU, Between(d)' PROVE locked'[Of(d)'] /\ cpu'[Of(d)'] = NoCPU
  <2>1. d # c /\ Of(d)' = Of(d) /\ Between(d)
    BY Zenon, <1>14, <1>16
  <2> QED BY Zenon, <1>1, <1>7, <1>15, <2>1
<1>17. \A j \in Lock : cpu'[j] # NoCPU => locked'[j]
  BY Zenon, <1>0, <1>1, <1>2, <1>7 DEF Locks
<1> QED BY Zenon, <1>8, <1>11, <1>12, <1>13, <1>14, <1>16, <1>17, OneMoves

-----------------------------------------------------------------------------
(* The invariant.                                                          *)

\* Nothing is locked or started at first.
LEMMA LockInvInit == ASSUME NEW before, Init PROVE LockInv(before)
<1>1. /\ locked = [k \in Lock |-> FALSE] /\ cpu = [k \in Lock |-> NoCPU] /\ ncli = [c \in CPU |-> 0]
      /\ intena = [c \in CPU |-> FALSE] /\ IF_flag = CPU /\ acq = [c \in CPU |-> "out"] /\ panicked = {}
      /\ run = [c \in CPU |-> << >>]
  BY Zenon DEF Init, SpinInit
<1>2. Typed
  <2>1. << >> \in Seq(Path) /\ Len(<< >>) = 0
    BY Zenon, EmptySeq
  <2>2. SpinTypeOK
    BY <1>1, SpinAssumption DEF SpinTypeOK
  <2> QED BY <1>1, <2>1, <2>2 DEF Typed
<1>3. ASSUME NEW c \in CPU PROVE Frame(before, c) /\ Flag(c)
  <2>1. run[c] = << >> /\ Len(run[c]) = 0 /\ acq[c] = "out" /\ ncli[c] = 0 /\ c \in IF_flag
    BY Zenon, <1>1
  <2>2. Has(c) = {}
    BY Zenon, <1>1, <2>1 DEF Has, holding
  <2>3. Cardinality(Has(c)) = 0
    BY Zenon, <2>2, FS_EmptySet
  <2>4. Frame(before, c)
    <3>1. 0 # 2
      OBVIOUS
    <3> QED BY Zenon, <2>1, <2>2, <3>1 DEF Frame
  <2> QED BY <2>1, <2>3, <2>4 DEF Flag
<1>4. Locks
  BY Zenon, <1>1 DEF Locks, Between
<1> QED BY Zenon, <1>2, <1>3, <1>4 DEF LockInv

\* Every step keeps the invariant.
LEMMA LockInvStep == ASSUME NEW before, PathsFit(before), LockInv(before), Next PROVE LockInv(before)'
<1>1. PICK c \in CPU : \/ \E P \in ProcessPaths : Start(c, P)
                       \/ \E H \in DevicePaths \union {timer(c)} : Interrupt(c, H)
                       \/ Return(c)
                       \/ Step(c)
  BY Zenon DEF Next
<1>2. CASE \E P \in ProcessPaths : Start(c, P)
  BY Zenon, <1>2, StartKeeps
<1>3. CASE \E H \in DevicePaths \union {timer(c)} : Interrupt(c, H)
  BY Zenon, <1>3, InterruptKeeps
<1>4. CASE Return(c)
  BY Zenon, <1>4, ReturnKeeps
<1>5. CASE Step(c)
  <2>1. Busy(c) /\ Op(c) \in {"acquire", "release"}
    BY Zenon, <1>5, HeadFits DEF Step, LockInv
  <2>2. run' = IF acq'[c] = "out" THEN [run EXCEPT ![c][Len(run[c])] = Tail(@)] ELSE run
    BY Zenon, <1>5 DEF Step
  <2>3. acq \in [CPU -> {"out", "spin", "got", "drop"}]
    BY Zenon DEF LockInv, Typed, SpinTypeOK
  <2>4. CASE Op(c) = "acquire"
    <3>1. CASE AcquireStart(c, Of(c))
      <4>1. acq'[c] = "spin"
        BY Zenon, <2>3, <3>1 DEF AcquireStart
      <4> QED BY Zenon, <2>1, <2>2, <2>4, <3>1, <4>1, AcquireStartKeeps
    <3>2. CASE AcquireXchg(c, Of(c))
      <4>1. acq'[c] = "got"
        BY Zenon, <2>3, <3>2 DEF AcquireXchg
      <4> QED BY Zenon, <2>1, <2>2, <2>4, <3>2, <4>1, AcquireXchgKeeps
    <3>3. CASE AcquireEnd(c, Of(c))
      <4>1. acq'[c] = "out"
        BY Zenon, <2>3, <3>3 DEF AcquireEnd
      <4> QED BY Zenon, <2>1, <2>2, <2>4, <3>3, <4>1, AcquireEndKeeps
    <3> QED BY Zenon, <1>5, <2>4, <3>1, <3>2, <3>3 DEF Step
  <2>5. CASE Op(c) = "release"
    <3>1. CASE ReleaseStart(c, Of(c))
      <4>1. acq'[c] = "drop"
        BY Zenon, <2>3, <3>1 DEF ReleaseStart
      <4> QED BY Zenon, <2>1, <2>2, <2>5, <3>1, <4>1, ReleaseStartKeeps
    <3>2. CASE ReleaseEnd(c, Of(c))
      <4>1. acq'[c] = "out"
        BY Zenon, <2>3, <3>2 DEF ReleaseEnd
      <4> QED BY Zenon, <2>1, <2>2, <2>5, <3>2, <4>1, ReleaseEndKeeps
    <3> QED BY Zenon, <1>5, <2>5, <3>1, <3>2 DEF Step
  <2> QED BY Zenon, <2>1, <2>4, <2>5
<1> QED BY Zenon, <1>1, <1>2, <1>3, <1>4, <1>5

\* The invariant is inductive, if the paths fit.
LEMMA LockInvInductive ==
  ASSUME NEW before, PathsFit(before)
  PROVE  (Init => LockInv(before)) /\ (LockInv(before) /\ [Next]_vars => LockInv(before)')
<1>1. Init => LockInv(before)
  BY Zenon, LockInvInit
<1>2. LockInv(before) /\ [Next]_vars => LockInv(before)'
  <2>1. ASSUME LockInv(before), UNCHANGED vars PROVE LockInv(before)'
    <3>1. UNCHANGED <<locked, cpu, ncli, intena, IF_flag, acq, panicked, run>>
      BY Zenon, <2>1 DEF vars, spinvars
    <3>2. \A c \in CPU : Same(c)
      BY Zenon, <3>1 DEF Same, holding
    <3>3. \A c \in CPU : Frame(before, c)' /\ Flag(c)' /\ Of(c)' = Of(c) /\ Between(c)' = Between(c)
      BY Zenon, <2>1, <3>2, SameKeeps DEF LockInv
    <3>4. Typed'
      BY Zenon, <2>1, <3>1 DEF LockInv, Typed, SpinTypeOK
    <3>5. Locks'
      BY Zenon, <2>1, <3>1, <3>3 DEF LockInv, Locks
    <3> QED BY Zenon, <3>3, <3>4, <3>5 DEF LockInv
  <2> QED BY Zenon, <2>1, LockInvStep
<1> QED BY Zenon, <1>1, <1>2

-----------------------------------------------------------------------------
(* The kernel's paths.                                                     *)

\* ptable.lock is taken after the locks of Outer and before kmem.lock.
Rank(k) == IF k = "kmem" THEN 2 ELSE IF k = "ptable" THEN 1 ELSE 0
InOrder == {x \in Lock \X Lock : Rank(x[1]) < Rank(x[2])}

\* A lock is taken, and given up, by a processor that has the locks H.
LEMMA Takes ==
  ASSUME NEW before, NEW H \in SUBSET Lock, NEW k \in Lock, k \notin H, \A j \in H : <<j, k>> \in before
  PROVE  <<A(k)>> \in Path /\ Fits(before, <<A(k)>>, H, H \union {k})
<1>1. A(k) \in Operation /\ Legal(before, A(k), H, H \union {k})
  BY Zenon DEF A, Operation, Legal
<1> QED BY Zenon, <1>1, FitsOne

\* See above.
LEMMA Gives ==
  ASSUME NEW before, NEW H \in SUBSET Lock, NEW k \in H
  PROVE  <<R(k)>> \in Path /\ Fits(before, <<R(k)>>, H, H \ {k})
<1>1. R(k) \in Operation /\ Legal(before, R(k), H, H \ {k})
  BY Zenon DEF R, Operation, Legal
<1> QED BY Zenon, <1>1, FitsOne

\* A lock that is taken around a path.
LEMMA Around ==
  ASSUME NEW before, NEW H \in SUBSET Lock, NEW k \in Lock, k \notin H, \A j \in H : <<j, k>> \in before,
         NEW P \in Path, Fits(before, P, H \union {k}, H \union {k})
  PROVE  <<A(k)>> \o P \o <<R(k)>> \in Path /\ Fits(before, <<A(k)>> \o P \o <<R(k)>>, H, H)
<1>1. <<A(k)>> \in Path /\ Fits(before, <<A(k)>>, H, H \union {k})
  BY Zenon, Takes
<1>2. <<R(k)>> \in Path /\ Fits(before, <<R(k)>>, H \union {k}, H)
  <2>1. (H \union {k}) \ {k} = H /\ H \union {k} \in SUBSET Lock
    OBVIOUS
  <2> QED BY <2>1, Gives
<1>3. <<A(k)>> \o P \in Path /\ Fits(before, <<A(k)>> \o P, H, H \union {k})
  BY Zenon, <1>1, FitsConcat
<1> QED BY Zenon, <1>2, <1>3, FitsConcat

\* Tuples as concatenations.
LEMMA TwoConcat == ASSUME NEW a, NEW b PROVE <<a>> \o <<b>> = <<a, b>>
<1> DEFINE S == {a, b}
           s == <<a>> \o <<b>>
           t == <<a, b>>
<1>1. <<a>> \in Seq(S) /\ <<b>> \in Seq(S) /\ Len(<<a>>) = 1 /\ Len(<<b>>) = 1 /\ <<a>>[1] = a /\ <<b>>[1] = b
  OBVIOUS
<1>2. s \in Seq(S) /\ Len(s) = 2 /\ s[1] = a /\ s[2] = b
  BY <1>1, ConcatProperties
<1>3. t \in Seq(S) /\ Len(t) = 2 /\ t[1] = a /\ t[2] = b
  OBVIOUS
<1> HIDE DEF s, t
<1>4. s = t
  BY <1>2, <1>3, SeqEqual
<1> QED BY Zenon, <1>4 DEF s, t

\* See above.
LEMMA FourConcat == ASSUME NEW a, NEW b, NEW c, NEW d PROVE <<a>> \o <<b, c>> \o <<d>> = <<a, b, c, d>>
<1> DEFINE S == {a, b, c, d}
           r == <<a>> \o <<b, c>>
           s == r \o <<d>>
           t == <<a, b, c, d>>
<1>1. /\ <<a>> \in Seq(S) /\ <<b, c>> \in Seq(S) /\ <<d>> \in Seq(S)
      /\ Len(<<a>>) = 1 /\ Len(<<b, c>>) = 2 /\ Len(<<d>>) = 1
      /\ <<a>>[1] = a /\ <<b, c>>[1] = b /\ <<b, c>>[2] = c /\ <<d>>[1] = d
  OBVIOUS
<1>2. r \in Seq(S) /\ Len(r) = 3 /\ r[1] = a /\ r[2] = b /\ r[3] = c
  BY <1>1, ConcatProperties
<1>3. t \in Seq(S) /\ Len(t) = 4 /\ t[1] = a /\ t[2] = b /\ t[3] = c /\ t[4] = d
  OBVIOUS
<1> HIDE DEF r
<1>4. s \in Seq(S) /\ Len(s) = 4 /\ s[1] = a /\ s[2] = b /\ s[3] = c /\ s[4] = d
  <2> DEFINE e == <<d>>
  <2>1. e \in Seq(S) /\ Len(e) = 1 /\ e[1] = d
    BY Zenon, <1>1
  <2> HIDE DEF e, S
  <2>2. /\ r \o e \in Seq(S) /\ Len(r \o e) = Len(r) + Len(e)
        /\ \A i \in 1 .. Len(r) + Len(e) : (r \o e)[i] = IF i <= Len(r) THEN r[i] ELSE e[i - Len(r)]
    BY Zenon, <1>2, <2>1, ConcatProperties
  <2>3. s = r \o e
    BY Zenon DEF e
  <2> HIDE DEF s
  <2>4. Len(s) = 4 /\ \A i \in 1 .. 4 : s[i] = IF i <= 3 THEN r[i] ELSE e[i - 3]
    BY <1>2, <2>1, <2>2, <2>3
  <2>5. s[1] = r[1] /\ s[2] = r[2] /\ s[3] = r[3] /\ s[4] = e[1]
    BY <2>4
  <2> QED BY Zenon, <1>2, <2>1, <2>2, <2>3, <2>4, <2>5
<1> HIDE DEF s, t, S
<1>5. s = t
  BY <1>3, <1>4, SeqEqual
<1> QED BY Zenon, <1>5 DEF r, s, t

\* A lock that is taken and given up at once.
LEMMA Briefly ==
  ASSUME NEW before, NEW H \in SUBSET Lock, NEW k \in Lock, k \notin H, \A j \in H : <<j, k>> \in before
  PROVE  <<A(k), R(k)>> \in Path /\ Fits(before, <<A(k), R(k)>>, H, H)
<1>1. <<A(k)>> \in Path /\ Fits(before, <<A(k)>>, H, H \union {k})
  BY Zenon, Takes
<1>2. <<R(k)>> \in Path /\ Fits(before, <<R(k)>>, H \union {k}, H)
  <2>1. (H \union {k}) \ {k} = H /\ H \union {k} \in SUBSET Lock
    OBVIOUS
  <2> QED BY <2>1, Gives
<1>3. <<A(k)>> \o <<R(k)>> \in Path /\ Fits(before, <<A(k)>> \o <<R(k)>>, H, H)
  BY Zenon, <1>1, <1>2, FitsConcat
<1>4. <<A(k)>> \o <<R(k)>> = <<A(k), R(k)>>
  BY Zenon, TwoConcat
<1> QED BY Zenon, <1>3, <1>4

\* sleep() under a lock of its caller.
LEMMA SleepFits ==
  ASSUME NEW before, NEW k \in Outer, <<k, "ptable">> \in before
  PROVE  sleep(k) \in Path /\ Fits(before, sleep(k), {k}, {k})
<1>1. k \in Lock /\ "ptable" \in Lock /\ k # "ptable"
  BY Zenon, LockOrderAssumption DEF Outer
<1> DEFINE pt == "ptable"
<1>2. <<A(pt)>> \in Path /\ Fits(before, <<A(pt)>>, {k}, {k} \union {pt})
  BY Zenon, <1>1, Takes
<1>3. <<R(k)>> \in Path /\ Fits(before, <<R(k)>>, {k} \union {pt}, ({k} \union {pt}) \ {k})
  <2>1. {k} \union {pt} \in SUBSET Lock /\ k \in {k} \union {pt}
    BY Zenon, <1>1
  <2> QED BY Zenon, <2>1, Gives
<1>4. <<R(pt)>> \in Path /\ Fits(before, <<R(pt)>>, {pt}, {pt} \ {pt})
  <2>1. {pt} \in SUBSET Lock /\ pt \in {pt}
    BY Zenon, <1>1
  <2> QED BY Zenon, <2>1, Gives
<1>5. <<A(k)>> \in Path /\ Fits(before, <<A(k)>>, {}, {} \union {k})
  BY Zenon, <1>1, Takes
<1>6. ({k} \union {pt}) \ {k} = {pt} /\ {pt} \ {pt} = {} /\ {} \union {k} = {k}
  BY Zenon, <1>1
<1>7. <<A(pt)>> \o <<R(k)>> \in Path /\ Fits(before, <<A(pt)>> \o <<R(k)>>, {k}, {pt})
  BY Zenon, <1>2, <1>3, <1>6, FitsConcat
<1>8. <<A(pt)>> \o <<R(k)>> \o <<R(pt)>> \in Path /\ Fits(before, <<A(pt)>> \o <<R(k)>> \o <<R(pt)>>, {k}, {})
  BY Zenon, <1>4, <1>6, <1>7, FitsConcat
<1>9. /\ <<A(pt)>> \o <<R(k)>> \o <<R(pt)>> \o <<A(k)>> \in Path
      /\ Fits(before, <<A(pt)>> \o <<R(k)>> \o <<R(pt)>> \o <<A(k)>>, {k}, {k})
  BY Zenon, <1>5, <1>6, <1>8, FitsConcat
<1>10. sleep(k) = <<A(pt)>> \o <<R(k)>> \o <<R(pt)>> \o <<A(k)>>
  BY DEF sleep
<1> QED BY Zenon, <1>9, <1>10

\* What a relation must allow for the paths of OrderedPaths to fit.
Allows(before) == (\A k \in Outer : <<k, "ptable">> \in before) /\ <<"ptable", "kmem">> \in before

\* A path from no lock to none, and one after another.
Whole(before, P) == P \in Path /\ Fits(before, P, {}, {})

\* See above.
LEMMA WholeConcat ==
  ASSUME NEW before, NEW P, NEW Q, Whole(before, P), Whole(before, Q)
  PROVE  Whole(before, P \o Q)
BY Zenon, FitsConcat DEF Whole

\* See above.
LEMMA WholeBriefly == ASSUME NEW before, NEW k \in Lock PROVE Whole(before, <<A(k), R(k)>>)
<1>1. {} \in SUBSET Lock /\ k \notin {} /\ \A j \in {} : <<j, k>> \in before
  OBVIOUS
<1> QED BY Zenon, <1>1, Briefly DEF Whole

\* A lock is taken around a path that needs it.
LEMMA WholeAround ==
  ASSUME NEW before, NEW k \in Lock, NEW P \in Path, Fits(before, P, {k}, {k})
  PROVE  Whole(before, <<A(k)>> \o P \o <<R(k)>>)
<1>1. {} \in SUBSET Lock /\ k \notin {} /\ (\A j \in {} : <<j, k>> \in before) /\ {} \union {k} = {k}
  OBVIOUS
<1> QED BY Zenon, <1>1, Around DEF Whole

\* wakeup() under a lock of its caller, and without.
LEMMA WakeupFits ==
  ASSUME NEW before, NEW k \in Outer, <<k, "ptable">> \in before
  PROVE  wakeup \in Path /\ Fits(before, wakeup, {k}, {k})
<1>1. k \in Lock /\ "ptable" \in Lock /\ k # "ptable"
  BY Zenon, LockOrderAssumption DEF Outer
<1>2. {k} \in SUBSET Lock /\ "ptable" \notin {k} /\ \A j \in {k} : <<j, "ptable">> \in before
  BY Zenon, <1>1
<1> QED BY Zenon, <1>1, <1>2, Briefly DEF wakeup

\* The paths that wait and that wake under a lock.
LEMMA WaitersFit ==
  ASSUME NEW before, NEW k \in Outer, <<k, "ptable">> \in before
  PROVE  Whole(before, Waiter(k)) /\ Whole(before, Waker(k))
<1>1. k \in Lock
  BY Zenon DEF Outer
<1>2. Whole(before, Waiter(k))
  BY Zenon, <1>1, SleepFits, WholeAround DEF Waiter
<1>3. Whole(before, Waker(k))
  BY Zenon, <1>1, WakeupFits, WholeAround DEF Waker
<1> QED BY Zenon, <1>2, <1>3

\* The paths that keep the lock order fit every relation that allows them.
LEMMA OrderedFit ==
  ASSUME NEW before, Allows(before)
  PROVE  \A P \in OrderedPaths \union {consoleintr, ideintr} \union {timer(c) : c \in CPU} : Whole(before, P)
<1>1. {"ptable", "ticks", "cons", "kmem", "pipe", "ide"} \subseteq Lock /\ {"ticks", "cons", "pipe", "ide"} \subseteq Outer
  BY Zenon, LockOrderAssumption DEF Outer
<1>2. \A k \in Outer : Whole(before, Waiter(k)) /\ Whole(before, Waker(k))
  BY Zenon, WaitersFit DEF Allows
<1>3. Whole(before, cprintf) /\ Whole(before, sys_uptime) /\ Whole(before, scheduler) /\ Whole(before, wakeup)
      /\ Whole(before, kfree) /\ Whole(before, <<A("ptable"), R("ptable")>>) /\ Whole(before, <<A("ticks"), R("ticks")>>)
  BY Zenon, <1>1, WholeBriefly DEF cprintf, sys_uptime, scheduler, wakeup, kfree
<1>4. Whole(before, sys_sleep) /\ Whole(before, consoleread) /\ Whole(before, consoleintr) /\ Whole(before, ideintr)
  BY Zenon, <1>1, <1>2 DEF sys_sleep, consoleread, consoleintr, ideintr
<1>5. Whole(before, allocproc)
  <2>1. Whole(before, <<A("ptable"), R("ptable")>> \o kfree)
    BY Zenon, <1>3, WholeConcat
  <2> QED BY Zenon, <1>3, <2>1, WholeConcat DEF allocproc
<1>6. Whole(before, wait)
  <2>1. {"ptable"} \in SUBSET Lock /\ "kmem" \in Lock /\ "kmem" \notin {"ptable"} /\ \A j \in {"ptable"} : <<j, "kmem">> \in before
    BY Zenon, <1>1 DEF Allows
  <2>2. kfree \in Path /\ Fits(before, kfree, {"ptable"}, {"ptable"})
    BY Zenon, <2>1, Briefly DEF kfree
  <2> QED BY Zenon, <1>1, <2>2, WholeAround DEF wait
<1>7. Whole(before, pipewrite)
  <2>1. wakeup \in Path /\ Fits(before, wakeup, {"pipe"}, {"pipe"})
    BY Zenon, <1>1, WakeupFits DEF Allows
  <2>2. sleep("pipe") \in Path /\ Fits(before, sleep("pipe"), {"pipe"}, {"pipe"})
    BY Zenon, <1>1, SleepFits DEF Allows
  <2>3. <<A("pipe")>> \in Path /\ Fits(before, <<A("pipe")>>, {}, {"pipe"})
    <3>1. {} \in SUBSET Lock /\ "pipe" \notin {} /\ (\A j \in {} : <<j, "pipe">> \in before) /\ {} \union {"pipe"} = {"pipe"}
      OBVIOUS
    <3> QED BY <1>1, <3>1, Takes
  <2>4. <<R("pipe")>> \in Path /\ Fits(before, <<R("pipe")>>, {"pipe"}, {})
    <3>1. {"pipe"} \in SUBSET Lock /\ "pipe" \in {"pipe"} /\ {"pipe"} \ {"pipe"} = {}
      BY Zenon, <1>1
    <3> QED BY Zenon, <3>1, Gives
  <2>5. <<A("pipe")>> \o wakeup \in Path /\ Fits(before, <<A("pipe")>> \o wakeup, {}, {"pipe"})
    BY Zenon, <2>1, <2>3, FitsConcat
  <2>6. <<A("pipe")>> \o wakeup \o sleep("pipe") \in Path /\ Fits(before, <<A("pipe")>> \o wakeup \o sleep("pipe"), {}, {"pipe"})
    BY Zenon, <2>2, <2>5, FitsConcat
  <2>7. /\ <<A("pipe")>> \o wakeup \o sleep("pipe") \o wakeup \in Path
        /\ Fits(before, <<A("pipe")>> \o wakeup \o sleep("pipe") \o wakeup, {}, {"pipe"})
    BY Zenon, <2>1, <2>6, FitsConcat
  <2> QED BY Zenon, <2>4, <2>7, FitsConcat DEF pipewrite, Whole
<1>8. \A c \in CPU : Whole(before, timer(c))
  <2>1. Whole(before, Waker("ticks") \o wakeup)
    BY Zenon, <1>1, <1>2, <1>3, WholeConcat
  <2> QED BY Zenon, <1>3, <2>1 DEF timer
<1> QED BY Zenon, <1>2, <1>3, <1>4, <1>5, <1>6, <1>7, <1>8 DEF OrderedPaths

\* The two other paths fit, if every lock may be taken under every other.
LEMMA OthersFit == Whole(Lock \X Lock, lottery) /\ Whole(Lock \X Lock, print_all_procs)
<1> DEFINE before == Lock \X Lock
<1>1. {"ptable", "ticks", "cons"} \subseteq Lock
  BY Zenon, LockOrderAssumption
<1>2. {"ptable"} \in SUBSET Lock /\ \A k \in Lock, j \in {"ptable"} : <<j, k>> \in before
  BY Zenon, <1>1
<1>3. /\ <<A("ticks"), R("ticks")>> \in Path /\ Fits(before, <<A("ticks"), R("ticks")>>, {"ptable"}, {"ptable"})
      /\ cprintf \in Path /\ Fits(before, cprintf, {"ptable"}, {"ptable"})
  <2>1. "ticks" \in Lock /\ "ticks" \notin {"ptable"} /\ "cons" \in Lock /\ "cons" \notin {"ptable"}
    BY Zenon, <1>1
  <2> HIDE DEF before
  <2> QED BY Zenon, <1>2, <2>1, Briefly DEF cprintf
<1> HIDE DEF before
<1>4. Whole(before, <<A("ptable")>> \o <<A("ticks"), R("ticks")>> \o <<R("ptable")>>)
  BY Zenon, <1>1, <1>3, WholeAround
<1>5. lottery = <<A("ptable")>> \o <<A("ticks"), R("ticks")>> \o <<R("ptable")>>
  BY Zenon, FourConcat DEF lottery
<1>6. Whole(before, print_all_procs)
  <2>1. Whole(before, cprintf)
    BY Zenon, <1>1, WholeBriefly DEF cprintf
  <2>2. <<A("ptable")>> \in Path /\ Fits(before, <<A("ptable")>>, {}, {"ptable"})
    <3>1. {} \in SUBSET Lock /\ "ptable" \notin {} /\ (\A j \in {} : <<j, "ptable">> \in before) /\ {} \union {"ptable"} = {"ptable"}
      OBVIOUS
    <3> QED BY Zenon, <1>1, <3>1, Takes
  <2>3. <<R("ptable")>> \in Path /\ Fits(before, <<R("ptable")>>, {"ptable"}, {})
    <3>1. {"ptable"} \in SUBSET Lock /\ "ptable" \in {"ptable"} /\ {"ptable"} \ {"ptable"} = {}
      BY Zenon, <1>1
    <3> QED BY Zenon, <3>1, Gives
  <2>4. cprintf \o <<A("ptable")>> \in Path /\ Fits(before, cprintf \o <<A("ptable")>>, {}, {"ptable"})
    BY Zenon, <2>1, <2>2, FitsConcat DEF Whole
  <2>5. cprintf \o <<A("ptable")>> \o cprintf \in Path /\ Fits(before, cprintf \o <<A("ptable")>> \o cprintf, {}, {"ptable"})
    BY Zenon, <1>3, <2>4, FitsConcat
  <2> QED BY Zenon, <2>3, <2>5, FitsConcat DEF print_all_procs, Whole
<1> QED BY Zenon, <1>4, <1>5, <1>6 DEF before

\* All paths of the kernel fit.
LEMMA KernelFits == PathsFit(Lock \X Lock)
<1>1. Allows(Lock \X Lock)
  BY Zenon, LockOrderAssumption DEF Allows, Outer
<1>2. \A P \in KernelPaths \union {consoleintr, ideintr} \union {timer(c) : c \in CPU} : Whole(Lock \X Lock, P)
  BY Zenon, <1>1, OrderedFit, OthersFit DEF KernelPaths
<1> QED BY Zenon, <1>2, LockOrderAssumption DEF PathsFit, Whole

\* Those of OrderedPaths fit the lock order.
LEMMA OrderFits == ProcessPaths \subseteq OrderedPaths => PathsFit(InOrder)
<1>1. Allows(InOrder)
  <2>1. "ptable" \in Lock /\ "kmem" \in Lock /\ Rank("ptable") = 1 /\ Rank("kmem") = 2 /\ \A k \in Outer : Rank(k) = 0 /\ k \in Lock
    BY Zenon, LockOrderAssumption DEF Rank, Outer
  <2> QED BY <2>1 DEF Allows, InOrder
<1>2. \A P \in OrderedPaths \union {consoleintr, ideintr} \union {timer(c) : c \in CPU} : Whole(InOrder, P)
  BY Zenon, <1>1, OrderedFit
<1> QED BY Zenon, <1>2, LockOrderAssumption DEF PathsFit, Whole

-----------------------------------------------------------------------------
(* The theorems.                                                           *)

\* On any number of processors that run any of the kernel's paths, the lottery's
\* and print_all_procs() included, with interrupts at every moment they are on,
\* acquire(), release() and popcli() never panic.
THEOREM NoPanicAlways == Spec => []NoPanic
<1>1. LockInv(Lock \X Lock) => NoPanic
  BY Zenon DEF LockInv, Typed, NoPanic
<1>2. (Init => LockInv(Lock \X Lock)) /\ (LockInv(Lock \X Lock) /\ [Next]_vars => LockInv(Lock \X Lock)')
  BY Zenon, KernelFits, LockInvInductive
<1> QED BY <1>1, <1>2, PTL DEF Spec

\* On the same paths interrupts are on exactly when a processor has no lock, is not
\* about to take one, and runs no handler.
THEOREM FlagMatchesAlways == Spec => []FlagMatches
<1>1. LockInv(Lock \X Lock) => FlagMatches
  BY Zenon DEF LockInv, Typed, Flag, FlagMatches
<1>2. (Init => LockInv(Lock \X Lock)) /\ (LockInv(Lock \X Lock) /\ [Next]_vars => LockInv(Lock \X Lock)')
  BY Zenon, KernelFits, LockInvInductive
<1> QED BY <1>1, <1>2, PTL DEF Spec

\* A processor of a circle waits for a lock of higher rank than those it holds.
LEMMA NoCircle == LockInv(InOrder) => NoCircularWait
<1> SUFFICES ASSUME LockInv(InOrder), NEW S \in SUBSET CPU, NEW e \in S,
                    \A c \in S : Busy(c) /\ acq[c] = "spin" /\ locked[Of(c)] /\ cpu[Of(c)] \in S
             PROVE  FALSE
  BY Zenon DEF NoCircularWait
<1>1. ASSUME NEW c \in S
      PROVE  Of(c) \in Lock /\ cpu[Of(c)] \in S /\ Rank(Of(c)) < Rank(Of(cpu[Of(c)]))
  <2>1. Of(c) \in Lock /\ cpu[Of(c)] \in S /\ holding(cpu[Of(c)], Of(c))
    BY Zenon, Ready DEF holding
  <2> DEFINE d == cpu[Of(c)]
  <2>2. d \in S /\ d \in CPU /\ Of(c) \in Has(d) /\ Busy(d) /\ acq[d] = "spin" /\ Frame(InOrder, d) /\ Typed
    BY Zenon, <2>1 DEF Has, LockInv
  <2> HIDE DEF d
  <2>3. Op(d) = "acquire"
    BY Zenon, <2>2 DEF Frame
  <2>4. <<Of(c), Of(d)>> \in InOrder
    BY Zenon, <2>2, <2>3, HeadFits
  <2>5. Rank(Of(c)) < Rank(Of(d))
    BY Zenon, <2>4 DEF InOrder
  <2> QED BY Zenon, <2>1, <2>5 DEF d
<1>2. \A k : Rank(k) \in 0 .. 2
  BY DEF Rank
<1>3. \A c \in S : Rank(Of(c)) # 2
  BY <1>1, <1>2
<1>4. \A c \in S : Rank(Of(c)) # 1
  BY <1>1, <1>2, <1>3
<1>5. \A c \in S : Rank(Of(c)) # 0
  BY <1>1, <1>2, <1>3, <1>4
<1>6. Rank(Of(e)) \in 0 .. 2
  BY Zenon, <1>2
<1> QED BY <1>3, <1>4, <1>5, <1>6

\* On any number of processors that run the paths which take ptable.lock after
\* the other locks and kmem.lock after it, no processors spin in a circle.
THEOREM NoCircularWaitAlways == ProcessPaths \subseteq OrderedPaths => (Spec => []NoCircularWait)
<1> SUFFICES ASSUME ProcessPaths \subseteq OrderedPaths PROVE Spec => []NoCircularWait
  OBVIOUS
<1>1. (Init => LockInv(InOrder)) /\ (LockInv(InOrder) /\ [Next]_vars => LockInv(InOrder)')
  BY Zenon, OrderFits, LockInvInductive
<1> QED BY <1>1, NoCircle, PTL DEF Spec

==============================================================================
