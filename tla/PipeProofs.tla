----------------------------- MODULE PipeProofs ------------------------------
(***************************************************************************)
(* For any number of readers and writers, any size of the ring and any     *)
(* width of its counters: bytes are read in the order they were written,   *)
(* no process sleeps that could go on, and the pipe is freed when and only *)
(* when both its ends are closed.                                          *)
(***************************************************************************)
EXTENDS Pipe, Remainders, FiniteSetTheorems, TLAPS

Reading == {"read", "rdoze", "rsleep"}
Writing == {"write", "wdoze", "wsleep"}
Calls == [at : {"idle"} \union Reading \union Writing, left : Nat]
Pipes == [page : BOOLEAN, data : [0 .. PIPESIZE - 1 -> 0 .. Serials - 1],
          nread : 0 .. UINT - 1, nwrite : 0 .. UINT - 1, readopen : BOOLEAN, writeopen : BOOLEAN]
Files == [ref : Nat, type : {"none", "pipe"}]

PipeTyped ==
  /\ pipe \in Pipes /\ file \in [PipeEnd -> Files]
  /\ call \in [PipeProc -> Calls]
  /\ fd \subseteq PipeProc \X PipeEnd /\ killed \subseteq PipeProc
  /\ sent \in 0 .. Serials - 1 /\ rcvd \in 0 .. Serials - 1

\* The bytes between two counters.
Count(r, w) == (w + UINT - r) % UINT

\* The place in the ring for counter x.
Place(x) == (x % UINT) % PIPESIZE

\* PipeInOrder for ring d, counters r and w, and the numbers rc and se of the next
\* byte to read and to write.
Ordered(d, r, w, rc, se) ==
  /\ Count(r, w) <= PIPESIZE
  /\ (rc + Count(r, w)) % Serials = se
  /\ \A k \in 0 .. Count(r, w) - 1 : d[Place(r + k)] = (rc + k) % Serials

\* Ring d2 is d after n bytes were written from counter w on.
Written(d, d2, w, se, n) ==
  /\ \A j \in 0 .. n - 1 : d2[Place(w + j)] = (se + j) % Serials
  /\ \A l \in 0 .. PIPESIZE - 1 : (\A j \in 0 .. n - 1 : l # Place(w + j)) => d2[l] = d[l]

InOrder == Ordered(pipe.data, pipe.nread, pipe.nwrite, rcvd, sent)

\* A process in a call has the end the call is for.
Ends ==
  \A p \in PipeProc :
    /\ call[p].at # "idle" => <<p, MyEnd(p)>> \in fd
    /\ call[p].at \in Reading => p \in PipeReader
    /\ call[p].at \in Writing => p \in PipeWriter

\* The processes that have end e open.
Holders(e) == {p \in PipeProc : <<p, e>> \in fd}

\* SleepersBlocked, from the test on: p->lock is held between the test and the
\* sleep, and only kill() comes between them.
Blocked ==
  \A p \in PipeProc :
    /\ call[p].at = "rdoze" => pipe.writeopen /\ InPipe = 0
    /\ call[p].at = "rsleep" => pipe.writeopen /\ (InPipe = 0 \/ killed \intersect PipeWriter # {})
    /\ call[p].at \in {"wdoze", "wsleep"} => pipe.readopen /\ InPipe = PIPESIZE

\* The inductive invariant.
PipeInv == PipeTyped /\ InOrder /\ Ends /\ Blocked /\ PipeFreed

-----------------------------------------------------------------------------
(* The ring.                                                               *)

\* nwrite is nread and the bytes between them.
LEMMA CountSum ==
  ASSUME NEW r \in 0 .. UINT - 1, NEW w \in 0 .. UINT - 1
  PROVE  /\ Count(r, w) \in 0 .. UINT - 1
         /\ Count(r, w) = IF w >= r THEN w - r ELSE w + UINT - r
<1> DEFINE a == w + UINT - r
<1>0. UINT \in Nat \ {0}
  BY PipeAssumption
<1>1. a \in Nat /\ a < 2 * UINT
  BY <1>0
<1> HIDE DEF a
<1>2. (a < UINT => a % UINT = a) /\ (a >= UINT => a % UINT = a - UINT)
  BY <1>0, <1>1, ModOnce
<1> QED BY <1>0, <1>2 DEF Count, a

\* A counter after n bytes.
LEMMA Advanced ==
  ASSUME NEW c \in 0 .. UINT - 1, NEW n \in 0 .. UINT
  PROVE  Advance(c, n) = IF c + n < UINT THEN c + n ELSE c + n - UINT
<1> DEFINE a == c + n
<1>0. UINT \in Nat \ {0}
  BY PipeAssumption
<1>1. a \in Nat /\ a < 2 * UINT
  BY <1>0
<1> HIDE DEF a
<1>2. (a < UINT => a % UINT = a) /\ (a >= UINT => a % UINT = a - UINT)
  BY <1>0, <1>1, ModOnce
<1> QED BY <1>0, <1>2 DEF Advance, a

\* The place of a counter does not depend on its wraps.
LEMMA PlaceMod ==
  ASSUME NEW x \in Nat
  PROVE  Place(x) = x % PIPESIZE /\ Place(x) \in 0 .. PIPESIZE - 1
<1>1. PIPESIZE \in Nat \ {0} /\ UINT \in Nat \ {0} /\ UINT % PIPESIZE = 0
  BY PipeAssumption
<1>2. (x % UINT) % PIPESIZE = x % PIPESIZE
  BY <1>1, ModMod
<1>3. x % PIPESIZE \in 0 .. PIPESIZE - 1
  BY <1>1, ModDiv
<1> QED BY <1>2, <1>3 DEF Place

\* The place of a byte, counted from where the counter was before it moved.
LEMMA PlaceAdvanced ==
  ASSUME NEW c \in Nat, NEW n \in Nat, NEW k \in Nat
  PROVE  Place(Advance(c, n) + k) = Place(c + n + k)
<1>1. UINT \in Nat \ {0} /\ c + n \in Nat
  BY PipeAssumption
<1>2. (((c + n) % UINT) + k) % UINT = ((c + n) + k) % UINT
  BY <1>1, ModAdd
<1> QED BY <1>2 DEF Place, Advance

\* The place of the j-th byte that is written next.
LEMMA PlaceNext ==
  ASSUME NEW r \in 0 .. UINT - 1, NEW w \in 0 .. UINT - 1, NEW j \in Nat
  PROVE  Place(w + j) = Place(r + Count(r, w) + j)
<1> DEFINE c == Count(r, w)
<1>0. UINT \in Nat \ {0}
  BY PipeAssumption
<1>1. c \in 0 .. UINT - 1 /\ c = IF w >= r THEN w - r ELSE w + UINT - r
  BY CountSum
<1> HIDE DEF c
<1>2. w = Advance(r, c)
  <2>1. Advance(r, c) = IF r + c < UINT THEN r + c ELSE r + c - UINT
    <3>1. c \in 0 .. UINT
      BY <1>0, <1>1
    <3> QED BY <3>1, Advanced
  <2> QED BY <1>0, <1>1, <2>1
<1>3. Place(Advance(r, c) + j) = Place(r + c + j)
  <2>1. r \in Nat /\ c \in Nat
    BY <1>0, <1>1
  <2> QED BY <2>1, PlaceAdvanced
<1> QED BY <1>2, <1>3 DEF c

\* Two of PIPESIZE successive bytes have different places.
LEMMA PlacesDiffer ==
  ASSUME NEW r \in Nat, NEW i \in Nat, NEW j \in Nat, i < j, j - i < PIPESIZE
  PROVE  Place(r + i) # Place(r + j)
<1>0. PIPESIZE \in Nat \ {0}
  BY PipeAssumption
<1> DEFINE a == r + i
           e == j - i
<1>1. a \in Nat /\ e \in 1 .. PIPESIZE - 1 /\ r + j = a + e /\ a + e \in Nat
  BY <1>0
<1> HIDE DEF a, e
<1>2. (a + e) % PIPESIZE # a % PIPESIZE
  BY <1>0, <1>1, ModDistinct
<1>3. Place(a + e) # Place(a)
  BY <1>1, <1>2, PlaceMod
<1> QED BY <1>1, <1>3 DEF a

\* n bytes are written where there is room for them.
LEMMA WriteOrdered ==
  ASSUME NEW d, NEW r \in 0 .. UINT - 1, NEW w \in 0 .. UINT - 1,
         NEW rc \in 0 .. Serials - 1, NEW se \in 0 .. Serials - 1, Ordered(d, r, w, rc, se),
         NEW n \in Nat, n <= PIPESIZE - Count(r, w), NEW d2, Written(d, d2, w, se, n)
  PROVE  /\ Count(r, Advance(w, n)) = Count(r, w) + n
         /\ Ordered(d2, r, Advance(w, n), rc, (se + n) % Serials)
<1> DEFINE c == Count(r, w)
<1>0. UINT \in Nat \ {0} /\ PIPESIZE \in Nat \ {0} /\ Serials \in Nat \ {0} /\ PIPESIZE < UINT
  BY PipeAssumption
<1>1. c \in 0 .. UINT - 1 /\ c = (IF w >= r THEN w - r ELSE w + UINT - r) /\ c + n <= PIPESIZE
  BY <1>0, CountSum DEF Ordered
<1>2. Count(r, Advance(w, n)) = c + n
  <2>1. Advance(w, n) = IF w + n < UINT THEN w + n ELSE w + n - UINT
    <3>1. n \in 0 .. UINT
      BY <1>0, <1>1
    <3> QED BY <3>1, Advanced
  <2>2. Advance(w, n) \in 0 .. UINT - 1
    BY <1>0, <1>1, <2>1
  <2>3. Count(r, Advance(w, n)) = IF Advance(w, n) >= r THEN Advance(w, n) - r ELSE Advance(w, n) + UINT - r
    BY <2>2, CountSum
  <2> QED BY <1>0, <1>1, <2>1, <2>3
<1>3. (rc + (c + n)) % Serials = (se + n) % Serials
  <2>1. rc + c \in Nat /\ rc + (c + n) = (rc + c) + n
    BY <1>0, <1>1
  <2>2. (((rc + c) % Serials) + n) % Serials = ((rc + c) + n) % Serials
    BY <1>0, <2>1, ModAdd
  <2> QED BY <2>1, <2>2 DEF Ordered
<1>4. ASSUME NEW k \in 0 .. (c + n) - 1 PROVE d2[Place(r + k)] = (rc + k) % Serials
  <2>0. c \in Nat /\ r \in Nat /\ k \in Nat /\ rc \in Nat
    BY <1>0, <1>1
  <2>1. CASE k < c
    <3>1. ASSUME NEW j \in 0 .. n - 1 PROVE Place(r + k) # Place(w + j)
      <4>1. j \in Nat /\ c + j \in Nat /\ k < c + j /\ (c + j) - k < PIPESIZE
        BY <1>0, <1>1, <2>0, <2>1
      <4>2. Place(r + k) # Place(r + (c + j))
        BY <2>0, <4>1, PlacesDiffer
      <4>3. r + (c + j) = r + c + j
        BY <2>0, <4>1
      <4>4. Place(w + j) = Place(r + c + j)
        BY <4>1, PlaceNext
      <4> QED BY <4>2, <4>3, <4>4
    <3>2. Place(r + k) \in 0 .. PIPESIZE - 1
      <4>1. r + k \in Nat
        BY <2>0
      <4> QED BY <4>1, PlaceMod
    <3>3. d[Place(r + k)] = (rc + k) % Serials
      <4>1. k \in 0 .. Count(r, w) - 1
        BY <1>1, <2>0, <2>1
      <4> QED BY <4>1 DEF Ordered
    <3> QED BY <3>1, <3>2, <3>3 DEF Written
  <2>2. CASE k >= c
    <3> DEFINE j == k - c
    <3>1. j \in 0 .. n - 1 /\ j \in Nat /\ r + c + j = r + k /\ (rc + c) + j = rc + k /\ rc + c \in Nat
      BY <1>1, <2>0, <2>2
    <3> HIDE DEF j
    <3>2. Place(w + j) = Place(r + k)
      <4>1. Place(w + j) = Place(r + c + j)
        BY <3>1, PlaceNext
      <4> QED BY <3>1, <4>1
    <3>3. (se + j) % Serials = (rc + k) % Serials
      <4>1. (((rc + c) % Serials) + j) % Serials = ((rc + c) + j) % Serials
        BY <1>0, <3>1, ModAdd
      <4> QED BY <3>1, <4>1 DEF Ordered
    <3> QED BY <3>1, <3>2, <3>3 DEF Written
  <2> QED BY <2>0, <2>1, <2>2
<1> HIDE DEF c
<1>5. Ordered(d2, r, Advance(w, n), rc, (se + n) % Serials)
  <2>1. c + n <= PIPESIZE
    BY <1>1
  <2>2. \A k \in 0 .. Count(r, Advance(w, n)) - 1 : d2[Place(r + k)] = (rc + k) % Serials
    BY <1>2, <1>4
  <2>3. Count(r, Advance(w, n)) <= PIPESIZE /\ (rc + Count(r, Advance(w, n))) % Serials = (se + n) % Serials
    BY <1>2, <1>3, <2>1
  <2> QED BY <2>2, <2>3 DEF Ordered
<1> QED BY <1>2, <1>5 DEF c

\* n of the bytes are read.
LEMMA ReadOrdered ==
  ASSUME NEW d, NEW r \in 0 .. UINT - 1, NEW w \in 0 .. UINT - 1,
         NEW rc \in 0 .. Serials - 1, NEW se \in 0 .. Serials - 1, Ordered(d, r, w, rc, se),
         NEW n \in 0 .. Count(r, w)
  PROVE  /\ Count(Advance(r, n), w) = Count(r, w) - n
         /\ n > 0 => (d[Place(r + (n - 1))] + 1) % Serials = (rc + n) % Serials
         /\ Ordered(d, Advance(r, n), w, (rc + n) % Serials, se)
<1> DEFINE c == Count(r, w)
<1>0. UINT \in Nat \ {0} /\ PIPESIZE \in Nat \ {0} /\ Serials \in Nat \ {0} /\ PIPESIZE < UINT
  BY PipeAssumption
<1>1. c \in 0 .. UINT - 1 /\ c = (IF w >= r THEN w - r ELSE w + UINT - r) /\ c <= PIPESIZE
  BY <1>0, CountSum DEF Ordered
<1>2. n \in Nat /\ n <= c /\ n \in 0 .. UINT /\ rc + n \in Nat
  BY <1>0, <1>1
<1>3. Count(Advance(r, n), w) = c - n
  <2>1. Advance(r, n) = IF r + n < UINT THEN r + n ELSE r + n - UINT
    BY <1>2, Advanced
  <2>2. Advance(r, n) \in 0 .. UINT - 1
    BY <1>0, <1>1, <1>2, <2>1
  <2>3. Count(Advance(r, n), w) = IF w >= Advance(r, n) THEN w - Advance(r, n) ELSE w + UINT - Advance(r, n)
    BY <2>2, CountSum
  <2> HIDE DEF c
  <2> QED BY <1>0, <1>1, <1>2, <2>1, <2>3
<1>4. ASSUME n > 0 PROVE (d[Place(r + (n - 1))] + 1) % Serials = (rc + n) % Serials
  <2>1. n - 1 \in 0 .. Count(r, w) - 1
    BY <1>1, <1>2, <1>4
  <2>2. d[Place(r + (n - 1))] = (rc + (n - 1)) % Serials
    BY <2>1 DEF Ordered
  <2>3. rc + (n - 1) \in Nat /\ (rc + (n - 1)) + 1 = rc + n /\ 1 \in Nat
    BY <1>0, <1>2, <1>4
  <2>4. (((rc + (n - 1)) % Serials) + 1) % Serials = ((rc + (n - 1)) + 1) % Serials
    BY <1>0, <2>3, ModAdd
  <2> QED BY <2>2, <2>3, <2>4
<1>5. (((rc + n) % Serials) + (c - n)) % Serials = se
  <2>1. c - n \in Nat /\ (rc + n) + (c - n) = rc + c
    BY <1>1, <1>2
  <2>2. (((rc + n) % Serials) + (c - n)) % Serials = ((rc + n) + (c - n)) % Serials
    BY <1>0, <1>2, <2>1, ModAdd
  <2> QED BY <2>1, <2>2 DEF Ordered
<1>6. ASSUME NEW k \in 0 .. (c - n) - 1
      PROVE  d[Place(Advance(r, n) + k)] = (((rc + n) % Serials) + k) % Serials
  <2>1. r \in Nat /\ k \in Nat /\ n + k \in 0 .. Count(r, w) - 1 /\ r + n + k = r + (n + k)
        /\ (rc + n) + k = rc + (n + k)
    BY <1>0, <1>1, <1>2
  <2>2. Place(Advance(r, n) + k) = Place(r + n + k)
    BY <1>2, <2>1, PlaceAdvanced
  <2>3. d[Place(r + (n + k))] = (rc + (n + k)) % Serials
    BY <2>1 DEF Ordered
  <2>4. (((rc + n) % Serials) + k) % Serials = ((rc + n) + k) % Serials
    BY <1>0, <1>2, <2>1, ModAdd
  <2> QED BY <2>1, <2>2, <2>3, <2>4
<1> HIDE DEF c
<1>7. Ordered(d, Advance(r, n), w, (rc + n) % Serials, se)
  <2>1. c - n <= PIPESIZE
    BY <1>0, <1>1, <1>2
  <2> QED BY <1>3, <1>5, <1>6, <2>1 DEF Ordered
<1> QED BY <1>3, <1>4, <1>7 DEF c

-----------------------------------------------------------------------------
(* The steps.                                                              *)

\* The ring of a new pipe.
LEMMA EmptyOrdered == ASSUME NEW d PROVE Count(0, 0) = 0 /\ Ordered(d, 0, 0, 0, 0)
<1>1. 0 \in 0 .. UINT - 1 /\ Serials \in Nat \ {0} /\ PIPESIZE \in Nat
  BY PipeAssumption
<1>2. Count(0, 0) = 0
  BY <1>1, CountSum
<1>3. (0 + 0) % Serials = 0
  BY <1>1
<1> QED BY <1>1, <1>2, <1>3 DEF Ordered

\* InPipe, of the counters.
LEMMA InPipeCount ==
  /\ InPipe = Count(pipe.nread, pipe.nwrite)
  /\ InPipe' = Count(pipe'.nread, pipe'.nwrite)
BY DEF InPipe, Count

\* The holders of an end can be counted.
LEMMA HoldersFinite ==
  ASSUME NEW e
  PROVE  /\ IsFiniteSet(Holders(e)) /\ Cardinality(Holders(e)) \in Nat
         /\ Cardinality(Holders(e)) = 0 <=> Holders(e) = {}
<1>1. Holders(e) \in SUBSET PipeProc
  BY DEF Holders
<1>2. IsFiniteSet(Holders(e))
  BY Zenon, <1>1, PipeAssumption, FS_Subset
<1> QED BY Zenon, <1>2, FS_CardinalityType, FS_EmptySet

\* PipeFreed, with the holders of an end.
LEMMA FreedHolders ==
  PipeFreed <=>
    /\ pipe.page <=> pipe.readopen \/ pipe.writeopen
    /\ pipe.readopen <=> file["r"].ref > 0
    /\ pipe.writeopen <=> file["w"].ref > 0
    /\ \A e \in PipeEnd : /\ file[e].ref = Cardinality(Holders(e))
                          /\ file[e].type = "pipe" <=> file[e].ref > 0
BY DEF PipeFreed, Holders

\* An end that some process has open is open.
LEMMA OpenHeld ==
  ASSUME PipeInv, NEW q \in PipeProc, NEW e \in PipeEnd, <<q, e>> \in fd
  PROVE  /\ file[e].ref \in Nat /\ file[e].ref > 0 /\ file[e].type = "pipe"
         /\ e = "r" => pipe.readopen
         /\ e = "w" => pipe.writeopen
<1>1. q \in Holders(e)
  BY DEF Holders
<1>2. Cardinality(Holders(e)) \in Nat /\ Cardinality(Holders(e)) # 0
  BY Zenon, <1>1, HoldersFinite
<1> QED BY <1>2, FreedHolders DEF PipeInv

\* No process has an end open, the files are free and both ends are closed.
LEMMA NobodyHolds ==
  ASSUME fd = {}, \A e \in PipeEnd : file[e] = NoFile,
         pipe.page = FALSE, pipe.readopen = FALSE, pipe.writeopen = FALSE
  PROVE  PipeFreed
<1>1. ASSUME NEW e \in PipeEnd PROVE Cardinality(Holders(e)) = 0
  <2>1. Holders(e) = {}
    BY DEF Holders
  <2> QED BY Zenon, <2>1, FS_EmptySet
<1>2. ASSUME NEW e \in PipeEnd PROVE file[e].ref = 0 /\ file[e].type = "none"
  BY DEF NoFile
<1> QED BY <1>1, <1>2, FreedHolders DEF PipeEnd

\* The same in the next state.
LEMMA NobodyHoldsNext ==
  ASSUME fd' = {}, \A e \in PipeEnd : file'[e] = NoFile,
         pipe'.page = FALSE, pipe'.readopen = FALSE, pipe'.writeopen = FALSE
  PROVE  PipeFreed'
<1>1. ASSUME NEW e \in PipeEnd PROVE Cardinality({q \in PipeProc : <<q, e>> \in fd'}) = 0
  <2>1. {q \in PipeProc : <<q, e>> \in fd'} = {}
    OBVIOUS
  <2> QED BY Zenon, <2>1, FS_EmptySet
<1>2. ASSUME NEW e \in PipeEnd PROVE file'[e].ref = 0 /\ file'[e].type = "none"
  BY DEF NoFile
<1> QED BY <1>1, <1>2 DEF PipeFreed, PipeEnd

\* What fileclose does.
LEMMA filecloseDoes ==
  ASSUME NEW x \in Pipes, NEW f \in [PipeEnd -> Files], NEW e \in PipeEnd, NEW s,
         s = [pipe |-> x, file |-> f], NEW y, y = fileclose(s, e)
  PROVE  /\ y = [pipe |-> y.pipe, file |-> y.file]
         /\ y.file \in [PipeEnd -> Files] /\ \A d \in PipeEnd : d # e => y.file[d] = f[d]
         /\ f[e].ref > 1 => y.pipe = x /\ y.file[e].ref = f[e].ref - 1 /\ y.file[e].type = f[e].type
         /\ ~(f[e].ref > 1) => /\ y.file[e] = NoFile
                               /\ y.pipe = IF f[e].type = "pipe" THEN pipeclose(x, e = "w") ELSE x
<1>1. CASE ~(f[e].ref > 1)
  <2>1. y = [pipe |-> IF f[e].type = "pipe" THEN pipeclose(x, e = "w") ELSE x,
             file |-> [f EXCEPT ![e] = NoFile]]
    BY <1>1 DEF fileclose
  <2>2. NoFile \in Files
    BY DEF NoFile, Files
  <2> QED BY <1>1, <2>1, <2>2
<1>2. CASE f[e].ref > 1
  <2> DEFINE g == [f EXCEPT ![e].ref = f[e].ref - 1]
  <2>1. f[e] \in Files /\ f[e].ref - 1 \in Nat
    BY <1>2 DEF Files
  <2>2. /\ [f[e] EXCEPT !.ref = f[e].ref - 1] \in Files
        /\ [f[e] EXCEPT !.ref = f[e].ref - 1].ref = f[e].ref - 1
        /\ [f[e] EXCEPT !.ref = f[e].ref - 1].type = f[e].type
    BY <2>1 DEF Files
  <2>3. g \in [PipeEnd -> Files] /\ g[e] = [f[e] EXCEPT !.ref = f[e].ref - 1]
        /\ \A d \in PipeEnd : d # e => g[d] = f[d]
    BY <2>2
  <2>4. y = [pipe |-> x, file |-> g]
    BY <1>2 DEF fileclose
  <2> HIDE DEF g
  <2>5. y.pipe = x /\ y.file = g
    BY <2>4
  <2>6. y.file[e].ref = f[e].ref - 1 /\ y.file[e].type = f[e].type
    BY <2>2, <2>3, <2>5
  <2> QED BY <1>2, <2>3, <2>4, <2>5, <2>6
<1> QED BY <1>1, <1>2

\* Two files that were allocated and are not used yet are given back at bad:.
LEMMA GivenUpDoes ==
  ASSUME NEW x \in Pipes, NEW f \in [PipeEnd -> Files], NEW n \in 0 .. 2,
         \A e \in PipeEnd : f[e].type = "none" /\ f[e].ref <= 1,
         \A e \in PipeEnd : (IF e = "r" THEN 0 ELSE 1) >= n => f[e] = NoFile,
         NEW y, y = GivenUp([pipe |-> x, file |-> f], n)
  PROVE  y.pipe = x /\ y.file \in [PipeEnd -> Files] /\ \A e \in PipeEnd : y.file[e] = NoFile
<1> DEFINE s == [pipe |-> x, file |-> f]
           z == IF n > 0 THEN fileclose(s, "r") ELSE s
<1>0. /\ "r" \in PipeEnd /\ "w" \in PipeEnd /\ PipeEnd = {"r", "w"} /\ f["r"].type # "pipe" /\ f["w"].type # "pipe"
      /\ ~(f["r"].ref > 1) /\ ~(f["w"].ref > 1)
  BY DEF PipeEnd, Files
<1>1. /\ z = [pipe |-> x, file |-> z.file] /\ z.file \in [PipeEnd -> Files]
      /\ z.file["r"] = NoFile /\ z.file["w"] = f["w"]
  <2>1. CASE n > 0
    <3>1. z = fileclose(s, "r")
      BY <2>1
    <3> HIDE DEF z
    <3> QED BY <1>0, <3>1, filecloseDoes
  <2>2. CASE ~(n > 0)
    BY <1>0, <2>2
  <2> QED BY <2>1, <2>2
<1>2. y = IF n > 1 THEN fileclose(z, "w") ELSE z
  BY DEF GivenUp
<1> HIDE DEF z
<1>3. CASE n > 1
  <2>1. y = fileclose(z, "w")
    BY <1>2, <1>3
  <2> DEFINE g == z.file
  <2>2. z = [pipe |-> x, file |-> g] /\ g \in [PipeEnd -> Files] /\ g["r"] = NoFile
        /\ ~(g["w"].ref > 1) /\ g["w"].type # "pipe"
    BY <1>0, <1>1
  <2> HIDE DEF g
  <2>3. /\ y.file \in [PipeEnd -> Files] /\ \A d \in PipeEnd : d # "w" => y.file[d] = g[d]
        /\ y.file["w"] = NoFile /\ y.pipe = IF g["w"].type = "pipe" THEN pipeclose(x, "w" = "w") ELSE x
    BY <1>0, <2>1, <2>2, filecloseDoes
  <2> QED BY <1>0, <2>2, <2>3
<1>4. CASE ~(n > 1)
  BY <1>0, <1>1, <1>2, <1>4
<1> QED BY <1>3, <1>4

\* Initially there is no pipe.
LEMMA PipeInvInit == PipeInit => PipeInv
<1> SUFFICES ASSUME PipeInit PROVE PipeInv
  OBVIOUS
<1>0. 0 \in 0 .. UINT - 1 /\ 0 \in 0 .. Serials - 1
  BY PipeAssumption
<1>1. /\ pipe = NoPipe /\ NoPipe \in Pipes /\ fd = {} /\ killed = {} /\ sent = 0 /\ rcvd = 0
      /\ file \in [PipeEnd -> Files] /\ \A e \in PipeEnd : file[e] = NoFile
  BY <1>0 DEF PipeInit, NoPipe, Pipes, NoFile, Files
<1>2. \A p \in PipeProc : call[p] = Idle
  BY DEF PipeInit
<1>3. Idle \in Calls /\ Idle.at = "idle"
  BY DEF Idle, Calls
<1>4. call \in [PipeProc -> Calls]
  BY <1>3 DEF PipeInit
<1>5. PipeTyped
  BY <1>0, <1>1, <1>4 DEF PipeTyped
<1>6. InOrder
  BY <1>1, EmptyOrdered DEF InOrder, NoPipe
<1>7. Ends /\ Blocked
  BY <1>2, <1>3 DEF Ends, Blocked, Reading, Writing
<1>8. PipeFreed
  BY <1>1, NobodyHolds DEF NoPipe
<1> QED BY <1>5, <1>6, <1>7, <1>8 DEF PipeInv

\* A new pipe is empty and has both ends open, or it was given up and nothing of
\* it is left.
LEMMA sys_pipeKeeps ==
  ASSUME PipeInv, NEW p \in PipeProc, NEW n \in 0 .. 3, NEW nfd \in 0 .. 2, sys_pipe(p, n, nfd)
  PROVE  PipeInv'
<1> DEFINE s == [pipe |-> pipe, file |-> file]
           x == pipealloc(s, n)
           y == IF n = 3 /\ nfd < 2 THEN fileclose(fileclose(x, "r"), "w") ELSE x
           made == [NoPipe EXCEPT !.page = TRUE, !.readopen = TRUE, !.writeopen = TRUE]
           both == [e \in PipeEnd |-> [ref |-> 1, type |-> "pipe"]]
<1>0. /\ 0 \in 0 .. UINT - 1 /\ 0 \in 0 .. Serials - 1
      /\ "r" \in PipeEnd /\ "w" \in PipeEnd /\ PipeEnd = {"r", "w"}
  BY PipeAssumption DEF PipeEnd
<1>1. /\ fd = {} /\ pipe' = y.pipe /\ file' = y.file /\ killed' = {} /\ call' = call
      /\ fd' = IF n = 3 /\ nfd = 2 THEN {p} \X PipeEnd ELSE {}
      /\ n = 3 => sent' = 0 /\ rcvd' = 0
      /\ n # 3 => sent' = sent /\ rcvd' = rcvd
  BY DEF sys_pipe
<1>2. /\ pipe \in Pipes /\ file \in [PipeEnd -> Files] /\ call \in [PipeProc -> Calls]
      /\ sent \in 0 .. Serials - 1 /\ rcvd \in 0 .. Serials - 1
  BY DEF PipeInv, PipeTyped
<1>3. /\ pipe.page = FALSE /\ pipe.readopen = FALSE /\ pipe.writeopen = FALSE
      /\ \A e \in PipeEnd : file[e].ref = 0 /\ file[e].type = "none" /\ file[e] = NoFile
  <2>1. ASSUME NEW e \in PipeEnd PROVE file[e].ref = 0
    <3>1. Holders(e) = {}
      BY <1>1 DEF Holders
    <3>2. Cardinality(Holders(e)) = 0
      BY Zenon, <3>1, FS_EmptySet
    <3> QED BY <3>2, FreedHolders DEF PipeInv
  <2>2. ASSUME NEW e \in PipeEnd PROVE file[e].type = "none"
    BY <1>2, <2>1, FreedHolders DEF PipeInv, Files
  <2>3. ASSUME NEW e \in PipeEnd PROVE file[e] = NoFile
    BY <1>2, <2>1, <2>2 DEF Files, NoFile
  <2>4. pipe.page \in BOOLEAN /\ pipe.readopen \in BOOLEAN /\ pipe.writeopen \in BOOLEAN
    BY <1>2 DEF Pipes
  <2> QED BY <1>0, <2>1, <2>2, <2>3, <2>4, FreedHolders DEF PipeInv
<1>4. /\ made \in Pipes /\ made.nread = 0 /\ made.nwrite = 0
      /\ made.page = TRUE /\ made.readopen = TRUE /\ made.writeopen = TRUE
  <2>1. NoPipe \in Pipes
    BY <1>0 DEF NoPipe, Pipes
  <2> QED BY <2>1 DEF NoPipe, Pipes
<1>5. ASSUME n # 3 PROVE y.pipe = pipe /\ y.file \in [PipeEnd -> Files] /\ \A e \in PipeEnd : y.file[e] = NoFile
  <2> DEFINE entry(e) == IF n > (IF e = "r" THEN 0 ELSE 1) THEN [file[e] EXCEPT !.ref = 1] ELSE file[e]
             f == [e \in PipeEnd |-> entry(e)]
  <2>1. n < 3 /\ n \in 0 .. 2
    BY <1>5
  <2>2. x = GivenUp([pipe |-> pipe, file |-> f], n)
    BY <2>1 DEF pipealloc
  <2>3. ASSUME NEW e \in PipeEnd
        PROVE  /\ f[e] \in Files /\ f[e].type = "none" /\ f[e].ref <= 1
               /\ (IF e = "r" THEN 0 ELSE 1) >= n => f[e] = NoFile
    <3>1. [file[e] EXCEPT !.ref = 1] \in Files /\ [file[e] EXCEPT !.ref = 1].ref = 1
          /\ [file[e] EXCEPT !.ref = 1].type = "none"
      BY <1>2, <1>3 DEF Files
    <3>2. f[e] = entry(e)
      OBVIOUS
    <3> QED BY <1>2, <1>3, <2>1, <3>1, <3>2
  <2>4. f \in [PipeEnd -> Files]
    BY <2>3
  <2>5. y = x
    BY <1>5
  <2> HIDE DEF f, x, y
  <2> QED BY <1>2, <2>1, <2>2, <2>3, <2>4, <2>5, GivenUpDoes
<1>6. both \in [PipeEnd -> Files] /\ \A e \in PipeEnd : both[e].ref = 1 /\ both[e].type = "pipe"
  BY DEF Files
<1>7. ASSUME n = 3 PROVE x = [pipe |-> made, file |-> both]
  <2>1. ASSUME NEW c \in Files
        PROVE  [[c EXCEPT !.ref = 1] EXCEPT !.type = "pipe"] = [ref |-> 1, type |-> "pipe"]
    <3>1. c = [ref |-> c.ref, type |-> c.type]
      BY DEF Files
    <3>2. [c EXCEPT !.ref = 1] = [ref |-> 1, type |-> c.type]
      BY <3>1
    <3>3. ASSUME NEW d, d = [ref |-> 1, type |-> c.type]
          PROVE  [d EXCEPT !.type = "pipe"] = [ref |-> 1, type |-> "pipe"]
      BY <3>3
    <3> QED BY Zenon, <3>2, <3>3
  <2> DEFINE entry(e) == IF n > (IF e = "r" THEN 0 ELSE 1) THEN [file[e] EXCEPT !.ref = 1] ELSE file[e]
             g == [e \in PipeEnd |-> [entry(e) EXCEPT !.type = "pipe"]]
  <2>2. x = [pipe |-> made, file |-> g]
    BY <1>7 DEF pipealloc
  <2>3. \A e \in PipeEnd : entry(e) = [file[e] EXCEPT !.ref = 1]
    BY <1>7
  <2>4. ASSUME NEW e \in PipeEnd PROVE [entry(e) EXCEPT !.type = "pipe"] = [ref |-> 1, type |-> "pipe"]
    <3>1. file[e] \in Files
      BY <1>2
    <3>2. [[file[e] EXCEPT !.ref = 1] EXCEPT !.type = "pipe"] = [ref |-> 1, type |-> "pipe"]
      BY Zenon, <3>1, <2>1
    <3>3. entry(e) = [file[e] EXCEPT !.ref = 1]
      BY Zenon, <2>3
    <3> HIDE DEF entry
    <3> QED BY Zenon, <3>2, <3>3
  <2> HIDE DEF entry
  <2>5. g = both
    BY Zenon, <2>4
  <2> QED BY Zenon, <2>2, <2>5
<1> HIDE DEF x, made, both
<1>8. ASSUME n = 3, nfd < 2
      PROVE  /\ y.pipe \in Pipes /\ y.pipe.nread = 0 /\ y.pipe.nwrite = 0
             /\ y.pipe.page = FALSE /\ y.pipe.readopen = FALSE /\ y.pipe.writeopen = FALSE
             /\ y.file \in [PipeEnd -> Files] /\ \A e \in PipeEnd : y.file[e] = NoFile
  <2> DEFINE a == fileclose(x, "r")
  <2>1. /\ a = [pipe |-> a.pipe, file |-> a.file] /\ a.file \in [PipeEnd -> Files]
        /\ a.file["w"] = both["w"] /\ a.file["r"] = NoFile /\ a.pipe = pipeclose(made, "r" = "w")
    BY <1>0, <1>4, <1>6, <1>7, <1>8, filecloseDoes
  <2> HIDE DEF a
  <2>2. /\ a.pipe \in Pipes /\ a.pipe.nread = 0 /\ a.pipe.nwrite = 0
        /\ a.pipe.readopen = FALSE
    <3>1. a.pipe = pipeclose(made, FALSE)
      BY <2>1
    <3> QED BY <1>4, <3>1 DEF pipeclose, Pipes
  <2>3. y = fileclose(a, "w")
    BY <1>8 DEF a
  <2> HIDE DEF y
  <2>4. /\ y.file \in [PipeEnd -> Files] /\ y.file["r"] = a.file["r"] /\ y.file["w"] = NoFile
        /\ y.pipe = pipeclose(a.pipe, "w" = "w")
    BY <1>0, <1>6, <2>1, <2>2, <2>3, filecloseDoes
  <2>5. /\ y.pipe \in Pipes /\ y.pipe.nread = 0 /\ y.pipe.nwrite = 0
        /\ y.pipe.page = FALSE /\ y.pipe.readopen = FALSE /\ y.pipe.writeopen = FALSE
    <3>1. /\ y.pipe \in Pipes /\ y.pipe.nread = a.pipe.nread /\ y.pipe.nwrite = a.pipe.nwrite
          /\ y.pipe.readopen = (IF "w" = "r" THEN FALSE ELSE a.pipe.readopen)
          /\ y.pipe.writeopen = (IF "w" = "w" THEN FALSE ELSE a.pipe.writeopen)
          /\ y.pipe.page = IF ~y.pipe.readopen /\ ~y.pipe.writeopen THEN FALSE ELSE a.pipe.page
      <4>1. a.pipe \in Pipes /\ "w" \in PipeEnd /\ y.pipe = pipeclose(a.pipe, "w" = "w")
        BY <1>0, <2>2, <2>4
      <4>2. y.pipe = pipeclose(a.pipe, TRUE)
        BY <4>1
      <4> QED BY <4>1, <4>2 DEF pipeclose, Pipes
    <3> QED BY <2>2, <3>1
  <2> QED BY <1>0, <2>1, <2>4, <2>5
<1>9. ASSUME n = 3, nfd = 2 PROVE y.pipe = made /\ y.file = both
  BY <1>7, <1>9
<1>10. n # 3 \/ (n = 3 /\ nfd < 2) \/ (n = 3 /\ nfd = 2)
  OBVIOUS
<1> HIDE DEF y
<1>11. pipe' \in Pipes /\ file' \in [PipeEnd -> Files]
  BY <1>1, <1>2, <1>4, <1>5, <1>6, <1>8, <1>9, <1>10
<1>12. PipeTyped'
  <2>1. fd' \subseteq PipeProc \X PipeEnd
    BY <1>1
  <2>2. sent' \in 0 .. Serials - 1 /\ rcvd' \in 0 .. Serials - 1
    BY <1>0, <1>1, <1>2
  <2> QED BY <1>1, <1>2, <1>11, <2>1, <2>2 DEF PipeTyped
<1>13. InOrder'
  <2>1. CASE n # 3
    BY <1>1, <1>5, <2>1 DEF PipeInv, InOrder
  <2>2. CASE n = 3
    <3>1. pipe'.nread = 0 /\ pipe'.nwrite = 0 /\ sent' = 0 /\ rcvd' = 0
      BY <1>1, <1>4, <1>8, <1>9, <1>10, <2>2
    <3> QED BY <3>1, EmptyOrdered DEF InOrder
  <2> QED BY <2>1, <2>2
<1>14. \A q \in PipeProc : call[q].at = "idle"
  BY <1>1 DEF PipeInv, Ends
<1>15. Ends' /\ Blocked'
  BY <1>1, <1>14 DEF Ends, Blocked, Reading, Writing
<1>16. PipeFreed'
  <2>1. CASE n # 3
    BY <1>1, <1>3, <1>5, <2>1, NobodyHoldsNext
  <2>2. CASE n = 3 /\ nfd < 2
    BY <1>1, <1>8, <2>2, NobodyHoldsNext
  <2>3. CASE n = 3 /\ nfd = 2
    <3>1. ASSUME NEW e \in PipeEnd PROVE Cardinality({q \in PipeProc : <<q, e>> \in fd'}) = 1
      <4>1. {q \in PipeProc : <<q, e>> \in fd'} = {p}
        BY <1>1, <2>3
      <4> QED BY Zenon, <4>1, FS_Singleton
    <3>2. pipe' = made /\ file' = both
      BY <1>1, <1>9, <2>3
    <3> QED BY <1>0, <1>4, <1>6, <3>1, <3>2 DEF PipeFreed
  <2> QED BY <1>10, <2>1, <2>2, <2>3
<1> QED BY <1>12, <1>13, <1>15, <1>16 DEF PipeInv

\* The child of a fork adds one to the references of what its parent has open.
LEMMA PipeForkKeeps ==
  ASSUME PipeInv, NEW p \in PipeProc, NEW q \in PipeProc, PipeFork(p, q)
  PROVE  PipeInv'
<1>1. /\ Open(q) = {} /\ fd' = fd \union ({q} \X Open(p))
      /\ UNCHANGED <<pipe, call, killed, sent, rcvd>>
      /\ file' = [e \in PipeEnd |-> IF e \in Open(p) THEN [file[e] EXCEPT !.ref = @ + 1] ELSE file[e]]
  BY DEF PipeFork
<1>2. file \in [PipeEnd -> Files] /\ fd \subseteq PipeProc \X PipeEnd /\ Open(p) \subseteq PipeEnd
  BY DEF PipeInv, PipeTyped, Open
<1>3. ASSUME NEW e \in PipeEnd
      PROVE  /\ file'[e] \in Files /\ file'[e].type = file[e].type
             /\ file'[e].ref = IF e \in Open(p) THEN file[e].ref + 1 ELSE file[e].ref
  BY <1>1, <1>2 DEF Files
<1>4. file' \in [PipeEnd -> Files]
  BY <1>1, <1>3
<1>5. PipeTyped'
  BY <1>1, <1>2, <1>4 DEF PipeInv, PipeTyped
<1>6. InOrder' /\ InPipe' = InPipe
  BY <1>1 DEF PipeInv, InOrder, InPipe
<1>7. Ends'
  BY <1>1 DEF PipeInv, Ends
<1>8. Blocked'
  BY <1>1, <1>6 DEF PipeInv, Blocked
<1>9. ASSUME NEW e \in PipeEnd
      PROVE  Cardinality({o \in PipeProc : <<o, e>> \in fd'}) = file'[e].ref
  <2>0. file[e].ref = Cardinality(Holders(e)) /\ IsFiniteSet(Holders(e))
    BY FreedHolders, HoldersFinite DEF PipeInv
  <2>1. CASE e \in Open(p)
    <3>1. {o \in PipeProc : <<o, e>> \in fd'} = Holders(e) \union {q}
      BY <1>1, <2>1 DEF Holders
    <3>2. q \notin Holders(e)
      BY <1>1 DEF Holders, Open
    <3>3. Cardinality(Holders(e) \union {q}) = Cardinality(Holders(e)) + 1
      BY Zenon, <2>0, <3>2, FS_AddElement
    <3> QED BY <1>3, <2>0, <2>1, <3>1, <3>3
  <2>2. CASE e \notin Open(p)
    <3>1. {o \in PipeProc : <<o, e>> \in fd'} = Holders(e)
      BY <1>1, <2>2 DEF Holders
    <3> QED BY <1>3, <2>0, <2>2, <3>1
  <2> QED BY <2>1, <2>2
<1>10. ASSUME NEW e \in PipeEnd PROVE file'[e].ref > 0 <=> file[e].ref > 0
  <2>1. CASE e \in Open(p)
    <3>1. file[e].ref \in Nat /\ file[e].ref > 0
      BY <2>1, OpenHeld DEF Open
    <3> QED BY <1>3, <2>1, <3>1
  <2>2. CASE e \notin Open(p)
    BY <1>3, <2>2
  <2> QED BY <2>1, <2>2
<1>11. PipeFreed'
  <2>1. "r" \in PipeEnd /\ "w" \in PipeEnd
    BY DEF PipeEnd
  <2> QED BY <1>1, <1>3, <1>9, <1>10, <2>1 DEF PipeInv, PipeFreed
<1> QED BY <1>5, <1>6, <1>7, <1>8, <1>11 DEF PipeInv

\* A step that leaves the pipe alone and changes the call of p only.
LEMMA CallKeeps ==
  ASSUME PipeInv, NEW p \in PipeProc, NEW x \in Calls, call' = [call EXCEPT ![p] = x],
         UNCHANGED <<pipe, file, fd, sent, rcvd>>,
         killed \subseteq killed', killed' \subseteq PipeProc,
         x.at # "idle" => <<p, MyEnd(p)>> \in fd,
         x.at \in Reading => p \in PipeReader, x.at \in Writing => p \in PipeWriter,
         x.at = "rdoze" => pipe.writeopen /\ InPipe = 0,
         x.at = "rsleep" => pipe.writeopen /\ (InPipe = 0 \/ killed \intersect PipeWriter # {}),
         x.at \in {"wdoze", "wsleep"} => pipe.readopen /\ InPipe = PIPESIZE
  PROVE  PipeInv'
<1>1. call' \in [PipeProc -> Calls] /\ call'[p] = x /\ \A q \in PipeProc : q # p => call'[q] = call[q]
  BY DEF PipeInv, PipeTyped
<1>2. PipeTyped' /\ InOrder' /\ PipeFreed'
  BY <1>1 DEF PipeInv, PipeTyped, InOrder, PipeFreed
<1>3. Ends'
  BY <1>1 DEF PipeInv, Ends
<1>4. InPipe' = InPipe
  BY DEF InPipe
<1>5. Blocked'
  <2> SUFFICES ASSUME NEW q \in PipeProc
               PROVE  /\ call'[q].at = "rdoze" => pipe'.writeopen /\ InPipe' = 0
                      /\ call'[q].at = "rsleep" =>
                           pipe'.writeopen /\ (InPipe' = 0 \/ killed' \intersect PipeWriter # {})
                      /\ call'[q].at \in {"wdoze", "wsleep"} => pipe'.readopen /\ InPipe' = PIPESIZE
    BY DEF Blocked
  <2>1. killed \intersect PipeWriter # {} => killed' \intersect PipeWriter # {}
    OBVIOUS
  <2>2. CASE q = p
    BY <1>1, <1>4, <2>1, <2>2
  <2>3. CASE q # p
    BY <1>1, <1>4, <2>1, <2>3 DEF PipeInv, Blocked
  <2> QED BY <2>2, <2>3
<1> QED BY <1>2, <1>3, <1>5 DEF PipeInv

\* A process starts to read or write.
LEMMA BeginKeeps ==
  ASSUME PipeInv, NEW p \in PipeProc, NEW n \in PipeCounts, Begin(p, n)
  PROVE  PipeInv'
<1> DEFINE x == [at |-> IF p \in PipeWriter THEN "write" ELSE "read", left |-> n]
<1>1. x \in Calls
  BY PipeAssumption DEF Calls, Reading, Writing
<1>2. x.at = IF p \in PipeWriter THEN "write" ELSE "read"
  OBVIOUS
<1>3. /\ call' = [call EXCEPT ![p] = x] /\ UNCHANGED <<pipe, file, fd, sent, rcvd>>
      /\ killed' = killed /\ <<p, MyEnd(p)>> \in fd /\ killed' \subseteq PipeProc
  BY DEF Begin, PipeInv, PipeTyped
<1> HIDE DEF x
<1>4. /\ x.at \in Reading => p \in PipeReader
      /\ x.at \in Writing => p \in PipeWriter
      /\ x.at \notin {"rdoze", "rsleep", "wdoze", "wsleep"}
  BY <1>2 DEF Reading, Writing, PipeProc
<1> QED BY <1>1, <1>3, <1>4, CallKeeps

\* sleep() gives the lock up with the condition still true.
LEMMA PipeSleepKeeps ==
  ASSUME PipeInv, NEW p \in PipeProc, PipeSleep(p)
  PROVE  PipeInv'
<1> DEFINE x == [call[p] EXCEPT !.at = IF @ = "rdoze" THEN "rsleep" ELSE "wsleep"]
<1>1. call[p] \in Calls /\ call[p].at \in {"rdoze", "wdoze"}
  BY DEF PipeInv, PipeTyped, PipeSleep
<1>2. x \in Calls /\ x.at = IF call[p].at = "rdoze" THEN "rsleep" ELSE "wsleep"
  BY <1>1 DEF Calls, Reading, Writing
<1>3. /\ call' = [call EXCEPT ![p] = x] /\ UNCHANGED <<pipe, file, fd, sent, rcvd>>
      /\ killed' = killed /\ killed' \subseteq PipeProc
  BY DEF PipeSleep, PipeInv, PipeTyped
<1> HIDE DEF x
<1>4. /\ <<p, MyEnd(p)>> \in fd
      /\ x.at \in Reading => p \in PipeReader
      /\ x.at \in Writing => p \in PipeWriter
  BY <1>1, <1>2 DEF PipeInv, Ends, Reading, Writing
<1>5. /\ x.at # "rdoze" /\ x.at = "rsleep" => pipe.writeopen /\ InPipe = 0
      /\ x.at \in {"wdoze", "wsleep"} => pipe.readopen /\ InPipe = PIPESIZE
  BY <1>1, <1>2 DEF PipeInv, Blocked
<1> QED BY <1>2, <1>3, <1>4, <1>5, CallKeeps

\* kill() wakes its victim.
LEMMA PipeKillKeeps ==
  ASSUME PipeInv, NEW p \in PipeProc, PipeKill(p)
  PROVE  PipeInv'
<1> DEFINE x == KillWakes(p)
<1>1. call[p] \in Calls
  BY DEF PipeInv, PipeTyped
<1>2. /\ x \in Calls
      /\ x.at = CASE call[p].at = "rsleep" -> "read" [] call[p].at = "wsleep" -> "write" [] OTHER -> call[p].at
  BY <1>1 DEF Calls, Reading, Writing, KillWakes
<1>3. /\ call' = [call EXCEPT ![p] = x] /\ UNCHANGED <<pipe, file, fd, sent, rcvd>>
      /\ killed \subseteq killed' /\ killed' \subseteq PipeProc
  BY DEF PipeKill, PipeInv, PipeTyped
<1> HIDE DEF x
<1>4. /\ x.at # "idle" => <<p, MyEnd(p)>> \in fd
      /\ x.at \in Reading => p \in PipeReader
      /\ x.at \in Writing => p \in PipeWriter
  BY <1>1, <1>2 DEF PipeInv, Ends, Reading, Writing
<1>5. /\ x.at = "rdoze" => pipe.writeopen /\ InPipe = 0
      /\ x.at # "rsleep"
      /\ x.at \in {"wdoze", "wsleep"} => pipe.readopen /\ InPipe = PIPESIZE
  BY <1>1, <1>2 DEF PipeInv, Blocked
<1> QED BY <1>2, <1>3, <1>4, <1>5, CallKeeps

\* A step that changes no ends, and after which p->lock is held by p at most.
\* Other processes sleep on, or were woken up to test again.
LEMMA UnlockedKeeps ==
  ASSUME PipeInv, Unlocked, NEW p \in PipeProc, <<p, MyEnd(p)>> \in fd, NEW x \in Calls,
         pipe' \in Pipes, sent' \in 0 .. Serials - 1, rcvd' \in 0 .. Serials - 1, InOrder',
         pipe'.page = pipe.page, pipe'.readopen = pipe.readopen, pipe'.writeopen = pipe.writeopen,
         UNCHANGED <<file, fd, killed>>,
         call' \in [PipeProc -> Calls], call'[p] = x,
         x.at \in Reading => p \in PipeReader, x.at \in Writing => p \in PipeWriter,
         \A q \in PipeProc : q # p =>
           \/ call'[q].at = call[q].at
           \/ call[q].at = "rsleep" /\ call'[q].at = "read"
           \/ call[q].at = "wsleep" /\ call'[q].at = "write",
         x.at = "rdoze" => pipe.writeopen /\ InPipe' = 0,
         x.at = "wdoze" => pipe.readopen /\ InPipe' = PIPESIZE,
         x.at \notin {"rsleep", "wsleep"},
         \A q \in PipeProc : q # p /\ call'[q].at = "rsleep" => InPipe' = 0 \/ killed \intersect PipeWriter # {},
         \A q \in PipeProc : q # p /\ call'[q].at = "wsleep" => InPipe' = PIPESIZE
  PROVE  PipeInv'
<1>1. PipeTyped'
  BY DEF PipeInv, PipeTyped
<1>2. PipeFreed'
  BY DEF PipeInv, PipeFreed
<1>3. Ends'
  <2> SUFFICES ASSUME NEW q \in PipeProc
               PROVE  /\ call'[q].at # "idle" => <<q, MyEnd(q)>> \in fd'
                      /\ call'[q].at \in Reading => q \in PipeReader
                      /\ call'[q].at \in Writing => q \in PipeWriter
    BY DEF Ends
  <2>1. CASE q = p
    BY <2>1
  <2>2. CASE q # p
    BY <2>2 DEF PipeInv, Ends, Reading, Writing
  <2> QED BY <2>1, <2>2
<1>4. Blocked'
  <2> SUFFICES ASSUME NEW q \in PipeProc
               PROVE  /\ call'[q].at = "rdoze" => pipe'.writeopen /\ InPipe' = 0
                      /\ call'[q].at = "rsleep" =>
                           pipe'.writeopen /\ (InPipe' = 0 \/ killed' \intersect PipeWriter # {})
                      /\ call'[q].at \in {"wdoze", "wsleep"} => pipe'.readopen /\ InPipe' = PIPESIZE
    BY DEF Blocked
  <2>1. CASE q = p
    BY <2>1
  <2>2. CASE q # p
    BY <2>2 DEF PipeInv, Blocked, Unlocked
  <2> QED BY <2>1, <2>2
<1> QED BY <1>1, <1>2, <1>3, <1>4 DEF PipeInv

\* What a wakeup does to a call.
LEMMA Wakes ==
  ASSUME NEW c, c \in [PipeProc -> Calls]
  PROVE  /\ WakeReaders(c) \in [PipeProc -> Calls] /\ WakeWriters(c) \in [PipeProc -> Calls]
         /\ \A q \in PipeProc :
              /\ WakeReaders(c)[q].left = c[q].left
              /\ WakeReaders(c)[q].at = IF c[q].at = "rsleep" THEN "read" ELSE c[q].at
              /\ WakeWriters(c)[q].left = c[q].left
              /\ WakeWriters(c)[q].at = IF c[q].at = "wsleep" THEN "write" ELSE c[q].at
<1>1. \A q \in PipeProc : c[q] \in Calls
  OBVIOUS
<1>2. ASSUME NEW x \in Calls
      PROVE  /\ [x EXCEPT !.at = "read"] \in Calls /\ [x EXCEPT !.at = "write"] \in Calls
             /\ [x EXCEPT !.at = "read"].at = "read" /\ [x EXCEPT !.at = "read"].left = x.left
             /\ [x EXCEPT !.at = "write"].at = "write" /\ [x EXCEPT !.at = "write"].left = x.left
  BY DEF Calls, Reading, Writing
<1>3. WakeReaders(c) \in [PipeProc -> Calls] /\ WakeWriters(c) \in [PipeProc -> Calls]
  BY <1>1, <1>2 DEF WakeReaders, WakeWriters
<1> QED BY <1>1, <1>2, <1>3 DEF WakeReaders, WakeWriters

\* pipewrite adds bytes in order, wakes the readers unless it fails, and sleeps
\* only with the pipe full.
LEMMA pipewriteKeeps ==
  ASSUME PipeInv, NEW p \in PipeProc, pipewrite(p)
  PROVE  PipeInv'
<1> DEFINE n == IF call[p].left < Room THEN call[p].left ELSE Room
           full == n < call[p].left
           fails == full /\ (~pipe.readopen \/ Gone(p))
           woken == IF fails THEN call ELSE WakeReaders(call)
           x == IF fails \/ ~full THEN Idle ELSE [at |-> "wdoze", left |-> woken[p].left - n]
           w == pipe.nwrite
           r == pipe.nread
           D == [k \in DOMAIN pipe.data |->
                   IF \E j \in 0 .. n - 1 : k = Place(w + j)
                   THEN LET j == CHOOSE j \in 0 .. n - 1 : k = Place(w + j) IN (sent + j) % Serials
                   ELSE pipe.data[k]]
<1>0. /\ UINT \in Nat \ {0} /\ PIPESIZE \in Nat \ {0} /\ Serials \in Nat \ {0} /\ PIPESIZE < UINT
      /\ PIPESIZE < Serials
  BY PipeAssumption
<1>1. /\ Unlocked /\ call[p].at = "write" /\ UNCHANGED <<file, fd, killed, rcvd>>
      /\ sent' = (sent + n) % Serials
      /\ call' = [woken EXCEPT ![p] = x]
      /\ pipe' = [[pipe EXCEPT !.nwrite = Advance(@, n)] EXCEPT !.data = D]
  BY DEF pipewrite, Place
<1>2. /\ pipe \in Pipes /\ call \in [PipeProc -> Calls] /\ call[p] \in Calls /\ call[p].left \in Nat
      /\ w \in 0 .. UINT - 1 /\ r \in 0 .. UINT - 1 /\ w \in Nat
      /\ pipe.data \in [0 .. PIPESIZE - 1 -> 0 .. Serials - 1]
      /\ sent \in 0 .. Serials - 1 /\ rcvd \in 0 .. Serials - 1 /\ sent \in Nat
  BY <1>0 DEF PipeInv, PipeTyped, Pipes, Calls
<1>3. InPipe = Count(r, w) /\ InPipe \in Nat /\ InPipe <= PIPESIZE /\ Ordered(pipe.data, r, w, rcvd, sent)
  <2>1. InPipe = Count(r, w) /\ Ordered(pipe.data, r, w, rcvd, sent)
    BY InPipeCount DEF PipeInv, InOrder
  <2>2. Count(r, w) \in 0 .. UINT - 1
    BY <1>2, CountSum
  <2> HIDE DEF r, w
  <2> QED BY <1>0, <2>1, <2>2 DEF Ordered
<1>4. n \in Nat /\ n <= PIPESIZE - Count(r, w) /\ n <= PIPESIZE /\ n <= call[p].left /\ (full => InPipe + n = PIPESIZE)
  BY <1>0, <1>2, <1>3 DEF Room
<1> HIDE DEF n
<1>5. ASSUME NEW j \in 0 .. n - 1 PROVE D[Place(w + j)] = (sent + j) % Serials
  <2>0. j \in Nat /\ w + j \in Nat
    BY <1>2, <1>4
  <2>1. Place(w + j) \in 0 .. PIPESIZE - 1
    BY <2>0, PlaceMod
  <2> DEFINE i == CHOOSE i \in 0 .. n - 1 : Place(w + j) = Place(w + i)
  <2>2. i \in 0 .. n - 1 /\ Place(w + j) = Place(w + i)
    OBVIOUS
  <2>3. D[Place(w + j)] = (sent + i) % Serials
    BY <1>2, <2>1
  <2> HIDE DEF i, D, w
  <2>4. i \in Nat /\ (i < j => j - i < PIPESIZE) /\ (j < i => i - j < PIPESIZE)
    BY <1>0, <1>4, <2>0, <2>2
  <2>5. ~(i < j)
    BY <1>2, <2>0, <2>2, <2>4, PlacesDiffer
  <2>6. ~(j < i)
    BY <1>2, <2>0, <2>2, <2>4, PlacesDiffer
  <2>7. i = j
    BY <2>0, <2>4, <2>5, <2>6
  <2> QED BY <2>3, <2>7
<1>6. \A l \in 0 .. PIPESIZE - 1 : (\A j \in 0 .. n - 1 : l # Place(w + j)) => D[l] = pipe.data[l]
  BY <1>2
<1>7. D \in [0 .. PIPESIZE - 1 -> 0 .. Serials - 1]
  <2>1. \A j \in 0 .. n - 1 : (sent + j) % Serials \in 0 .. Serials - 1
    <3> SUFFICES ASSUME NEW j \in 0 .. n - 1 PROVE (sent + j) % Serials \in 0 .. Serials - 1
      OBVIOUS
    <3>1. sent + j \in Nat
      BY <1>2, <1>4
    <3> QED BY <1>0, <3>1, ModDiv
  <2>2. ASSUME NEW k \in 0 .. PIPESIZE - 1 PROVE D[k] \in 0 .. Serials - 1
    <3>1. CASE \E j \in 0 .. n - 1 : k = Place(w + j)
      BY <1>5, <2>1, <3>1
    <3>2. CASE ~ \E j \in 0 .. n - 1 : k = Place(w + j)
      BY <1>2, <1>6, <3>2
    <3> QED BY <3>1, <3>2
  <2>3. D = [k \in 0 .. PIPESIZE - 1 |-> D[k]]
    BY <1>2
  <2> HIDE DEF D
  <2> QED BY <2>2, <2>3
<1> HIDE DEF D
<1>8. /\ InPipe' = InPipe + n /\ InOrder' /\ pipe' \in Pipes /\ sent' \in 0 .. Serials - 1
      /\ pipe'.page = pipe.page /\ pipe'.readopen = pipe.readopen /\ pipe'.writeopen = pipe.writeopen
  <2>1. Advance(w, n) \in 0 .. UINT - 1 /\ (sent + n) % Serials \in 0 .. Serials - 1
    <3>1. w + n \in Nat /\ sent + n \in Nat
      BY <1>2, <1>4
    <3> QED BY <1>0, <3>1, ModDiv DEF Advance
  <2>2. /\ pipe' \in Pipes
        /\ pipe'.data = D /\ pipe'.nread = r /\ pipe'.nwrite = Advance(w, n)
        /\ pipe'.page = pipe.page /\ pipe'.readopen = pipe.readopen /\ pipe'.writeopen = pipe.writeopen
    BY <1>1, <1>2, <1>7, <2>1 DEF Pipes
  <2>3. /\ Count(r, Advance(w, n)) = Count(r, w) + n
        /\ Ordered(D, r, Advance(w, n), rcvd, (sent + n) % Serials)
    <3>1. n \in Nat /\ n <= PIPESIZE - Count(r, w)
      BY <1>4
    <3>2. Written(pipe.data, D, w, sent, n)
      BY <1>5, <1>6 DEF Written
    <3> HIDE DEF r, w
    <3> QED BY <1>2, <1>3, <3>1, <3>2, WriteOrdered
  <2>4. InPipe' = InPipe + n
    BY <1>3, <2>2, <2>3, InPipeCount
  <2> HIDE DEF r, w
  <2> QED BY <1>1, <2>1, <2>2, <2>3, <2>4 DEF InOrder
<1>9. <<p, MyEnd(p)>> \in fd /\ p \in PipeWriter
  BY <1>1 DEF PipeInv, Ends, Writing
<1>10. woken \in [PipeProc -> Calls] /\ woken[p].left = call[p].left
  BY <1>2, Wakes
<1>11. x \in Calls /\ x.at = IF fails \/ ~full THEN "idle" ELSE "wdoze"
  <2>1. woken[p].left - n \in Nat
    BY <1>2, <1>4, <1>10
  <2> HIDE DEF woken, full, fails
  <2> QED BY <2>1 DEF Idle, Calls, Writing
<1>12. call' \in [PipeProc -> Calls] /\ call'[p] = x /\ \A q \in PipeProc : q # p => call'[q] = woken[q]
  <2> HIDE DEF woken, x
  <2> QED BY <1>1, <1>10, <1>11
<1>13. \A q \in PipeProc : q # p =>
          \/ call'[q].at = call[q].at
          \/ call[q].at = "rsleep" /\ call'[q].at = "read" /\ ~fails
  BY <1>2, <1>12, Wakes
<1>14. ASSUME NEW q \in PipeProc, q # p, call'[q].at = "rsleep" PROVE killed \intersect PipeWriter # {}
  <2>1. call[q].at = "rsleep" /\ fails
    <3> HIDE DEF x
    <3> QED BY <1>2, <1>12, <1>14, Wakes
  <2>2. q \in PipeReader /\ <<q, MyEnd(q)>> \in fd
    BY <2>1 DEF PipeInv, Ends, Reading
  <2>3. pipe.readopen
    BY <2>2, PipeAssumption, OpenHeld DEF MyEnd, PipeEnd
  <2> QED BY <1>9, <2>1, <2>3 DEF Gone
<1>15. ASSUME NEW q \in PipeProc, q # p, call'[q].at = "wsleep" PROVE InPipe' = PIPESIZE
  <2>1. call[q].at = "wsleep"
    BY <1>13, <1>15
  <2>2. InPipe = PIPESIZE
    BY <2>1 DEF PipeInv, Blocked
  <2> QED BY <1>0, <1>3, <1>4, <1>8, <2>2
<1>16. x.at = "wdoze" => pipe.readopen /\ InPipe' = PIPESIZE
  BY <1>4, <1>8, <1>11
<1>17. /\ x.at \in {"idle", "wdoze"} /\ x.at \notin {"rsleep", "wsleep"} /\ x.at # "rdoze"
       /\ x.at \notin Reading
  BY <1>11 DEF Reading
<1> HIDE DEF x, fails, full, woken
<1> QED BY <1>1, <1>2, <1>8, <1>9, <1>11, <1>12, <1>13, <1>14, <1>15, <1>16, <1>17, UnlockedKeeps

\* piperead takes bytes in order and wakes the writers, or sleeps with the pipe
\* empty.
LEMMA pipereadKeeps ==
  ASSUME PipeInv, NEW p \in PipeProc, piperead(p)
  PROVE  PipeInv'
<1> DEFINE w == pipe.nwrite
           r == pipe.nread
           n == IF call[p].left < InPipe THEN call[p].left ELSE InPipe
           waits == InPipe = 0 /\ pipe.writeopen
<1>0. UINT \in Nat \ {0} /\ PIPESIZE \in Nat \ {0} /\ Serials \in Nat \ {0}
  BY PipeAssumption
<1>1. Unlocked /\ call[p].at = "read" /\ UNCHANGED <<file, fd, killed, sent>>
  BY DEF piperead
<1>2. /\ pipe \in Pipes /\ call \in [PipeProc -> Calls] /\ call[p] \in Calls /\ call[p].left \in Nat
      /\ w \in 0 .. UINT - 1 /\ r \in 0 .. UINT - 1 /\ r \in Nat
      /\ sent \in 0 .. Serials - 1 /\ rcvd \in 0 .. Serials - 1
      /\ killed \subseteq PipeProc
  BY <1>0 DEF PipeInv, PipeTyped, Pipes, Calls
<1>3. <<p, MyEnd(p)>> \in fd /\ p \in PipeReader
  BY <1>1 DEF PipeInv, Ends, Reading
<1>4. CASE waits
  <2> DEFINE x == IF Gone(p) THEN Idle ELSE [call[p] EXCEPT !.at = "rdoze"]
  <2>1. UNCHANGED <<pipe, rcvd>> /\ call' = [call EXCEPT ![p] = x]
    BY <1>4 DEF piperead
  <2>2. x \in Calls /\ x.at \in {"idle", "rdoze"}
    BY <1>2 DEF Idle, Calls, Reading
  <2> HIDE DEF x
  <2>3. x.at \notin Writing /\ x.at # "rsleep" /\ x.at \notin {"wdoze", "wsleep"}
    BY <2>2 DEF Writing
  <2> QED BY <1>1, <1>2, <1>3, <1>4, <2>1, <2>2, <2>3, CallKeeps
<1>5. CASE ~waits
  <2>1. /\ pipe' = [pipe EXCEPT !.nread = Advance(@, n)]
        /\ rcvd' = IF n = 0 THEN rcvd ELSE (Byte(n - 1) + 1) % Serials
        /\ call' = [WakeWriters(call) EXCEPT ![p] = Idle]
    BY <1>5 DEF piperead
  <2>2. InPipe = Count(r, w) /\ InPipe \in Nat /\ Ordered(pipe.data, r, w, rcvd, sent)
    <3>1. InPipe = Count(r, w) /\ Ordered(pipe.data, r, w, rcvd, sent)
      BY InPipeCount DEF PipeInv, InOrder
    <3>2. Count(r, w) \in 0 .. UINT - 1
      BY <1>2, CountSum
    <3> QED BY <3>1, <3>2
  <2>3. n \in 0 .. Count(r, w) /\ n \in Nat
    BY <1>2, <2>2
  <2>b. Byte(n - 1) = pipe.data[Place(r + (n - 1))]
    BY DEF Byte, Place
  <2> HIDE DEF n
  <2>4. /\ n > 0 => (pipe.data[Place(r + (n - 1))] + 1) % Serials = (rcvd + n) % Serials
        /\ Ordered(pipe.data, Advance(r, n), w, (rcvd + n) % Serials, sent)
    <3> HIDE DEF r, w
    <3> QED BY <1>2, <2>2, <2>3, ReadOrdered
  <2>5. rcvd' = (rcvd + n) % Serials /\ rcvd' \in 0 .. Serials - 1
    <3>1. n = 0 => (rcvd + n) % Serials = rcvd
      BY <1>0, <1>2
    <3>2. rcvd' = (rcvd + n) % Serials
      BY <2>1, <2>3, <2>4, <2>b, <3>1
    <3>3. rcvd + n \in Nat
      BY <1>2, <2>3
    <3> QED BY <1>0, <3>2, <3>3, ModDiv
  <2>6. Advance(r, n) \in 0 .. UINT - 1
    <3>1. r + n \in Nat
      BY <1>2, <2>3
    <3> QED BY <1>0, <3>1, ModDiv DEF Advance
  <2>7. /\ pipe' \in Pipes
        /\ pipe'.data = pipe.data /\ pipe'.nread = Advance(r, n) /\ pipe'.nwrite = w
        /\ pipe'.page = pipe.page /\ pipe'.readopen = pipe.readopen /\ pipe'.writeopen = pipe.writeopen
    BY <1>2, <2>1, <2>6 DEF Pipes
  <2>8. InOrder'
    BY <1>1, <2>4, <2>5, <2>7 DEF InOrder
  <2>9. Idle \in Calls /\ Idle.at = "idle"
    BY DEF Idle, Calls
  <2>10. call' \in [PipeProc -> Calls] /\ call'[p] = Idle /\ \A q \in PipeProc : q # p => call'[q] = WakeWriters(call)[q]
    <3>1. WakeWriters(call) \in [PipeProc -> Calls]
      BY <1>2, Wakes
    <3> QED BY <2>1, <2>9, <3>1
  <2>11. \A q \in PipeProc : q # p =>
            /\ \/ call'[q].at = call[q].at
               \/ call[q].at = "wsleep" /\ call'[q].at = "write"
            /\ call'[q].at # "wsleep"
    BY <1>2, <2>10, Wakes
  <2>12. ASSUME NEW q \in PipeProc, q # p, call'[q].at = "rsleep" PROVE killed \intersect PipeWriter # {}
    <3>1. call[q].at = "rsleep"
      BY <2>11, <2>12
    <3> QED BY <1>5, <3>1 DEF PipeInv, Blocked
  <2>13. Idle.at \notin Reading /\ Idle.at \notin Writing /\ Idle.at \notin {"rsleep", "wsleep"}
         /\ Idle.at # "rdoze" /\ Idle.at # "wdoze"
    BY <2>9 DEF Reading, Writing
  <2> HIDE DEF r, w, waits
  <2> QED BY <1>1, <1>2, <1>3, <2>5, <2>7, <2>8, <2>9, <2>10, <2>11, <2>12, <2>13, UnlockedKeeps
<1> QED BY <1>4, <1>5

\* The last close of an end closes it and wakes the other end; the second frees
\* the pipe.
LEMMA PipeFilecloseKeeps ==
  ASSUME PipeInv, NEW p \in PipeProc, NEW e \in PipeEnd, PipeFileclose(p, e)
  PROVE  PipeInv'
<1> DEFINE s == [pipe |-> pipe, file |-> file]
           x == fileclose(s, e)
           lasts == file[e].ref = 1
<1>1. /\ <<p, e>> \in fd /\ call[p].at = "idle" /\ (lasts => Unlocked) /\ fd' = fd \ {<<p, e>>}
      /\ pipe' = x.pipe /\ file' = x.file
      /\ call' = IF lasts THEN CloseWakes(e, call) ELSE call
      /\ UNCHANGED <<killed, sent, rcvd>>
  BY DEF PipeFileclose
<1>2. /\ pipe \in Pipes /\ call \in [PipeProc -> Calls] /\ fd \subseteq PipeProc \X PipeEnd
      /\ file \in [PipeEnd -> Files] /\ PipeEnd = {"r", "w"}
  BY DEF PipeInv, PipeTyped, PipeEnd
<1>3. file[e].ref \in Nat /\ file[e].ref > 0 /\ file[e].type = "pipe"
  BY <1>1, OpenHeld
<1>4. /\ file' \in [PipeEnd -> Files] /\ \A d \in PipeEnd : d # e => file'[d] = file[d]
      /\ ~lasts => pipe' = pipe /\ file'[e].ref = file[e].ref - 1 /\ file'[e].type = "pipe"
      /\ lasts => file'[e] = NoFile /\ pipe' = pipeclose(pipe, e = "w")
  <2>1. lasts <=> ~(file[e].ref > 1)
    BY <1>3
  <2>2. /\ x.file \in [PipeEnd -> Files] /\ \A d \in PipeEnd : d # e => x.file[d] = file[d]
        /\ file[e].ref > 1 => x.pipe = pipe /\ x.file[e].ref = file[e].ref - 1 /\ x.file[e].type = file[e].type
        /\ ~(file[e].ref > 1) => /\ x.file[e] = NoFile
                                 /\ x.pipe = IF file[e].type = "pipe" THEN pipeclose(pipe, e = "w") ELSE pipe
    BY <1>2, filecloseDoes
  <2> HIDE DEF x, lasts
  <2> QED BY <1>1, <1>3, <2>1, <2>2
<1> HIDE DEF x
<1>5. /\ pipe' \in Pipes /\ pipe'.data = pipe.data /\ pipe'.nread = pipe.nread /\ pipe'.nwrite = pipe.nwrite
      /\ lasts => /\ pipe'.readopen = IF e = "r" THEN FALSE ELSE pipe.readopen
                  /\ pipe'.writeopen = IF e = "w" THEN FALSE ELSE pipe.writeopen
                  /\ pipe'.page = IF ~pipe'.readopen /\ ~pipe'.writeopen THEN FALSE ELSE pipe.page
  <2>1. CASE lasts
    <3>1. pipe' = pipeclose(pipe, e = "w")
      BY <1>4, <2>1
    <3>2. /\ pipe' \in Pipes /\ pipe'.data = pipe.data /\ pipe'.nread = pipe.nread /\ pipe'.nwrite = pipe.nwrite
          /\ pipe'.readopen = (IF e = "r" THEN FALSE ELSE pipe.readopen)
          /\ pipe'.writeopen = (IF e = "w" THEN FALSE ELSE pipe.writeopen)
          /\ pipe'.page = IF ~pipe'.readopen /\ ~pipe'.writeopen THEN FALSE ELSE pipe.page
      <4>1. pipe \in Pipes
        BY <1>2
      <4> HIDE DEF lasts
      <4>2. CASE e = "w"
        <5>1. pipe' = pipeclose(pipe, TRUE)
          BY <3>1, <4>2
        <5> QED BY <4>1, <4>2, <5>1 DEF pipeclose, Pipes
      <4>3. CASE e = "r"
        <5>1. pipe' = pipeclose(pipe, FALSE)
          BY <3>1, <4>3
        <5> QED BY <4>1, <4>3, <5>1 DEF pipeclose, Pipes
      <4> QED BY <1>2, <4>2, <4>3
    <3> QED BY <3>2
  <2>2. CASE ~lasts
    BY <1>2, <1>4, <2>2
  <2> QED BY <2>1, <2>2
<1>6. InPipe' = InPipe /\ InOrder'
  BY <1>1, <1>5 DEF InPipe, InOrder, PipeInv
<1>7. /\ call' \in [PipeProc -> Calls]
      /\ \A q \in PipeProc :
           \/ call'[q].at = call[q].at
           \/ call[q].at = "rsleep" /\ call'[q].at = "read"
           \/ call[q].at = "wsleep" /\ call'[q].at = "write"
      /\ \A q \in PipeProc : lasts /\ e = "w" => call'[q].at # "rsleep"
      /\ \A q \in PipeProc : lasts /\ e = "r" => call'[q].at # "wsleep"
  <2>1. CASE lasts /\ e = "w"
    <3>1. call' = WakeReaders(call)
      BY <1>1, <2>1 DEF CloseWakes
    <3>2. call' \in [PipeProc -> Calls] /\ \A q \in PipeProc :
            call'[q].at = IF call[q].at = "rsleep" THEN "read" ELSE call[q].at
      BY <1>2, <3>1, Wakes
    <3> QED BY <2>1, <3>2
  <2>2. CASE lasts /\ e = "r"
    <3>1. call' = WakeWriters(call)
      BY <1>1, <2>2 DEF CloseWakes
    <3>2. call' \in [PipeProc -> Calls] /\ \A q \in PipeProc :
            call'[q].at = IF call[q].at = "wsleep" THEN "write" ELSE call[q].at
      BY <1>2, <3>1, Wakes
    <3> QED BY <2>2, <3>2
  <2>3. CASE ~lasts
    BY <1>1, <1>2, <2>3
  <2> QED BY <1>2, <2>1, <2>2, <2>3
<1>8. ASSUME NEW d \in PipeEnd
      PROVE  Cardinality({q \in PipeProc : <<q, d>> \in fd'}) = file'[d].ref
  <2>0. file[d].ref = Cardinality(Holders(d)) /\ IsFiniteSet(Holders(d))
    BY FreedHolders, HoldersFinite DEF PipeInv
  <2>1. CASE d = e
    <3>1. {q \in PipeProc : <<q, d>> \in fd'} = Holders(e) \ {p} /\ p \in Holders(e)
      BY <1>1, <2>1 DEF Holders
    <3>2. Cardinality(Holders(e) \ {p}) = Cardinality(Holders(e)) - 1
      BY Zenon, <2>0, <2>1, <3>1, FS_RemoveElement
    <3>3. file'[e].ref = file[e].ref - 1
      BY <1>3, <1>4 DEF NoFile
    <3> QED BY <2>0, <2>1, <3>1, <3>2, <3>3
  <2>2. CASE d # e
    <3>1. {q \in PipeProc : <<q, d>> \in fd'} = Holders(d)
      BY <1>1, <2>2 DEF Holders
    <3> QED BY <1>4, <2>0, <2>2, <3>1
  <2> QED BY <2>1, <2>2
<1>9. PipeFreed'
  <2>0. /\ pipe.page \in BOOLEAN /\ pipe.readopen \in BOOLEAN /\ pipe.writeopen \in BOOLEAN
        /\ pipe.page <=> pipe.readopen \/ pipe.writeopen
        /\ pipe.readopen <=> file["r"].ref > 0
        /\ pipe.writeopen <=> file["w"].ref > 0
        /\ \A d \in PipeEnd : file[d].type = "pipe" <=> file[d].ref > 0
    BY <1>2 DEF PipeInv, PipeFreed, Pipes
  <2>1. CASE lasts
    <3>1. file'[e].ref = 0 /\ file'[e].type = "none"
      BY <1>4, <2>1 DEF NoFile
    <3> HIDE DEF lasts
    <3>2. ASSUME NEW d \in PipeEnd PROVE file'[d].type = "pipe" <=> file'[d].ref > 0
      BY <1>4, <2>0, <3>1
    <3>3. /\ pipe'.readopen <=> file'["r"].ref > 0
          /\ pipe'.writeopen <=> file'["w"].ref > 0
      <4>1. CASE e = "r"
        <5>1. file'["r"].ref = 0 /\ file'["w"] = file["w"] /\ ~pipe'.readopen /\ pipe'.writeopen = pipe.writeopen
          BY <1>2, <1>4, <1>5, <2>1, <3>1, <4>1
        <5> QED BY <2>0, <5>1
      <4>2. CASE e = "w"
        <5>1. file'["w"].ref = 0 /\ file'["r"] = file["r"] /\ ~pipe'.writeopen /\ pipe'.readopen = pipe.readopen
          BY <1>2, <1>4, <1>5, <2>1, <3>1, <4>2
        <5> QED BY <2>0, <5>1
      <4> QED BY <1>2, <4>1, <4>2
    <3>4. pipe'.page <=> pipe'.readopen \/ pipe'.writeopen
      BY <1>2, <1>5, <2>0, <2>1
    <3> QED BY <1>8, <3>2, <3>3, <3>4 DEF PipeFreed
  <2>2. CASE ~lasts
    <3>1. pipe' = pipe /\ file'[e].ref > 0 /\ file'[e].type = "pipe"
      BY <1>3, <1>4, <2>2
    <3>2. ASSUME NEW d \in PipeEnd
          PROVE  (file'[d].type = "pipe" <=> file'[d].ref > 0) /\ (file'[d].ref > 0 <=> file[d].ref > 0)
      BY <1>3, <1>4, <2>0, <3>1
    <3> QED BY <1>2, <1>8, <2>0, <3>1, <3>2 DEF PipeFreed
  <2> QED BY <2>1, <2>2
<1>10. PipeTyped'
  BY <1>1, <1>2, <1>4, <1>5, <1>7 DEF PipeInv, PipeTyped
<1>11. Ends'
  <2> SUFFICES ASSUME NEW q \in PipeProc
               PROVE  /\ call'[q].at # "idle" => <<q, MyEnd(q)>> \in fd'
                      /\ call'[q].at \in Reading => q \in PipeReader
                      /\ call'[q].at \in Writing => q \in PipeWriter
    BY DEF Ends
  <2>1. call'[q].at # "idle" => <<q, MyEnd(q)>> \in fd /\ q # p
    BY <1>1, <1>7 DEF PipeInv, Ends
  <2>2. /\ call'[q].at \in Reading => q \in PipeReader
        /\ call'[q].at \in Writing => q \in PipeWriter
    BY <1>7 DEF PipeInv, Ends, Reading, Writing
  <2> QED BY <1>1, <2>1, <2>2
<1>12. Blocked'
  <2> SUFFICES ASSUME NEW q \in PipeProc
               PROVE  /\ call'[q].at = "rdoze" => pipe'.writeopen /\ InPipe' = 0
                      /\ call'[q].at = "rsleep" =>
                           pipe'.writeopen /\ (InPipe' = 0 \/ killed' \intersect PipeWriter # {})
                      /\ call'[q].at \in {"wdoze", "wsleep"} => pipe'.readopen /\ InPipe' = PIPESIZE
    BY DEF Blocked
  <2>1. CASE ~lasts
    <3>1. pipe' = pipe /\ call' = call /\ killed' = killed
      BY <1>1, <1>4, <2>1
    <3> QED BY <1>6, <3>1 DEF PipeInv, Blocked
  <2>2. CASE lasts
    <3>1. call'[q].at \notin {"rdoze", "wdoze"}
      BY <1>1, <1>7, <2>2 DEF Unlocked
    <3>2. ASSUME call'[q].at = "rsleep" PROVE pipe'.writeopen /\ (InPipe' = 0 \/ killed' \intersect PipeWriter # {})
      <4>1. call[q].at = "rsleep" /\ e # "w"
        BY <1>7, <2>2, <3>2
      <4>2. pipe.writeopen /\ (InPipe = 0 \/ killed \intersect PipeWriter # {})
        BY <4>1 DEF PipeInv, Blocked
      <4> QED BY <1>1, <1>5, <1>6, <2>2, <4>1, <4>2
    <3>3. ASSUME call'[q].at = "wsleep" PROVE pipe'.readopen /\ InPipe' = PIPESIZE
      <4>1. call[q].at = "wsleep" /\ e # "r"
        BY <1>7, <2>2, <3>3
      <4>2. pipe.readopen /\ InPipe = PIPESIZE
        BY <4>1 DEF PipeInv, Blocked
      <4> QED BY <1>5, <1>6, <2>2, <4>1, <4>2
    <3> QED BY <3>1, <3>2, <3>3
  <2> QED BY <2>1, <2>2
<1> QED BY <1>6, <1>9, <1>10, <1>11, <1>12 DEF PipeInv

-----------------------------------------------------------------------------
(* The theorems.                                                           *)

\* Every step keeps the invariant.
LEMMA PipeInvStep == PipeInv /\ [PipeNext]_pipevars => PipeInv'
<1> SUFFICES ASSUME PipeInv, [PipeNext]_pipevars PROVE PipeInv'
  OBVIOUS
<1>1. CASE UNCHANGED pipevars
  BY <1>1 DEF pipevars, PipeInv, PipeTyped, InOrder, Ends, Blocked, PipeFreed, InPipe
<1>2. ASSUME NEW p \in PipeProc, NEW n \in 0 .. 3, NEW nfd \in 0 .. 2, sys_pipe(p, n, nfd) PROVE PipeInv'
  BY <1>2, sys_pipeKeeps
<1>5. ASSUME NEW p \in PipeProc, NEW q \in PipeProc, PipeFork(p, q) PROVE PipeInv'
  BY <1>5, PipeForkKeeps
<1>6. ASSUME NEW p \in PipeProc, NEW e \in PipeEnd, PipeFileclose(p, e) PROVE PipeInv'
  BY <1>6, PipeFilecloseKeeps
<1>3. ASSUME NEW p \in PipeProc, NEW n \in PipeCounts, Begin(p, n) PROVE PipeInv'
  BY <1>3, BeginKeeps
<1>4. ASSUME NEW p \in PipeProc,
             pipewrite(p) \/ piperead(p) \/ PipeSleep(p) \/ PipeKill(p)
      PROVE  PipeInv'
  BY <1>4, pipewriteKeeps, pipereadKeeps, PipeSleepKeeps, PipeKillKeeps
<1> QED BY <1>1, <1>2, <1>3, <1>4, <1>5, <1>6 DEF PipeNext

\* The invariant holds in every state.
LEMMA PipeInvariant == PipeSpec => []PipeInv
BY PipeInvInit, PipeInvStep, PTL DEF PipeSpec

\* Bytes are read in the order they were written, none twice and none lost: for any
\* PIPESIZE that divides the range of the counters, so over every wrap of these.
THEOREM PipeInOrderAlways == PipeSpec => []PipeInOrder
<1>1. PipeInv => PipeInOrder
  <2> SUFFICES ASSUME PipeInv PROVE PipeInOrder
    OBVIOUS
  <2>1. PipeTypeOK
    BY DEF PipeInv, PipeTyped, PipeTypeOK, Pipes, Files, Calls, Reading, Writing
  <2> QED BY <2>1 DEF PipeInv, InOrder, Ordered, PipeInOrder, InPipe, Count, Place
<1> QED BY <1>1, PipeInvariant, PTL

\* piperead and pipewrite lose no wakeup, for any number of readers and writers.
THEOREM SleepersBlockedAlways == PipeSpec => []SleepersBlocked
<1>1. PipeInv => SleepersBlocked
  BY DEF PipeInv, Blocked, SleepersBlocked
<1> QED BY <1>1, PipeInvariant, PTL

\* The page of the pipe, its two ends, the references of the files and the
\* descriptors of processes agree, for any number of processes: whatever pipealloc
\* and sys_pipe ran out of, and however descriptors are inherited and closed.
THEOREM PipeFreedAlways == PipeSpec => []PipeFreed
<1>1. PipeInv => PipeFreed
  BY DEF PipeInv
<1> QED BY <1>1, PipeInvariant, PTL

==============================================================================
