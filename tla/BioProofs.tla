------------------------------ MODULE BioProofs ------------------------------
(***************************************************************************)
(* For any number of processes, buffers and blocks: a block has one buffer *)
(* at most, reference counts are exact and a buffer has one user; the disk *)
(* serves the first request of the queue and no write is lost; and bget    *)
(* never loses a buffer.                                                   *)
(***************************************************************************)
EXTENDS Bio, FiniteSetTheorems, TLAPS

\* The constants.  There are finitely many buffers that processes have, two for
\* each, and <<>> is none of them.
LEMMA BioFacts ==
  /\ NBUF \in Nat \ {0} /\ IsFiniteSet(User) /\ Free \notin User
  /\ BlockNo \subseteq Nat \ {0} /\ 0 \in Content /\ MaxPinned \in Nat
<1>1. IsFiniteSet(User)
  <2>1. IsFiniteSet({1})
    BY Zenon, FS_Singleton
  <2>2. IsFiniteSet({1} \union {2}) /\ {1} \union {2} = {1, 2}
    BY Zenon, <2>1, FS_AddElement
  <2> QED BY Zenon, <2>1, <2>2, BioAssumption, FS_Product DEF User
<1>2. Free \notin User
  BY DEF User, Free
<1> QED BY Zenon, <1>1, <1>2, BioAssumption

-----------------------------------------------------------------------------
(* Buffers and their users.                                                *)

Places == {"idle", "lock", "lockwait", "got", "io", "woken", "use", "release"}
Commands == [write : BOOLEAN, blockno : BlockNo, data : Content]
Buffers == [blockno : BlockNo \union {NoBlock}, valid : BOOLEAN, dirty : BOOLEAN, refcnt : Nat,
            locked : User \union {Free}, data : Content]

\* The processes that refer to buffer x, when f is the buffer of each.
UsersOf(f, x) == {p \in User : f[p] = x}

\* Types, and what the data of a buffer in the disk's queue depends on: it is the
\* buffer of a block.
Typed ==
  /\ buf \in [Buf -> Buffers]
  /\ lru \in [Buf -> Buf]
  /\ idequeue \in Seq(Buf)
  /\ dev \in Commands \union {NoCommand}
  /\ disk \in [BlockNo -> Content]
  /\ at \in [User -> Places]
  /\ b \in [User -> Buf \union {0}]
  /\ \A p \in User : b[p] = 0 <=> at[p] = "idle"
  /\ \A p \in User : b[p] # 0 => buf[b[p]].blockno \in BlockNo
  /\ \A k \in 1 .. Len(idequeue) : buf[idequeue[k]].blockno \in BlockNo

\* The inductive invariant.
BioInv == Typed /\ OneBuffer /\ BufferExclusive

\* Initially no buffer is referred to.
LEMMA BioInvInit == BioInit => BioInv
<1> SUFFICES ASSUME BioInit PROVE BioInv
  OBVIOUS
<1> USE BioFacts
<1>1. buf \in [Buf -> Buffers]
  BY Zenon DEF BioInit, Buffers, NoBlock
<1>2. b = [p \in User |-> 0] /\ at = [p \in User |-> "idle"] /\ idequeue = <<>>
  BY Zenon DEF BioInit
<1>3. lru \in [Buf -> Buf]
  <2>1. \A k \in Buf : NBUF + 1 - k \in Buf
    BY DEF Buf
  <2>2. lru = [k \in Buf |-> NBUF + 1 - k]
    BY Zenon DEF BioInit
  <2> QED BY Zenon, <2>1, <2>2
<1>4. disk \in [BlockNo -> Content] /\ dev = NoCommand
  BY Zenon DEF BioInit
<1>5. Typed
  BY <1>1, <1>2, <1>3, <1>4 DEF Typed, Places
<1>6. ASSUME NEW x \in Buf PROVE UsersOf(b, x) = {}
  <2>1. x # 0
    BY DEF Buf
  <2> QED BY Zenon, <1>2, <2>1 DEF UsersOf
<1>7. \A x \in Buf : buf[x].blockno = NoBlock /\ buf[x].refcnt = 0
  BY Zenon DEF BioInit
<1>8. OneBuffer
  BY Zenon, <1>6, <1>7, FS_EmptySet DEF OneBuffer, UsersOf
<1>9. BufferExclusive
  BY Zenon, <1>2 DEF BufferExclusive
<1> QED BY Zenon, <1>5, <1>8, <1>9 DEF BioInv

\* A process without a buffer that gets x is one user more of x.
LEMMA OneMore ==
  ASSUME NEW f, f \in [User -> Buf \union {0}], NEW p \in User, NEW x \in Buf, f[p] = 0,
         NEW g, g[p] = x, \A q \in User : q # p => g[q] = f[q]
  PROVE  \A y \in Buf : Cardinality(UsersOf(g, y)) =
                          IF y = x THEN Cardinality(UsersOf(f, y)) + 1 ELSE Cardinality(UsersOf(f, y))
<1>1. IsFiniteSet(UsersOf(f, x))
  BY Zenon, BioFacts, FS_Subset DEF UsersOf
<1>2. x # 0
  BY BioFacts DEF Buf
<1>3. UsersOf(g, x) = UsersOf(f, x) \union {p} /\ p \notin UsersOf(f, x)
  BY Zenon, <1>2 DEF UsersOf
<1>4. \A y \in Buf : y # x => UsersOf(g, y) = UsersOf(f, y)
  <2>1. \A y \in Buf : y # 0
    BY BioFacts DEF Buf
  <2> QED BY Zenon, <2>1 DEF UsersOf
<1>5. Cardinality(UsersOf(g, x)) = Cardinality(UsersOf(f, x)) + 1
  <2>1. \A S : IsFiniteSet(S) /\ p \notin S => Cardinality(S \union {p}) = Cardinality(S) + 1
    BY Zenon, FS_AddElement
  <2> QED BY Zenon, <1>1, <1>3, <2>1
<1> QED BY Zenon, <1>4, <1>5

\* A process that drops its buffer is one user less of it and of no other.
LEMMA OneLess ==
  ASSUME NEW f, f \in [User -> Buf \union {0}], NEW p \in User, f[p] \in Buf,
         NEW g, g[p] = 0, \A q \in User : q # p => g[q] = f[q]
  PROVE  \A y \in Buf : Cardinality(UsersOf(g, y)) =
                          IF y = f[p] THEN Cardinality(UsersOf(f, y)) - 1 ELSE Cardinality(UsersOf(f, y))
<1> DEFINE x == f[p]
<1>1. IsFiniteSet(UsersOf(f, x))
  BY Zenon, BioFacts, FS_Subset DEF UsersOf
<1>2. \A y \in Buf : y # 0
  BY BioFacts DEF Buf
<1>3. UsersOf(g, x) = UsersOf(f, x) \ {p} /\ p \in UsersOf(f, x)
  BY Zenon, <1>2 DEF UsersOf
<1>4. \A y \in Buf : y # x => UsersOf(g, y) = UsersOf(f, y)
  BY Zenon, <1>2 DEF UsersOf
<1>5. Cardinality(UsersOf(g, x)) = Cardinality(UsersOf(f, x)) - 1
  <2>1. \A S : IsFiniteSet(S) /\ p \in S => Cardinality(S \ {p}) = Cardinality(S) - 1
    BY Zenon, FS_RemoveElement
  <2> QED BY Zenon, <1>1, <1>3, <2>1
<1> QED BY Zenon, <1>4, <1>5

\* What the assignment of one buffer changes.
LEMMA OneChanges ==
  ASSUME NEW f, f \in [Buf -> Buffers], NEW x \in Buf, NEW r, r \in Buffers,
         NEW g, g = [f EXCEPT ![x] = r]
  PROVE  g \in [Buf -> Buffers] /\ \A y \in Buf : g[y] = IF y = x THEN r ELSE f[y]
OBVIOUS

\* Assignments to the fields of a buffer.
LEMMA SetRefcnt ==
  ASSUME NEW r, r \in Buffers, NEW n \in Nat, NEW s, s = [r EXCEPT !.refcnt = n]
  PROVE  s \in Buffers /\ s.blockno = r.blockno /\ s.locked = r.locked /\ s.refcnt = n
BY Zenon DEF Buffers

\* The lock of a buffer changes.
LEMMA SetLocked ==
  ASSUME NEW r, r \in Buffers, NEW q, q \in User \union {Free}, NEW s, s = [r EXCEPT !.locked = q]
  PROVE  s \in Buffers /\ s.blockno = r.blockno /\ s.locked = q /\ s.refcnt = r.refcnt
BY Zenon DEF Buffers

\* What a step has to keep, when no reference and no buffer's block changes.
LEMMA SameReferences ==
  ASSUME BioInv, b' = b, lru' = lru,
         buf' \in [Buf -> Buffers],
         \A x \in Buf : buf'[x].blockno = buf[x].blockno /\ buf'[x].refcnt = buf[x].refcnt,
         idequeue' \in Seq(Buf),
         \A k \in 1 .. Len(idequeue') : buf[idequeue'[k]].blockno \in BlockNo,
         dev' \in Commands \union {NoCommand},
         disk' \in [BlockNo -> Content],
         at' \in [User -> Places],
         \A p \in User : at'[p] = "idle" <=> at[p] = "idle"
  PROVE  Typed' /\ OneBuffer'
<1> USE DEF BioInv
<1>1. \A k \in 1 .. Len(idequeue') : idequeue'[k] \in Buf
  OBVIOUS
<1>2. Typed'
  <2>1. \A p \in User : b'[p] = 0 <=> at'[p] = "idle"
    BY Zenon DEF Typed
  <2>2. \A p \in User : b'[p] # 0 => buf'[b'[p]].blockno \in BlockNo
    BY Zenon DEF Typed
  <2>3. \A k \in 1 .. Len(idequeue') : buf'[idequeue'[k]].blockno \in BlockNo
    BY Zenon, <1>1
  <2> QED BY Zenon, <2>1, <2>2, <2>3 DEF Typed
<1>3. OneBuffer'
  BY DEF OneBuffer
<1> QED BY Zenon, <1>2, <1>3

\* A step that makes x the buffer of p, after one more reference was counted.
LEMMA ReferKeeps ==
  ASSUME BioInv, NEW p \in User, NEW x \in Buf, at[p] = "idle", Refer(p, x),
         buf' \in [Buf -> Buffers], buf'[x].blockno \in BlockNo,
         \A y \in Buf : /\ y # x => buf'[y].blockno = buf[y].blockno
                        /\ buf'[y].locked = buf[y].locked
                        /\ buf'[y].refcnt = IF y = x THEN buf[y].refcnt + 1 ELSE buf[y].refcnt,
         \A y, z \in Buf : buf'[y].blockno = buf'[z].blockno /\ y # z => buf'[y].blockno = NoBlock
  PROVE  BioInv'
<1> USE DEF BioInv
<1>0. b[p] = 0 /\ \A y \in Buf : y # 0
  BY BioFacts DEF Typed, Buf
<1>1. b' = [b EXCEPT ![p] = x] /\ at' = [at EXCEPT ![p] = "lock"] /\ UNCHANGED <<lru, idequeue, dev, disk>>
  BY Zenon DEF Refer
<1>2. Typed'
  <2>1. b' \in [User -> Buf \union {0}] /\ at' \in [User -> Places]
    BY Zenon, <1>1 DEF Typed, Places
  <2>2. \A q \in User : b'[q] = 0 <=> at'[q] = "idle"
    BY Zenon, <1>0, <1>1 DEF Typed
  <2>3. \A q \in User : b'[q] # 0 => buf'[b'[q]].blockno \in BlockNo
    BY <1>1 DEF Typed
  <2>4. \A k \in 1 .. Len(idequeue) : idequeue[k] \in Buf
    BY DEF Typed
  <2>5. \A k \in 1 .. Len(idequeue) : buf'[idequeue[k]].blockno \in BlockNo
    BY Zenon, <2>4 DEF Typed
  <2> QED BY Zenon, <1>1, <2>1, <2>2, <2>3, <2>5 DEF Typed
<1>3. OneBuffer'
  <2>1. \A y \in Buf : Cardinality(UsersOf(b', y)) =
                         IF y = x THEN Cardinality(UsersOf(b, y)) + 1 ELSE Cardinality(UsersOf(b, y))
    <3>1. b \in [User -> Buf \union {0}]
      BY Zenon DEF Typed
    <3>2. b'[p] = x /\ \A q \in User : q # p => b'[q] = b[q]
      BY Zenon, <1>1, <3>1
    <3> QED BY <1>0, <3>1, <3>2, OneMore
  <2>2. \A y \in Buf : buf[y].refcnt = Cardinality(UsersOf(b, y))
    BY Zenon DEF OneBuffer, UsersOf
  <2>3. \A y \in Buf : buf'[y].refcnt = Cardinality(UsersOf(b', y))
    BY Zenon, <2>1, <2>2
  <2>4. \A y \in Buf : buf'[y].refcnt = Cardinality({q \in User : b'[q] = y})
    BY Zenon, <2>3 DEF UsersOf
  <2> QED BY Zenon, <2>4 DEF OneBuffer
<1>4. BufferExclusive'
  <2> SUFFICES ASSUME NEW q \in User, at'[q] \in {"got", "io", "woken", "use"}
               PROVE  buf'[b'[q]].locked = q
    BY Zenon DEF BufferExclusive
  <2>1. q # p /\ at[q] = at'[q] /\ b'[q] = b[q] /\ b[q] \in Buf
    BY Zenon, <1>1 DEF Typed
  <2> QED BY Zenon, <2>1 DEF BufferExclusive
<1> QED BY Zenon, <1>2, <1>3, <1>4

\* bget of a block in the cache.
LEMMA CachedKeeps ==
  ASSUME BioInv, NEW p \in User, NEW blk \in BlockNo, bgetCached(p, blk)
  PROVE  BioInv'
<1>1. PICK x \in Buf : /\ buf[x].blockno = blk
                       /\ buf' = [buf EXCEPT ![x].refcnt = @ + 1]
                       /\ Refer(p, x)
  BY Zenon DEF MayGet, bgetCached
<1> DEFINE r == [buf[x] EXCEPT !.refcnt = buf[x].refcnt + 1]
<1>2. at[p] = "idle" /\ buf \in [Buf -> Buffers]
  BY Zenon DEF MayGet, bgetCached, BioInv, Typed
<1>3. buf[x] \in Buffers /\ buf[x].refcnt + 1 \in Nat
  BY <1>2 DEF Buffers
<1>4. r \in Buffers /\ r.blockno = blk /\ r.locked = buf[x].locked /\ r.refcnt = buf[x].refcnt + 1
  BY <1>1, <1>3, SetRefcnt
<1>5. buf' = [buf EXCEPT ![x] = r]
  BY Zenon, <1>1
<1> HIDE DEF r
<1>6. buf' \in [Buf -> Buffers] /\ \A y \in Buf : buf'[y] = IF y = x THEN r ELSE buf[y]
  BY Zenon, <1>2, <1>4, <1>5, OneChanges
<1>7. \A y \in Buf : /\ buf'[y].blockno = buf[y].blockno
                     /\ buf'[y].locked = buf[y].locked
                     /\ buf'[y].refcnt = IF y = x THEN buf[y].refcnt + 1 ELSE buf[y].refcnt
  BY Zenon, <1>1, <1>4, <1>6
<1>8. \A y, z \in Buf : buf'[y].blockno = buf'[z].blockno /\ y # z => buf'[y].blockno = NoBlock
  BY <1>7 DEF BioInv, OneBuffer
<1> QED BY <1>1, <1>2, <1>4, <1>6, <1>7, <1>8, ReferKeeps

\* bget of a block that is not in the cache: a buffer with no user gets it.
LEMMA RecycleKeeps ==
  ASSUME BioInv, NEW p \in User, NEW blk \in BlockNo, bgetRecycle(p, blk)
  PROVE  BioInv'
<1>1. PICK k \in Buf :
        /\ Recyclable(lru[k])
        /\ buf' = [buf EXCEPT ![lru[k]] = [@ EXCEPT !.blockno = blk, !.valid = FALSE,
                                                     !.dirty = FALSE, !.refcnt = 1]]
        /\ Refer(p, lru[k])
  BY Zenon DEF MayGet, bgetRecycle
<1> DEFINE x == lru[k]
           r == [buf[x] EXCEPT !.blockno = blk, !.valid = FALSE, !.dirty = FALSE, !.refcnt = 1]
<1>2. at[p] = "idle" /\ buf \in [Buf -> Buffers] /\ x \in Buf
  BY Zenon DEF MayGet, bgetRecycle, BioInv, Typed
<1>3. buf[x] \in Buffers /\ buf[x].refcnt = 0
  BY Zenon, <1>1, <1>2 DEF Recyclable
<1>4. r \in Buffers /\ r.blockno = blk /\ r.locked = buf[x].locked /\ r.refcnt = 1
  BY Zenon, <1>3 DEF Buffers
<1>5. buf' = [buf EXCEPT ![x] = r]
  BY Zenon, <1>1
<1> HIDE DEF r, x
<1>6. buf' \in [Buf -> Buffers] /\ \A y \in Buf : buf'[y] = IF y = x THEN r ELSE buf[y]
  BY Zenon, <1>2, <1>4, <1>5, OneChanges
<1>7. \A y \in Buf : /\ y # x => buf'[y].blockno = buf[y].blockno
                     /\ buf'[y].locked = buf[y].locked
                     /\ buf'[y].refcnt = IF y = x THEN buf[y].refcnt + 1 ELSE buf[y].refcnt
  BY <1>3, <1>4, <1>6
<1>8. \A y, z \in Buf : buf'[y].blockno = buf'[z].blockno /\ y # z => buf'[y].blockno = NoBlock
  <2>1. \A y \in Buf : buf[y].blockno # blk
    BY Zenon DEF MayGet, bgetRecycle
  <2> QED BY <1>4, <1>6, <2>1 DEF BioInv, OneBuffer
<1>9. Refer(p, x)
  BY Zenon, <1>1 DEF x
<1> QED BY Zenon, <1>2, <1>4, <1>6, <1>7, <1>8, <1>9, ReferKeeps

\* brelse drops the reference and may move the buffer to the front.
LEMMA brelseKeeps ==
  ASSUME BioInv, NEW p \in User, brelse(p)
  PROVE  BioInv'
<1> DEFINE x == b[p]
           r == [buf[x] EXCEPT !.refcnt = buf[x].refcnt - 1]
<1>1. /\ at[p] = "release" /\ at' = [at EXCEPT ![p] = "idle"]
      /\ b' = [b EXCEPT ![p] = 0]
      /\ buf' = [buf EXCEPT ![x] = r]
      /\ lru' = lru \/ lru' = ToFront(x)
      /\ UNCHANGED <<idequeue, dev, disk>>
  BY Zenon DEF brelse, Left
<1>2. x \in Buf /\ buf \in [Buf -> Buffers] /\ b \in [User -> Buf \union {0}] /\ lru \in [Buf -> Buf]
  BY Zenon, <1>1 DEF BioInv, Typed
<1>3. \A y \in Buf : buf[y].refcnt = Cardinality(UsersOf(b, y))
  BY Zenon DEF BioInv, OneBuffer, UsersOf
<1>4. buf[x] \in Buffers /\ buf[x].refcnt - 1 \in Nat
  <2>1. p \in UsersOf(b, x) /\ IsFiniteSet(UsersOf(b, x))
    BY Zenon, BioFacts, FS_Subset DEF UsersOf
  <2>2. Cardinality(UsersOf(b, x)) # 0
    BY Zenon, <2>1, FS_EmptySet
  <2>3. buf[x].refcnt \in Nat
    BY Zenon, <1>2 DEF Buffers
  <2> QED BY <1>2, <1>3, <2>2, <2>3
<1>5. r \in Buffers /\ r.blockno = buf[x].blockno /\ r.locked = buf[x].locked /\ r.refcnt = buf[x].refcnt - 1
  BY <1>4, SetRefcnt
<1> HIDE DEF r
<1>6. buf' \in [Buf -> Buffers] /\ \A y \in Buf : buf'[y] = IF y = x THEN r ELSE buf[y]
  BY Zenon, <1>1, <1>2, <1>5, OneChanges
<1>7. \A y \in Buf : /\ buf'[y].blockno = buf[y].blockno
                     /\ buf'[y].locked = buf[y].locked
                     /\ buf'[y].refcnt = IF y = x THEN buf[y].refcnt - 1 ELSE buf[y].refcnt
  BY Zenon, <1>5, <1>6
<1>8. Typed'
  <2>1. ToFront(x) \in [Buf -> Buf]
    <3>1. \A k \in Buf : k # 1 => k - 1 \in Buf
      BY BioFacts DEF Buf
    <3> QED BY Zenon, <1>2, <3>1 DEF ToFront
  <2>2. b' \in [User -> Buf \union {0}] /\ at' \in [User -> Places]
    BY Zenon, <1>1, <1>2 DEF BioInv, Typed, Places
  <2>3. \A q \in User : b'[q] = 0 <=> at'[q] = "idle"
    BY Zenon, <1>1, <1>2 DEF BioInv, Typed
  <2>4. \A q \in User : b'[q] # 0 => buf'[b'[q]].blockno \in BlockNo
    BY <1>1, <1>2, <1>7 DEF BioInv, Typed
  <2>5. \A k \in 1 .. Len(idequeue) : idequeue[k] \in Buf
    BY DEF BioInv, Typed
  <2>6. \A k \in 1 .. Len(idequeue) : buf'[idequeue[k]].blockno \in BlockNo
    BY Zenon, <1>7, <2>5 DEF BioInv, Typed
  <2>7. lru' \in [Buf -> Buf]
    BY Zenon, <1>1, <1>2, <2>1
  <2> QED BY Zenon, <1>1, <1>6, <2>2, <2>3, <2>4, <2>6, <2>7 DEF BioInv, Typed
<1>9. OneBuffer'
  <2>1. b'[p] = 0 /\ \A q \in User : q # p => b'[q] = b[q]
    BY Zenon, <1>1, <1>2
  <2>2. \A y \in Buf : Cardinality(UsersOf(b', y)) =
                         IF y = x THEN Cardinality(UsersOf(b, y)) - 1 ELSE Cardinality(UsersOf(b, y))
    BY <1>2, <2>1, OneLess
  <2>3. \A y \in Buf : buf'[y].refcnt = Cardinality(UsersOf(b', y))
    BY <1>3, <1>7, <2>2
  <2>4. \A y \in Buf : buf'[y].refcnt = Cardinality({q \in User : b'[q] = y})
    BY Zenon, <2>3 DEF UsersOf
  <2>5. \A y, z \in Buf : buf'[y].blockno = buf'[z].blockno /\ y # z => buf'[y].blockno = NoBlock
    BY <1>7 DEF BioInv, OneBuffer
  <2> QED BY Zenon, <2>4, <2>5 DEF OneBuffer
<1>10. BufferExclusive'
  <2> SUFFICES ASSUME NEW q \in User, at'[q] \in {"got", "io", "woken", "use"}
               PROVE  buf'[b'[q]].locked = q
    BY Zenon DEF BufferExclusive
  <2>1. q # p /\ at[q] = at'[q] /\ b'[q] = b[q] /\ b[q] \in Buf
    BY Zenon, <1>1 DEF BioInv, Typed
  <2> QED BY <1>7, <2>1 DEF BioInv, BufferExclusive
<1> QED BY Zenon, <1>8, <1>9, <1>10 DEF BioInv

\* The disk's command is one for a block, or none.
LEMMA CommandTyped ==
  ASSUME NEW r, r \in Buffers, r.blockno \in BlockNo
  PROVE  [write |-> r.dirty, blockno |-> r.blockno, data |-> r.data] \in Commands
BY Zenon DEF Buffers, Commands

\* acquiresleep: the lock is taken when nobody has it.
LEMMA acquiresleepKeeps ==
  ASSUME BioInv, NEW p \in User, acquiresleep(p)
  PROVE  BioInv'
<1> DEFINE x == b[p]
           r == [buf[x] EXCEPT !.locked = p]
<1>1. at[p] = "lock" /\ UNCHANGED <<lru, idequeue, dev, disk, b>>
  BY Zenon DEF acquiresleep
<1>2. x \in Buf /\ buf \in [Buf -> Buffers] /\ at \in [User -> Places]
  BY Zenon, <1>1 DEF BioInv, Typed
<1>3. /\ buf' \in [Buf -> Buffers] /\ at' \in [User -> Places]
      /\ \A y \in Buf : buf'[y].blockno = buf[y].blockno /\ buf'[y].refcnt = buf[y].refcnt
      /\ \A q \in User : at'[q] = "idle" <=> at[q] = "idle"
      /\ BufferExclusive'
  <2>1. CASE Locked(x)
    <3>1. buf' = buf /\ at' = [at EXCEPT ![p] = "lockwait"]
      BY Zenon, <2>1 DEF acquiresleep
    <3>2. at' \in [User -> Places] /\ \A q \in User : at'[q] = "idle" <=> at[q] = "idle"
      BY Zenon, <1>1, <1>2, <3>1 DEF Places
    <3>3. BufferExclusive'
      BY Zenon, <1>1, <1>2, <3>1 DEF BioInv, BufferExclusive
    <3> QED BY Zenon, <1>2, <3>1, <3>2, <3>3
  <2>2. CASE ~Locked(x)
    <3>1. buf' = [buf EXCEPT ![x] = r] /\ at' = [at EXCEPT ![p] = "got"] /\ buf[x].locked = Free
      BY Zenon, <2>2 DEF acquiresleep, Locked
    <3>2. r \in Buffers /\ r.blockno = buf[x].blockno /\ r.locked = p /\ r.refcnt = buf[x].refcnt
      BY <1>2, SetLocked
    <3> HIDE DEF r
    <3>3. buf' \in [Buf -> Buffers] /\ \A y \in Buf : buf'[y] = IF y = x THEN r ELSE buf[y]
      BY Zenon, <1>2, <3>1, <3>2, OneChanges
    <3>4. BufferExclusive'
      <4> SUFFICES ASSUME NEW q \in User, at'[q] \in {"got", "io", "woken", "use"}, q # p
                   PROVE  buf'[b[q]].locked = q
        BY <1>1, <1>2, <3>2, <3>3 DEF BufferExclusive
      <4>1. at[q] = at'[q] /\ b[q] \in Buf
        BY Zenon, <1>2, <3>1 DEF BioInv, Typed
      <4>2. buf[b[q]].locked = q
        BY Zenon, <4>1 DEF BioInv, BufferExclusive
      <4>3. b[q] # x
        BY Zenon, <3>1, <4>2, BioFacts
      <4> QED BY Zenon, <3>3, <4>1, <4>2, <4>3
    <3>5. \A y \in Buf : buf'[y].blockno = buf[y].blockno /\ buf'[y].refcnt = buf[y].refcnt
      BY Zenon, <3>2, <3>3
    <3>6. at' \in [User -> Places] /\ \A q \in User : at'[q] = "idle" <=> at[q] = "idle"
      BY Zenon, <1>1, <1>2, <3>1 DEF Places
    <3> QED BY Zenon, <3>3, <3>4, <3>5, <3>6
  <2> QED BY Zenon, <2>1, <2>2
<1>4. Typed' /\ OneBuffer'
  <2>1. /\ idequeue' \in Seq(Buf) /\ dev' \in Commands \union {NoCommand} /\ disk' \in [BlockNo -> Content]
        /\ \A k \in 1 .. Len(idequeue') : buf[idequeue'[k]].blockno \in BlockNo
    BY Zenon, <1>1 DEF BioInv, Typed
  <2> QED BY Zenon, <1>1, <1>3, <2>1, SameReferences
<1> QED BY Zenon, <1>3, <1>4 DEF BioInv

\* releasesleep: the lock is given up by the process that has it.
LEMMA releasesleepKeeps ==
  ASSUME BioInv, NEW p \in User, releasesleep(p)
  PROVE  BioInv'
<1> DEFINE x == b[p]
           r == [buf[x] EXCEPT !.locked = Free]
<1>1. /\ at[p] = "use" /\ buf' = [buf EXCEPT ![x] = r] /\ UNCHANGED <<lru, idequeue, dev, disk, b>>
      /\ at' = [q \in User |-> IF q = p THEN "release"
                               ELSE IF at[q] = "lockwait" /\ b[q] = b[p] THEN "lock" ELSE at[q]]
  BY Zenon DEF Uses, releasesleep
<1>2. x \in Buf /\ buf \in [Buf -> Buffers] /\ at \in [User -> Places]
  BY Zenon, <1>1 DEF BioInv, Typed
<1>3. r \in Buffers /\ r.blockno = buf[x].blockno /\ r.refcnt = buf[x].refcnt
  BY <1>2, SetLocked
<1> HIDE DEF r
<1>4. buf' \in [Buf -> Buffers] /\ \A y \in Buf : buf'[y] = IF y = x THEN r ELSE buf[y]
  BY Zenon, <1>1, <1>2, <1>3, OneChanges
<1>5. at' \in [User -> Places] /\ \A q \in User : at'[q] = "idle" <=> at[q] = "idle"
  BY Zenon, <1>1, <1>2 DEF Places
<1>6. \A y \in Buf : buf'[y].blockno = buf[y].blockno /\ buf'[y].refcnt = buf[y].refcnt
  BY Zenon, <1>3, <1>4
<1>7. BufferExclusive'
  <2> SUFFICES ASSUME NEW q \in User, at'[q] \in {"got", "io", "woken", "use"}
               PROVE  buf'[b[q]].locked = q
    BY Zenon, <1>1 DEF BufferExclusive
  <2>1. q # p /\ at[q] = at'[q] /\ b[q] \in Buf
    BY Zenon, <1>1 DEF BioInv, Typed
  <2>2. buf[b[q]].locked = q /\ buf[x].locked = p
    BY Zenon, <1>1, <2>1 DEF BioInv, BufferExclusive
  <2> QED BY Zenon, <1>4, <2>1, <2>2
<1>8. Typed' /\ OneBuffer'
  <2>1. /\ idequeue' \in Seq(Buf) /\ dev' \in Commands \union {NoCommand} /\ disk' \in [BlockNo -> Content]
        /\ \A k \in 1 .. Len(idequeue') : buf[idequeue'[k]].blockno \in BlockNo
    BY Zenon, <1>1 DEF BioInv, Typed
  <2> QED BY Zenon, <1>1, <1>4, <1>5, <1>6, <2>1, SameReferences
<1> QED BY Zenon, <1>7, <1>8 DEF BioInv

\* iderw: a process in its buffer queues it and sleeps, its buffer locked.
LEMMA iderwKeeps ==
  ASSUME BioInv, NEW p \in User, at[p] \in {"got", "use"}, iderw(p),
         UNCHANGED <<lru, disk, b>>,
         buf' \in [Buf -> Buffers],
         \A y \in Buf : /\ buf'[y].blockno = buf[y].blockno
                        /\ buf'[y].locked = buf[y].locked
                        /\ buf'[y].refcnt = buf[y].refcnt
  PROVE  BioInv'
<1>1. /\ b[p] \in Buf /\ buf[b[p]].blockno \in BlockNo
      /\ at \in [User -> Places] /\ b \in [User -> Buf \union {0}]
      /\ idequeue \in Seq(Buf)
  BY Zenon DEF BioInv, Typed
<1>2. idequeue' = Append(idequeue, b[p]) /\ at' = [at EXCEPT ![p] = "io"]
  BY Zenon DEF iderw
<1>3. idequeue' \in Seq(Buf) /\ \A k \in 1 .. Len(idequeue') : buf[idequeue'[k]].blockno \in BlockNo
  <2>1. \A k \in 1 .. Len(idequeue) : buf[idequeue[k]].blockno \in BlockNo
    BY Zenon DEF BioInv, Typed
  <2>2. Len(idequeue') = Len(idequeue) + 1 /\ idequeue' \in Seq(Buf)
    BY <1>1, <1>2
  <2>3. \A k \in 1 .. Len(idequeue') : idequeue'[k] = IF k = Len(idequeue') THEN b[p] ELSE idequeue[k]
    BY <1>1, <1>2
  <2> QED BY <1>1, <2>1, <2>2, <2>3
<1>4. dev' \in Commands \union {NoCommand}
  <2>1. idestart(b[p]) \in Commands
    BY Zenon, <1>1, CommandTyped DEF idestart
  <2> QED BY Zenon, <2>1 DEF iderw, BioInv, Typed
<1>5. at' \in [User -> Places] /\ \A q \in User : at'[q] = "idle" <=> at[q] = "idle"
  BY Zenon, <1>1, <1>2 DEF Places
<1>6. disk' \in [BlockNo -> Content]
  BY Zenon DEF BioInv, Typed
<1>7. Typed' /\ OneBuffer'
  BY Zenon, <1>3, <1>4, <1>5, <1>6, SameReferences
<1>8. BufferExclusive'
  <2> SUFFICES ASSUME NEW q \in User, at'[q] \in {"got", "io", "woken", "use"}
               PROVE  buf'[b[q]].locked = q
    BY Zenon DEF BufferExclusive
  <2>1. at[q] \in {"got", "io", "woken", "use"} /\ b[q] \in Buf
    BY Zenon, <1>1, <1>2 DEF BioInv, Typed
  <2> QED BY Zenon, <2>1 DEF BioInv, BufferExclusive
<1> QED BY Zenon, <1>7, <1>8 DEF BioInv

\* bread uses a valid buffer and asks the disk for another.
LEMMA breadKeeps ==
  ASSUME BioInv, NEW p \in User, bread(p)
  PROVE  BioInv'
<1>1. at[p] = "got" /\ UNCHANGED <<buf, lru, disk, b>> /\ buf \in [Buf -> Buffers]
  BY Zenon DEF bread, BioInv, Typed
<1>2. CASE buf[b[p]].valid
  <2>1. at' = [at EXCEPT ![p] = "use"] /\ UNCHANGED <<idequeue, dev>>
    BY Zenon, <1>2 DEF bread
  <2>2. Typed'
    BY Zenon, <1>1, <2>1 DEF BioInv, Typed, Places
  <2>3. OneBuffer'
    BY Zenon, <1>1 DEF BioInv, OneBuffer
  <2>4. BufferExclusive'
    BY Zenon, <1>1, <2>1 DEF BioInv, BufferExclusive, Typed
  <2> QED BY Zenon, <2>2, <2>3, <2>4 DEF BioInv
<1>3. CASE ~buf[b[p]].valid
  <2>1. iderw(p)
    BY Zenon, <1>3 DEF bread
  <2> QED BY Zenon, <1>1, <2>1, iderwKeeps
<1> QED BY Zenon, <1>2, <1>3

\* A process that was woken up tests the flags.
LEMMA TestKeeps ==
  ASSUME BioInv, NEW p \in User, IderwTest(p)
  PROVE  BioInv'
<1>1. /\ at[p] = "woken" /\ UNCHANGED <<buf, lru, idequeue, dev, disk, b>>
      /\ \E a \in {"use", "io"} : at' = [at EXCEPT ![p] = a]
  BY Zenon DEF IderwTest
<1>2. PICK a \in {"use", "io"} : at' = [at EXCEPT ![p] = a]
  BY Zenon, <1>1
<1>3. Typed'
  BY Zenon, <1>1, <1>2 DEF BioInv, Typed, Places
<1>4. OneBuffer'
  BY Zenon, <1>1 DEF BioInv, OneBuffer
<1>5. BufferExclusive'
  BY Zenon, <1>1, <1>2 DEF BioInv, BufferExclusive, Typed
<1> QED BY Zenon, <1>3, <1>4, <1>5 DEF BioInv

\* The data of p's buffer is set and the buffer made dirty.
LEMMA DirtyFields ==
  ASSUME BioInv, NEW p \in User, NEW v \in Content, at[p] = "use",
         buf' = [buf EXCEPT ![b[p]].data = v, ![b[p]].dirty = TRUE]
  PROVE  /\ buf' \in [Buf -> Buffers]
         /\ \A y \in Buf : /\ buf'[y].blockno = buf[y].blockno
                           /\ buf'[y].locked = buf[y].locked
                           /\ buf'[y].refcnt = buf[y].refcnt
<1> DEFINE x == b[p]
           r == [[buf[x] EXCEPT !.data = v] EXCEPT !.dirty = TRUE]
<1>1. x \in Buf /\ buf \in [Buf -> Buffers]
  BY Zenon DEF BioInv, Typed
<1>2. r \in Buffers /\ r.blockno = buf[x].blockno /\ r.locked = buf[x].locked /\ r.refcnt = buf[x].refcnt
  <2>1. buf[x] \in Buffers
    BY Zenon, <1>1
  <2>2. r = [[buf[x] EXCEPT !.data = v] EXCEPT !.dirty = TRUE]
    BY Zenon
  <2> HIDE DEF r, x
  <2> QED BY Zenon, <2>1, <2>2 DEF Buffers
<1>3. buf' = [buf EXCEPT ![x] = r]
  BY Zenon, <1>1
<1> HIDE DEF r
<1>4. buf' \in [Buf -> Buffers] /\ \A y \in Buf : buf'[y] = IF y = x THEN r ELSE buf[y]
  <2>1. buf' \in [Buf -> Buffers]
    BY Zenon, <1>1, <1>2, <1>3
  <2>2. \A y \in Buf : buf'[y] = IF y = x THEN r ELSE buf[y]
    BY Zenon, <1>1, <1>3
  <2> QED BY Zenon, <2>1, <2>2
<1> QED BY Zenon, <1>2, <1>4

\* log_write keeps the buffer for the log.
LEMMA log_writeKeeps ==
  ASSUME BioInv, NEW p \in User, NEW v \in Content, log_write(p, v)
  PROVE  BioInv'
<1>1. /\ at[p] = "use" /\ UNCHANGED <<lru, idequeue, dev, disk, at, b>>
      /\ buf' = [buf EXCEPT ![b[p]].data = v, ![b[p]].dirty = TRUE]
  BY Zenon DEF Uses, log_write
<1>2. /\ buf' \in [Buf -> Buffers]
      /\ \A y \in Buf : /\ buf'[y].blockno = buf[y].blockno
                        /\ buf'[y].locked = buf[y].locked
                        /\ buf'[y].refcnt = buf[y].refcnt
  BY Zenon, <1>1, DirtyFields
<1>3. /\ idequeue' \in Seq(Buf) /\ dev' \in Commands \union {NoCommand} /\ disk' \in [BlockNo -> Content]
      /\ \A k \in 1 .. Len(idequeue') : buf[idequeue'[k]].blockno \in BlockNo
      /\ at' \in [User -> Places]
  BY Zenon, <1>1 DEF BioInv, Typed
<1>4. Typed' /\ OneBuffer'
  BY Zenon, <1>1, <1>2, <1>3, SameReferences
<1>5. BufferExclusive'
  BY <1>1, <1>2 DEF BioInv, BufferExclusive, Typed
<1> QED BY Zenon, <1>4, <1>5 DEF BioInv

\* bwrite sends it to the disk.
LEMMA bwriteKeeps ==
  ASSUME BioInv, NEW p \in User, NEW v \in Content, bwrite(p, v)
  PROVE  BioInv'
<1>1. /\ at[p] = "use" /\ UNCHANGED <<lru, disk, b>> /\ iderw(p)
      /\ buf' = [buf EXCEPT ![b[p]].data = v, ![b[p]].dirty = TRUE]
  BY Zenon DEF Uses, bwrite
<1>2. /\ buf' \in [Buf -> Buffers]
      /\ \A y \in Buf : /\ buf'[y].blockno = buf[y].blockno
                        /\ buf'[y].locked = buf[y].locked
                        /\ buf'[y].refcnt = buf[y].refcnt
  BY Zenon, <1>1, DirtyFields
<1> QED BY Zenon, <1>1, <1>2, iderwKeeps

\* ideintr fills the first buffer of the queue, starts the next and wakes its user.
LEMMA ideintrKeeps ==
  ASSUME BioInv, NEW fails \in BOOLEAN, ideintr(fails)
  PROVE  BioInv'
<1> DEFINE x == Head(idequeue)
           v == IF ~buf[x].dirty /\ ~fails THEN disk[dev.blockno] ELSE buf[x].data
           r == [[[buf[x] EXCEPT !.valid = TRUE] EXCEPT !.dirty = FALSE] EXCEPT !.data = v]
<1>1. /\ idequeue # <<>> /\ dev # NoCommand /\ UNCHANGED <<lru, b>>
      /\ idequeue' = Tail(idequeue) /\ dev' = NextCommand /\ at' = Woken(x)
      /\ disk' = IF dev.write /\ ~fails THEN [disk EXCEPT ![dev.blockno] = dev.data] ELSE disk
  BY Zenon DEF ideintr
<1>2. /\ x \in Buf /\ buf \in [Buf -> Buffers] /\ at \in [User -> Places] /\ idequeue \in Seq(Buf)
      /\ disk \in [BlockNo -> Content] /\ dev \in Commands
  <2>1. /\ buf \in [Buf -> Buffers] /\ at \in [User -> Places] /\ idequeue \in Seq(Buf)
        /\ disk \in [BlockNo -> Content] /\ dev \in Commands \union {NoCommand}
    BY Zenon DEF BioInv, Typed
  <2>2. x \in Buf
    BY <1>1, <2>1
  <2>3. dev \in Commands
    BY Zenon, <1>1, <2>1
  <2> QED BY Zenon, <2>1, <2>2, <2>3
<1>3. v \in Content
  BY Zenon, <1>2 DEF Commands, Buffers
<1>4. r \in Buffers /\ r.blockno = buf[x].blockno /\ r.locked = buf[x].locked /\ r.refcnt = buf[x].refcnt
  <2>1. buf[x] \in Buffers
    BY Zenon, <1>2
  <2>2. r = [[[buf[x] EXCEPT !.valid = TRUE] EXCEPT !.dirty = FALSE] EXCEPT !.data = v]
    BY Zenon
  <2> HIDE DEF r, x, v
  <2> QED BY Zenon, <1>3, <2>1, <2>2 DEF Buffers
<1>5. buf' = [buf EXCEPT ![x] = r]
  BY Zenon, <1>2 DEF ideintr
<1> HIDE DEF r
<1>6. buf' \in [Buf -> Buffers] /\ \A y \in Buf : buf'[y] = IF y = x THEN r ELSE buf[y]
  BY Zenon, <1>2, <1>4, <1>5, OneChanges
<1>7. \A y \in Buf : /\ buf'[y].blockno = buf[y].blockno
                     /\ buf'[y].locked = buf[y].locked
                     /\ buf'[y].refcnt = buf[y].refcnt
  BY Zenon, <1>4, <1>6
<1>8. disk' \in [BlockNo -> Content]
  BY Zenon, <1>1, <1>2 DEF Commands
<1>9. idequeue' \in Seq(Buf) /\ \A k \in 1 .. Len(idequeue') : buf[idequeue'[k]].blockno \in BlockNo
  <2>1. \A k \in 1 .. Len(idequeue) : buf[idequeue[k]].blockno \in BlockNo
    BY Zenon DEF BioInv, Typed
  <2>2. idequeue' \in Seq(Buf) /\ Len(idequeue') = Len(idequeue) - 1
    BY <1>1, <1>2
  <2>3. \A k \in 1 .. Len(idequeue') : idequeue'[k] = idequeue[k + 1] /\ k + 1 \in 1 .. Len(idequeue)
    BY <1>1, <1>2, <2>2
  <2> QED BY Zenon, <2>1, <2>2, <2>3
<1>10. dev' \in Commands \union {NoCommand}
  <2>1. CASE Len(idequeue) > 1
    <3>1. idequeue[2] \in Buf /\ buf[idequeue[2]].blockno \in BlockNo
      BY <1>2, <2>1 DEF BioInv, Typed
    <3>2. idestart(idequeue[2]) \in Commands
      BY Zenon, <1>6, <1>7, <3>1, CommandTyped DEF idestart
    <3> QED BY Zenon, <1>1, <2>1, <3>2 DEF NextCommand
  <2> QED BY Zenon, <1>1, <2>1 DEF NextCommand
<1>11. at' \in [User -> Places] /\ \A q \in User : at'[q] = "idle" <=> at[q] = "idle"
  BY Zenon, <1>1, <1>2 DEF Woken, Places
<1>12. Typed' /\ OneBuffer'
  BY Zenon, <1>1, <1>6, <1>7, <1>8, <1>9, <1>10, <1>11, SameReferences
<1>13. BufferExclusive'
  <2> SUFFICES ASSUME NEW q \in User, at'[q] \in {"got", "io", "woken", "use"}
               PROVE  buf'[b[q]].locked = q
    BY Zenon, <1>1 DEF BufferExclusive
  <2>1. at[q] \in {"got", "io", "woken", "use"} /\ b[q] \in Buf
    BY Zenon, <1>1, <1>2 DEF BioInv, Typed, Woken
  <2> QED BY Zenon, <1>7, <2>1 DEF BioInv, BufferExclusive
<1> QED BY Zenon, <1>12, <1>13 DEF BioInv

\* Every step keeps the invariant.
LEMMA BioInvStep == BioInv /\ [BioNext]_biovars => BioInv'
<1> SUFFICES ASSUME BioInv, [BioNext]_biovars PROVE BioInv'
  OBVIOUS
<1>1. CASE UNCHANGED <<buf, lru, idequeue, dev, disk, at, b>>
  BY Zenon, <1>1 DEF BioInv, Typed, OneBuffer, BufferExclusive
<1>2. ASSUME NEW p \in User, NEW blk \in BlockNo, bget(p, blk) PROVE BioInv'
  BY Zenon, <1>1, <1>2, CachedKeeps, RecycleKeeps DEF MayGet, bget, bgetPanic
<1>3. ASSUME NEW p \in User, BioStep(p) PROVE BioInv'
  BY Zenon, <1>3, acquiresleepKeeps, breadKeeps, TestKeeps, brelseKeeps DEF BioStep
<1>4. ASSUME NEW p \in User, NEW v \in Content, log_write(p, v) \/ bwrite(p, v) PROVE BioInv'
  BY Zenon, <1>4, log_writeKeeps, bwriteKeeps
<1>5. ASSUME NEW p \in User, releasesleep(p) PROVE BioInv'
  BY Zenon, <1>5, releasesleepKeeps
<1>6. ASSUME NEW fails \in BOOLEAN, ideintr(fails) PROVE BioInv'
  BY Zenon, <1>6, ideintrKeeps
<1> QED BY Zenon, <1>1, <1>2, <1>3, <1>4, <1>5, <1>6 DEF BioNext, biovars

\* A block has one buffer at most, and the reference count of a buffer is the
\* number of its users: bget and brelse never lose or invent one.
THEOREM OneBufferAlways == BioSpec => []OneBuffer
<1>1. BioInv => OneBuffer
  BY Zenon DEF BioInv
<1> QED BY <1>1, BioInvInit, BioInvStep, PTL DEF BioSpec

\* From acquiresleep to releasesleep a process has the buffer for itself, also
\* while it sleeps for the disk.
THEOREM BufferExclusiveAlways == BioSpec => []BufferExclusive
<1>1. BioInv => BufferExclusive
  BY Zenon DEF BioInv
<1> QED BY <1>1, BioInvInit, BioInvStep, PTL DEF BioSpec

-----------------------------------------------------------------------------
(* The disk and what the buffers hold.                                     *)

Queued == 1 .. Len(idequeue)

\* Every request is one of a process that sleeps for it; none is there twice.
Owned ==
  /\ \A j, k \in Queued : idequeue[j] = idequeue[k] => j = k
  /\ \A k \in Queued : \E p \in User : b[p] = idequeue[k] /\ at[p] = "io"

\* The disk has the command of the first request.
Serves ==
  /\ idequeue = <<>> => dev = NoCommand
  /\ idequeue # <<>> =>
       LET h == buf[idequeue[1]] IN dev = [write |-> h.dirty, blockno |-> h.blockno, data |-> h.data]

\* A buffer in use was read, and a dirty one holds what was put in its block last.
Used ==
  /\ \A p \in User : at[p] = "use" => buf[b[p]].valid
  /\ \A x \in Buf : buf[x].dirty => buf[x].blockno \in BlockNo /\ buf[x].data = last[buf[x].blockno]

\* CacheCoherent, buffer by buffer and block by block.
Coherent ==
  /\ lost \subseteq BlockNo
  /\ \A x \in Buf : buf[x].blockno \in BlockNo \ lost /\ buf[x].valid /\ x \notin unread =>
                      buf[x].data = last[buf[x].blockno]
  /\ \A blk \in BlockNo \ lost : (\A x \in Buf : buf[x].blockno = blk => ~buf[x].dirty) =>
                            disk[blk] = last[blk]

\* The inductive invariant.
DiskInv ==
  /\ BioInv /\ last \in [BlockNo -> Content]
  /\ Owned /\ Serves /\ Used /\ Coherent

\* Initially nothing is queued, valid or dirty.
LEMMA DiskInvInit == BioInit => DiskInv
<1> SUFFICES ASSUME BioInit PROVE DiskInv
  OBVIOUS
<1>1. BioInv
  BY Zenon, BioInvInit
<1>2. /\ idequeue = <<>> /\ dev = NoCommand
      /\ disk = [blk \in BlockNo |-> 0] /\ last = disk
      /\ at = [p \in User |-> "idle"] /\ lost = {}
      /\ \A x \in Buf : buf[x].blockno = NoBlock /\ ~buf[x].dirty
  BY Zenon DEF BioInit
<1>3. NoBlock \notin BlockNo /\ 0 \in Content
  BY Zenon, BioFacts DEF NoBlock
<1>4. last \in [BlockNo -> Content]
  BY Zenon, <1>2, <1>3
<1>5. Owned
  BY <1>2 DEF Owned, Queued
<1>6. Serves
  BY Zenon, <1>2 DEF Serves
<1>7. Used
  BY Zenon, <1>2 DEF Used
<1>8. Coherent
  BY Zenon, <1>2, <1>3 DEF Coherent
<1> QED BY Zenon, <1>1, <1>4, <1>5, <1>6, <1>7, <1>8 DEF DiskInv

\* The invariant gives both properties.
LEMMA DiskInvSuffices == DiskInv => DiskServesHead /\ CacheCoherent
<1> SUFFICES ASSUME DiskInv PROVE DiskServesHead /\ CacheCoherent
  OBVIOUS
<1> USE DEF DiskInv
<1>1. CacheCoherent
  BY Zenon DEF Coherent, CacheCoherent
<1>2. idequeue \in Seq(Buf)
  BY Zenon DEF BioInv, Typed
<1>3. dev # NoCommand <=> idequeue # <<>>
  <2>1. CASE idequeue # <<>>
    <3>1. 1 \in 1 .. Len(idequeue)
      BY <1>2, <2>1
    <3>2. buf[idequeue[1]].blockno \in BlockNo
      BY Zenon, <3>1 DEF BioInv, Typed
    <3>3. dev.blockno = buf[idequeue[1]].blockno
      BY <2>1 DEF Serves
    <3>4. NoCommand.blockno \notin BlockNo
      BY Zenon, BioFacts DEF NoCommand, NoBlock
    <3> QED BY Zenon, <2>1, <3>2, <3>3, <3>4
  <2> QED BY Zenon, <2>1 DEF Serves
<1>4. \A k \in DOMAIN idequeue :
        \E p \in User : b[p] = idequeue[k] /\ at[p] = "io" /\ buf[b[p]].locked = p
  <2>1. DOMAIN idequeue = Queued
    BY <1>2 DEF Queued
  <2> QED BY <2>1 DEF Owned, BioInv, BufferExclusive
<1>5. idequeue # <<>> =>
        LET h == buf[Head(idequeue)] IN dev = [write |-> h.dirty, blockno |-> h.blockno, data |-> h.data]
  BY <1>2 DEF Serves
<1> QED BY Zenon, <1>1, <1>3, <1>4, <1>5 DEF DiskServesHead

\* A process that has locked its buffer and does not sleep is not in the queue,
\* and neither is a buffer that nobody has or has locked.
LEMMA NotQueued ==
  ASSUME DiskInv
  PROVE  /\ \A p \in User, k \in Queued : at[p] \in {"got", "use"} => b[p] # idequeue[k]
         /\ \A k \in Queued : idequeue[k] \in Buf
         /\ \A k \in Queued : buf[idequeue[k]].locked # Free
         /\ \A x \in Buf : buf[x].refcnt = 0 => \A p \in User : b[p] # x
<1> USE DEF DiskInv
<1>1. \A k \in Queued : idequeue[k] \in Buf
  BY DEF BioInv, Typed, Queued
<1>2. \A k \in Queued : \E q \in User : b[q] = idequeue[k] /\ at[q] = "io" /\ buf[idequeue[k]].locked = q
  BY DEF Owned, BioInv, BufferExclusive
<1>3. \A p \in User, k \in Queued : at[p] \in {"got", "use"} => b[p] # idequeue[k]
  BY <1>2 DEF BioInv, BufferExclusive
<1>4. \A k \in Queued : buf[idequeue[k]].locked # Free
  BY Zenon, <1>2, BioFacts
<1>5. ASSUME NEW x \in Buf, buf[x].refcnt = 0, NEW p \in User, b[p] = x PROVE FALSE
  <2>1. IsFiniteSet(UsersOf(b, x)) /\ p \in UsersOf(b, x)
    BY Zenon, <1>5, BioFacts, FS_Subset DEF UsersOf
  <2>2. Cardinality(UsersOf(b, x)) = 0
    BY Zenon, <1>5 DEF BioInv, OneBuffer, UsersOf
  <2> QED BY Zenon, <2>1, <2>2, FS_EmptySet
<1> QED BY Zenon, <1>1, <1>3, <1>4, <1>5

\* A step that leaves the queue, its buffers and their owners alone.
LEMMA QueueKept ==
  ASSUME DiskInv, idequeue' = idequeue, dev' = dev,
         \A q \in User : at[q] = "io" => at'[q] = "io" /\ b'[q] = b[q],
         \A k \in Queued : /\ buf'[idequeue[k]].blockno = buf[idequeue[k]].blockno
                           /\ buf'[idequeue[k]].dirty = buf[idequeue[k]].dirty
                           /\ buf'[idequeue[k]].data = buf[idequeue[k]].data
  PROVE  Owned' /\ Serves'
<1>1. Owned'
  BY DEF DiskInv, Owned, Queued
<1>2. ASSUME idequeue # <<>> PROVE 1 \in Queued
  BY <1>2 DEF DiskInv, BioInv, Typed, Queued
<1>3. Serves'
  BY Zenon, <1>2 DEF DiskInv, Serves
<1> QED BY Zenon, <1>1, <1>3

\* A step that leaves what buffers and blocks hold alone.
LEMMA ContentKept ==
  ASSUME DiskInv, last' = last, disk' = disk, unread' = unread, lost' = lost,
         \A y \in Buf : /\ buf'[y].blockno = buf[y].blockno /\ buf'[y].valid = buf[y].valid
                        /\ buf'[y].dirty = buf[y].dirty /\ buf'[y].data = buf[y].data,
         \A p \in User : at'[p] = "use" => b'[p] \in Buf /\ buf[b'[p]].valid
  PROVE  Used' /\ Coherent' /\ last' \in [BlockNo -> Content]
<1>1. Used'
  BY Zenon DEF DiskInv, Used
<1>2. Coherent'
  BY Zenon DEF DiskInv, Coherent
<1> QED BY Zenon, <1>1, <1>2 DEF DiskInv

\* Users of buffers are where their types say.
LEMMA UserTypes ==
  ASSUME DiskInv
  PROVE  /\ buf \in [Buf -> Buffers] /\ b \in [User -> Buf \union {0}] /\ at \in [User -> Places]
         /\ \A p \in User : at[p] # "idle" => b[p] \in Buf /\ buf[b[p]].blockno \in BlockNo
BY Zenon DEF DiskInv, BioInv, Typed

\* bget of a block in the cache only counts a reference.
LEMMA CachedCoherent ==
  ASSUME DiskInv, NEW p \in User, NEW blk \in BlockNo, bgetCached(p, blk)
  PROVE  DiskInv'
<1>0. BioInv'
  BY Zenon, CachedKeeps DEF DiskInv
<1>1. PICK x \in Buf : buf' = [buf EXCEPT ![x].refcnt = @ + 1] /\ Refer(p, x)
  BY Zenon DEF MayGet, bgetCached
<1>2. /\ at[p] = "idle" /\ unread' = unread
      /\ at' = [at EXCEPT ![p] = "lock"] /\ b' = [b EXCEPT ![p] = x]
      /\ UNCHANGED <<idequeue, dev, disk, lost, last>>
  BY Zenon, <1>1 DEF MayGet, bgetCached, Refer
<1>3. \A y \in Buf : /\ buf'[y].blockno = buf[y].blockno /\ buf'[y].valid = buf[y].valid
                     /\ buf'[y].dirty = buf[y].dirty /\ buf'[y].data = buf[y].data
  BY Zenon, <1>1, UserTypes DEF Buffers
<1>4. Owned' /\ Serves'
  <2>1. \A q \in User : at[q] = "io" => at'[q] = "io" /\ b'[q] = b[q]
    BY Zenon, <1>2, UserTypes
  <2> QED BY Zenon, <1>2, <1>3, <2>1, NotQueued, QueueKept
<1>5. Used' /\ Coherent' /\ last' \in [BlockNo -> Content]
  <2>1. \A q \in User : at'[q] = "use" => b'[q] \in Buf /\ buf[b'[q]].valid
    BY Zenon, <1>2, UserTypes DEF DiskInv, Used
  <2> QED BY Zenon, <1>2, <1>3, <2>1, ContentKept
<1> QED BY Zenon, <1>0, <1>4, <1>5 DEF DiskInv

\* acquiresleep only locks.
LEMMA acquiresleepCoherent ==
  ASSUME DiskInv, NEW p \in User, acquiresleep(p)
  PROVE  DiskInv'
<1>0. BioInv'
  BY Zenon, acquiresleepKeeps DEF DiskInv
<1>1. /\ at[p] = "lock" /\ UNCHANGED <<idequeue, dev, disk, b, unread, lost, last>>
      /\ \E a \in {"lockwait", "got"} : at' = [at EXCEPT ![p] = a]
      /\ buf' = buf \/ buf' = [buf EXCEPT ![b[p]].locked = p]
  BY Zenon DEF acquiresleep
<1>2. PICK a \in {"lockwait", "got"} : at' = [at EXCEPT ![p] = a]
  BY Zenon, <1>1
<1>3. \A y \in Buf : /\ buf'[y].blockno = buf[y].blockno /\ buf'[y].valid = buf[y].valid
                     /\ buf'[y].dirty = buf[y].dirty /\ buf'[y].data = buf[y].data
  BY <1>1, UserTypes DEF Buffers
<1>4. Owned' /\ Serves'
  <2>1. \A q \in User : at[q] = "io" => at'[q] = "io" /\ b'[q] = b[q]
    BY Zenon, <1>1, <1>2, UserTypes
  <2> QED BY Zenon, <1>1, <1>3, <2>1, NotQueued, QueueKept
<1>5. Used' /\ Coherent' /\ last' \in [BlockNo -> Content]
  <2>1. \A q \in User : at'[q] = "use" => b'[q] \in Buf /\ buf[b'[q]].valid
    BY Zenon, <1>1, <1>2, UserTypes DEF DiskInv, Used
  <2> QED BY Zenon, <1>1, <1>3, <2>1, ContentKept
<1> QED BY Zenon, <1>0, <1>4, <1>5 DEF DiskInv

\* releasesleep unlocks a buffer that is not queued.
LEMMA releasesleepCoherent ==
  ASSUME DiskInv, NEW p \in User, releasesleep(p)
  PROVE  DiskInv'
<1>0. BioInv'
  BY Zenon, releasesleepKeeps DEF DiskInv
<1>1. /\ at[p] = "use" /\ UNCHANGED <<idequeue, dev, disk, b, unread, lost, last>>
      /\ at' = [q \in User |-> IF q = p THEN "release"
                               ELSE IF at[q] = "lockwait" /\ b[q] = b[p] THEN "lock" ELSE at[q]]
      /\ buf' = [buf EXCEPT ![b[p]].locked = Free]
  BY Zenon DEF Uses, releasesleep
<1>2. \A y \in Buf : /\ buf'[y].blockno = buf[y].blockno /\ buf'[y].valid = buf[y].valid
                     /\ buf'[y].dirty = buf[y].dirty /\ buf'[y].data = buf[y].data
  BY Zenon, <1>1, UserTypes DEF Buffers
<1>3. Owned' /\ Serves'
  <2>1. \A q \in User : at[q] = "io" => at'[q] = "io" /\ b'[q] = b[q]
    BY Zenon, <1>1
  <2> QED BY Zenon, <1>1, <1>2, <2>1, NotQueued, QueueKept
<1>4. Used' /\ Coherent' /\ last' \in [BlockNo -> Content]
  <2>1. \A q \in User : at'[q] = "use" => b'[q] \in Buf /\ buf[b'[q]].valid
    BY Zenon, <1>1, UserTypes DEF DiskInv, Used
  <2> QED BY Zenon, <1>1, <1>2, <2>1, ContentKept
<1> QED BY Zenon, <1>0, <1>3, <1>4 DEF DiskInv

\* brelse drops a reference.
LEMMA brelseCoherent ==
  ASSUME DiskInv, NEW p \in User, brelse(p)
  PROVE  DiskInv'
<1>0. BioInv'
  BY Zenon, brelseKeeps DEF DiskInv
<1>1. /\ at[p] = "release" /\ UNCHANGED <<idequeue, dev, disk, unread, lost, last>>
      /\ at' = [at EXCEPT ![p] = "idle"] /\ b' = [b EXCEPT ![p] = 0]
      /\ buf' = [buf EXCEPT ![b[p]].refcnt = Left(b[p])]
  BY Zenon DEF brelse
<1>2. \A y \in Buf : /\ buf'[y].blockno = buf[y].blockno /\ buf'[y].valid = buf[y].valid
                     /\ buf'[y].dirty = buf[y].dirty /\ buf'[y].data = buf[y].data
  BY Zenon, <1>1, UserTypes DEF Buffers
<1>3. Owned' /\ Serves'
  <2>1. \A q \in User : at[q] = "io" => at'[q] = "io" /\ b'[q] = b[q]
    BY Zenon, <1>1, UserTypes
  <2> QED BY Zenon, <1>1, <1>2, <2>1, NotQueued, QueueKept
<1>4. Used' /\ Coherent' /\ last' \in [BlockNo -> Content]
  <2>1. \A q \in User : at'[q] = "use" => b'[q] \in Buf /\ buf[b'[q]].valid
    BY Zenon, <1>1, UserTypes DEF DiskInv, Used
  <2> QED BY Zenon, <1>1, <1>2, <2>1, ContentKept
<1> QED BY Zenon, <1>0, <1>3, <1>4 DEF DiskInv

\* A woken process uses its buffer only if it is valid.
LEMMA TestCoherent ==
  ASSUME DiskInv, NEW p \in User, IderwTest(p)
  PROVE  DiskInv'
<1>0. BioInv'
  BY Zenon, TestKeeps DEF DiskInv
<1>1. /\ at[p] = "woken" /\ UNCHANGED <<buf, idequeue, dev, disk, b, unread, lost, last>>
      /\ at' = [at EXCEPT ![p] = IF buf[b[p]].valid /\ ~buf[b[p]].dirty THEN "use" ELSE "io"]
  BY Zenon DEF IderwTest
<1>2. Owned' /\ Serves'
  <2>1. \A q \in User : at[q] = "io" => at'[q] = "io" /\ b'[q] = b[q]
    BY Zenon, <1>1, UserTypes
  <2> QED BY Zenon, <1>1, <2>1, QueueKept
<1>3. Used' /\ Coherent' /\ last' \in [BlockNo -> Content]
  <2>1. \A q \in User : at'[q] = "use" => b'[q] \in Buf /\ buf[b'[q]].valid
    BY Zenon, <1>1, UserTypes DEF DiskInv, Used
  <2> QED BY Zenon, <1>1, <2>1, ContentKept
<1> QED BY Zenon, <1>0, <1>2, <1>3 DEF DiskInv

\* bget takes a buffer that nobody has and whose block is on the disk.
LEMMA RecycleCoherent ==
  ASSUME DiskInv, NEW p \in User, NEW blk \in BlockNo, bgetRecycle(p, blk)
  PROVE  DiskInv'
<1>0. BioInv'
  BY Zenon, RecycleKeeps DEF DiskInv
<1>1. PICK k \in Buf :
        /\ Recyclable(lru[k])
        /\ buf' = [buf EXCEPT ![lru[k]] = [@ EXCEPT !.blockno = blk, !.valid = FALSE,
                                                     !.dirty = FALSE, !.refcnt = 1]]
        /\ unread' = unread \ {lru[k]}
        /\ Refer(p, lru[k])
  BY Zenon DEF MayGet, bgetRecycle
<1> DEFINE x == lru[k]
<1>2. x \in Buf /\ buf[x].refcnt = 0 /\ ~buf[x].dirty
  BY Zenon, <1>1 DEF DiskInv, BioInv, Typed, Recyclable
<1>3. /\ at[p] = "idle" /\ \A y \in Buf : buf[y].blockno # blk
      /\ at' = [at EXCEPT ![p] = "lock"] /\ b' = [b EXCEPT ![p] = x]
      /\ unread' = unread \ {x}
      /\ UNCHANGED <<idequeue, dev, disk, lost, last>>
  BY Zenon, <1>1 DEF MayGet, bgetRecycle, Refer
<1>4. /\ buf'[x].blockno = blk /\ ~buf'[x].valid /\ ~buf'[x].dirty
      /\ \A y \in Buf : y # x => buf'[y] = buf[y]
  BY <1>1, <1>2, UserTypes DEF Buffers
<1> HIDE DEF x
<1>5. Owned' /\ Serves'
  <2>1. \A q \in User : at[q] = "io" => at'[q] = "io" /\ b'[q] = b[q]
    BY Zenon, <1>3, UserTypes
  <2>2. \A j \in Queued : idequeue[j] \in Buf /\ idequeue[j] # x
    BY Zenon, <1>2, NotQueued DEF DiskInv, Owned
  <2>3. \A j \in Queued : buf'[idequeue[j]] = buf[idequeue[j]]
    BY Zenon, <1>4, <2>2
  <2> QED BY Zenon, <1>3, <2>1, <2>3, QueueKept
<1>6. Used'
  <2>1. ASSUME NEW q \in User, at'[q] = "use" PROVE buf'[b'[q]].valid
    <3>1. at[q] = "use" /\ b'[q] = b[q] /\ b[q] \in Buf
      BY Zenon, <1>3, <2>1, UserTypes
    <3>2. b[q] # x
      BY Zenon, <1>2, NotQueued
    <3> QED BY Zenon, <1>4, <3>1, <3>2 DEF DiskInv, Used
  <2>2. ASSUME NEW y \in Buf, buf'[y].dirty
        PROVE  buf'[y].blockno \in BlockNo /\ buf'[y].data = last'[buf'[y].blockno]
    BY Zenon, <1>3, <1>4, <2>2 DEF DiskInv, Used
  <2> QED BY Zenon, <2>1, <2>2 DEF Used
<1>7. Coherent'
  <2>1. ASSUME NEW y \in Buf, buf'[y].blockno \in BlockNo \ lost', buf'[y].valid, y \notin unread'
        PROVE  buf'[y].data = last'[buf'[y].blockno]
    <3>1. y # x /\ buf'[y] = buf[y] /\ y \notin unread
      BY Zenon, <1>3, <1>4, <2>1
    <3> QED BY Zenon, <1>3, <2>1, <3>1 DEF DiskInv, Coherent
  <2>2. ASSUME NEW c \in BlockNo \ lost', \A y \in Buf : buf'[y].blockno = c => ~buf'[y].dirty
        PROVE  disk'[c] = last'[c]
    <3>1. \A y \in Buf : buf[y].blockno = c => ~buf[y].dirty
      BY Zenon, <1>2, <1>4, <2>2
    <3> QED BY Zenon, <1>3, <3>1 DEF DiskInv, Coherent
  <2> QED BY Zenon, <1>3, <2>1, <2>2 DEF Coherent, DiskInv
<1> QED BY Zenon, <1>0, <1>3, <1>5, <1>6, <1>7 DEF DiskInv

\* iderw: the buffer of p joins the queue; the disk is started if it was idle.
LEMMA iderwServes ==
  ASSUME DiskInv, NEW p \in User, at[p] \in {"got", "use"}, iderw(p), b' = b,
         \A y \in Buf : y # b[p] => buf'[y] = buf[y]
  PROVE  Owned' /\ Serves'
<1>1. /\ b[p] \in Buf /\ at \in [User -> Places] /\ idequeue \in Seq(Buf)
      /\ \A k \in Queued : idequeue[k] \in Buf /\ idequeue[k] # b[p]
  BY Zenon, UserTypes, NotQueued DEF DiskInv, BioInv, Typed
<1>2. /\ idequeue' = Append(idequeue, b[p]) /\ at' = [at EXCEPT ![p] = "io"]
      /\ dev' = IF idequeue = <<>> THEN idestart(b[p]) ELSE dev
  BY Zenon DEF iderw
<1>3. /\ Len(idequeue') = Len(idequeue) + 1 /\ Len(idequeue) \in Nat
      /\ \A k \in 1 .. Len(idequeue') : idequeue'[k] = IF k = Len(idequeue') THEN b[p] ELSE idequeue[k]
  BY <1>1, <1>2
<1>4. Owned'
  <2>1. ASSUME NEW j \in 1 .. Len(idequeue'), NEW k \in 1 .. Len(idequeue'), idequeue'[j] = idequeue'[k]
        PROVE  j = k
    BY <1>1, <1>3, <2>1 DEF DiskInv, Owned, Queued
  <2>2. ASSUME NEW k \in 1 .. Len(idequeue')
        PROVE  \E q \in User : b'[q] = idequeue'[k] /\ at'[q] = "io"
    <3>1. CASE k = Len(idequeue')
      BY Zenon, <1>1, <1>2, <1>3, <3>1
    <3>2. CASE k # Len(idequeue')
      <4>1. k \in Queued /\ idequeue'[k] = idequeue[k]
        BY <1>3, <3>2 DEF Queued
      <4>2. PICK q \in User : b[q] = idequeue[k] /\ at[q] = "io"
        BY Zenon, <4>1 DEF DiskInv, Owned
      <4> QED BY Zenon, <1>1, <1>2, <4>1, <4>2
    <3> QED BY Zenon, <3>1, <3>2
  <2> QED BY Zenon, <2>1, <2>2 DEF Owned, Queued
<1>5. Serves'
  <2>1. idequeue' # <<>>
    BY <1>1, <1>2
  <2>2. CASE idequeue = <<>>
    <3>1. idequeue'[1] = b[p]
      BY <1>2, <2>2
    <3> QED BY Zenon, <1>2, <2>1, <2>2, <3>1 DEF Serves, idestart
  <2>3. CASE idequeue # <<>>
    <3>1. 1 \in Queued /\ idequeue'[1] = idequeue[1]
      BY <1>1, <1>3, <2>3 DEF Queued
    <3>2. buf'[idequeue[1]] = buf[idequeue[1]]
      BY Zenon, <1>1, <3>1
    <3>3. LET h == buf[idequeue[1]] IN dev = [write |-> h.dirty, blockno |-> h.blockno, data |-> h.data]
      BY Zenon, <2>3 DEF DiskInv, Serves
    <3> QED BY Zenon, <1>2, <2>1, <2>3, <3>1, <3>2, <3>3 DEF Serves
  <2> QED BY Zenon, <2>2, <2>3
<1> QED BY Zenon, <1>4, <1>5

\* bread uses a buffer only if it is valid.
LEMMA breadCoherent ==
  ASSUME DiskInv, NEW p \in User, bread(p)
  PROVE  DiskInv'
<1>0. BioInv'
  BY Zenon, breadKeeps DEF DiskInv
<1>1. at[p] = "got" /\ UNCHANGED <<buf, disk, b, unread, lost, last>>
  BY Zenon DEF bread
<1>2. CASE buf[b[p]].valid
  <2>1. at' = [at EXCEPT ![p] = "use"] /\ UNCHANGED <<idequeue, dev>>
    BY Zenon, <1>2 DEF bread
  <2>2. \A q \in User : at[q] = "io" => at'[q] = "io" /\ b'[q] = b[q]
    BY Zenon, <1>1, <2>1, UserTypes
  <2>3. \A q \in User : at'[q] = "use" => b'[q] \in Buf /\ buf[b'[q]].valid
    BY Zenon, <1>1, <1>2, <2>1, UserTypes DEF DiskInv, Used
  <2>4. Owned' /\ Serves'
    BY Zenon, <1>1, <2>1, <2>2, QueueKept
  <2>5. Used' /\ Coherent' /\ last' \in [BlockNo -> Content]
    BY Zenon, <1>1, <2>3, ContentKept
  <2> QED BY Zenon, <1>0, <2>4, <2>5 DEF DiskInv
<1>3. CASE ~buf[b[p]].valid
  <2>1. iderw(p)
    BY Zenon, <1>3 DEF bread
  <2>2. Owned' /\ Serves'
    BY Zenon, <1>1, <2>1, iderwServes
  <2>3. \A q \in User : at'[q] = "use" => b'[q] \in Buf /\ buf[b'[q]].valid
    BY Zenon, <1>1, <2>1, UserTypes DEF iderw, DiskInv, Used
  <2>4. Used' /\ Coherent' /\ last' \in [BlockNo -> Content]
    BY Zenon, <1>1, <2>3, ContentKept
  <2> QED BY Zenon, <1>0, <2>2, <2>4 DEF DiskInv
<1> QED BY Zenon, <1>2, <1>3

\* The assignments of log_write and bwrite.
Written(p, v) ==
  /\ buf' = [buf EXCEPT ![b[p]].data = v, ![b[p]].dirty = TRUE]
  /\ last' = [last EXCEPT ![buf[b[p]].blockno] = v]

\* What they put in a buffer is what its block has last.
LEMMA WriteCoherent ==
  ASSUME DiskInv, NEW p \in User, NEW v \in Content, at[p] = "use",
         Written(p, v),
         UNCHANGED <<disk, b, unread, lost>>,
         \A q \in User : at'[q] = "use" => at[q] = "use"
  PROVE  /\ Used' /\ Coherent' /\ last' \in [BlockNo -> Content]
         /\ \A y \in Buf : y # b[p] => buf'[y] = buf[y]
<1> DEFINE x == b[p]
           n == buf[x].blockno
<1>1. x \in Buf /\ n \in BlockNo /\ buf \in [Buf -> Buffers] /\ last \in [BlockNo -> Content]
  BY Zenon, UserTypes DEF DiskInv
<1>2. /\ buf'[x].blockno = n /\ buf'[x].valid = buf[x].valid /\ buf'[x].dirty /\ buf'[x].data = v
      /\ \A y \in Buf : y # x => buf'[y] = buf[y]
  BY Zenon, <1>1 DEF Buffers, Written
<1>3. last' \in [BlockNo -> Content] /\ last'[n] = v /\ \A c \in BlockNo : c # n => last'[c] = last[c]
  BY Zenon, <1>1 DEF Written
<1>4. \A y \in Buf : y # x => buf[y].blockno # n
  BY Zenon, <1>1, BioFacts DEF DiskInv, BioInv, OneBuffer, NoBlock
<1> HIDE DEF x, n
<1>5. Used'
  <2>1. ASSUME NEW q \in User, at'[q] = "use" PROVE buf'[b'[q]].valid
    <3>1. b[q] \in Buf /\ buf[b[q]].valid /\ b'[q] = b[q]
      BY Zenon, <2>1, UserTypes DEF DiskInv, Used
    <3> QED BY Zenon, <1>2, <3>1
  <2>2. ASSUME NEW y \in Buf, buf'[y].dirty
        PROVE  buf'[y].blockno \in BlockNo /\ buf'[y].data = last'[buf'[y].blockno]
    <3>1. CASE y = x
      BY Zenon, <1>1, <1>2, <1>3, <3>1
    <3>2. CASE y # x
      BY <1>2, <1>3, <1>4, <2>2, <3>2 DEF DiskInv, Used
    <3> QED BY Zenon, <3>1, <3>2
  <2> QED BY Zenon, <2>1, <2>2 DEF Used
<1>6. Coherent'
  <2>1. ASSUME NEW y \in Buf, buf'[y].blockno \in BlockNo \ lost', buf'[y].valid, y \notin unread'
        PROVE  buf'[y].data = last'[buf'[y].blockno]
    <3>1. CASE y = x
      BY Zenon, <1>2, <1>3, <3>1
    <3>2. CASE y # x
      BY <1>2, <1>3, <1>4, <2>1, <3>2 DEF DiskInv, Coherent
    <3> QED BY Zenon, <3>1, <3>2
  <2>2. ASSUME NEW c \in BlockNo \ lost', \A y \in Buf : buf'[y].blockno = c => ~buf'[y].dirty
        PROVE  disk'[c] = last'[c]
    <3>1. c # n
      BY Zenon, <1>1, <1>2, <2>2
    <3>2. \A y \in Buf : buf[y].blockno = c => ~buf[y].dirty
      BY Zenon, <1>2, <2>2, <3>1 DEF n
    <3> QED BY Zenon, <1>3, <3>1, <3>2 DEF DiskInv, Coherent
  <2> QED BY Zenon, <2>1, <2>2 DEF Coherent, DiskInv
<1> QED BY Zenon, <1>2, <1>3, <1>5, <1>6 DEF x

\* log_write changes a buffer that is not queued.
LEMMA log_writeCoherent ==
  ASSUME DiskInv, NEW p \in User, NEW v \in Content, log_write(p, v)
  PROVE  DiskInv'
<1>0. BioInv'
  BY Zenon, log_writeKeeps DEF DiskInv
<1>1. /\ at[p] = "use" /\ UNCHANGED <<idequeue, dev, disk, at, b, unread, lost>>
      /\ Written(p, v)
  BY Zenon DEF Uses, log_write, Written
<1>2. /\ Used' /\ Coherent' /\ last' \in [BlockNo -> Content]
      /\ \A y \in Buf : y # b[p] => buf'[y] = buf[y]
  BY Zenon, <1>1, WriteCoherent
<1>3. \A k \in Queued : buf'[idequeue[k]] = buf[idequeue[k]]
  BY Zenon, <1>1, <1>2, NotQueued
<1>4. Owned' /\ Serves'
  BY Zenon, <1>1, <1>3, QueueKept
<1> QED BY Zenon, <1>0, <1>2, <1>4 DEF DiskInv

\* bwrite also queues it.
LEMMA bwriteCoherent ==
  ASSUME DiskInv, NEW p \in User, NEW v \in Content, bwrite(p, v)
  PROVE  DiskInv'
<1>0. BioInv'
  BY Zenon, bwriteKeeps DEF DiskInv
<1>1. /\ at[p] = "use" /\ UNCHANGED <<disk, b, unread, lost>> /\ iderw(p)
      /\ Written(p, v)
  BY Zenon DEF Uses, bwrite, Written
<1>2. \A q \in User : at'[q] = "use" => at[q] = "use"
  BY Zenon, <1>1, UserTypes DEF iderw
<1>3. /\ Used' /\ Coherent' /\ last' \in [BlockNo -> Content]
      /\ \A y \in Buf : y # b[p] => buf'[y] = buf[y]
  BY Zenon, <1>1, <1>2, WriteCoherent
<1>4. Owned' /\ Serves'
  BY Zenon, <1>1, <1>3, iderwServes
<1> QED BY Zenon, <1>0, <1>3, <1>4 DEF DiskInv

\* ideintr ends the first request and starts the second.
LEMMA ideintrServes ==
  ASSUME DiskInv, NEW fails \in BOOLEAN, ideintr(fails)
  PROVE  Owned' /\ Serves'
<1> DEFINE x == idequeue[1]
<1>1. idequeue \in Seq(Buf) /\ idequeue # <<>> /\ Head(idequeue) = x /\ 1 \in Queued /\ x \in Buf
  <2>1. idequeue # <<>>
    BY Zenon DEF ideintr
  <2>2. idequeue \in Seq(Buf)
    BY Zenon DEF DiskInv, BioInv, Typed
  <2> QED BY <2>1, <2>2 DEF Queued
<1>2. /\ idequeue' = Tail(idequeue) /\ dev' = NextCommand /\ b' = b
      /\ at' = Woken(x)
  BY Zenon, <1>1 DEF ideintr
<1>3. /\ Len(idequeue) \in Nat /\ Len(idequeue') = Len(idequeue) - 1
      /\ \A k \in 1 .. Len(idequeue') : k + 1 \in Queued /\ idequeue'[k] = idequeue[k + 1]
  BY <1>1, <1>2 DEF Queued
<1>4. \A k \in 1 .. Len(idequeue') : idequeue'[k] # x
  BY <1>1, <1>3 DEF DiskInv, Owned
<1>5. Owned'
  <2>1. ASSUME NEW j \in 1 .. Len(idequeue'), NEW k \in 1 .. Len(idequeue'), idequeue'[j] = idequeue'[k]
        PROVE  j = k
    <3>1. j + 1 \in Queued /\ k + 1 \in Queued /\ idequeue[j + 1] = idequeue[k + 1]
      BY Zenon, <1>3, <2>1
    <3>2. j + 1 = k + 1
      BY Zenon, <3>1 DEF DiskInv, Owned
    <3> QED BY <1>3, <3>2
  <2>2. ASSUME NEW k \in 1 .. Len(idequeue')
        PROVE  \E q \in User : b'[q] = idequeue'[k] /\ at'[q] = "io"
    <3>1. PICK q \in User : b[q] = idequeue[k + 1] /\ at[q] = "io"
      BY Zenon, <1>3 DEF DiskInv, Owned
    <3>2. b[q] # x
      BY Zenon, <1>3, <1>4, <3>1
    <3> QED BY Zenon, <1>2, <1>3, <3>1, <3>2 DEF Woken
  <2> QED BY Zenon, <2>1, <2>2 DEF Owned, Queued
<1>6. Serves'
  <2>1. CASE Len(idequeue) > 1
    <3>1. idequeue' # <<>> /\ idequeue'[1] = idequeue[2]
      BY <1>1, <1>3, <2>1
    <3> QED BY Zenon, <1>2, <2>1, <3>1 DEF NextCommand, idestart, Serves
  <2>2. CASE ~(Len(idequeue) > 1)
    <3>1. idequeue' = <<>>
      BY <1>1, <1>2, <2>2
    <3> QED BY Zenon, <1>2, <2>2, <3>1 DEF NextCommand, Serves
  <2> QED BY Zenon, <2>1, <2>2
<1> QED BY Zenon, <1>5, <1>6

\* ideintr: a write puts on the disk what was written last; a read gets it.
LEMMA ideintrCoherent ==
  ASSUME DiskInv, NEW fails \in BOOLEAN, ideintr(fails)
  PROVE  Used' /\ Coherent' /\ last' \in [BlockNo -> Content]
<1> DEFINE x == idequeue[1]
           n == buf[x].blockno
<1>1. idequeue \in Seq(Buf) /\ idequeue # <<>> /\ Head(idequeue) = x /\ 1 \in Queued /\ x \in Buf
  <2>1. idequeue # <<>>
    BY Zenon DEF ideintr
  <2>2. idequeue \in Seq(Buf)
    BY Zenon DEF DiskInv, BioInv, Typed
  <2> QED BY <2>1, <2>2 DEF Queued
<1>2. n \in BlockNo /\ buf \in [Buf -> Buffers] /\ disk \in [BlockNo -> Content]
  BY Zenon, <1>1 DEF DiskInv, BioInv, Typed, Queued
<1>3. dev.write = buf[x].dirty /\ dev.blockno = n /\ dev.data = buf[x].data
  BY <1>1 DEF DiskInv, Serves
<1>4. /\ disk' = IF buf[x].dirty /\ ~fails THEN [disk EXCEPT ![n] = buf[x].data] ELSE disk
      /\ b' = b /\ last' = last /\ at' = Woken(x)
      /\ unread' = IF fails /\ ~buf[x].dirty THEN unread \union {x} ELSE unread \ {x}
      /\ lost' = IF ~buf[x].dirty THEN lost ELSE IF fails THEN lost \union {n} ELSE lost \ {n}
  BY Zenon, <1>1, <1>3 DEF ideintr
<1>5. /\ buf'[x].blockno = n /\ buf'[x].valid /\ ~buf'[x].dirty
      /\ buf'[x].data = IF ~buf[x].dirty /\ ~fails THEN disk[n] ELSE buf[x].data
      /\ \A y \in Buf : y # x => buf'[y] = buf[y]
  <2> DEFINE v == IF ~buf[x].dirty /\ ~fails THEN disk[n] ELSE buf[x].data
  <2>1. buf' = [buf EXCEPT ![x].valid = TRUE, ![x].dirty = FALSE, ![x].data = v]
    BY Zenon, <1>1, <1>2, <1>3 DEF ideintr
  <2> HIDE DEF v
  <2>2. /\ buf'[x].blockno = n /\ buf'[x].valid /\ ~buf'[x].dirty /\ buf'[x].data = v
        /\ \A y \in Buf : y # x => buf'[y] = buf[y]
    BY <1>1, <1>2, <2>1 DEF Buffers
  <2> QED BY Zenon, <2>2 DEF v
<1>6. \A y \in Buf : y # x => buf[y].blockno # n
  BY Zenon, <1>1, <1>2, BioFacts DEF DiskInv, BioInv, OneBuffer, NoBlock
<1>7. (buf[x].dirty => buf[x].data = last[n]) /\ (~buf[x].dirty /\ n \notin lost => disk[n] = last[n])
  BY Zenon, <1>1, <1>2, <1>6 DEF DiskInv, Used, Coherent
<1> HIDE DEF x, n
<1>8. Used'
  <2>1. ASSUME NEW q \in User, at'[q] = "use" PROVE buf'[b'[q]].valid
    <3>1. at[q] = "use" /\ b'[q] = b[q] /\ b[q] \in Buf
      BY Zenon, <1>4, <2>1, UserTypes DEF Woken
    <3> QED BY Zenon, <1>5, <3>1 DEF DiskInv, Used
  <2>2. ASSUME NEW y \in Buf, buf'[y].dirty
        PROVE  buf'[y].blockno \in BlockNo /\ buf'[y].data = last'[buf'[y].blockno]
    BY Zenon, <1>4, <1>5, <2>2 DEF DiskInv, Used
  <2> QED BY Zenon, <2>1, <2>2 DEF Used
<1>9. Coherent'
  <2>1. ASSUME NEW y \in Buf, buf'[y].blockno \in BlockNo \ lost', buf'[y].valid, y \notin unread'
        PROVE  buf'[y].data = last'[buf'[y].blockno]
    <3>1. CASE y = x
      BY Zenon, <1>4, <1>5, <1>7, <2>1, <3>1
    <3>2. CASE y # x
      <4>1. y \notin unread /\ buf'[y] = buf[y] /\ buf[y].blockno \in BlockNo \ lost
        BY Zenon, <1>4, <1>5, <1>6, <2>1, <3>2 DEF n
      <4> QED BY Zenon, <1>4, <2>1, <4>1 DEF DiskInv, Coherent
    <3> QED BY Zenon, <3>1, <3>2
  <2>2. ASSUME NEW c \in BlockNo \ lost', \A y \in Buf : buf'[y].blockno = c => ~buf'[y].dirty
        PROVE  disk'[c] = last'[c]
    <3>1. CASE c = n
      BY Zenon, <1>2, <1>4, <1>7, <2>2, <3>1
    <3>2. CASE c # n
      <4>1. disk'[c] = disk[c] /\ c \notin lost
        BY Zenon, <1>2, <1>4, <2>2, <3>2
      <4>2. \A y \in Buf : buf[y].blockno = c => ~buf[y].dirty
        BY Zenon, <1>5, <2>2, <3>2 DEF n
      <4> QED BY Zenon, <1>4, <4>1, <4>2 DEF DiskInv, Coherent
    <3> QED BY Zenon, <3>1, <3>2
  <2>3. lost' \subseteq BlockNo
    BY Zenon, <1>2, <1>4 DEF DiskInv, Coherent
  <2> QED BY Zenon, <2>1, <2>2, <2>3 DEF Coherent
<1> QED BY Zenon, <1>4, <1>8, <1>9 DEF DiskInv

\* Every step keeps the invariant.
LEMMA DiskInvStep == DiskInv /\ [BioNext]_biovars => DiskInv'
<1> SUFFICES ASSUME DiskInv, [BioNext]_biovars PROVE DiskInv'
  OBVIOUS
<1>1. CASE UNCHANGED <<buf, lru, idequeue, dev, disk, at, b, unread, lost, last>>
  <2>1. BioInv'
    BY Zenon, <1>1 DEF DiskInv, BioInv, Typed, OneBuffer, BufferExclusive
  <2>2. Owned' /\ Serves' /\ Used' /\ Coherent'
    BY Zenon, <1>1 DEF DiskInv, Owned, Queued, Serves, Used, Coherent
  <2> QED BY Zenon, <1>1, <2>1, <2>2 DEF DiskInv
<1>2. ASSUME NEW p \in User, NEW blk \in BlockNo, bget(p, blk) PROVE DiskInv'
  BY Zenon, <1>1, <1>2, CachedCoherent, RecycleCoherent DEF MayGet, bget, bgetPanic
<1>3. ASSUME NEW p \in User, BioStep(p) PROVE DiskInv'
  BY Zenon, <1>3, acquiresleepCoherent, breadCoherent, TestCoherent, brelseCoherent DEF BioStep
<1>4. ASSUME NEW p \in User, NEW v \in Content, log_write(p, v) \/ bwrite(p, v) PROVE DiskInv'
  BY Zenon, <1>4, log_writeCoherent, bwriteCoherent
<1>5. ASSUME NEW p \in User, releasesleep(p) PROVE DiskInv'
  BY Zenon, <1>5, releasesleepCoherent
<1>6. ASSUME NEW fails \in BOOLEAN, ideintr(fails) PROVE DiskInv'
  <2>1. BioInv'
    BY Zenon, <1>6, ideintrKeeps DEF DiskInv
  <2>2. Owned' /\ Serves'
    BY Zenon, <1>6, ideintrServes
  <2>3. Used' /\ Coherent' /\ last' \in [BlockNo -> Content]
    BY Zenon, <1>6, ideintrCoherent
  <2> QED BY Zenon, <2>1, <2>2, <2>3 DEF DiskInv
<1> QED BY Zenon, <1>1, <1>2, <1>3, <1>4, <1>5, <1>6 DEF BioNext, biovars

\* The disk works for the first buffer of the queue, with the data the buffer
\* still holds, and every queued buffer is locked by a process that sleeps for it.
THEOREM DiskServesHeadAlways == BioSpec => []DiskServesHead
<1>1. DiskInv => DiskServesHead
  BY Zenon, DiskInvSuffices
<1> QED BY <1>1, DiskInvInit, DiskInvStep, PTL DEF BioSpec

\* Nothing written is lost: neither by reuse of buffers, nor by the order in which
\* processes lock, write and release them and the disk answers.
THEOREM CacheCoherentAlways == BioSpec => []CacheCoherent
<1>1. DiskInv => CacheCoherent
  BY Zenon, DiskInvSuffices
<1> QED BY <1>1, DiskInvInit, DiskInvStep, PTL DEF BioSpec

-----------------------------------------------------------------------------
(* No buffer is lost.                                                      *)

\* The list has every buffer, and bget panicked only when it could take none.
NoneLost ==
  /\ \A x \in Buf : \E k \in Buf : lru[k] = x
  /\ unread \subseteq Buf
  /\ bpanic # "" => bpanic = "bget: no buffers" /\ \A x \in Buf : ~Recyclable(x)

\* Initially the list has the buffers in descending order.
LEMMA NoneLostInit == BioInit => NoneLost
<1> SUFFICES ASSUME BioInit, NEW x \in Buf PROVE \E k \in Buf : lru[k] = x
  BY Zenon DEF BioInit, NoneLost
<1>1. NBUF + 1 - x \in Buf /\ NBUF + 1 - (NBUF + 1 - x) = x
  BY BioFacts DEF Buf
<1>2. lru[NBUF + 1 - x] = NBUF + 1 - (NBUF + 1 - x)
  BY Zenon, <1>1 DEF BioInit
<1> QED BY Zenon, <1>1, <1>2

\* brelse moves a buffer to the front, and the list still has every buffer.
LEMMA ToFrontLists ==
  ASSUME NEW x \in Buf, lru \in [Buf -> Buf], \A y \in Buf : \E k \in Buf : lru[k] = y,
         NEW y \in Buf
  PROVE  \E k \in Buf : ToFront(x)[k] = y
<1> USE DEF ToFront
<1>0. Buf = 1 .. NBUF /\ NBUF \in Nat \ {0}
  BY Zenon, BioFacts DEF Buf
<1>1. CASE y = x
  <2>1. 1 \in Buf /\ ToFront(x)[1] = x
    BY <1>0
  <2> QED BY Zenon, <1>1, <2>1
<1>2. CASE y # x
  <2>1. PICK m \in Buf : lru[m] = y
    OBVIOUS
  <2>2. CASE \E j \in Buf : j > m /\ lru[j] = x
    <3>1. m + 1 \in Buf /\ m + 1 # 1 /\ (m + 1) - 1 = m
      BY <1>0, <2>2
    <3>2. \E j \in Buf : j >= m + 1 /\ lru[j] = x
      BY <1>0, <2>2
    <3>3. ToFront(x)[m + 1] = lru[m]
      BY Zenon, <3>1, <3>2
    <3> QED BY Zenon, <2>1, <3>1, <3>3
  <2>3. CASE ~ \E j \in Buf : j > m /\ lru[j] = x
    <3>1. ~ \E j \in Buf : j >= m /\ lru[j] = x
      BY <1>0, <1>2, <2>1, <2>3
    <3>2. m # 1
      BY <1>0, <3>1
    <3>3. ToFront(x)[m] = lru[m]
      BY Zenon, <3>1, <3>2
    <3> QED BY Zenon, <2>1, <3>3
  <2> QED BY Zenon, <2>2, <2>3
<1> QED BY Zenon, <1>1, <1>2

\* iderw finds the buffer locked by its caller and with something to do.
LEMMA iderwChecks ==
  ASSUME DiskInv, NEW p \in User, at[p] \in {"got", "use"}, iderw(p),
         buf'[b[p]].locked = buf[b[p]].locked, ~buf'[b[p]].valid \/ buf'[b[p]].dirty
  PROVE  bpanic' = ""
<1>1. buf[b[p]].locked = p
  BY Zenon DEF DiskInv, BioInv, BufferExclusive
<1> QED BY Zenon, <1>1 DEF iderw

\* What ideintr serves is a buffer.
LEMMA HeadQueued == DiskInv /\ idequeue # <<>> => Head(idequeue) \in Buf
BY DEF DiskInv, BioInv, Typed

\* Every step keeps all buffers in the list, and only bgetPanic panics.
LEMMA NoneLostStep == DiskInv /\ NoneLost /\ [BioNext]_biovars => NoneLost'
<1> SUFFICES ASSUME DiskInv, NoneLost, [BioNext]_biovars PROVE NoneLost'
  OBVIOUS
<1>0. lru \in [Buf -> Buf] /\ b \in [User -> Buf \union {0}] /\ buf \in [Buf -> Buffers]
  BY Zenon DEF DiskInv, BioInv, Typed
<1>b. ASSUME NEW p \in User, at[p] # "idle" PROVE b[p] \in Buf
  BY Zenon, <1>0, <1>b DEF DiskInv, BioInv, Typed
<1>1. CASE UNCHANGED biovars
  BY Zenon, <1>1 DEF NoneLost, Recyclable, biovars
<1>2. ASSUME UNCHANGED lru, bpanic' = "", unread' \subseteq Buf PROVE NoneLost'
  BY Zenon, <1>2 DEF NoneLost
<1>3. ASSUME NEW p \in User, NEW blk \in BlockNo, bget(p, blk) PROVE NoneLost'
  <2>1. CASE bgetCached(p, blk)
    <3>1. UNCHANGED <<lru, bpanic, unread>> /\ bpanic = ""
      BY Zenon, <2>1 DEF MayGet, bgetCached, Refer
    <3> QED BY Zenon, <1>2, <3>1 DEF NoneLost
  <2>2. CASE bgetRecycle(p, blk)
    <3>1. UNCHANGED <<lru, bpanic>> /\ bpanic = "" /\ unread' \subseteq unread
      BY Zenon, <2>2 DEF MayGet, bgetRecycle, Refer
    <3> QED BY Zenon, <1>2, <3>1 DEF NoneLost
  <2>3. CASE bgetPanic(p, blk)
    <3>1. UNCHANGED <<lru, unread, buf>> /\ bpanic' = "bget: no buffers" /\ \A k \in Buf : ~Recyclable(lru[k])
      BY Zenon, <2>3 DEF MayGet, bgetPanic
    <3>2. \A x \in Buf : ~Recyclable(x)
      BY Zenon, <3>1 DEF NoneLost
    <3> QED BY Zenon, <3>1, <3>2 DEF NoneLost, Recyclable
  <2> QED BY Zenon, <1>3, <2>1, <2>2, <2>3 DEF bget
<1>4. ASSUME NEW p \in User, BioStep(p) PROVE NoneLost'
  <2>1. CASE acquiresleep(p) \/ IderwTest(p)
    <3>1. UNCHANGED <<lru, bpanic, unread>> /\ bpanic = ""
      BY Zenon, <2>1 DEF acquiresleep, IderwTest
    <3> QED BY Zenon, <1>2, <3>1 DEF NoneLost
  <2>2. CASE bread(p)
    <3>1. UNCHANGED <<buf, lru, unread>> /\ bpanic = "" /\ at[p] = "got"
      BY Zenon, <2>2 DEF bread
    <3>2. bpanic' = ""
      <4>1. CASE buf[b[p]].valid
        BY Zenon, <2>2, <4>1 DEF bread
      <4>2. CASE ~buf[b[p]].valid
        BY Zenon, <2>2, <3>1, <4>2, iderwChecks DEF bread
      <4> QED BY Zenon, <4>1, <4>2
    <3> QED BY Zenon, <1>2, <3>1, <3>2 DEF NoneLost
  <2>3. CASE brelse(p)
    <3>1. UNCHANGED <<bpanic, unread>> /\ bpanic = "" /\ (lru' = lru \/ lru' = ToFront(b[p])) /\ b[p] \in Buf
      BY Zenon, <1>b, <2>3 DEF brelse
    <3>2. \A x \in Buf : \E k \in Buf : lru[k] = x
      BY Zenon DEF NoneLost
    <3>3. \A x \in Buf : \E k \in Buf : ToFront(b[p])[k] = x
      BY Zenon, <1>0, <3>1, <3>2, ToFrontLists
    <3>4. \A x \in Buf : \E k \in Buf : lru'[k] = x
      BY Zenon, <3>1, <3>2, <3>3
    <3> QED BY Zenon, <3>1, <3>4 DEF NoneLost
  <2> QED BY Zenon, <1>4, <2>1, <2>2, <2>3 DEF BioStep
<1>5. ASSUME NEW p \in User, NEW v \in Content, log_write(p, v) \/ bwrite(p, v) PROVE NoneLost'
  <2>1. CASE log_write(p, v)
    <3>1. UNCHANGED <<lru, bpanic, unread>> /\ bpanic = ""
      BY Zenon, <2>1 DEF Uses, log_write
    <3> QED BY Zenon, <1>2, <3>1 DEF NoneLost
  <2>2. CASE bwrite(p, v)
    <3>1. UNCHANGED <<lru, unread>> /\ at[p] = "use" /\ iderw(p)
      BY Zenon, <2>2 DEF Uses, bwrite
    <3>2. b[p] \in Buf
      BY Zenon, <1>b, <3>1
    <3>3. buf'[b[p]].locked = buf[b[p]].locked /\ buf'[b[p]].dirty
      BY Zenon, <1>0, <2>2, <3>2 DEF Uses, bwrite, Buffers
    <3>4. bpanic' = ""
      BY Zenon, <3>1, <3>3, iderwChecks
    <3> QED BY Zenon, <1>2, <3>1, <3>4 DEF NoneLost
  <2> QED BY Zenon, <1>5, <2>1, <2>2
<1>6. ASSUME NEW p \in User, releasesleep(p) PROVE NoneLost'
  <2>1. UNCHANGED <<lru, bpanic, unread>> /\ bpanic = ""
    BY Zenon, <1>6 DEF Uses, releasesleep
  <2> QED BY Zenon, <1>2, <2>1 DEF NoneLost
<1>7. ASSUME NEW fails \in BOOLEAN, ideintr(fails) PROVE NoneLost'
  <2>1. UNCHANGED <<lru, bpanic>> /\ bpanic = "" /\ idequeue # <<>>
        /\ (unread' \subseteq unread \/ unread' = unread \union {Head(idequeue)})
    BY Zenon, <1>7 DEF ideintr
  <2>2. Head(idequeue) \in Buf
    BY Zenon, <2>1, HeadQueued
  <2> QED BY Zenon, <1>2, <2>1, <2>2 DEF NoneLost
<1> QED BY Zenon, <1>1, <1>3, <1>4, <1>5, <1>6, <1>7 DEF BioNext

\* The buffers that cannot be taken are dirty ones and buffers of processes.
LEMMA NoneLostSuffices == DiskInv /\ NoneLost => BuffersSuffice
<1> SUFFICES ASSUME DiskInv, NoneLost PROVE BuffersSuffice
  OBVIOUS
<1> DEFINE Dirty == {x \in Buf : buf[x].dirty}
           Busy == {p \in User : at[p] # "idle"}
           Taken == {x \in Buf : \E p \in Busy : b[p] = x}
<1>0. Buf = 1 .. NBUF /\ NBUF \in Nat /\ IsFiniteSet(User)
  BY Zenon, BioFacts DEF Buf
<1>1. IsFiniteSet(Buf) /\ Cardinality(Buf) = NBUF
  <2>1. Cardinality(1 .. NBUF) = NBUF /\ IsFiniteSet(1 .. NBUF)
    BY <1>0, FS_Interval
  <2> QED BY Zenon, <1>0, <2>1
<1>2. IsFiniteSet(Dirty) /\ IsFiniteSet(Taken) /\ IsFiniteSet(Busy)
  BY Zenon, <1>0, <1>1, FS_Subset
<1>3. BioTypeOK
  <2>1. \A x \in Buf : buf[x].refcnt \in 0 .. Cardinality(User)
    <3> SUFFICES ASSUME NEW x \in Buf PROVE buf[x].refcnt \in 0 .. Cardinality(User)
      OBVIOUS
    <3>1. buf[x].refcnt = Cardinality(UsersOf(b, x))
      BY Zenon DEF DiskInv, BioInv, OneBuffer, UsersOf
    <3>2. UsersOf(b, x) \subseteq User
      BY Zenon DEF UsersOf
    <3>3. IsFiniteSet(UsersOf(b, x)) /\ Cardinality(UsersOf(b, x)) <= Cardinality(User)
      BY Zenon, <1>0, <3>2, FS_Subset
    <3>4. Cardinality(UsersOf(b, x)) \in Nat /\ Cardinality(User) \in Nat
      BY Zenon, <1>0, <3>3, FS_CardinalityType
    <3> QED BY <3>1, <3>3, <3>4
  <2>2. buf \in [Buf -> Buffers] /\ lru \in [Buf -> Buf]
    BY Zenon DEF DiskInv, BioInv, Typed
  <2>3. buf \in [Buf -> [blockno : BlockNo \union {NoBlock}, valid : BOOLEAN, dirty : BOOLEAN,
                      refcnt : 0 .. Cardinality(User), locked : User \union {Free}, data : Content]]
    BY Zenon, <2>1, <2>2 DEF Buffers
  <2>4. {lru[k] : k \in Buf} = Buf
    BY Zenon, <2>2 DEF NoneLost
  <2> QED BY Zenon, <2>3, <2>4 DEF BioTypeOK, DiskInv, Coherent, BioInv, Typed, NoneLost
<1>4. ASSUME bpanic # "" PROVE Cardinality(Dirty) + Cardinality(Busy) >= NBUF
  <2>1. Buf = Dirty \union Taken
    <3> SUFFICES ASSUME NEW x \in Buf, ~buf[x].dirty PROVE x \in Taken
      OBVIOUS
    <3>1. buf[x].refcnt # 0 /\ buf[x].refcnt = Cardinality(UsersOf(b, x))
      BY Zenon, <1>4 DEF NoneLost, Recyclable, DiskInv, BioInv, OneBuffer, UsersOf
    <3>2. UsersOf(b, x) # {}
      BY Zenon, <3>1, FS_EmptySet
    <3>3. PICK p \in User : b[p] = x
      BY Zenon, <3>2 DEF UsersOf
    <3>4. b[p] # 0
      BY <1>0, <3>3
    <3> QED BY Zenon, <3>3, <3>4 DEF DiskInv, BioInv, Typed
  <2>2. Cardinality(Taken) <= Cardinality(Busy)
    <3> DEFINE f == [p \in Busy |-> b[p]]
    <3>1. \A p \in Busy : b[p] \in Buf
      BY Zenon DEF DiskInv, BioInv, Typed
    <3>2. f \in Surjection(Busy, Taken)
      BY Zenon, <3>1 DEF Surjection
    <3> QED BY Zenon, <1>2, <3>2, FS_Surjection
  <2>3. NBUF = Cardinality(Dirty) + Cardinality(Taken) - Cardinality(Dirty \intersect Taken)
    BY Zenon, <1>1, <1>2, <2>1, FS_Union
  <2>4. IsFiniteSet(Dirty \intersect Taken)
    BY Zenon, <1>2, FS_Intersection
  <2>5. {Cardinality(Dirty), Cardinality(Taken), Cardinality(Busy), Cardinality(Dirty \intersect Taken)} \subseteq Nat
    BY Zenon, <1>2, <2>4, FS_CardinalityType
  <2> HIDE DEF Dirty, Busy, Taken
  <2> QED BY <1>0, <2>2, <2>3, <2>5
<1> QED BY Zenon, <1>3, <1>4 DEF BuffersSuffice, NoneLost

\* bget runs out of buffers only when dirty ones and those of other processes are
\* as many as there are, and iderw never panics.
THEOREM BuffersSufficeAlways == BioSpec => []BuffersSuffice
BY DiskInvInit, DiskInvStep, NoneLostInit, NoneLostStep, NoneLostSuffices, PTL DEF BioSpec

==============================================================================
