--------------------------------- MODULE Bio ---------------------------------
(***************************************************************************)
(* The buffer cache (bio.c), its sleep-locks (sleeplock.c) and the disk    *)
(* driver (ide.c), with the users of buffers: bread, then any number of    *)
(* changes kept for the log (log_write) or written (bwrite), then brelse.  *)
(* A process has up to two buffers: bmap and itrunc keep the indirect      *)
(* block while balloc and bfree use the bitmap, and the log copies one     *)
(* block to another.                                                       *)
(*                                                                         *)
(* A section under a spinlock is a step.  sleep() gives its lock up and    *)
(* goes to sleep in one step, and a wakeup makes the sleeper test again.   *)
(***************************************************************************)
EXTENDS Integers, Sequences, FiniteSets

CONSTANTS
  BioProc,     \* processes
  NBUF,
  BlockNo,
  Pairs,       \* <<blk1, blk2>>: a process that has blk1 gets blk2 as well
  Content,     \* what a block holds
  BadBlock,    \* the blocks of which the disk may fail to read or write one
  MaxPinned    \* bound: blocks that the log keeps in the cache

\* A process's first buffer and its second one.
User == BioProc \X {1, 2}
Other(p) == <<p[1], 3 - p[2]>>

Buf == 1 .. NBUF
NoBlock == 0
Free == <<>>   \* no process has the sleep-lock

ASSUME BioAssumption ==
  /\ NBUF \in Nat \ {0}
  /\ IsFiniteSet(BioProc)
  /\ BlockNo \subseteq Nat \ {0} /\ 0 \in Content
  /\ \A pair \in Pairs : pair[1] # pair[2]
  /\ MaxPinned \in Nat

VARIABLES
  buf,      \* buffer -> [blockno, valid, dirty, refcnt, locked, data]
  lru,      \* the buffers, most recently used first
  idequeue, \* buffers waiting for the disk; the first is being served
  dev,      \* the command the disk executes: [write, blockno, data]
  disk,     \* block -> content
  at,       \* user -> where it is with this buffer
  b,        \* user -> the buffer, 0 if none
  unread,   \* buffers made valid by a read that failed
  lost,     \* blocks of which the last write failed
  last,     \* block -> what a user put there last
  bpanic

biovars == <<buf, lru, idequeue, dev, disk, at, b, unread, lost, last, bpanic>>

NoCommand == [write |-> FALSE, blockno |-> NoBlock, data |-> 0]

\* binit: the list is built from the front.
BioInit ==
  /\ buf = [x \in Buf |-> [blockno |-> NoBlock, valid |-> FALSE, dirty |-> FALSE, refcnt |-> 0,
                           locked |-> Free, data |-> 0]]
  /\ lru = [k \in Buf |-> NBUF + 1 - k]
  /\ idequeue = <<>> /\ dev = NoCommand
  /\ disk = [blk \in BlockNo |-> 0] /\ last = disk
  /\ at = [p \in User |-> "idle"]
  /\ b = [p \in User |-> 0]
  /\ unread = {} /\ lost = {} /\ bpanic = ""

-----------------------------------------------------------------------------
\* Mutant: a buffer is used for one block only.
RecyclableOnce(x) == buf[x].refcnt = 0 /\ buf[x].blockno = NoBlock

\* Mutant: a dirty buffer may be reused.
RecyclableDirty(x) == buf[x].refcnt = 0

\* "Even if refcnt==0, B_DIRTY indicates a buffer is in use because log.c has
\* modified it but not yet committed it."
Recyclable(x) == buf[x].refcnt = 0 /\ ~buf[x].dirty

\* p gets a reference to buffer x.
Refer(p, x) ==
  /\ b' = [b EXCEPT ![p] = x]
  /\ at' = [at EXCEPT ![p] = "lock"]
  /\ UNCHANGED <<lru, idequeue, dev, disk, lost, last, bpanic>>

\* The process gets a first buffer, or a second one while it has the first.
MayGet(p, blk) ==
  /\ at[p] = "idle"
  /\ IF p[2] = 1 THEN at[Other(p)] = "idle"
     ELSE at[Other(p)] = "use" /\ <<buf[b[Other(p)]].blockno, blk>> \in Pairs

\* The process works on this buffer, not in a function about the other one.
Uses(p) == at[p] = "use" /\ at[Other(p)] \in {"idle", "use"}

\* bget, up to the sleep-lock: the block is in the cache.
bgetCached(p, blk) ==
  /\ bpanic = "" /\ MayGet(p, blk)
  /\ \E x \in Buf :
       /\ buf[x].blockno = blk
       /\ buf' = [buf EXCEPT ![x].refcnt = @ + 1]
       /\ Refer(p, x)
  /\ UNCHANGED unread

\* bget: it is not, and the buffer that was used least recently is taken.
bgetRecycle(p, blk) ==
  /\ bpanic = "" /\ MayGet(p, blk)
  /\ \A x \in Buf : buf[x].blockno # blk
  /\ \E k \in Buf :
       /\ Recyclable(lru[k]) /\ \A j \in Buf : j > k => ~Recyclable(lru[j])
       /\ buf' = [buf EXCEPT ![lru[k]] = [@ EXCEPT !.blockno = blk, !.valid = FALSE,
                                                    !.dirty = FALSE, !.refcnt = 1]]
       /\ unread' = unread \ {lru[k]}
       /\ Refer(p, lru[k])

\* bget: no buffer can be taken.
bgetPanic(p, blk) ==
  /\ bpanic = "" /\ MayGet(p, blk)
  /\ \A x \in Buf : buf[x].blockno # blk
  /\ \A k \in Buf : ~Recyclable(lru[k])
  /\ bpanic' = "bget: no buffers"
  /\ UNCHANGED <<buf, lru, idequeue, dev, disk, at, b, unread, lost, last>>

bget(p, blk) == bgetCached(p, blk) \/ bgetRecycle(p, blk) \/ bgetPanic(p, blk)

\* Mutant: the lock is taken from whoever has it.
LockedNever(x) == FALSE

\* lk->locked.
Locked(x) == buf[x].locked # Free

\* acquiresleep: take the lock or sleep on it.
acquiresleep(p) ==
  /\ bpanic = "" /\ at[p] = "lock"
  /\ IF Locked(b[p])
     THEN at' = [at EXCEPT ![p] = "lockwait"] /\ UNCHANGED buf
     ELSE /\ buf' = [buf EXCEPT ![b[p]].locked = p]
          /\ at' = [at EXCEPT ![p] = "got"]
  /\ UNCHANGED <<lru, idequeue, dev, disk, b, unread, lost, last, bpanic>>

\* idestart: the disk gets the command and, for a write, the data.
idestart(x) == [write |-> buf'[x].dirty, blockno |-> buf'[x].blockno, data |-> buf'[x].data]

\* iderw: p's buffer goes to the end of the queue, the disk is started if it was
\* idle, and p sleeps.
iderw(p) ==
  /\ bpanic' = CASE buf'[b[p]].locked # p -> "iderw: buf not locked"
                 [] buf'[b[p]].valid /\ ~buf'[b[p]].dirty -> "iderw: nothing to do"
                 [] OTHER -> ""
  /\ idequeue' = Append(idequeue, b[p])
  /\ dev' = IF idequeue = <<>> THEN idestart(b[p]) ELSE dev
  /\ at' = [at EXCEPT ![p] = "io"]

\* bread, once the buffer is locked.
bread(p) ==
  /\ bpanic = "" /\ at[p] = "got"
  /\ UNCHANGED buf
  /\ IF buf[b[p]].valid
     THEN at' = [at EXCEPT ![p] = "use"] /\ UNCHANGED <<idequeue, dev, bpanic>>
     ELSE iderw(p)
  /\ UNCHANGED <<lru, disk, b, unread, lost, last>>

\* iderw: woken up, p tests the flags.
IderwTest(p) ==
  /\ bpanic = "" /\ at[p] = "woken"
  /\ at' = [at EXCEPT ![p] = IF buf[b[p]].valid /\ ~buf[b[p]].dirty THEN "use" ELSE "io"]
  /\ UNCHANGED <<buf, lru, idequeue, dev, disk, b, unread, lost, last, bpanic>>

\* A user changes the block and calls log_write, which makes the buffer dirty.
log_write(p, v) ==
  /\ bpanic = "" /\ Uses(p)
  /\ Cardinality({x \in Buf : buf[x].dirty} \union {b[p]}) <= MaxPinned
  /\ last' = [last EXCEPT ![buf[b[p]].blockno] = v]
  /\ buf' = [buf EXCEPT ![b[p]].data = v, ![b[p]].dirty = TRUE]
  /\ UNCHANGED <<lru, idequeue, dev, disk, at, b, unread, lost, bpanic>>

\* bwrite, of new data or of what log_write kept.
bwrite(p, v) ==
  /\ bpanic = "" /\ Uses(p)
  /\ last' = [last EXCEPT ![buf[b[p]].blockno] = v]
  /\ buf' = [buf EXCEPT ![b[p]].data = v, ![b[p]].dirty = TRUE]
  /\ iderw(p)
  /\ UNCHANGED <<lru, disk, b, unread, lost>>

\* Mutant: the disk is not started for the next buffer.
NextCommandNone == NoCommand

\* ideintr starts the next buffer of the queue.
NextCommand == IF Len(idequeue) > 1 THEN idestart(idequeue[2]) ELSE NoCommand

\* Mutant: nobody is woken up.
WokenNone(x) == at

\* wakeup(b) in ideintr.
Woken(x) == [p \in User |-> IF at[p] = "io" /\ b[p] = x THEN "woken" ELSE at[p]]

\* ideintr: the first request is done.  A read that failed leaves the data; the
\* status of a write is not looked at.
ideintr(fails) ==
  LET x == Head(idequeue)
      read == ~buf[x].dirty
  IN /\ bpanic = "" /\ idequeue # <<>> /\ dev # NoCommand
     /\ fails => dev.blockno \in BadBlock
     /\ disk' = IF dev.write /\ ~fails THEN [disk EXCEPT ![dev.blockno] = dev.data] ELSE disk
     /\ buf' = [buf EXCEPT ![x].valid = TRUE, ![x].dirty = FALSE,
                           ![x].data = IF read /\ ~fails THEN disk[dev.blockno] ELSE @]
     /\ unread' = IF fails /\ read THEN unread \union {x} ELSE unread \ {x}
     /\ lost' = IF ~dev.write THEN lost
                ELSE IF fails THEN lost \union {dev.blockno} ELSE lost \ {dev.blockno}
     /\ idequeue' = Tail(idequeue)
     /\ dev' = NextCommand
     /\ at' = Woken(x)
     /\ UNCHANGED <<lru, b, last, bpanic>>

\* brelse: releasesleep wakes all who wait for the lock.
releasesleep(p) ==
  /\ bpanic = "" /\ Uses(p)
  /\ buf' = [buf EXCEPT ![b[p]].locked = Free]
  /\ at' = [q \in User |-> IF q = p THEN "release"
                           ELSE IF at[q] = "lockwait" /\ b[q] = b[p] THEN "lock" ELSE at[q]]
  /\ UNCHANGED <<lru, idequeue, dev, disk, b, unread, lost, last, bpanic>>

\* Mutant: a buffer that others wait for counts as unused.
LeftZero(x) == 0

\* The references that are left when one is dropped.
Left(x) == buf[x].refcnt - 1

\* "Move to the head of the MRU list."
ToFront(x) ==
  [k \in Buf |-> IF k = 1 THEN x
                 ELSE IF \E j \in Buf : j >= k /\ lru[j] = x THEN lru[k - 1] ELSE lru[k]]

\* brelse: drop the reference; an unused buffer becomes the most recently used.
brelse(p) ==
  /\ bpanic = "" /\ at[p] = "release"
  /\ buf' = [buf EXCEPT ![b[p]].refcnt = Left(b[p])]
  /\ lru' = IF Left(b[p]) = 0 THEN ToFront(b[p]) ELSE lru
  /\ at' = [at EXCEPT ![p] = "idle"]
  /\ b' = [b EXCEPT ![p] = 0]
  /\ UNCHANGED <<idequeue, dev, disk, unread, lost, last, bpanic>>

\* A step of p inside bread, bwrite or brelse.
BioStep(p) == acquiresleep(p) \/ bread(p) \/ IderwTest(p) \/ brelse(p)

BioNext ==
  \/ \E p \in User :
       \/ \E blk \in BlockNo : bget(p, blk)
       \/ BioStep(p)
       \/ \E v \in Content : log_write(p, v) \/ bwrite(p, v)
       \/ releasesleep(p)
  \/ \E fails \in BOOLEAN : ideintr(fails)

BioSpec == BioInit /\ [][BioNext]_biovars

\* Processes run on inside these functions, and the disk answers.
BioFairness ==
  /\ \A q \in BioProc : WF_biovars(\E k \in {1, 2} : BioStep(<<q, k>>))
  /\ WF_biovars(\E fails \in BOOLEAN : ideintr(fails))

-----------------------------------------------------------------------------
(* Properties.                                                             *)

BioTypeOK ==
  /\ buf \in [Buf -> [blockno : BlockNo \union {NoBlock}, valid : BOOLEAN, dirty : BOOLEAN,
                      refcnt : 0 .. Cardinality(User), locked : User \union {Free}, data : Content]]
  /\ {lru[k] : k \in Buf} = Buf
  /\ idequeue \in Seq(Buf)
  /\ disk \in [BlockNo -> Content]
  /\ b \in [User -> Buf \union {0}]
  /\ unread \subseteq Buf /\ lost \subseteq BlockNo
  /\ last \in [BlockNo -> Content]

\* A block is in one buffer at most, and the buffer of a user stays the buffer of
\* its block: bget never gives a buffer away that a process has, waits for, or
\* was given and has not locked yet.
OneBuffer ==
  /\ \A x, y \in Buf : buf[x].blockno = buf[y].blockno /\ x # y => buf[x].blockno = NoBlock
  /\ \A x \in Buf : buf[x].refcnt = Cardinality({p \in User : b[p] = x})

\* "Only one process at a time can use a buffer": from acquiresleep to
\* releasesleep it has the sleep-lock, also while it waits for the disk.
BufferExclusive == \A p \in User : at[p] \in {"got", "io", "woken", "use"} => buf[b[p]].locked = p

\* Nothing written is lost: what is valid in the cache is what a user put in the
\* block last, and so is what is on the disk unless a dirty buffer has it; except
\* after a read or a write that failed, which ideintr takes for a good one.
CacheCoherent ==
  \A blk \in BlockNo \ lost :
    LET cached == {x \in Buf : buf[x].blockno = blk} IN
    /\ \A x \in cached : buf[x].valid /\ x \notin unread => buf[x].data = last[blk]
    /\ (\A x \in cached : ~buf[x].dirty) => disk[blk] = last[blk]

\* The disk works for the first buffer of the queue, whose owner sleeps in iderw
\* with the buffer locked, and it was given what the buffer still holds.
DiskServesHead ==
  /\ dev # NoCommand <=> idequeue # <<>>
  /\ \A k \in DOMAIN idequeue :
       \E p \in User : b[p] = idequeue[k] /\ at[p] = "io" /\ buf[b[p]].locked = p
  /\ idequeue # <<>> =>
       LET h == buf[Head(idequeue)] IN dev = [write |-> h.dirty, blockno |-> h.blockno, data |-> h.data]

\* bget panics only when the log's blocks and the buffers that processes have or
\* wait for, up to two each, fill the cache: no buffer is ever lost to the list
\* that bget searches.
BuffersSuffice ==
  /\ BioTypeOK
  /\ bpanic # "" =>
       /\ bpanic = "bget: no buffers"
       /\ Cardinality({x \in Buf : buf[x].dirty}) + Cardinality({p \in User : at[p] # "idle"}) >= NBUF

\* A process that sleeps for the disk gets on: it is never for ever in iderw,
\* however often it is woken up and tests the flags of its buffer.
IoEnds ==
  \A q \in BioProc : []<>((\A k \in {1, 2} : at[<<q, k>>] \notin {"io", "woken"}) \/ bpanic # "")

==============================================================================
