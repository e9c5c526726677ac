------------------------------- MODULE Blocks --------------------------------
(***************************************************************************)
(* The contents of files: the block bitmap, an inode's direct and indirect *)
(* blocks, readi and writei (fs.c), and read, write and change_file_size   *)
(* on open files (file.c).                                                 *)
(*                                                                         *)
(* A unit of data is as large as a block number, so that an indirect block *)
(* holds BSIZE of them.  What is done with the inode locked is one step;   *)
(* filewrite() gives the lock up between the chunks it writes.             *)
(***************************************************************************)
EXTENDS Integers, Sequences, SequencesExt

CONSTANTS
  Inum, OpenFile, Writer,
  nblocks,      \* data blocks on the disk
  BSIZE,        \* units in a block
  NDIRECT,
  BPB,          \* blocks per block of the bitmap
  MAXOPBLOCKS,
  Value,        \* data written, all units of a write alike
  Counts,       \* numbers of units read and written
  Lengths,      \* arguments of change_file_size
  MaxCalls      \* bound: the number of calls

NINDIRECT == BSIZE
MAXFILE == NDIRECT + NINDIRECT
Block == 1 .. nblocks

ASSUME BlocksAssumption ==
  /\ {BSIZE, NDIRECT, BPB, nblocks} \subseteq Nat \ {0}
  /\ MAXOPBLOCKS \in Nat /\ MAXOPBLOCKS >= 6
  /\ 0 \notin Value /\ Counts \subseteq Nat \ {0} /\ Lengths \subseteq Nat
  /\ MaxCalls \in Nat

VARIABLES
  fs,      \* bitmap, blocks, cached inodes and inodes on disk; the log of the last step
  open,    \* open file -> [ip, off], ip = 0 when closed
  w,       \* writer -> [f, v, left]: its filewrite() in progress, left = 0 if none
  got,     \* what the last read returned
  bcalls   \* calls so far

blockvars == <<fs, open, w, got, bcalls>>

Zeros == [k \in 0 .. BSIZE - 1 |-> 0]
NoFile == [size |-> 0, addrs |-> [k \in 0 .. NDIRECT |-> 0]]
Closed == [ip |-> 0, off |-> 0]
Done == [f |-> 0, v |-> 0, left |-> 0]

BlocksInit ==
  /\ fs = [used |-> {}, data |-> [b \in Block |-> Zeros], ino |-> [i \in Inum |-> NoFile],
           dino |-> [i \in Inum |-> NoFile], log |-> {}, panic |-> ""]
  /\ open = [f \in OpenFile |-> Closed]
  /\ w = [p \in Writer |-> Done]
  /\ got = <<>>
  /\ bcalls = 0

-----------------------------------------------------------------------------
(* Operators from one file system state to the next.                       *)

log_write(s, x) == [s EXCEPT !.log = @ \union {x}]

\* The bitmap block of b.
BBLOCK(b) == <<"map", b \div BPB>>

bzero(s, b) == log_write([s EXCEPT !.data[b] = Zeros], <<"data", b>>)

\* balloc: the first free block, zeroed.  The block is in at.
balloc(s) ==
  LET free == Block \ s.used
      b == CHOOSE x \in free : \A y \in free : x <= y
  IN IF free = {} THEN [s |-> [s EXCEPT !.panic = "balloc: out of blocks"], at |-> 1]
     ELSE [s |-> bzero(log_write([s EXCEPT !.used = @ \union {b}], BBLOCK(b)), b), at |-> b]

\* Mutant: the block stays marked.
bfreeKeeps(s, b) == log_write(s, BBLOCK(b))

bfree(s, b) ==
  IF b \notin s.used THEN [s EXCEPT !.panic = "freeing free block"]
  ELSE log_write([s EXCEPT !.used = @ \ {b}], BBLOCK(b))

iupdate(s, i) == log_write([s EXCEPT !.dino[i] = s.ino[i]], <<"inode", i>>)

\* bmap: the block at of the bn-th block of inode i, allocated if need be.
bmap(s, i, bn) ==
  LET entry == IF bn < NDIRECT THEN bn ELSE NDIRECT
      addr == s.ino[i].addrs[entry]
      a == IF addr = 0 THEN balloc(s) ELSE [s |-> s, at |-> addr]
      s1 == [a.s EXCEPT !.ino[i].addrs[entry] = a.at]
      k == bn - NDIRECT
      b == balloc(s1)
  IN CASE bn >= MAXFILE -> [s |-> [s EXCEPT !.panic = "bmap: out of range"], at |-> 1]
       [] bn < NDIRECT -> [s |-> s1, at |-> a.at]
       [] OTHER ->
            IF s1.data[a.at][k] # 0 THEN [s |-> s1, at |-> s1.data[a.at][k]]
            ELSE [s |-> log_write([b.s EXCEPT !.data[a.at][k] = b.at], <<"data", a.at>>),
                  at |-> b.at]

\* The indirect block of inode i.
Indirect(s, i) == {s.ino[i].addrs[NDIRECT]} \ {0}

\* itrunc: free all blocks of inode i.
itrunc(s, i) ==
  LET direct == {s.ino[i].addrs[k] : k \in 0 .. NDIRECT - 1} \ {0}
      inner == UNION {{s.data[b][k] : k \in 0 .. NINDIRECT - 1} \ {0} : b \in Indirect(s, i)}
      freed == FoldLeft(bfree, s, SetToSeq(direct \union inner) \o SetToSeq(Indirect(s, i)))
  IN iupdate([freed EXCEPT !.ino[i] = NoFile], i)

\* The blocks that n units at off lie in.
Touched(off, n) == [j \in 1 .. (off + n - 1) \div BSIZE - off \div BSIZE + 1 |-> off \div BSIZE + j - 1]

\* readi: at the end of the file fewer units are read.  The units are in units.
readi(s, i, off, n) ==
  LET size == s.ino[i].size
      m == IF off + n > size THEN size - off ELSE n
      look(acc, bn) ==
        LET x == bmap(acc.s, i, bn)
            from == IF bn * BSIZE < off THEN off % BSIZE ELSE 0
            to == IF (bn + 1) * BSIZE > off + m THEN (off + m - 1) % BSIZE ELSE BSIZE - 1
        IN [s |-> x.s, units |-> acc.units \o [k \in 1 .. to - from + 1 |-> x.s.data[x.at][from + k - 1]]]
  IN IF off > size \/ m = 0 THEN [s |-> s, units |-> <<>>]
     ELSE FoldLeft(look, [s |-> s, units |-> <<>>], Touched(off, m))

\* What writei refuses.
Refused(s, i, off, n) == off > s.ino[i].size \/ off + n > MAXFILE * BSIZE

\* writei of n units v.
writei(s, i, off, n, v) ==
  LET put(acc, bn) ==
        LET x == bmap(acc, i, bn) IN
        log_write([x.s EXCEPT !.data[x.at] =
                     [k \in DOMAIN @ |-> IF bn * BSIZE + k \in off .. off + n - 1 THEN v ELSE @[k]]],
                  <<"data", x.at>>)
      s1 == FoldLeft(put, s, Touched(off, n))
  IN IF Refused(s, i, off, n) THEN s
     ELSE IF off + n > s.ino[i].size THEN iupdate([s1 EXCEPT !.ino[i].size = off + n], i)
     ELSE s1

\* Mutant: zeros are written from the start of the last block.
OldSizeDown(s, i) == (s.ino[i].size \div BSIZE) * BSIZE

\* Where change_file_size begins to write zeros.
OldSize(s, i) == s.ino[i].size

\* change_file_size: zeros are written block by block, whatever writei returns.
SetSize(s, i, length) ==
  LET from == OldSize(s, i)
      steps == IF length > from THEN (length - from + BSIZE - 1) \div BSIZE ELSE 0
      pad(acc, j) ==
        LET at == from + (j - 1) * BSIZE IN
        writei(acc, i, at, IF length - at > BSIZE THEN BSIZE ELSE length - at, 0)
      grown == FoldLeft(pad, s, [j \in 1 .. steps |-> j])
  IN IF length = s.ino[i].size THEN s
     ELSE iupdate([grown EXCEPT !.ino[i].size = length], i)

-----------------------------------------------------------------------------
(* Operations on files.                                                    *)

\* A call begins, and a step is logged from nothing.
Call == fs.panic = "" /\ bcalls < MaxCalls /\ bcalls' = bcalls + 1
Fresh == [fs EXCEPT !.log = {}]

\* The kernel stops at a panic; what it was doing is lost.
Outcome(s) == IF s.panic = "" THEN s ELSE [Fresh EXCEPT !.panic = s.panic]

Open(f, i) ==
  /\ Call /\ open[f].ip = 0
  /\ open' = [open EXCEPT ![f] = [ip |-> i, off |-> 0]]
  /\ UNCHANGED <<fs, w, got>>

Close(f) ==
  /\ Call /\ open[f].ip # 0
  /\ \A p \in Writer : w[p].left = 0 \/ w[p].f # f
  /\ open' = [open EXCEPT ![f] = Closed]
  /\ UNCHANGED <<fs, w, got>>

\* iput of the last reference to a file without a name, and its next life.
FreeFile(i) ==
  /\ Call /\ \A f \in OpenFile : open[f].ip # i
  /\ fs' = Outcome(itrunc(Fresh, i))
  /\ UNCHANGED <<open, w, got>>

\* fileread.
fileread(f, n) ==
  LET i == open[f].ip
      r == readi(Fresh, i, open[f].off, n)
  IN /\ Call /\ i # 0
     /\ fs' = Outcome(r.s)
     /\ IF r.s.panic = "" /\ r.units # <<>>
        THEN got' = r.units /\ open' = [open EXCEPT ![f].off = @ + Len(r.units)]
        ELSE UNCHANGED <<got, open>>
     /\ UNCHANGED w

\* filewrite: the call.
WriteStart(p, f, n, v) ==
  /\ Call /\ w[p].left = 0 /\ open[f].ip # 0
  /\ w' = [w EXCEPT ![p] = [f |-> f, v |-> v, left |-> n]]
  /\ UNCHANGED <<fs, open, got>>

\* Mutant: room for one more block in a transaction.
maxMore == ((MAXOPBLOCKS - 1 - 1) \div 2) * BSIZE

\* "write a few blocks at a time to avoid exceeding the maximum log transaction size"
max == ((MAXOPBLOCKS - 1 - 1 - 2) \div 2) * BSIZE

\* filewrite: one turn of its loop, in a transaction of its own.
WriteChunk(p) ==
  LET f == w[p].f
      i == open[f].ip
      n == IF w[p].left > max THEN max ELSE w[p].left
  IN /\ fs.panic = "" /\ w[p].left > 0
     /\ IF Refused(fs, i, open[f].off, n)
        THEN /\ fs' = Fresh
             /\ w' = [w EXCEPT ![p] = Done]
             /\ UNCHANGED open
        ELSE /\ fs' = Outcome(writei(Fresh, i, open[f].off, n, w[p].v))
             /\ IF fs'.panic = ""
                THEN /\ open' = [open EXCEPT ![f].off = @ + n]
                     /\ w' = [w EXCEPT ![p] = IF @.left = n THEN Done ELSE [@ EXCEPT !.left = @ - n]]
                ELSE UNCHANGED <<open, w>>
     /\ UNCHANGED <<got, bcalls>>

change_file_size(i, length) ==
  /\ Call
  /\ fs' = Outcome(SetSize(Fresh, i, length))
  /\ UNCHANGED <<open, w, got>>

BlocksNext ==
  \/ \E f \in OpenFile, i \in Inum : Open(f, i)
  \/ \E f \in OpenFile : Close(f) \/ \E n \in Counts : fileread(f, n)
  \/ \E i \in Inum : FreeFile(i) \/ \E length \in Lengths : change_file_size(i, length)
  \/ \E p \in Writer : \E f \in OpenFile, n \in Counts, v \in Value : WriteStart(p, f, n, v)
  \/ \E p \in Writer : WriteChunk(p)

BlocksSpec == BlocksInit /\ [][BlocksNext]_blockvars

-----------------------------------------------------------------------------
(* Properties.                                                             *)

BlocksTypeOK ==
  /\ fs.used \subseteq Block
  /\ fs.data \in [Block -> [0 .. BSIZE - 1 -> Value \union {0} \union Block]]
  /\ {fs.ino, fs.dino} \subseteq [Inum -> [size : Nat, addrs : [0 .. NDIRECT -> Block \union {0}]]]
  /\ open \in [OpenFile -> [ip : Inum \union {0}, off : 0 .. MAXFILE * BSIZE]]
  /\ w \in [Writer -> [f : OpenFile \union {0}, v : Value \union {0}, left : Nat]]
  /\ bcalls \in 0 .. MaxCalls

\* The places in inodes and indirect blocks that hold block b.
Uses(b) ==
  {x \in Inum \X (0 .. NDIRECT) : fs.ino[x[1]].addrs[x[2]] = b}
  \union {x \in Inum \X (NDIRECT + 1 .. MAXFILE) :
            \E a \in Indirect(fs, x[1]) : fs.data[a][x[2] - NDIRECT - 1] = b}

\* The bitmap and the inodes agree after every operation: a block in use is in
\* one file at one place, every other block is free, and an inode nobody has
\* locked is on disk as it is in the cache.  This holds however files are written,
\* shrunk, grown, removed and made again.  So the panics of bfree and filewrite
\* are not reached, and bmap's only by a size that change_file_size set beyond
\* MAXFILE.
BlocksAccounted ==
  /\ BlocksTypeOK
  /\ \A b \in Block : Cardinality(Uses(b)) = IF b \in fs.used THEN 1 ELSE 0
  /\ fs.dino = fs.ino
  /\ fs.panic \in {"", "balloc: out of blocks", "bmap: out of range"}
  /\ fs.panic = "bmap: out of range" => \E i \in Inum : fs.ino[i].size > MAXFILE * BSIZE

\* MAXOPBLOCKS is the "max # of blocks any FS op writes": a turn of filewrite's
\* loop writes that many different blocks at most, even if every block it
\* allocates has its bit in another block of the bitmap.
OpFits ==
  [][Cardinality(fs'.log) <= MAXOPBLOCKS \/ ~\E p \in Writer : WriteChunk(p)]_blockvars

\* The unit at place k of inode i, as readi would find it.
UnitAt(i, k) ==
  IF k >= fs.ino[i].size THEN 0
  ELSE LET bn == k \div BSIZE
           a == IF bn < NDIRECT THEN fs.ino[i].addrs[bn]
                ELSE fs.data[fs.ino[i].addrs[NDIRECT]][bn - NDIRECT]
       IN fs.data[a][k % BSIZE]

Abstract == INSTANCE AtomicFile WITH
  Unit <- Value \union {0}, Limit <- MAXFILE * BSIZE,
  size <- [i \in Inum |-> fs.ino[i].size],
  unit <- [i \in Inum |-> [k \in 0 .. MAXFILE * BSIZE - 1 |-> UnitAt(i, k)]],
  ip <- [f \in OpenFile |-> open[f].ip], off <- [f \in OpenFile |-> open[f].off]

\* Read, write, change_file_size and removal act on a file as on a row of units,
\* whatever blocks it lies in and whatever these held before: a write changes
\* its units and no others, new units are 0, and a read returns what is there.
ImplementsAtomicFile == Abstract!FileSpec

==============================================================================
