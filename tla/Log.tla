--------------------------------- MODULE Log ---------------------------------
(***************************************************************************)
(* The write-ahead log of xv6/log.c, with crashes.                         *)
(*                                                                         *)
(* Several processes are between begin_op() and end_op() at a time.  Each  *)
(* changes blocks in the buffer cache and reports them to log_write().     *)
(* The end_op() that leaves no operation in progress commits: it copies    *)
(* the blocks to the log, writes the header, copies the blocks to their    *)
(* home locations, and clears the header.  Every write of a block to the   *)
(* disk is a step of its own, and the machine may crash between any two    *)
(* steps, also while it recovers.  The write of one block is atomic: a     *)
(* block is one sector (BSIZE is 512).                                     *)
(*                                                                         *)
(* Of the buffer cache the module keeps the contents, the dirty flag that  *)
(* pins a buffer, and the sleep-lock of a buffer that is being changed.  A *)
(* buffer neither pinned nor locked may be recycled and read again.        *)
(* panic() stops the process that calls it, with what it has locked; the   *)
(* other processors go on until they next print something.                 *)
(*                                                                         *)
(* The log has a header and nlog - 1 blocks on disk, and mkfs makes nlog   *)
(* equal to LOGSIZE: one block fewer than the header has entries.  The     *)
(* block after the log is the first block of inodes.  A commit of nlog     *)
(* blocks writes over it; overrun keeps whether a header has had as many.  *)
(***************************************************************************)
EXTENDS Integers, Sequences, FiniteSets

CONSTANTS
  Proc,          \* the processes that make file system calls
  Block,         \* the blocks of the file system
  Data,          \* the contents of a block
  MAXOPBLOCKS,   \* the number of blocks an operation may write
  LOGSIZE,       \* the number of entries in the header
  nlog,          \* log.size: the blocks of the log on disk, with the header
  FirstInode,    \* the block after the log on disk
  NoProc         \* a buffer nobody has locked

ASSUME LogAssumption ==
  /\ IsFiniteSet(Proc) /\ NoProc \notin Proc
  /\ MAXOPBLOCKS \in Nat \ {0}
  /\ LOGSIZE \in Nat /\ LOGSIZE >= MAXOPBLOCKS
  /\ nlog \in Nat /\ nlog >= LOGSIZE
  /\ FirstInode \in Block

VARIABLES
  disk,          \* block -> its contents at the home location
  logdata,       \* the log blocks on disk, without the header
  header,        \* the header on disk: its first n block numbers
  lh,            \* the header in memory
  outstanding, committing,
  cache,         \* block -> the contents of its buffer
  dirty,         \* the blocks whose buffer is B_DIRTY
  lock,          \* block -> the process that has its buffer locked
  pc,            \* process -> its position in a file system call
  buf,           \* process -> the block whose buffer it last locked
  wrote,         \* process -> the blocks its operation has written
  phase, tail,   \* the step of commit() or recover_from_log(), or "none"
  overrun        \* the header in memory has had more blocks than the log on disk

ondisk == <<disk, logdata, header>>
buffers == <<cache, dirty, lock>>
calls == <<pc, buf, wrote>>
vars == <<ondisk, buffers, calls, lh, outstanding, committing, phase, tail, overrun>>

Recovery == {"read_head", "recover", "reset"}

\* mkfs writes a disk with an empty log; the machine starts with recovery.
Init ==
  /\ disk \in [Block -> Data]
  /\ \E d \in Data : logdata = [i \in 1 .. nlog - 1 |-> d]
  /\ header = << >>
  /\ lh = << >>
  /\ outstanding = 0
  /\ committing = FALSE
  /\ cache = disk
  /\ dirty = {}
  /\ lock = [b \in Block |-> NoProc]
  /\ pc = [p \in Proc |-> "user"]
  /\ buf \in [Proc -> Block]
  /\ wrote = [p \in Proc |-> {}]
  /\ phase = "read_head"
  /\ tail = 1
  /\ overrun = FALSE

-----------------------------------------------------------------------------
(* The calls of the file system.                                           *)

\* Mutant: the space of operations in progress is not reserved.
NoRoomNow == Len(lh) + MAXOPBLOCKS > LOGSIZE

\* begin_op: the operations in progress and this one might exhaust the log.
NoRoom == Len(lh) + (outstanding + 1) * MAXOPBLOCKS > LOGSIZE

\* begin_op: sleep, or enter.  A process that is woken tests again.
begin_op(p) ==
  /\ phase \notin Recovery
  /\ pc[p] \in {"user", "woken"}
  /\ IF committing \/ NoRoom
     THEN /\ pc' = [pc EXCEPT ![p] = "asleep"]
          /\ UNCHANGED <<outstanding, wrote>>
     ELSE /\ pc' = [pc EXCEPT ![p] = "op"]
          /\ outstanding' = outstanding + 1
          /\ wrote' = [wrote EXCEPT ![p] = {}]
  /\ UNCHANGED <<ondisk, buffers, buf, lh, committing, phase, tail, overrun>>

\* bread() and a change of b->data, with the buffer locked.
Modify(p, b, d) ==
  /\ pc[p] = "op"
  /\ Cardinality(wrote[p] \union {b}) <= MAXOPBLOCKS
  /\ lock[b] = NoProc
  /\ cache' = [cache EXCEPT ![b] = d]
  /\ lock' = [lock EXCEPT ![b] = p]
  /\ pc' = [pc EXCEPT ![p] = "modified"]
  /\ buf' = [buf EXCEPT ![p] = b]
  /\ wrote' = [wrote EXCEPT ![p] = @ \union {b}]
  /\ UNCHANGED <<ondisk, dirty, lh, outstanding, committing, phase, tail, overrun>>

\* log_write's tests come before acquire(&log.lock).
log_write_check(p) ==
  /\ pc[p] = "modified"
  /\ pc' = [pc EXCEPT ![p] = IF \/ Len(lh) >= LOGSIZE \/ Len(lh) >= nlog - 1
                                \/ outstanding < 1
                             THEN "panic" ELSE "checked"]
  /\ UNCHANGED <<ondisk, buffers, buf, wrote, lh, outstanding, committing, phase, tail, overrun>>

InLog(b) == \E i \in 1 .. Len(lh) : lh[i] = b

\* log_write under the lock, and the caller's brelse().
log_write(p) ==
  /\ pc[p] = "checked"
  /\ lh' = IF InLog(buf[p]) THEN lh ELSE Append(lh, buf[p])
  /\ dirty' = dirty \union {buf[p]}
  /\ lock' = [lock EXCEPT ![buf[p]] = NoProc]
  /\ pc' = [pc EXCEPT ![p] = "op"]
  /\ overrun' = (overrun \/ Len(lh') >= nlog)
  /\ UNCHANGED <<ondisk, cache, buf, wrote, outstanding, committing, phase, tail>>

\* wakeup(&log)
Woken(p) == IF pc[p] = "asleep" THEN "woken" ELSE pc[p]

\* Mutant: only the operation that commits wakes those that wait.
EndWakesNone(q) == pc[q]

\* end_op of an operation that is not the last: its reserve is free again.
EndWakes(q) == Woken(q)

\* end_op: no other operation is in progress.
Last == outstanding = 1

\* end_op: the last one commits, without the lock.
end_op(p) ==
  /\ pc[p] = "op"
  /\ outstanding' = outstanding - 1
  /\ IF committing
     THEN /\ pc' = [pc EXCEPT ![p] = "panic"]
          /\ UNCHANGED <<committing, phase, tail>>
     ELSE IF Last
     THEN /\ committing' = TRUE
          /\ pc' = [pc EXCEPT ![p] = "commit"]
          /\ phase' = IF lh # << >> THEN "write_log" ELSE "done"
          /\ tail' = 1
     ELSE /\ pc' = [q \in Proc |-> IF q = p THEN "user" ELSE EndWakes(q)]
          /\ UNCHANGED <<committing, phase, tail>>
  /\ UNCHANGED <<ondisk, buffers, buf, wrote, lh, overrun>>

-----------------------------------------------------------------------------
(* commit() and recover_from_log(): one write to the disk per step.        *)

\* write_log: the copy of the next block from the cache to the log.  Past the log
\* it goes to the buffer and the home of FirstInode; when that is the block to
\* copy, bread() waits for ever for the buffer that write_log has just locked.
CopyToLog ==
  IF tail < nlog
  THEN /\ logdata' = [logdata EXCEPT ![tail] = cache[lh[tail]]]
       /\ UNCHANGED <<disk, buffers>>
  ELSE /\ lh[tail] # FirstInode
       /\ disk' = [disk EXCEPT ![FirstInode] = cache[lh[tail]]]
       /\ cache' = [cache EXCEPT ![FirstInode] = cache[lh[tail]]]
       /\ dirty' = dirty \ {FirstInode}
       /\ UNCHANGED <<logdata, lock>>

\* Mutant: the header is written before the blocks it names.
write_logHeadFirst ==
  /\ phase = "write_log"
  /\ header' = IF tail = 1 THEN lh ELSE header
  /\ CopyToLog
  /\ IF tail < Len(lh) THEN tail' = tail + 1 /\ UNCHANGED phase
                       ELSE tail' = 1 /\ phase' = "write_head"
  /\ UNCHANGED <<calls, lh, outstanding, committing, overrun>>

\* write_log: copy the next block to the log.
write_log ==
  /\ phase = "write_log"
  /\ CopyToLog
  /\ IF tail < Len(lh) THEN tail' = tail + 1 /\ UNCHANGED phase
                       ELSE tail' = 1 /\ phase' = "write_head"
  /\ UNCHANGED <<header, calls, lh, outstanding, committing, overrun>>

\* write_head: "the real commit".
write_head ==
  /\ phase = "write_head"
  /\ header' = lh
  /\ phase' = "install"
  /\ UNCHANGED <<disk, logdata, buffers, calls, lh, outstanding, committing, tail, overrun>>

\* install_trans: what bread() of block i of the log returns.
LogBlock(i) == IF i < nlog THEN logdata[i] ELSE cache[FirstInode]

\* install_trans: blocks are left to install after this one.
InstallsMore == tail < Len(lh)

\* install_trans: copy the next block from the log to its home location.  Past
\* the last one, the header is cleared.
install_trans ==
  /\ \/ phase = "install"
     \/ phase = "recover" /\ lh # << >>
  /\ disk' = [disk EXCEPT ![lh[tail]] = LogBlock(tail)]
  /\ cache' = [cache EXCEPT ![lh[tail]] = LogBlock(tail)]
  /\ dirty' = dirty \ {lh[tail]}
  /\ IF InstallsMore
     THEN tail' = tail + 1 /\ UNCHANGED phase
     ELSE tail' = 1 /\ phase' = IF phase = "install" THEN "clear" ELSE "reset"
  /\ UNCHANGED <<logdata, header, lock, calls, lh, outstanding, committing, overrun>>

\* recover_from_log with an empty log has nothing to install.
RecoverNothing ==
  /\ phase = "recover" /\ lh = << >>
  /\ phase' = "reset"
  /\ UNCHANGED <<ondisk, buffers, calls, lh, outstanding, committing, tail, overrun>>

\* log.lh.n = 0; write_head(): erase the transaction from the log.
ClearHead ==
  /\ phase \in {"clear", "reset"}
  /\ lh' = << >>
  /\ header' = << >>
  /\ phase' = IF phase = "clear" THEN "done" ELSE "none"
  /\ UNCHANGED <<disk, logdata, buffers, calls, outstanding, committing, tail, overrun>>

\* end_op after commit().
EndCommit(p) ==
  /\ pc[p] = "commit" /\ phase = "done"
  /\ committing' = FALSE
  /\ pc' = [q \in Proc |-> IF q = p THEN "user" ELSE Woken(q)]
  /\ phase' = "none"
  /\ UNCHANGED <<ondisk, buffers, buf, wrote, lh, outstanding, tail, overrun>>

\* initlog, recover_from_log: read_head().
read_head ==
  /\ phase = "read_head"
  /\ lh' = header
  /\ phase' = "recover"
  /\ UNCHANGED <<ondisk, buffers, calls, outstanding, committing, tail, overrun>>

\* bget takes the buffer of b for another block; b is then read again.
Recycle(b) ==
  /\ b \notin dirty /\ lock[b] = NoProc
  /\ cache' = [cache EXCEPT ![b] = disk[b]]
  /\ UNCHANGED <<ondisk, dirty, lock, calls, lh, outstanding, committing, phase, tail, overrun>>

\* The machine stops and starts again: only the disk keeps its contents.
Crash ==
  /\ lh' = << >>
  /\ outstanding' = 0
  /\ committing' = FALSE
  /\ cache' = disk
  /\ dirty' = {}
  /\ lock' = [b \in Block |-> NoProc]
  /\ pc' = [p \in Proc |-> "user"]
  /\ wrote' = [p \in Proc |-> {}]
  /\ phase' = "read_head"
  /\ tail' = 1
  /\ UNCHANGED <<ondisk, buf, overrun>>

Call(p) ==
  \/ begin_op(p)
  \/ \E b \in Block, d \in Data : Modify(p, b, d)
  \/ log_write_check(p)
  \/ log_write(p)
  \/ end_op(p)
  \/ EndCommit(p)

WriteDisk == write_log \/ write_head \/ install_trans \/ ClearHead

Next ==
  \/ \E p \in Proc : Call(p)
  \/ WriteDisk
  \/ RecoverNothing
  \/ read_head
  \/ \E b \in Block : Recycle(b)
  \/ Crash

Spec == Init /\ [][Next]_vars

-----------------------------------------------------------------------------
(* Properties.                                                             *)

LogTypeOK ==
  /\ disk \in [Block -> Data] /\ cache \in [Block -> Data]
  /\ logdata \in [1 .. nlog - 1 -> Data]
  /\ header \in Seq(Block) /\ lh \in Seq(Block)
  /\ outstanding \in 0 .. Cardinality(Proc)
  /\ committing \in BOOLEAN
  /\ dirty \subseteq Block
  /\ lock \in [Block -> Proc \union {NoProc}]
  /\ pc \in [Proc -> {"user", "asleep", "woken", "op", "modified", "checked", "commit", "panic"}]
  /\ buf \in [Proc -> Block]
  /\ wrote \in [Proc -> SUBSET Block]
  /\ phase \in Recovery \union {"none", "write_log", "write_head", "install", "clear", "done"}
  /\ tail \in 1 .. LOGSIZE
  /\ overrun \in BOOLEAN

\* The processes between begin_op() and end_op().
InOp == {p \in Proc : pc[p] \in {"op", "modified", "checked", "panic"}}

\* The writes that the operations in progress may still make.
Unwritten == {x \in InOp \X (1 .. MAXOPBLOCKS) : x[2] > Cardinality(wrote[x[1]])}

\* The counts of begin_op() and end_op() protect the header, but not the log on
\* disk.  Every operation in progress has room in the header for all of its
\* MAXOPBLOCKS blocks: what is in it and what they have not written yet never
\* exceeds the LOGSIZE entries, although operations that end give back no entry
\* until the commit.  The log on disk may be full before: of the panics, "too big
\* a transaction" happens, when the header has as many blocks as the log on disk
\* or is full, that is, when all but LOGSIZE - (nlog - 1) of the blocks reserved
\* for operations are used; "log_write outside of trans" does not.  And commit(),
\* which runs without log.lock, runs while no operation is in progress (the panic
\* "log.committing" cannot happen) and nobody has a buffer locked.
WithinReserve ==
  /\ LogTypeOK
  /\ Len(lh) + Cardinality(Unwritten) <= LOGSIZE
  /\ \A p \in Proc : pc[p] = "panic" => Len(lh) >= LOGSIZE \/ Len(lh) >= nlog - 1
  /\ committing => /\ outstanding = 0 /\ InOp = {}
                   /\ \A b \in Block : lock[b] = NoProc

\* No wakeup is lost: a process sleeps in begin_op() only during a commit or
\* while the log has no room for it, that is, while somebody is still to call
\* wakeup(&log), or has panicked before that.
SleepJustified ==
  (\E p \in Proc : pc[p] = "asleep") => committing \/ (NoRoom /\ outstanding > 0)

\* What the disk holds once recovery has run: the blocks of the header are
\* those of the log, the others are at their home location.
Recovered ==
  [b \in Block |-> IF \E i \in 1 .. Len(header) : header[i] = b
                   THEN logdata[CHOOSE i \in 1 .. Len(header) : header[i] = b]
                   ELSE disk[b]]

\* The log implements a disk on which operations are atomic: concurrent
\* writes in the cache, the four phases of commit(), a crash anywhere and
\* recovery look like one Commit or one Crash of AtomicDisk.  File system
\* calls read the cache, which they do not reach before recovery is over.  This
\* holds as long as the log on disk is not overrun: the test of log_write() comes
\* before acquire(&log.lock), so two operations may both see room for one block.
Abstract == INSTANCE AtomicDisk WITH
  cur <- IF phase \in Recovery THEN Recovered ELSE cache,
  stable <- Recovered,
  active <- InOp,
  sound <- ~overrun

ImplementsAtomicDisk == Abstract!Spec

==============================================================================
