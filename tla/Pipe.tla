-------------------------------- MODULE Pipe ---------------------------------
(***************************************************************************)
(* A pipe (pipe.c): its ring of bytes, the processes that read and write   *)
(* it, kill() of these, and the way it is made by sys_pipe (sysfile.c),    *)
(* inherited over fork() with the references of its two files (file.c),    *)
(* and freed when both ends are closed.                                    *)
(*                                                                         *)
(* pipewrite and piperead hold p->lock except in sleep(), so what they do  *)
(* from one sleep to the next is a step.  kill() takes no p->lock: it can  *)
(* come between their test of p->killed and the sleep ("rdoze", "wdoze").  *)
(* Bytes are numbered in the order they are written, modulo Serials.       *)
(***************************************************************************)
EXTENDS Integers, FiniteSets

CONSTANTS
  PipeReader, PipeWriter,   \* processes; any of them may have either end open
  PIPESIZE,
  UINT,                     \* values of an unsigned int
  Serials,
  PipeCounts,               \* third arguments of read and write
  MaxPipes                  \* bound: pipes made

PipeProc == PipeReader \union PipeWriter
PipeEnd == {"r", "w"}

ASSUME PipeAssumption ==
  /\ {PIPESIZE, UINT, Serials, MaxPipes} \subseteq Nat \ {0}
  /\ UINT % PIPESIZE = 0 /\ UINT > PIPESIZE
  /\ Serials > PIPESIZE
  /\ PipeCounts \subseteq Nat \ {0}
  /\ PipeReader \intersect PipeWriter = {} /\ IsFiniteSet(PipeProc)

VARIABLES
  pipe,     \* [page, data, nread, nwrite, readopen, writeopen]; page: allocated
  file,     \* end -> its entry of the file table: [ref, type]
  fd,       \* descriptors: <<p, e>> when process p has end e open
  call,     \* process -> [at, left]: its read or write, bytes still to do
  killed,
  sent,     \* number of the next byte
  rcvd,     \* number of the next byte that a reader should get
  pipes     \* pipes made so far

pipevars == <<pipe, file, fd, call, killed, sent, rcvd, pipes>>

NoPipe == [page |-> FALSE, data |-> [k \in 0 .. PIPESIZE - 1 |-> 0], nread |-> 0, nwrite |-> 0,
           readopen |-> FALSE, writeopen |-> FALSE]
NoFile == [ref |-> 0, type |-> "none"]
Idle == [at |-> "idle", left |-> 0]

PipeInit ==
  /\ pipe = NoPipe /\ file = [e \in PipeEnd |-> NoFile] /\ fd = {} /\ killed = {}
  /\ call = [p \in PipeProc |-> Idle]
  /\ sent = 0 /\ rcvd = 0 /\ pipes = 0

-----------------------------------------------------------------------------
(* Making and freeing a pipe.                                              *)

\* pipeclose: one end; the page is freed with the second.
pipeclose(x, writable) ==
  LET y == IF writable THEN [x EXCEPT !.writeopen = FALSE] ELSE [x EXCEPT !.readopen = FALSE]
  IN IF ~y.readopen /\ ~y.writeopen THEN [y EXCEPT !.page = FALSE] ELSE y

\* fileclose, on s = [pipe, file]: the last reference closes the end.
fileclose(s, e) ==
  IF s.file[e].ref > 1 THEN [s EXCEPT !.file[e].ref = @ - 1]
  ELSE [pipe |-> IF s.file[e].type = "pipe" THEN pipeclose(s.pipe, e = "w") ELSE s.pipe,
        file |-> [s.file EXCEPT ![e] = NoFile]]

\* Mutant: the second file is kept.
GivenUpFirst(s, n) == IF n > 0 THEN fileclose(s, "r") ELSE s

\* pipealloc, at bad: with n files allocated and, always, no page.
GivenUp(s, n) ==
  LET x == IF n > 0 THEN fileclose(s, "r") ELSE s
  IN IF n > 1 THEN fileclose(x, "w") ELSE x

\* pipealloc, where n of its three allocations succeed: two files and the page.
pipealloc(s, n) ==
  LET entry(e) == IF n > (IF e = "r" THEN 0 ELSE 1) THEN [s.file[e] EXCEPT !.ref = 1] ELSE s.file[e]
  IN IF n < 3 THEN GivenUp([pipe |-> s.pipe, file |-> [e \in PipeEnd |-> entry(e)]], n)
     ELSE [pipe |-> [NoPipe EXCEPT !.page = TRUE, !.readopen = TRUE, !.writeopen = TRUE],
           file |-> [e \in PipeEnd |-> [entry(e) EXCEPT !.type = "pipe"]]]

\* sys_pipe by p, with nfd descriptors to be had.
sys_pipe(p, n, nfd) ==
  LET x == pipealloc([pipe |-> pipe, file |-> file], n)
      y == IF n = 3 /\ nfd < 2 THEN fileclose(fileclose(x, "r"), "w") ELSE x
  IN /\ fd = {} /\ pipes < MaxPipes
     /\ pipe' = y.pipe /\ file' = y.file
     /\ fd' = IF n = 3 /\ nfd = 2 THEN {p} \X PipeEnd ELSE {}
     /\ killed' = {} /\ pipes' = pipes + 1
     /\ IF n = 3 THEN sent' = 0 /\ rcvd' = 0 ELSE UNCHANGED <<sent, rcvd>>
     /\ UNCHANGED call

\* The ends that p has open.
Open(p) == {e \in PipeEnd : <<p, e>> \in fd}

\* fork: filedup of the parent's files for the child.
PipeFork(p, q) ==
  /\ Open(p) # {} /\ call[p].at = "idle" /\ Open(q) = {} /\ {p, q} \intersect killed = {}
  /\ fd' = fd \union ({q} \X Open(p))
  /\ file' = [e \in PipeEnd |-> IF e \in Open(p) THEN [file[e] EXCEPT !.ref = @ + 1] ELSE file[e]]
  /\ UNCHANGED <<pipe, call, killed, sent, rcvd, pipes>>

\* p->lock is free: nobody is about to sleep.
Unlocked == \A p \in PipeProc : call[p].at \notin {"rdoze", "wdoze"}

\* wakeup on a channel: the sleepers there test again.
WakeReaders(c) == [p \in PipeProc |-> IF c[p].at = "rsleep" THEN [c[p] EXCEPT !.at = "read"] ELSE c[p]]
WakeWriters(c) == [p \in PipeProc |-> IF c[p].at = "wsleep" THEN [c[p] EXCEPT !.at = "write"] ELSE c[p]]

\* Mutant: the sleepers at the other end are left.
CloseWakesNone(e, c) == c

\* pipeclose wakes the sleepers at the other end.
CloseWakes(e, c) == IF e = "w" THEN WakeReaders(c) ELSE WakeWriters(c)

\* fileclose of an end by p: close(), or exit().
PipeFileclose(p, e) ==
  LET x == fileclose([pipe |-> pipe, file |-> file], e)
      lasts == file[e].ref = 1
  IN /\ <<p, e>> \in fd /\ call[p].at = "idle" /\ (lasts => Unlocked)
     /\ fd' = fd \ {<<p, e>>}
     /\ pipe' = x.pipe /\ file' = x.file
     /\ call' = IF lasts THEN CloseWakes(e, call) ELSE call
     /\ UNCHANGED <<killed, sent, rcvd, pipes>>

-----------------------------------------------------------------------------
(* Reading and writing.                                                    *)

\* Bytes in the ring; the counters wrap around.
InPipe == (pipe.nwrite + UINT - pipe.nread) % UINT

\* The end that p reads or writes.
MyEnd(p) == IF p \in PipeWriter THEN "w" ELSE "r"

Begin(p, n) ==
  /\ <<p, MyEnd(p)>> \in fd /\ p \notin killed /\ call[p].at = "idle"
  /\ call' = [call EXCEPT ![p] = [at |-> IF p \in PipeWriter THEN "write" ELSE "read", left |-> n]]
  /\ UNCHANGED <<pipe, file, fd, killed, sent, rcvd, pipes>>

\* A counter of bytes moves on.
Advance(c, n) == (c + n) % UINT

\* The bytes that pipewrite can add before the pipe is full.
Room == PIPESIZE - InPipe

\* myproc()->killed, tested before the process sleeps.
Gone(p) == p \in killed

\* pipewrite, from the start or a wakeup to the end or the next sleep.
pipewrite(p) ==
  LET n == IF call[p].left < Room THEN call[p].left ELSE Room
      full == n < call[p].left
      fails == full /\ (~pipe.readopen \/ Gone(p))
      woken == IF fails THEN call ELSE WakeReaders(call)
  IN /\ Unlocked /\ call[p].at = "write"
     /\ pipe' = [pipe EXCEPT
          !.nwrite = Advance(@, n),
          !.data = [k \in DOMAIN @ |->
             IF \E j \in 0 .. n - 1 : k = ((pipe.nwrite + j) % UINT) % PIPESIZE
             THEN LET j == CHOOSE j \in 0 .. n - 1 : k = ((pipe.nwrite + j) % UINT) % PIPESIZE
                  IN (sent + j) % Serials
             ELSE @[k]]]
     /\ sent' = (sent + n) % Serials
     /\ call' = [woken EXCEPT ![p] =
                   IF fails \/ ~full THEN Idle ELSE [at |-> "wdoze", left |-> @.left - n]]
     /\ UNCHANGED <<file, fd, killed, rcvd, pipes>>

\* Mutant: the reader takes the newest byte first.
ByteNewest(j) == pipe.data[((pipe.nwrite + UINT - 1 - j) % UINT) % PIPESIZE]

\* The j-th byte that piperead takes.
Byte(j) == pipe.data[((pipe.nread + j) % UINT) % PIPESIZE]

\* piperead, from the start or a wakeup to the end or a sleep.
piperead(p) ==
  LET n == IF call[p].left < InPipe THEN call[p].left ELSE InPipe
      waits == InPipe = 0 /\ pipe.writeopen
  IN /\ Unlocked /\ call[p].at = "read"
     /\ IF waits
        THEN /\ call' = [call EXCEPT ![p] = IF Gone(p) THEN Idle ELSE [@ EXCEPT !.at = "rdoze"]]
             /\ UNCHANGED <<pipe, rcvd>>
        ELSE /\ pipe' = [pipe EXCEPT !.nread = Advance(@, n)]
             /\ rcvd' = IF n = 0 THEN rcvd ELSE (Byte(n - 1) + 1) % Serials
             /\ call' = [WakeWriters(call) EXCEPT ![p] = Idle]
     /\ UNCHANGED <<file, fd, killed, sent, pipes>>

\* sleep() gives p->lock up.
PipeSleep(p) ==
  /\ call[p].at \in {"rdoze", "wdoze"}
  /\ call' = [call EXCEPT ![p].at = IF @ = "rdoze" THEN "rsleep" ELSE "wsleep"]
  /\ UNCHANGED <<pipe, file, fd, killed, sent, rcvd, pipes>>

\* kill() makes a victim that sleeps RUNNABLE.
KillWakes(p) ==
  [call[p] EXCEPT !.at = CASE @ = "rsleep" -> "read" [] @ = "wsleep" -> "write" [] OTHER -> @]

\* kill().
PipeKill(p) ==
  /\ Open(p) # {} /\ p \notin killed
  /\ killed' = killed \union {p}
  /\ call' = [call EXCEPT ![p] = KillWakes(p)]
  /\ UNCHANGED <<pipe, file, fd, sent, rcvd, pipes>>

PipeNext ==
  \/ \E p \in PipeProc :
       \/ \E n \in 0 .. 3, nfd \in 0 .. 2 : sys_pipe(p, n, nfd)
       \/ \E q \in PipeProc : PipeFork(p, q)
       \/ \E n \in PipeCounts : Begin(p, n)
       \/ pipewrite(p) \/ piperead(p) \/ PipeSleep(p)
       \/ \E e \in PipeEnd : PipeFileclose(p, e)
       \/ PipeKill(p)

PipeSpec == PipeInit /\ [][PipeNext]_pipevars

-----------------------------------------------------------------------------
(* Properties.                                                             *)

PipeTypeOK ==
  /\ pipe.data \in [0 .. PIPESIZE - 1 -> 0 .. Serials - 1]
  /\ {pipe.nread, pipe.nwrite} \subseteq 0 .. UINT - 1
  /\ call \in [PipeProc -> [at : {"idle", "read", "write", "rdoze", "wdoze", "rsleep", "wsleep"}, left : Nat]]
  /\ file \in [PipeEnd -> [ref : Nat, type : {"none", "pipe"}]]

\* Bytes are read in the order they were written, none twice and none lost, over
\* every wrap of the ring and of the counters, and with many readers and writers.
PipeInOrder ==
  /\ PipeTypeOK
  /\ InPipe <= PIPESIZE
  /\ (rcvd + InPipe) % Serials = sent
  /\ \A k \in 0 .. InPipe - 1 :
       pipe.data[((pipe.nread + k) % UINT) % PIPESIZE] = (rcvd + k) % Serials

\* No wakeup is lost: a reader sleeps only while the pipe is empty and can still
\* be written, a writer only while it is full and can still be read.  The one
\* exception is in pipewrite: a writer that was killed fills the pipe and returns
\* before it wakes the readers.
SleepersBlocked ==
  \A p \in PipeProc :
    /\ call[p].at = "rsleep" =>
         pipe.writeopen /\ (InPipe = 0 \/ killed \intersect PipeWriter # {})
    /\ call[p].at = "wsleep" => pipe.readopen /\ InPipe = PIPESIZE

\* The page is there as long as an end is open, an end is open as long as its
\* file has references, and these are the descriptors of processes; whatever
\* sys_pipe and pipealloc ran out of, and however ends are inherited and closed.
PipeFreed ==
  /\ pipe.page <=> pipe.readopen \/ pipe.writeopen
  /\ pipe.readopen <=> file["r"].ref > 0
  /\ pipe.writeopen <=> file["w"].ref > 0
  /\ \A e \in PipeEnd :
       /\ file[e].ref = Cardinality({p \in PipeProc : <<p, e>> \in fd})
       /\ file[e].type = "pipe" <=> file[e].ref > 0

==============================================================================
