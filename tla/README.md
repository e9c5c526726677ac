# A verification of the xv6 kernel with semaphores, queues and tracing

TLA+ modules for the x86 kernel in `src/xv6`: xv6 with kernel semaphores, three
scheduling queues, a resizing call and a line editor in the console. TLC checks
small instances of every module. TLAPS proves the safety properties of the process
table, the semaphores, the scheduler's choice, the spin-locks, the log, the buffer
cache with its disk driver, and the pipes, for instances of any size. `PROJECT.json`
lists components, runs, mutants, hazards and theorems, and maps every definition to the
lines it models.

## The system and its modules

| part | source | modules |
|---|---|---|
| process table, context switch, sleep and wakeup | proc.c, trap.c, sysproc.c, init.c | Proc, MCProc; proofs in ProcProofs |
| kernel semaphores, dining philosophers | proc.c, phillsofs.c | Semaphore, Philosophers, MCPhilosophers; proofs in SemProofs |
| scheduling queues | proc.c | Sched, MCWaiting; proofs in SchedProofs |
| spin-locks, interrupt flag, lock paths | spinlock.c and its callers | Spinlock, LockOrder, MCLockOrder; proofs in LockProofs |
| write-ahead log | log.c | Log, AtomicDisk, MCLog; proofs in LogProofs |
| inode cache, directories, file table | fs.c, file.c, sysfile.c | Names, MCNames |
| block allocation, file contents, resizing | fs.c, file.c | Blocks, AtomicFile, MCStorage |
| physical pages, address spaces, exec | kalloc.c, vm.c, exec.c, proc.c | Vm, PrivateMemory, MCStorage |
| buffer cache, sleep-locks, disk driver | bio.c, sleeplock.c, ide.c | Bio, MCBio; proofs in BioProofs |
| pipes | pipe.c, sysfile.c, file.c | Pipe, MCWaiting; proofs in PipeProofs |
| console input | console.c | Console, LineEditor, MCWaiting |

How they depend on each other. Every module takes for granted what the one below
it shows:

- *Spinlock* has the steps of `acquire` and `release`. All other modules treat a
  section under a spin-lock as one step, except where it goes through `swtch`.
- *Proc* shows that `sleep()` loses no wakeup. Semaphore, Log, Bio, Pipe and
  Console therefore let a process give its lock up and fall asleep in one step.
- *Bio* shows that a locked buffer holds what was written to its block last. Log
  uses buffers under this assumption, and adds transactions and crashes.
- *Log* shows that a file system call takes effect as a whole. Names and Blocks
  have no crashes.
- *Names* has names, links and reference counts, *Blocks* the contents of files.
  *Sched* has the choice of a process, *Proc* the locking around it.

### State and actions

- **Proc.** The fields of `struct proc`, `ptable.lock`, `tickslock`, and for each
  CPU and each process the position of its thread. `sched()` is split at the
  context switch, with the lock held by the CPU in between. Actions: the system
  calls fork, wait, sleep, kill and exit, the timer interrupt, `scheduler()`, the
  return to user space.
- **Semaphore, Philosophers.** `semtable` with its ring of waiters; `sem_acquire`
  is two steps when it has to wait. `kill()` of a waiter and the reuse of its slot
  are actions. The ring may be written when it is full; `overrun` remembers where.
- **Sched.** The queue, age, tickets and ratios of each process; a pass of
  `scheduler()` is a step, with `fix_queues`, `round_robin`, `lottery`, `bjf`.
- **Spinlock, LockOrder.** `pushcli`/`popcli`, the exchange, `lk->cpu`; the kernel's
  code paths are sequences of acquires and releases, with interrupt handlers on
  top whenever the flag allows.
- **Log.** Every write of a disk block is a step, and the machine may crash
  between any two, during recovery too. The log on disk has its own size, `nlog`,
  header included; what is copied beyond its end goes to the first inode block, as
  mkfs lays the disk out, and `overrun` remembers that more was logged than fits.
- **Names.** A system call is a sequence of steps, each taking at most one inode
  lock as its first deed; `iput` is two steps. Sixteen kinds of call, fork and exit.
- **Blocks.** Operators from one file system state to the next (`balloc`, `bmap`,
  `itrunc`, `writei`, ...), composed as the functions call each other; what happens
  under the inode lock is a step, and `filewrite` has one step per chunk.
- **Vm.** The same for the free list and page maps. Allocation can fail at any
  page; the error paths give back what was taken.
- **Bio.** Buffers, the MRU list, the disk's queue and command. A process has up to
  two buffers at a time, as in `bmap`, `itrunc` and the log. Reads and writes may
  fail; `ideintr` reports neither, and ignores the status of a write.
- **Pipe.** The ring with its counters, the two entries of the file table with their
  references, the descriptors, and where each reader and writer is. `pipealloc` may
  fail at each of its allocations and `sys_pipe` at its descriptors; `fork` and `close`
  add and drop references; kill comes at any point.
- **Console.** The ring with its indices, the cursor's column on the screen, and the
  readers. Characters, ^H, ^U, ^N and ^D are keys; output moves the cursor. ^N takes
  the start of the line from the column, so that it may miss it (`stray`).

Sums: Blocks and Vm share no state, and neither do Sched, Pipe and Console. MCStorage
and MCWaiting check them in one run each; a variable `part`, chosen at the start,
says which of them a behaviour is about.

## Runs

Passing runs:

| run | what it shows | bounds, and why they are enough |
|---|---|---|
| proc | no stack is used twice, RUNNING means on a CPU, `sched()`'s panics are unreachable, no wakeup of wait or sleep is lost, parents live | 3 slots (init, parent, child), 2 CPUs, 3 pids: a slot is reused; two CPUs race for it. The proofs cover all sizes |
| proc_live | killed processes exit; orphans are reaped | 1 CPU, 3 slots; see Fairness |
| philosophers | the ring keeps the sleepers, nobody sleeps on a free semaphore, everyone eats | 3 philosophers, 2 meals: an odd and an even neighbour, a fork taken again; or 3 programs and 3 kills, with a ring of 3: stale entries fill it and it is overrun |
| locks | no self-deadlock, flags restored, no circular wait | 2 CPUs, 7 locks, all paths but the two that break the lock order (OrderedPaths) |
| log | until more is logged than the log on disk has, it implements a disk with atomic operations; the panic of `log_write` comes with the log full only | 3 processes with 1 block each, 3 blocks; a header of 3 entries and a log of 2, the ratio mkfs makes: panic and overrun both happen; crashes unbounded |
| names | counts are right and no name leads to a freed inode | 2 processes, 3 calls on two trees: create, unlink and a third in between |
| storage | blocks and pages are neither lost nor used twice; files read back what was written; memory is private | 5 calls, 7 blocks with direct and indirect ones: disk full and file full both happen; 16 pages: memory runs out at every point of fork and exec. The one exception of PrivateMemory is its action SbrkToNothing, see proc.c:244 below |
| bio | a block is in one buffer, which has one user; no write is lost but to a failing disk; the disk serves all; the cache panics only when it is full | 2 processes with up to 2 buffers each, 2 buffers, 3 blocks, one of them failing: buffers are reused, and run out; 1 pinned block |
| waiting | nobody starves, and in queue 1 nobody waits longer than a turn; no byte, character or wakeup is lost, and no pipe | 3 processes, 1 CPU, threshold 4, unbounded time by differences; 2 writers and a reader, a pipe of 2 bytes with counters modulo 4: they wrap; 2 console readers, a ring of 3, a screen of 5 columns: ring and row both overflow |

Runs that show a disagreement of the code with its comments or programs:

| run | what it shows |
|---|---|
| philosophers_forks | `sem_acquire` tests with `if`: a woken waiter and a newcomer both get the semaphore, and two neighbours eat with one fork |
| locks_circle | the lottery takes `tickslock` under `ptable.lock`; the clock takes them the other way round |
| names_leak | two last `iput`s of an unlinked inode both read `ref == 2`; it is never freed |

Three abstract specifications are implemented, checked as properties: AtomicDisk by
Log, AtomicFile by Blocks, PrivateMemory by Vm; a fourth, LineEditor, by Console.
Runs that allow deadlock are those in which bounds stop the behaviours, or the
system may rest.

The type invariant of a module is a conjunct of one of its properties (QueueOfSleepers,
FlagMatches, NoStarvation, WithinReserve, RefCount, BlocksAccounted, SizeMapped,
BuffersSuffice, PipeInOrder, ConsoleSleepers); TypeOK of Proc is proved.

Every property has a mutant: a definition with a plausible mistake, next to the one
it stands for, under which TLC finds the property violated.

## Fairness

- *proc_live*: each CPU goes on in kernel code, and the scheduler runs each RUNNABLE
  process in the end. The run `waiting` shows the latter for the choice the code makes.
- *philosophers*: weak fairness of every process, by the same argument.
- *bio* (IoEnds): processes run on inside `bread`, `bwrite` and `brelse`, and the
  disk answers every command with an interrupt. Programs need not call anything.

## Proofs

Each proof module defines an inductive invariant with one part per idea, has one
lemma per action (and below it a step per part that the action can disturb), and
derives the properties from it. The invariants were checked by TLC on the runs'
instances first. Remainders has the facts about `%` that the rings and counters
need. The assumptions are the ASSUMEs of the modules, which TLC evaluates on every
run.

**Process table** (ProcProofs). From `ConstAssumption` (at least one slot and CPU;
bounds are natural numbers; the calls are among the five). `IInv` joins: types; who
holds which lock at which position; which thread each CPU runs; how the state of a
slot follows from its position; what fork has built so far; families and ticks. The
properties are not inductive by themselves: that no stack is used twice depends on
the lock being handed over, which depends on positions. Proved: TypeOK, StackSafe,
RunningHasCPU, SchedChecks, WaitNotLost, TickNotLost, LiveParent.

**Semaphores** (SemProofs). From `SemAssumption` (finitely many processes and
semaphores; a ring has at least one place). `SemInv` adds that a waiter's
semaphore is initialised, that a sleeper has an entry in its ring, and two counts. An
entry that a kill() leaves in one ring can end a sleep in another, so the count of
entries is over all rings together (FewEntries); per semaphore, its value and its
entries are bounded by sleepers, woken ones and kills (Pending). Both hold until a ring
is written when full, and the count of entries says what that takes: more kills than
the ring has places beyond one per process, so with MAX_SEMAPHORE_PROC = NPROC one kill
is needed at least. Proved, for any clients of the semaphores: QueueOfSleepers,
NoSleeperLeftBehind.

**Scheduling queues** (SchedProofs). From `SchedAssumption` (a process and a processor;
STARVING_THRESHOLD above NPROC). For a process p that waits in queue 1, let Behind(p)
be those whose last run is later than p's entry. Between two ticks either some
processor has chosen a process, which then is behind p for good, or nobody was there
to choose from. So the ticks p has waited are at most the number behind it, and one
more before the first choice of the tick (Turns). Promoted says that a pass of
`scheduler()` leaves nobody at the threshold, Waits that in the other queues
entered_queue is no later than the start of the wait. Proved: RoundRobinTurn,
NoStarvation, for whatever the lottery and bjf choose.

**Spin-locks** (LockProofs). From `SpinAssumption` (finitely many locks) and
`LockOrderAssumption` (the paths are those of the kernel, the handlers those of the disk
and the keyboard). A path *fits* if each acquire is of a lock the processor does not
have, each release of one it has, and it ends without locks; the definition has a
parameter, the pairs of locks that may be taken one under the other. `LockInv` says that
the rest of every frame fits what the processor holds, that ncli counts these locks,
that intena is the flag at the outermost one, and what `locked` and `lk->cpu` are
between the two steps of acquire and release. Every path of the kernel fits; the
OrderedPaths also fit the order "ptable and kmem last". In a circle of processors, the
one that holds the lock of greatest rank waited for would itself wait for a lock of
greater rank. Proved: NoPanic and FlagMatches for all paths, NoCircularWait for
processes on OrderedPaths; `locks_circle` shows that it fails with the lottery.

**Log** (LogProofs). From `LogAssumption` (finitely many processes; the header has room
for an operation; the log on disk has LOGSIZE blocks or more, one of them the header).
`LogInv` joins: the entries reserved for operations, where a block that was changed and
not yet reported to `log_write()` counts as not logged (Reserved); what each phase of
commit and recovery says about the header and the counts (Phases, Header); and which of
cache, log and disk hold the contents of a block in which phase (Contents). The last
part, and the bound on the blocks logged, hold until the log on disk is overrun (Sound).
Proved: WithinReserve, with `log_write` panicking only when the log on disk is full;
SleepJustified; and that Log implements AtomicDisk: the abstract disk is what recovery
would leave, and every step, a crash at any point and a crash in recovery included, maps
to a step of AtomicDisk or to none, as long as the log has not been overrun. AtomicDisk
promises nothing from then on; with `nlog` above LOGSIZE that never happens, by
WithinReserve.

**Buffer cache and disk** (BioProofs). From `BioAssumption` (at least one buffer;
finitely many processes; block numbers positive; a second buffer is for another block).
`BioInv` is types, OneBuffer and
BufferExclusive. Reference counts are cardinalities, so each change of a user's
buffer has a lemma on finite sets (OneMore, OneLess). `DiskInv` adds that queue entries
are distinct and each has a sleeping owner (Owned), that the disk has the first entry's
command (Serves), that buffers in use are valid and dirty ones hold the last write
(Used), and coherence of buffers and blocks (Coherent), which leaves out buffers filled
by a failed read and blocks whose last write failed. A recycled buffer is clean, so
its block is on disk; a queued one is locked, so nobody changes what the disk was told
to write. NoneLost says that the list has every buffer. Proved: OneBuffer,
BufferExclusive, DiskServesHead, CacheCoherent, BuffersSuffice.

**Pipes** (PipeProofs). From `PipeAssumption` (PIPESIZE divides the range of the
counters and is less; finitely many readers and writers). `PipeInv` adds types, that a
process in a call has the end the call is for, and the sleepers' reasons from the test
on. The ring is described by the numbers of the next byte to read and to write; that a
write or a read of n bytes keeps the description is a lemma about remainders, which
covers the overflow of nread and nwrite. References are cardinalities of sets of
descriptors, with lemmas for fork and close. Proved: PipeInOrder, SleepersBlocked,
PipeFreed.

**Only model-checked.** Liveness (KilledExits, OrphanReaped, EveryoneEats, IoEnds): the
prover has no support for fairness. Blocks, Vm and Console with their refinements:
their steps are folds over blocks, pages and characters (a file's chunks, a page map,
an edited line), and what a fold computes needs induction over data, for which the
provers have no usable rule. Names, whose reference counts are a recursive sum over the
processes.

## Observations

Met while modelling, beside the three violation runs. Each is in a model's guard,
exception or history variable, so that the properties hold for the rest.

- proc.c:649: `kill()` looks at the pid only. A fork() that fails leaves its pid in the
  UNUSED slot; a kill of that pid sets a flag that the slot's next process is born
  with. sysproc.c:70: a kill between the test and the sleep has no effect before the
  next tick; the same window in pipes and the console leaves a killed process asleep
  until a wakeup comes.
- proc.c:32: `sem_init` takes no lock. proc.c:60: a killed waiter's entry stays in the
  ring and costs one wakeup later; the ring has no test of its bound, and once stale
  entries have filled it a sleeper's entry is overwritten (in run `philosophers`).
- proc.c:85: the random number is a product that overflows. proc.c:425: a process that
  entered queue 1 in the current tick has waited 0 ticks and is not chosen, so that a
  lower queue comes first, where line 412 says "with the highest priority".
- console.c:385 and proc.c:864: the console is printed to under `ptable.lock`, and
  keys wake processes under `cons.lock`.
- proc.c:747: the system-call trace is a fixed array, filled without a lock and without
  a test of its end.
- phillsofs.c:42: `while (wait())` never ends, since -1 is true.
- log.c:218, mkfs.c:25: the log on disk has LOGSIZE blocks with its header, one less than
  what `begin_op` lets operations reserve (param.h:11, "max data blocks in on-disk log",
  counts no header). Operations that use their whole reserve meet the panic. The test
  also reads `lh.n` before it takes the lock, so that two processes pass it with one
  place left; the copy of the last block then goes to the first inode block
  (mkfs.c:102). Both are in run `log`.
- sysfile.c:225, fs.c:560: `iput` of a directory while its child is locked, and of an
  entry found by `dirlink` under the directory's lock, allow a circle of inode locks. A
  removed directory can still get entries, and its `..` may lead to a freed inode.
- file.c:162, 167: the resizing call never puts its references, reads the type without
  the lock, and panics in `ilock` if the file is removed between its two lookups.
  file.c:209: it can set a size over MAXFILE, after which `bmap` panics; one call can
  write more blocks than MAXOPBLOCKS; the page of zeros is never freed.
- proc.c:244: `growproc` to size 0 frees the memory, reports failure and leaves the size.
- ide.c:118: a failed read is marked valid with the data of another block, and a failed
  write as written. bio.c:90: NBUF is LOGSIZE, so that pinned blocks and readers can
  exhaust the cache.
- pipe.c:86: a killed writer returns without a wakeup of the readers for what it wrote.
- console.c: the history and Tab copy to the ring without its bound; `update_history`
  counts commands twice; line 238: ^N assumes that
  the line starts behind a prompt of two columns and fits in a row. Otherwise it may put
  `input.e` beyond the line or before it, in text already handed over; the properties
  say what holds until then.

## Not modelled

- History, prediction and the screen (console.c, prefix_predict.c): text copying, no
  concurrency of its own.
- The system-call trace: see Observations; nothing holds beyond the array's bound.
- The largest prime factor, `umalloc.c`, the shell, user programs and tests: sequential
  code of one process, within the reach of tests.
- Boot, interrupt controllers, keyboard, serial line, `mp.c`: hardware set-up, run once.
- `memide.c`: a stand-in for the disk that never sleeps. `mkfs.c`: a host program.
- Of vm.c: segment registers and `switchuvm`; of fs.c and file.c: `stati`, `filestat`
  and the copying of arguments, which change no state.
- The Linux kernel module in `src/linux_kernel_mod`: it prints a message.
