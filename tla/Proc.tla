-------------------------------- MODULE Proc --------------------------------
(***************************************************************************)
(* The process table of xv6/proc.c: slots, their life cycle (fork, exit,   *)
(* wait, kill), sleep and wakeup, and the hand-over of ptable.lock between *)
(* a CPU's scheduler thread and the kernel thread of a process.            *)
(*                                                                         *)
(* ptable.lock and tickslock are explicit.  A critical section that calls  *)
(* no swtch is one step, taken when the lock is free; one that goes        *)
(* through sched() is split at the context switch, with the lock held by   *)
(* the CPU in between.  Which RUNNABLE process the scheduler picks is left *)
(* open here and is the subject of module Sched; that choosing one may     *)
(* take tickslock while ptable.lock is held is the subject of module       *)
(* LockOrder; the closing of files in exit() is left out.                  *)
(***************************************************************************)
EXTENDS Integers

CONSTANTS
  NPROC,        \* slots of ptable.proc
  NCPU,         \* processors
  MaxPid,       \* bound: no program calls fork once nextpid exceeds it
  SleepTicks,   \* the argument n of the sleep system call
  Calls,        \* the system calls made by programs other than init
  KillPids      \* the arguments of the kill system call

\* The system calls of the model, as positions before they take a lock.
Call == {"fork", "wait", "sleep", "kill", "exit"}

ASSUME ConstAssumption ==
  /\ NPROC \in Nat \ {0}
  /\ NCPU \in Nat \ {0}
  /\ MaxPid \in Nat
  /\ SleepTicks \in Nat
  /\ Calls \subseteq Call
  /\ KillPids \subseteq Nat

Slot == 1 .. NPROC
CPU == 0 .. NCPU - 1
NoCPU == -1           \* a free spinlock
NoProc == 0           \* a null struct proc*, or no sleep channel
initproc == 1
ticksChan == NPROC + 1   \* the channel &ticks; a slot is its own channel

VARIABLES
  state, pid, parent, chan, killed, kstack,  \* the fields of struct proc
  nextpid,
  ptlock, tickslock,    \* the CPU that holds the lock, or NoCPU
  proc,                 \* cpu -> c->proc
  on,                   \* cpu -> process whose kernel stack it runs on, NoProc: scheduler's
  spc,                  \* cpu -> position of its scheduler thread
  intr,                 \* cpu -> position of its timer interrupt handler
  pc,                   \* slot -> position of the process's own thread
  resume,               \* slot -> where that thread goes on after sched() returns
  np,                   \* slot -> the child that fork() is building
  left                  \* slot -> ticks left in sys_sleep: n - (ticks - ticks0), 0 outside

table == <<state, pid, parent, chan, killed, kstack, nextpid>>
threads == <<proc, on, spc, intr, pc, resume, np, left>>
vars == <<table, ptlock, tickslock, threads>>

procstate == {"UNUSED", "EMBRYO", "SLEEPING", "RUNNABLE", "RUNNING", "ZOMBIE"}

\* Positions at which the thread holds no lock.
Unlocked == Call \union {"user", "ret", "kstack", "copy", "start", "relock"}

Label == Unlocked \union {"none", "wait_scan", "tick_check", "sleep_lock",
                          "sched", "swtched", "zombie_exit", "panic"}

(***************************************************************************)
(* Initial state: main() has run userinit() and every CPU is in            *)
(* scheduler().                                                            *)
(***************************************************************************)
Init ==
  /\ state = [p \in Slot |-> IF p = initproc THEN "RUNNABLE" ELSE "UNUSED"]
  /\ pid = [p \in Slot |-> IF p = initproc THEN 1 ELSE 0]
  /\ parent = [p \in Slot |-> NoProc]
  /\ chan = [p \in Slot |-> NoProc]
  /\ killed = [p \in Slot |-> FALSE]
  /\ kstack = [p \in Slot |-> p = initproc]
  /\ nextpid = 2
  /\ ptlock = NoCPU
  /\ tickslock = NoCPU
  /\ proc = [c \in CPU |-> NoProc]
  /\ on = [c \in CPU |-> NoProc]
  /\ spc = [c \in CPU |-> "idle"]
  /\ intr = [c \in CPU |-> "none"]
  /\ pc = [p \in Slot |-> IF p = initproc THEN "swtched" ELSE "none"]
  /\ resume = [p \in Slot |-> IF p = initproc THEN "user" ELSE "none"]
  /\ np = [p \in Slot |-> NoProc]
  /\ left = [p \in Slot |-> 0]

-----------------------------------------------------------------------------
(* Helpers.                                                                *)

\* The states after wakeup1(ch) for every channel ch of the set.
wakeup1(chs) ==
  [q \in Slot |-> IF state[q] = "SLEEPING" /\ chan[q] \in chs THEN "RUNNABLE" ELSE state[q]]

\* p is the first slot of the table with property P.
First(p, P(_)) == P(p) /\ \A q \in Slot : q < p => ~P(q)

children(p) == {q \in Slot : parent[q] = p}

\* CPU c is executing the thread of p, outside of an interrupt handler.
Executes(c, p) == on[c] = p /\ intr[c] = "none"

\* The thread of p moves from one position to another.
Goto(p, from, to) == pc[p] = from /\ pc' = [pc EXCEPT ![p] = to]

\* Mutant: the lock is not held across the context switch.
AcquirePtableShort(c) == ptlock = NoCPU /\ ptlock' = NoCPU

\* acquire(&ptable.lock), on CPU c.
AcquirePtable(c) == ptlock = NoCPU /\ ptlock' = c

\* Mutant: interrupts come back while tickslock is held.
InterruptibleTicks(c) ==
  /\ intr[c] = "none"
  /\ ptlock # c
  /\ on[c] # NoProc => pc[on[c]] # "panic"

\* CPU c has interrupts enabled: acquire() disables them, release() of the last
\* spinlock enables them again, and panic() disables them for good.
Interruptible(c) ==
  /\ intr[c] = "none"
  /\ ptlock # c /\ tickslock # c
  /\ on[c] # NoProc => pc[on[c]] # "panic"

-----------------------------------------------------------------------------
(* System call entry and exit, in trap().                                  *)

\* What programs call.  init forks a shell and waits, forever.
calls(p) ==
  (IF p = initproc THEN {"fork", "wait"} ELSE Calls) \ {f \in {"fork"} : nextpid > MaxPid}

\* A trap into the kernel; a killed process exits instead of running the call.
Syscall(c, p, call) ==
  /\ Executes(c, p)
  /\ call \in calls(p)
  /\ Goto(p, "user", IF killed[p] THEN "exit" ELSE call)
  /\ UNCHANGED <<table, ptlock, tickslock, proc, on, spc, intr, resume, np, left>>

\* The killed check on the way back to user space.
TrapRet(c, p) ==
  /\ Executes(c, p)
  /\ Goto(p, "ret", IF killed[p] THEN "exit" ELSE "user")
  /\ UNCHANGED <<table, ptlock, tickslock, proc, on, spc, intr, resume, np, left>>

-----------------------------------------------------------------------------
(* fork() and allocproc().                                                 *)

\* What a failed fork() leads to: init exits, other programs go on.
ForkFailed(p) == IF p = initproc THEN "exit" ELSE "ret"

\* allocproc: take the first UNUSED slot and a pid.
AllocSlot(c, p) ==
  /\ Executes(c, p)
  /\ ptlock = NoCPU
  /\ \E q \in Slot :
       /\ First(q, LAMBDA r : state[r] = "UNUSED")
       /\ state' = [state EXCEPT ![q] = "EMBRYO"]
       /\ pid' = [pid EXCEPT ![q] = nextpid]
       /\ np' = [np EXCEPT ![p] = q]
  /\ nextpid' = nextpid + 1
  /\ Goto(p, "fork", "kstack")
  /\ UNCHANGED <<parent, chan, killed, kstack, ptlock, tickslock,
                 proc, on, spc, intr, resume, left>>

\* allocproc finds no UNUSED slot.
AllocNoSlot(c, p) ==
  /\ Executes(c, p)
  /\ ptlock = NoCPU
  /\ \A q \in Slot : state[q] # "UNUSED"
  /\ Goto(p, "fork", ForkFailed(p))
  /\ UNCHANGED <<table, ptlock, tickslock, proc, on, spc, intr, resume, np, left>>

\* allocproc: the kernel stack is allocated and set up to start at forkret; the
\* random number of tickets takes tickslock for a moment.
AllocStack(c, p) ==
  /\ Executes(c, p)
  /\ pc[p] = "kstack"
  /\ tickslock = NoCPU
  /\ kstack' = [kstack EXCEPT ![np[p]] = TRUE]
  /\ pc' = [pc EXCEPT ![p] = "copy", ![np[p]] = "swtched"]
  /\ resume' = [resume EXCEPT ![np[p]] = "user"]
  /\ UNCHANGED <<state, pid, parent, chan, killed, nextpid, ptlock, tickslock,
                 proc, on, spc, intr, np, left>>

\* allocproc: kalloc fails; the slot is given back without the lock.
AllocNoStack(c, p) ==
  /\ Executes(c, p)
  /\ state' = [state EXCEPT ![np[p]] = "UNUSED"]
  /\ np' = [np EXCEPT ![p] = NoProc]
  /\ Goto(p, "kstack", ForkFailed(p))
  /\ UNCHANGED <<pid, parent, chan, killed, kstack, nextpid, ptlock, tickslock,
                 proc, on, spc, intr, resume, left>>

\* fork: copyuvm succeeds; the child gets its parent, without the lock.
ForkCopy(c, p) ==
  /\ Executes(c, p)
  /\ parent' = [parent EXCEPT ![np[p]] = p]
  /\ Goto(p, "copy", "start")
  /\ UNCHANGED <<state, pid, chan, killed, kstack, nextpid, ptlock, tickslock,
                 proc, on, spc, intr, resume, np, left>>

\* fork: copyuvm fails; stack and slot are given back without the lock.
ForkNoMem(c, p) ==
  /\ Executes(c, p)
  /\ pc[p] = "copy"
  /\ kstack' = [kstack EXCEPT ![np[p]] = FALSE]
  /\ state' = [state EXCEPT ![np[p]] = "UNUSED"]
  /\ np' = [np EXCEPT ![p] = NoProc]
  /\ pc' = [pc EXCEPT ![p] = ForkFailed(p), ![np[p]] = "none"]
  /\ UNCHANGED <<pid, parent, chan, killed, nextpid, ptlock, tickslock,
                 proc, on, spc, intr, resume, left>>

\* fork: the child becomes RUNNABLE under the lock.
ForkStart(c, p) ==
  /\ Executes(c, p)
  /\ ptlock = NoCPU
  /\ state' = [state EXCEPT ![np[p]] = "RUNNABLE"]
  /\ np' = [np EXCEPT ![p] = NoProc]
  /\ Goto(p, "start", "ret")
  /\ UNCHANGED <<pid, parent, chan, killed, kstack, nextpid, ptlock, tickslock,
                 proc, on, spc, intr, resume, left>>

-----------------------------------------------------------------------------
(* exit(), wait() and kill().                                              *)

\* Mutant: the parent is not told that its child exits.
exitWakesInit(p) == {initproc : q \in {r \in children(p) : state[r] = "ZOMBIE"}}

\* The channels exit() wakes: the parent's, which may be in wait(), and init's
\* when it inherits a ZOMBIE.
exitWakes(p) ==
  {parent[p]} \union {initproc : q \in {r \in children(p) : state[r] = "ZOMBIE"}}

\* Mutant: only the ZOMBIE children are passed on.
reparentZombies(p) ==
  [q \in Slot |-> IF parent[q] = p /\ state[q] = "ZOMBIE" THEN initproc ELSE parent[q]]

\* Abandoned children go to init.
reparent(p) == [q \in Slot |-> IF parent[q] = p THEN initproc ELSE parent[q]]

\* exit: wake the parent, pass the children to init, become a ZOMBIE.
Exit(c, p) ==
  /\ Executes(c, p)
  /\ p # initproc
  /\ AcquirePtable(c)
  /\ state' = [wakeup1(exitWakes(p)) EXCEPT ![p] = "ZOMBIE"]
  /\ parent' = reparent(p)
  /\ resume' = [resume EXCEPT ![p] = "zombie_exit"]
  /\ Goto(p, "exit", "sched")
  /\ UNCHANGED <<pid, chan, killed, kstack, nextpid, tickslock,
                 proc, on, spc, intr, np, left>>

\* panic("init exiting"): the CPU stops with interrupts disabled.
InitExit(c, p) ==
  /\ Executes(c, p)
  /\ p = initproc
  /\ Goto(p, "exit", "panic")
  /\ UNCHANGED <<table, ptlock, tickslock, proc, on, spc, intr, resume, np, left>>

\* wait: take the lock.
WaitLock(c, p) ==
  /\ Executes(c, p)
  /\ AcquirePtable(c)
  /\ Goto(p, "wait", "wait_scan")
  /\ UNCHANGED <<table, tickslock, proc, on, spc, intr, resume, np, left>>

\* wait: free the first ZOMBIE child and return.
WaitReap(c, p) ==
  /\ Executes(c, p)
  /\ pc[p] = "wait_scan"
  /\ \E q \in Slot :
       /\ First(q, LAMBDA r : parent[r] = p /\ state[r] = "ZOMBIE")
       /\ kstack' = [kstack EXCEPT ![q] = FALSE]
       /\ pid' = [pid EXCEPT ![q] = 0]
       /\ parent' = [parent EXCEPT ![q] = NoProc]
       /\ killed' = [killed EXCEPT ![q] = FALSE]
       /\ state' = [state EXCEPT ![q] = "UNUSED"]
       /\ pc' = [pc EXCEPT ![q] = "none", ![p] = "ret"]
  /\ ptlock' = NoCPU
  /\ UNCHANGED <<chan, nextpid, tickslock, proc, on, spc, intr, resume, np, left>>

\* wait: no child has exited.
NoZombieChild(p) == \A q \in children(p) : state[q] # "ZOMBIE"

\* wait: return -1, there is no child or the caller has been killed.
WaitFail(c, p) ==
  /\ Executes(c, p)
  /\ NoZombieChild(p)
  /\ children(p) = {} \/ killed[p]
  /\ Goto(p, "wait_scan", "ret")
  /\ ptlock' = NoCPU
  /\ UNCHANGED <<table, tickslock, proc, on, spc, intr, resume, np, left>>

\* wait: sleep(curproc, &ptable.lock).
WaitSleep(c, p) ==
  /\ Executes(c, p)
  /\ NoZombieChild(p)
  /\ children(p) # {} /\ ~killed[p]
  /\ chan' = [chan EXCEPT ![p] = p]
  /\ state' = [state EXCEPT ![p] = "SLEEPING"]
  /\ resume' = [resume EXCEPT ![p] = "wait_scan"]
  /\ Goto(p, "wait_scan", "sched")
  /\ UNCHANGED <<pid, parent, killed, kstack, nextpid, ptlock, tickslock,
                 proc, on, spc, intr, np, left>>

\* Mutant: the state is set without looking at it.
rouseAlways(st) == "RUNNABLE"

\* A process that kill() hits is taken out of its sleep.
rouse(st) == IF st = "SLEEPING" THEN "RUNNABLE" ELSE st

\* kill: mark the first slot with that pid and make it runnable if it sleeps.
kill(c, p, target) ==
  /\ Executes(c, p)
  /\ ptlock = NoCPU
  /\ Goto(p, "kill", "ret")
  /\ \/ \E q \in Slot :
          /\ First(q, LAMBDA r : pid[r] = target)
          /\ killed' = [killed EXCEPT ![q] = TRUE]
          /\ state' = [state EXCEPT ![q] = rouse(@)]
     \/ /\ \A q \in Slot : pid[q] # target
        /\ UNCHANGED <<killed, state>>
  /\ UNCHANGED <<pid, parent, chan, kstack, nextpid, ptlock, tickslock,
                 proc, on, spc, intr, resume, np, left>>

-----------------------------------------------------------------------------
(* sys_sleep() and sleep() on a channel protected by a lock of its own.    *)

\* sys_sleep: take tickslock and read ticks0.
SleepEnter(c, p) ==
  /\ Executes(c, p)
  /\ tickslock = NoCPU
  /\ tickslock' = c
  /\ left' = [left EXCEPT ![p] = SleepTicks]
  /\ Goto(p, "sleep", "tick_check")
  /\ UNCHANGED <<table, ptlock, proc, on, spc, intr, resume, np>>

\* sys_sleep: the time is up or the caller has been killed.
SleepDone(c, p) ==
  /\ Executes(c, p)
  /\ left[p] = 0 \/ killed[p]
  /\ tickslock' = NoCPU
  /\ left' = [left EXCEPT ![p] = 0]
  /\ Goto(p, "tick_check", "ret")
  /\ UNCHANGED <<table, ptlock, proc, on, spc, intr, resume, np>>

\* Mutant: tickslock is released before ptable.lock is taken.
SleepMoreEarly(c, p) ==
  /\ Executes(c, p)
  /\ left[p] > 0 /\ ~killed[p]
  /\ tickslock' = NoCPU
  /\ Goto(p, "tick_check", "sleep_lock")
  /\ UNCHANGED <<table, ptlock, proc, on, spc, intr, resume, np, left>>

\* sys_sleep: the loop condition and the killed check lead to sleep().
SleepMore(c, p) ==
  /\ Executes(c, p)
  /\ left[p] > 0 /\ ~killed[p]
  /\ Goto(p, "tick_check", "sleep_lock")
  /\ UNCHANGED <<table, ptlock, tickslock, proc, on, spc, intr, resume, np, left>>

\* sleep: acquire ptable.lock, only then release lk, and go to sleep.
SleepCommit(c, p) ==
  /\ Executes(c, p)
  /\ AcquirePtable(c)
  /\ tickslock' = NoCPU
  /\ chan' = [chan EXCEPT ![p] = ticksChan]
  /\ state' = [state EXCEPT ![p] = "SLEEPING"]
  /\ resume' = [resume EXCEPT ![p] = "relock"]
  /\ Goto(p, "sleep_lock", "sched")
  /\ UNCHANGED <<pid, parent, killed, kstack, nextpid, proc, on, spc, intr, np, left>>

\* sleep: acquire lk again and go back to the caller's loop.
SleepRelock(c, p) ==
  /\ Executes(c, p)
  /\ tickslock = NoCPU
  /\ tickslock' = c
  /\ Goto(p, "relock", "tick_check")
  /\ UNCHANGED <<table, ptlock, proc, on, spc, intr, resume, np, left>>

-----------------------------------------------------------------------------
(* sched() and scheduler(): the context switches.                          *)

\* sched: swtch to the CPU's scheduler thread; ptable.lock stays held.
Sched(c, p) ==
  /\ Executes(c, p)
  /\ Goto(p, "sched", "swtched")
  /\ on' = [on EXCEPT ![c] = NoProc]
  /\ spc' = [spc EXCEPT ![c] = "back"]
  /\ UNCHANGED <<table, ptlock, tickslock, proc, intr, resume, np, left>>

\* scheduler: c->proc = 0 and release, after a process has switched back.
SchedulerBack(c) ==
  /\ on[c] = NoProc
  /\ spc[c] = "back"
  /\ proc' = [proc EXCEPT ![c] = NoProc]
  /\ ptlock' = NoCPU
  /\ spc' = [spc EXCEPT ![c] = "idle"]
  /\ UNCHANGED <<table, tickslock, on, intr, pc, resume, np, left>>

\* scheduler: take the lock and choose a RUNNABLE process.
SchedulerPick(c, p) ==
  /\ on[c] = NoProc
  /\ intr[c] = "none"
  /\ spc[c] = "idle"
  /\ AcquirePtable(c)
  /\ state[p] = "RUNNABLE"
  /\ proc' = [proc EXCEPT ![c] = p]
  /\ state' = [state EXCEPT ![p] = "RUNNING"]
  /\ spc' = [spc EXCEPT ![c] = "swtch"]
  /\ UNCHANGED <<pid, parent, chan, killed, kstack, nextpid, tickslock,
                 on, intr, pc, resume, np, left>>

\* scheduler: swtch to the process.
SchedulerSwtch(c) ==
  /\ on[c] = NoProc
  /\ spc[c] = "swtch"
  /\ on' = [on EXCEPT ![c] = proc[c]]
  /\ spc' = [spc EXCEPT ![c] = "in"]
  /\ UNCHANGED <<table, ptlock, tickslock, proc, intr, pc, resume, np, left>>

\* The thread goes on after swtch: in forkret, yield, or sleep.  wait() keeps
\* the lock, since it slept on ptable.lock itself; the others release it.
Resume(c, p) ==
  /\ Executes(c, p)
  /\ Goto(p, "swtched", resume[p])
  /\ chan' = [chan EXCEPT ![p] = IF resume[p] \in {"wait_scan", "relock"} THEN NoProc ELSE @]
  /\ ptlock' = IF resume[p] = "wait_scan" THEN c ELSE NoCPU
  /\ resume' = [resume EXCEPT ![p] = "none"]
  /\ UNCHANGED <<state, pid, parent, killed, kstack, nextpid, tickslock,
                 proc, on, spc, intr, np, left>>

-----------------------------------------------------------------------------
(* The timer interrupt, in trap().                                         *)

\* One tick of the time left, n, in a sys_sleep() call.
elapse(n) == IF n > 0 THEN n - 1 ELSE 0

\* On CPU 0: acquire tickslock and increment ticks.
TimerTick(c) ==
  /\ c = 0
  /\ Interruptible(c)
  /\ tickslock = NoCPU
  /\ tickslock' = c
  /\ left' = [p \in Slot |-> elapse(left[p])]
  /\ intr' = [intr EXCEPT ![c] = "wakeup"]
  /\ UNCHANGED <<table, ptlock, proc, on, spc, pc, resume, np>>

\* On CPU 0: wakeup(&ticks), then release tickslock.
TimerWakeup(c) ==
  /\ intr[c] = "wakeup"
  /\ ptlock = NoCPU
  /\ state' = wakeup1({ticksChan})
  /\ tickslock' = NoCPU
  /\ intr' = [intr EXCEPT ![c] = IF on[c] = NoProc THEN "none" ELSE "tail"]
  /\ UNCHANGED <<pid, parent, chan, killed, kstack, nextpid, ptlock,
                 proc, on, spc, pc, resume, np, left>>

\* On the other CPUs the timer only leads to yield.
TimerOther(c) ==
  /\ c # 0
  /\ Interruptible(c)
  /\ on[c] # NoProc
  /\ intr' = [intr EXCEPT ![c] = "tail"]
  /\ UNCHANGED <<table, ptlock, tickslock, proc, on, spc, pc, resume, np, left>>

\* Mutant: the interrupt returns to user space whatever killed says.
TrapKilledSkip(c, p) ==
  /\ on[c] = p
  /\ intr[c] = "tail"
  /\ killed[p]
  /\ Goto(p, "user", "user")
  /\ intr' = [intr EXCEPT ![c] = "none"]
  /\ UNCHANGED <<table, ptlock, tickslock, proc, on, spc, resume, np, left>>

\* trap: a killed process interrupted in user space exits.
TrapKilled(c, p) ==
  /\ on[c] = p
  /\ intr[c] = "tail"
  /\ killed[p]
  /\ Goto(p, "user", "exit")
  /\ intr' = [intr EXCEPT ![c] = "none"]
  /\ UNCHANGED <<table, ptlock, tickslock, proc, on, spc, resume, np, left>>

\* trap: yield(); a process interrupted in user space then repeats the killed check.
Yield(c, p) ==
  /\ on[c] = p
  /\ intr[c] = "tail"
  /\ ~(pc[p] = "user" /\ killed[p])
  /\ AcquirePtable(c)
  /\ state' = [state EXCEPT ![p] = "RUNNABLE"]
  /\ resume' = [resume EXCEPT ![p] = IF pc[p] = "user" THEN "ret" ELSE pc[p]]
  /\ pc' = [pc EXCEPT ![p] = "sched"]
  /\ intr' = [intr EXCEPT ![c] = "none"]
  /\ UNCHANGED <<pid, parent, chan, killed, kstack, nextpid, tickslock,
                 proc, on, spc, np, left>>

-----------------------------------------------------------------------------
Fork(c, p) ==
  \/ AllocSlot(c, p)
  \/ AllocNoSlot(c, p)
  \/ AllocStack(c, p)
  \/ AllocNoStack(c, p)
  \/ ForkCopy(c, p)
  \/ ForkNoMem(c, p)
  \/ ForkStart(c, p)

Wait(c, p) ==
  \/ WaitLock(c, p)
  \/ WaitReap(c, p)
  \/ WaitFail(c, p)
  \/ WaitSleep(c, p)

Sleep(c, p) ==
  \/ SleepEnter(c, p)
  \/ SleepDone(c, p)
  \/ SleepMore(c, p)
  \/ SleepCommit(c, p)
  \/ SleepRelock(c, p)

\* The steps of a system call, up to the return to user space.
Kernel(c, p) ==
  \/ TrapRet(c, p)
  \/ Fork(c, p)
  \/ Exit(c, p)
  \/ InitExit(c, p)
  \/ Wait(c, p)
  \/ \E target \in KillPids : kill(c, p, target)
  \/ Sleep(c, p)
  \/ TrapKilled(c, p)

\* The steps that give up the CPU and take it again.
Switch(c, p) ==
  \/ Sched(c, p)
  \/ Resume(c, p)
  \/ Yield(c, p)

Thread(c, p) ==
  \/ \E call \in Call : Syscall(c, p, call)
  \/ Kernel(c, p)
  \/ Switch(c, p)

Scheduler(c) ==
  \/ SchedulerBack(c)
  \/ \E p \in Slot : SchedulerPick(c, p)
  \/ SchedulerSwtch(c)

Timer(c) ==
  \/ TimerTick(c)
  \/ TimerWakeup(c)
  \/ TimerOther(c)

Next ==
  \E c \in CPU :
    \/ \E p \in Slot : Thread(c, p)
    \/ Scheduler(c)
    \/ Timer(c)

Spec == Init /\ [][Next]_vars

(***************************************************************************)
(* A thread gets on with its system call between two timer interrupts, and *)
(* a spinlock that is released again and again is acquired in the end.     *)
(* Timer interrupts keep arriving.  The scheduler leaves no RUNNABLE       *)
(* process out forever.  init.c calls wait() again and again; nothing is   *)
(* assumed of what other programs call.                                    *)
(***************************************************************************)
Fairness ==
  /\ \A p \in Slot : SF_vars(\E c \in CPU : Kernel(c, p))
  /\ \A p \in Slot : SF_vars(\E c \in CPU : SchedulerPick(c, p))
  /\ \A c \in CPU : SF_vars(SchedulerBack(c) \/ SchedulerSwtch(c) \/ \E p \in Slot : Switch(c, p))
  /\ \A c \in CPU : SF_vars(Timer(c))
  /\ SF_vars(\E c \in CPU : Syscall(c, initproc, "wait"))

FairSpec == Spec /\ Fairness

-----------------------------------------------------------------------------
(* Properties.                                                             *)

TypeOK ==
  /\ state \in [Slot -> procstate]
  /\ pid \in [Slot -> Nat]
  /\ parent \in [Slot -> Slot \union {NoProc}]
  /\ chan \in [Slot -> Slot \union {NoProc, ticksChan}]
  /\ killed \in [Slot -> BOOLEAN]
  /\ kstack \in [Slot -> BOOLEAN]
  /\ nextpid \in Nat
  /\ ptlock \in CPU \union {NoCPU}
  /\ tickslock \in CPU \union {NoCPU}
  /\ proc \in [CPU -> Slot \union {NoProc}]
  /\ on \in [CPU -> Slot \union {NoProc}]
  /\ spc \in [CPU -> {"idle", "swtch", "in", "back"}]
  /\ intr \in [CPU -> {"none", "wakeup", "tail"}]
  /\ pc \in [Slot -> Label]
  /\ resume \in [Slot -> Label]
  /\ np \in [Slot -> Slot \union {NoProc}]
  /\ left \in [Slot -> 0 .. SleepTicks]

\* No kernel stack is run on by two CPUs, and none is freed while a CPU still
\* runs on it: sched() keeps ptable.lock across swtch, so that neither another
\* CPU's scheduler nor the parent's wait() gets hold of a process whose thread
\* has not yet left its stack.
StackSafe ==
  \A c \in CPU : on[c] # NoProc =>
    /\ kstack[on[c]]
    /\ \A d \in CPU : on[d] = on[c] => d = c

\* A process has a CPU exactly when it is RUNNING, once ptable.lock is free:
\* no process is marked RUNNING without a CPU, and none is RUNNABLE, asleep or
\* dead while a CPU still executes it.
RunningHasCPU ==
  ptlock = NoCPU =>
    \A p \in Slot : state[p] = "RUNNING" <=> \E c \in CPU : on[c] = p /\ proc[c] = p

\* The checks of sched() never panic: the caller holds ptable.lock, no other
\* spinlock (ncli = 1), and has changed its state from RUNNING.
SchedChecks ==
  \A c \in CPU : \A p \in Slot :
    on[c] = p /\ pc[p] = "sched" =>
      ptlock = c /\ tickslock # c /\ state[p] # "RUNNING"

\* A parent asleep in wait() is waiting for something that will happen: it has a
\* child, no child of it is already a ZOMBIE, and it has not been killed.
\* exit() wakes it, or init for the orphans, under the lock wait() sleeps with.
WaitNotLost ==
  ptlock = NoCPU =>
    \A p \in Slot : state[p] = "SLEEPING" /\ chan[p] = p =>
      /\ children(p) # {}
      /\ NoZombieChild(p)
      /\ ~killed[p]

\* A process asleep in sys_sleep() whose time is up is about to be woken: the
\* tick that completed it is still being handled.  sleep() takes ptable.lock
\* before it releases tickslock, so that no tick falls in between.
TickNotLost ==
  \A p \in Slot : state[p] = "SLEEPING" /\ chan[p] = ticksChan =>
    left[p] > 0 \/ intr[0] = "wakeup"

\* Every process that has a parent has a live one, which can still wait() for
\* it; exit() hands the children over to init, whatever their state.
LiveParent ==
  ptlock = NoCPU =>
    \A p \in Slot : parent[p] # NoProc =>
      state[parent[p]] \in {"SLEEPING", "RUNNABLE", "RUNNING"}

\* init never exits, so that its CPU does not stop in panic("init exiting").
NoPanic == [](pc[initproc] # "panic")

\* A killed process exits: wherever it was when kill() hit it, asleep, runnable,
\* running or still being built, it reaches exit().
KilledExits ==
  NoPanic => \A p \in Slot \ {initproc} :
    killed[p] /\ state[p] # "UNUSED" ~> state[p] \in {"ZOMBIE", "UNUSED"}

\* A ZOMBIE that init has inherited is freed by init's loop of wait() calls.
OrphanReaped ==
  NoPanic => \A p \in Slot :
    state[p] = "ZOMBIE" /\ parent[p] = initproc ~> state[p] = "UNUSED"

-----------------------------------------------------------------------------
(* The inductive invariant behind the safety properties.                   *)

\* Where a thread is in its system call, on or off the CPU.
pos(p) == IF pc[p] \in {"sched", "swtched"} THEN resume[p] ELSE pc[p]

\* Who holds the two spinlocks.
LockInv ==
  \A c \in CPU :
    /\ ptlock = c <=> \/ spc[c] \in {"swtch", "back"}
                      \/ spc[c] = "in" /\ pc[on[c]] \in {"wait_scan", "sched", "swtched"}
    /\ tickslock = c <=> \/ intr[c] = "wakeup"
                         \/ spc[c] = "in" /\ pc[on[c]] \in {"tick_check", "sleep_lock"}

\* What each CPU executes: its scheduler, or the process it has chosen.
CpuInv ==
  \A c \in CPU :
    /\ spc[c] = "idle" <=> proc[c] = NoProc
    /\ spc[c] = "in" <=> on[c] # NoProc
    /\ spc[c] = "in" => on[c] = proc[c]
    /\ spc[c] = "in" => pc[on[c]] = "sched" \/ state[on[c]] = "RUNNING"
    /\ spc[c] = "swtch" => pc[proc[c]] = "swtched" /\ state[proc[c]] = "RUNNING"
    /\ spc[c] = "back" => /\ pc[proc[c]] = "swtched"
                          /\ state[proc[c]] \in {"RUNNABLE", "SLEEPING", "ZOMBIE"}
    /\ intr[c] # "none" => spc[c] = "idle" \/ (spc[c] = "in" /\ pc[on[c]] \in Unlocked)
    /\ intr[c] = "wakeup" => c = 0
    /\ intr[c] = "tail" => on[c] # NoProc
    /\ \A d \in CPU : proc[c] = proc[d] /\ proc[c] # NoProc => c = d

\* What the state of a slot says about its thread.
SlotInv ==
  \A p \in Slot :
    /\ state[p] = "UNUSED" => pc[p] = "none" /\ parent[p] = NoProc
    /\ state[p] = "EMBRYO" =>
         pc[p] = "none" \/ (pc[p] = "swtched" /\ kstack[p] /\ resume[p] = "user")
    /\ state[p] \in {"RUNNABLE", "SLEEPING"} =>
         /\ kstack[p]
         /\ pc[p] \in {"sched", "swtched"}
         /\ resume[p] \in Unlocked \union {"wait_scan"}
    /\ state[p] = "RUNNING" =>
         /\ kstack[p]
         /\ pc[p] \notin {"none", "sched", "zombie_exit"}
         /\ pc[p] = "swtched" => resume[p] \in Unlocked \union {"wait_scan"}
         /\ \E c \in CPU : proc[c] = p
    /\ state[p] = "ZOMBIE" =>
         /\ kstack[p]
         /\ pc[p] \in {"sched", "swtched"}
         /\ resume[p] = "zombie_exit"
    /\ pc[p] = "sched" => state[p] # "RUNNING" /\ \E c \in CPU : on[c] = p

\* fork() owns the EMBRYO it builds.
BuildInv ==
  \A p \in Slot :
    /\ np[p] # NoProc <=> pos(p) \in {"kstack", "copy", "start"}
    /\ np[p] # NoProc =>
         /\ state[np[p]] = "EMBRYO"
         /\ pos(p) = "kstack" <=> pc[np[p]] = "none"
         /\ pos(p) # "start" => parent[np[p]] = NoProc
         /\ \A q \in Slot : np[q] = np[p] => q = p

\* Parents are alive, init above all, and no one waits in vain.
FamilyInv ==
  /\ state[initproc] \in {"SLEEPING", "RUNNABLE", "RUNNING"}
  /\ parent[initproc] = NoProc
  /\ \A p \in Slot :
       /\ parent[p] # p
       /\ parent[p] # NoProc => state[parent[p]] \in {"SLEEPING", "RUNNABLE", "RUNNING"}
       /\ state[p] = "SLEEPING" /\ chan[p] = p =>
            children(p) # {} /\ NoZombieChild(p) /\ ~killed[p]
       /\ pc[p] = "sleep_lock" => left[p] > 0

IInv == TypeOK /\ LockInv /\ CpuInv /\ SlotInv /\ BuildInv /\ FamilyInv /\ TickNotLost

=============================================================================
