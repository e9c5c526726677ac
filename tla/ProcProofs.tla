---------------------------- MODULE ProcProofs --------------------------------
(***************************************************************************)
(* Proofs about module Proc: the inductive invariant IInv and the safety   *)
(* properties that follow from it, for every number of slots and CPUs.     *)
(*                                                                         *)
(* IInv has one part per idea: the spinlocks, the CPUs, the tick, the      *)
(* types, the slots, the slot that fork() builds, and the family tree.     *)
(* Each part has a lemma with one step per action; the parts lean on one   *)
(* another, so every lemma assumes all of IInv in the state before the     *)
(* step.                                                                   *)
(***************************************************************************)
EXTENDS Proc, TLAPS

-----------------------------------------------------------------------------
(* The lemmas all parts use, and the ownership of the two spinlocks.       *)

(* The null values lie outside the sets they are added to.                 *)
LEMMA InitSlot ==
  initproc \in Slot /\ NoProc \notin Slot /\ ticksChan \notin Slot /\ NoCPU \notin CPU
  BY ConstAssumption DEF initproc, Slot, NoProc, ticksChan, NoCPU, CPU

(* The process a CPU executes is the one it has chosen, no other CPU has   *)
(* chosen it, and it is RUNNING unless it is about to call sched().        *)
LEMMA Executing ==
  ASSUME IInv, NEW c \in CPU, NEW p \in Slot, on[c] = p
  PROVE  /\ spc[c] = "in" /\ proc[c] = p
         /\ \A d \in CPU : d # c => on[d] # p /\ proc[d] # p
         /\ pc[p] = "sched" \/ state[p] = "RUNNING"
  BY InitSlot DEF IInv, CpuInv, TypeOK

(* No CPU has chosen an UNUSED or EMBRYO slot.                             *)
LEMMA Idle ==
  ASSUME IInv, NEW q \in Slot, state[q] \in {"UNUSED", "EMBRYO"}
  PROVE  \A d \in CPU : proc[d] # q /\ on[d] # q
<1> SUFFICES ASSUME NEW d \in CPU, proc[d] = q PROVE FALSE
  BY InitSlot DEF IInv, TypeOK, CpuInv
<1>1. spc[d] \in {"idle", "swtch", "in", "back"}
  BY Zenon DEF IInv, TypeOK
<1> QED
  BY <1>1, InitSlot DEF IInv, CpuInv, SlotInv

(* The child that fork() builds is an EMBRYO of its own, off every CPU.    *)
LEMMA Building ==
  ASSUME IInv, NEW p \in Slot, pos(p) \in {"kstack", "copy", "start"}
  PROVE  /\ np[p] \in Slot /\ np[p] # p /\ np[p] # initproc
         /\ state[np[p]] = "EMBRYO"
         /\ \A d \in CPU : proc[d] # np[p] /\ on[d] # np[p]
<1>1. np[p] \in Slot /\ state[np[p]] = "EMBRYO"
  BY Zenon, InitSlot DEF IInv, TypeOK, BuildInv
<1>2. np[p] # p
  BY Zenon, <1>1 DEF IInv, SlotInv, pos
<1>3. np[p] # initproc
  BY Zenon, <1>1 DEF IInv, FamilyInv
<1> QED
  BY Zenon, <1>1, <1>2, <1>3, Idle

(* A ZOMBIE that wait() finds under ptable.lock has left its stack: no CPU *)
(* executes it any more.                                                   *)
LEMMA DeadOffCPU ==
  ASSUME IInv, NEW c \in CPU, ptlock = c, NEW p \in Slot, on[c] = p, NEW q \in Slot,
         state[q] = "ZOMBIE", pc[p] # "sched"
  PROVE  \A d \in CPU : proc[d] # q /\ on[d] # q
<1> SUFFICES ASSUME NEW d \in CPU, proc[d] = q PROVE FALSE
  BY InitSlot DEF IInv, TypeOK, CpuInv
<1>1. d # c
  BY Zenon, Executing
<1>2. ptlock # d
  BY Zenon, <1>1
<1>3. spc[d] = "in" /\ on[d] = q /\ pc[q] # "sched"
  BY <1>2, InitSlot DEF IInv, TypeOK, CpuInv, LockInv
<1> QED
  BY <1>3 DEF IInv, CpuInv

(* Every step preserves who holds the spinlocks: acquire, release and the  *)
(* hand-over across swtch agree with the positions of the threads.         *)
LEMMA LockNext == IInv /\ [Next]_vars => LockInv'
<1> SUFFICES ASSUME IInv, [Next]_vars PROVE LockInv'
  OBVIOUS
<1>types. /\ ptlock \in CPU \union {NoCPU} /\ tickslock \in CPU \union {NoCPU}
          /\ on \in [CPU -> Slot \union {NoProc}] /\ proc \in [CPU -> Slot \union {NoProc}]
          /\ spc \in [CPU -> {"idle", "swtch", "in", "back"}]
          /\ intr \in [CPU -> {"none", "wakeup", "tail"}]
          /\ pc \in [Slot -> Label]
  BY Zenon DEF IInv, TypeOK
<1>more. \A d \in CPU : spc[d] = "in" <=> on[d] # NoProc
  BY Zenon DEF IInv, CpuInv
<1> USE <1>types, <1>more, InitSlot DEF IInv, LockInv, Executes, Goto, Unlocked, Call
<1>1. ASSUME NEW c \in CPU, NEW p \in Slot, NEW call \in Call, Syscall(c, p, call) PROVE LockInv'
  <2>1. spc[c] = "in" /\ \A d \in CPU : d # c => on[d] # p
    BY <1>1, Executing DEF Syscall
  <2> QED
    BY <1>1, <2>1 DEF Syscall, table
<1>2. ASSUME NEW c \in CPU, NEW p \in Slot, TrapRet(c, p) PROVE LockInv'
  <2>1. spc[c] = "in" /\ \A d \in CPU : d # c => on[d] # p
    BY <1>2, Executing DEF TrapRet
  <2> QED
    BY <1>2, <2>1 DEF TrapRet, table
<1>3. ASSUME NEW c \in CPU, NEW p \in Slot, AllocSlot(c, p) PROVE LockInv'
  <2>1. spc[c] = "in" /\ \A d \in CPU : d # c => on[d] # p
    BY <1>3, Executing DEF AllocSlot
  <2> QED
    BY <1>3, <2>1 DEF AllocSlot
<1>4. ASSUME NEW c \in CPU, NEW p \in Slot, AllocNoSlot(c, p) PROVE LockInv'
  <2>1. spc[c] = "in" /\ \A d \in CPU : d # c => on[d] # p
    BY <1>4, Executing DEF AllocNoSlot
  <2> QED
    BY <1>4, <2>1 DEF AllocNoSlot, table, ForkFailed
<1>5. ASSUME NEW c \in CPU, NEW p \in Slot, AllocStack(c, p) PROVE LockInv'
  <2>1. np[p] \in Slot /\ np[p] # p /\ \A d \in CPU : on[d] # np[p]
    BY <1>5, Building DEF AllocStack, pos
  <2>2. spc[c] = "in" /\ \A d \in CPU : d # c => on[d] # p
    BY <1>5, Executing DEF AllocStack
  <2>3. \A d \in CPU : spc[d] = "in" => on[d] \in Slot
    BY DEF IInv, CpuInv
  <2>4. \A d \in CPU \ {c} : spc[d] = "in" => pc'[on[d]] = pc[on[d]]
    BY ZenonT(30), <1>5, <2>1, <2>2, <2>3 DEF AllocStack
  <2>5. pc[p] \in Unlocked /\ pc'[p] \in Unlocked
    BY Zenon, <1>5, <2>1 DEF AllocStack
  <2>6. on[c] = p /\ UNCHANGED <<ptlock, tickslock, spc, intr, on>>
    BY Zenon, <1>5 DEF AllocStack
  <2> QED
    BY <2>2, <2>4, <2>5, <2>6
<1>6. ASSUME NEW c \in CPU, NEW p \in Slot, AllocNoStack(c, p) PROVE LockInv'
  <2>1. spc[c] = "in" /\ \A d \in CPU : d # c => on[d] # p
    BY <1>6, Executing DEF AllocNoStack
  <2> QED
    BY <1>6, <2>1 DEF AllocNoStack, ForkFailed
<1>7. ASSUME NEW c \in CPU, NEW p \in Slot, ForkCopy(c, p) PROVE LockInv'
  <2>1. spc[c] = "in" /\ \A d \in CPU : d # c => on[d] # p
    BY <1>7, Executing DEF ForkCopy
  <2> QED
    BY <1>7, <2>1 DEF ForkCopy
<1>8. ASSUME NEW c \in CPU, NEW p \in Slot, ForkNoMem(c, p) PROVE LockInv'
  <2>1. np[p] \in Slot /\ np[p] # p /\ \A d \in CPU : on[d] # np[p]
    BY <1>8, Building DEF ForkNoMem, pos
  <2>2. spc[c] = "in" /\ \A d \in CPU : d # c => on[d] # p
    BY <1>8, Executing DEF ForkNoMem
  <2>3. \A d \in CPU : spc[d] = "in" => on[d] \in Slot
    BY DEF IInv, CpuInv
  <2>4. \A d \in CPU \ {c} : spc[d] = "in" => pc'[on[d]] = pc[on[d]]
    BY <1>8, <2>1, <2>2, <2>3 DEF ForkNoMem
  <2>5. pc[p] \in Unlocked /\ pc'[p] \in Unlocked
    BY Zenon, <1>8, <2>1 DEF ForkNoMem, ForkFailed
  <2>6. on[c] = p /\ UNCHANGED <<ptlock, tickslock, spc, intr, on>>
    BY Zenon, <1>8 DEF ForkNoMem
  <2> QED
    BY <2>2, <2>4, <2>5, <2>6
<1>9. ASSUME NEW c \in CPU, NEW p \in Slot, ForkStart(c, p) PROVE LockInv'
  <2>1. spc[c] = "in" /\ \A d \in CPU : d # c => on[d] # p
    BY <1>9, Executing DEF ForkStart
  <2> QED
    BY <1>9, <2>1 DEF ForkStart
<1>10. ASSUME NEW c \in CPU, NEW p \in Slot, Exit(c, p) PROVE LockInv'
  <2>1. spc[c] = "in" /\ \A d \in CPU : d # c => on[d] # p
    BY <1>10, Executing DEF Exit
  <2> QED
    BY <1>10, <2>1 DEF Exit, AcquirePtable
<1>11. ASSUME NEW c \in CPU, NEW p \in Slot, InitExit(c, p) PROVE LockInv'
  <2>1. spc[c] = "in" /\ \A d \in CPU : d # c => on[d] # p
    BY <1>11, Executing DEF InitExit
  <2> QED
    BY <1>11, <2>1 DEF InitExit, table
<1>12. ASSUME NEW c \in CPU, NEW p \in Slot, WaitLock(c, p) PROVE LockInv'
  <2>1. spc[c] = "in" /\ \A d \in CPU : d # c => on[d] # p
    BY <1>12, Executing DEF WaitLock
  <2> QED
    BY <1>12, <2>1 DEF WaitLock, table, AcquirePtable
<1>13. ASSUME NEW c \in CPU, NEW p \in Slot, WaitReap(c, p) PROVE LockInv'
  <2>1. spc[c] = "in" /\ \A d \in CPU : d # c => on[d] # p
    BY <1>13, Executing DEF WaitReap
  <2>2. ptlock = c
    BY Zenon, <1>13, <2>1 DEF WaitReap
  <2>3. PICK q \in Slot : state[q] = "ZOMBIE" /\ pc' = [pc EXCEPT ![q] = "none", ![p] = "ret"]
    BY Zenon, <1>13 DEF WaitReap, First
  <2>4. \A d \in CPU : on[d] # q
    BY <1>13, <2>2, <2>3, DeadOffCPU DEF WaitReap
  <2>5. \A d \in CPU : spc[d] = "in" => on[d] \in Slot
    BY DEF IInv, CpuInv
  <2>6. \A d \in CPU \ {c} : spc[d] = "in" => pc'[on[d]] = pc[on[d]]
    BY ZenonT(30), <2>1, <2>3, <2>4, <2>5
  <2>7. pc'[p] = "ret"
    BY Zenon, <1>13, <2>3
  <2>8. ptlock' = NoCPU /\ on[c] = p /\ pc[p] = "wait_scan"
                        /\ UNCHANGED <<tickslock, spc, intr, on>>
    BY Zenon, <1>13 DEF WaitReap
  <2> QED
    BY <2>1, <2>2, <2>6, <2>7, <2>8
<1>14. ASSUME NEW c \in CPU, NEW p \in Slot, WaitFail(c, p) PROVE LockInv'
  <2>1. spc[c] = "in" /\ \A d \in CPU : d # c => on[d] # p
    BY Zenon, <1>14, Executing DEF WaitFail
  <2> QED
    BY <1>14, <2>1 DEF WaitFail, table
<1>15. ASSUME NEW c \in CPU, NEW p \in Slot, WaitSleep(c, p) PROVE LockInv'
  <2>1. spc[c] = "in" /\ \A d \in CPU : d # c => on[d] # p
    BY <1>15, Executing DEF WaitSleep
  <2> QED
    BY <1>15, <2>1 DEF WaitSleep
<1>16. ASSUME NEW c \in CPU, NEW p \in Slot, NEW target \in KillPids, kill(c, p, target)
       PROVE LockInv'
  <2>1. spc[c] = "in" /\ \A d \in CPU : d # c => on[d] # p
    BY <1>16, Executing DEF kill
  <2> QED
    BY <1>16, <2>1 DEF kill
<1>17. ASSUME NEW c \in CPU, NEW p \in Slot, SleepEnter(c, p) PROVE LockInv'
  <2>1. spc[c] = "in" /\ \A d \in CPU : d # c => on[d] # p
    BY <1>17, Executing DEF SleepEnter
  <2> QED
    BY <1>17, <2>1 DEF SleepEnter, table
<1>18. ASSUME NEW c \in CPU, NEW p \in Slot, SleepDone(c, p) PROVE LockInv'
  <2>1. spc[c] = "in" /\ \A d \in CPU : d # c => on[d] # p
    BY Zenon, <1>18, Executing DEF SleepDone
  <2> QED
    BY <1>18, <2>1 DEF SleepDone, table
<1>19. ASSUME NEW c \in CPU, NEW p \in Slot, SleepMore(c, p) PROVE LockInv'
  <2>1. spc[c] = "in" /\ \A d \in CPU : d # c => on[d] # p
    BY <1>19, Executing DEF SleepMore
  <2> QED
    BY <1>19, <2>1 DEF SleepMore, table
<1>20. ASSUME NEW c \in CPU, NEW p \in Slot, SleepCommit(c, p) PROVE LockInv'
  <2>1. spc[c] = "in" /\ \A d \in CPU : d # c => on[d] # p
    BY <1>20, Executing DEF SleepCommit
  <2> QED
    BY <1>20, <2>1 DEF SleepCommit, AcquirePtable
<1>21. ASSUME NEW c \in CPU, NEW p \in Slot, SleepRelock(c, p) PROVE LockInv'
  <2>1. spc[c] = "in" /\ \A d \in CPU : d # c => on[d] # p
    BY <1>21, Executing DEF SleepRelock
  <2> QED
    BY <1>21, <2>1 DEF SleepRelock, table
<1>22. ASSUME NEW c \in CPU, NEW p \in Slot, TrapKilled(c, p) PROVE LockInv'
  <2>1. spc[c] = "in" /\ \A d \in CPU : d # c => on[d] # p
    BY <1>22, Executing DEF TrapKilled
  <2> QED
    BY <1>22, <2>1 DEF TrapKilled, table
<1>23. ASSUME NEW c \in CPU, NEW p \in Slot, Sched(c, p) PROVE LockInv'
  <2>1. spc[c] = "in" /\ \A d \in CPU : d # c => on[d] # p
    BY <1>23, Executing DEF Sched
  <2> QED
    BY <1>23, <2>1 DEF Sched, table
<1>24. ASSUME NEW c \in CPU, NEW p \in Slot, Resume(c, p) PROVE LockInv'
  <2>1. spc[c] = "in" /\ state[p] = "RUNNING" /\ \A d \in CPU : d # c => on[d] # p
    BY Zenon, <1>24, Executing DEF Resume
  <2>2. resume[p] \in Unlocked \union {"wait_scan"}
    BY Zenon, <1>24, <2>1 DEF Resume, SlotInv
  <2> QED
    BY <1>24, <2>1, <2>2 DEF Resume
<1>25. ASSUME NEW c \in CPU, NEW p \in Slot, Yield(c, p) PROVE LockInv'
  <2>1. spc[c] = "in" /\ \A d \in CPU : d # c => on[d] # p
    BY ZenonT(30), <1>25, Executing DEF Yield
  <2>2. pc[p] \in Unlocked
    BY Zenon, <1>25, <2>1 DEF Yield, CpuInv
  <2> QED
    BY <1>25, <2>1, <2>2 DEF Yield, AcquirePtable
<1>26. ASSUME NEW c \in CPU, SchedulerBack(c) PROVE LockInv'
  BY <1>26 DEF SchedulerBack, table
<1>27. ASSUME NEW c \in CPU, NEW p \in Slot, SchedulerPick(c, p) PROVE LockInv'
  BY <1>27 DEF SchedulerPick, AcquirePtable
<1>28. ASSUME NEW c \in CPU, SchedulerSwtch(c) PROVE LockInv'
  <2>1. proc[c] \in Slot /\ pc[proc[c]] = "swtched"
    BY <1>28 DEF SchedulerSwtch, CpuInv
  <2> QED
    BY <1>28, <2>1 DEF SchedulerSwtch, table
<1>29. ASSUME NEW c \in CPU, TimerTick(c) PROVE LockInv'
  <2>1. /\ tickslock = NoCPU /\ tickslock' = c /\ intr' = [intr EXCEPT ![c] = "wakeup"]
        /\ UNCHANGED <<ptlock, spc, on, pc>>
    BY Zenon, <1>29 DEF TimerTick
  <2> QED
    BY <2>1
<1>30. ASSUME NEW c \in CPU, TimerWakeup(c) PROVE LockInv'
  <2>1. spc[c] = "idle" \/ (spc[c] = "in" /\ pc[on[c]] \in Unlocked)
    BY Zenon, <1>30 DEF TimerWakeup, CpuInv
  <2> QED
    BY <1>30, <2>1 DEF TimerWakeup
<1>31. ASSUME NEW c \in CPU, TimerOther(c) PROVE LockInv'
  BY Zenon, <1>31 DEF TimerOther, table, Interruptible
<1>32. CASE UNCHANGED vars
  BY Zenon, <1>32 DEF vars, table, threads
<1> HIDE DEF IInv, LockInv, Executes, Goto, Unlocked, Call
<1> QED
  BY Zenon, <1>1, <1>2, <1>3, <1>4, <1>5, <1>6, <1>7, <1>8, <1>9, <1>10, <1>11, <1>12, <1>13, <1>14,
     <1>15, <1>16, <1>17, <1>18, <1>19, <1>20, <1>21, <1>22, <1>23, <1>24, <1>25, <1>26, <1>27,
     <1>28, <1>29, <1>30, <1>31, <1>32
     DEF Next, Thread, Kernel, Fork, Wait, Sleep, Switch, Scheduler, Timer

-----------------------------------------------------------------------------
(* What the CPUs execute, and that no step loses a tick.                   *)

(* The actions that only move a RUNNING thread to another place in the     *)
(* kernel, and may take or leave a spinlock.                               *)
Move(c, p) ==
  \/ \E call \in Call : Syscall(c, p, call)
  \/ TrapRet(c, p)
  \/ AllocNoSlot(c, p)
  \/ InitExit(c, p)
  \/ WaitLock(c, p)
  \/ WaitFail(c, p)
  \/ SleepEnter(c, p)
  \/ SleepDone(c, p)
  \/ SleepMore(c, p)
  \/ SleepRelock(c, p)
  \/ TrapKilled(c, p)

(* The positions the parts of IInv other than LockInv speak of.            *)
Special == {"none", "sched", "swtched", "zombie_exit", "kstack", "copy", "start"}

(* What such an action does to the variables of those parts.               *)
Moved(c, p) ==
  /\ state[p] = "RUNNING"
  /\ pc[p] \notin Special
  /\ pc'[p] \notin Special /\ \A q \in Slot \ {p} : pc'[q] = pc[q]
  /\ pc'[p] = "sleep_lock" => left[p] > 0 /\ left' = left
  /\ \A q \in Slot \ {p} : left'[q] = left[q]
  /\ on[c] = p /\ intr'[c] = "none" /\ \A d \in CPU \ {c} : intr'[d] = intr[d]
  /\ intr[c] # "wakeup"
  /\ UNCHANGED <<state, parent, chan, killed, kstack, proc, on, spc, resume, np>>

(* The actions of Move have the effect Moved.                              *)
LEMMA MoveMoves ==
  ASSUME IInv, NEW c \in CPU, NEW p \in Slot, Move(c, p)
  PROVE  Moved(c, p)
<1>types. /\ intr \in [CPU -> {"none", "wakeup", "tail"}] /\ left \in [Slot -> 0 .. SleepTicks]
          /\ pc \in [Slot -> Label]
  BY Zenon DEF IInv, TypeOK
<1>1. on[c] = p /\ pc[p] # "sched" => state[p] = "RUNNING"
  BY Zenon, Executing
<1> USE <1>types, <1>1 DEF Special, Moved, Executes, Goto
<1>2. ASSUME NEW call \in Call, Syscall(c, p, call) PROVE Moved(c, p)
  BY Zenon, <1>2 DEF Syscall, table, Call
<1>3. ASSUME TrapRet(c, p) PROVE Moved(c, p)
  BY Zenon, <1>3 DEF TrapRet, table
<1>4. ASSUME AllocNoSlot(c, p) PROVE Moved(c, p)
  BY Zenon, <1>4 DEF AllocNoSlot, table, ForkFailed
<1>5. ASSUME InitExit(c, p) PROVE Moved(c, p)
  BY Zenon, <1>5 DEF InitExit, table
<1>6. ASSUME WaitLock(c, p) PROVE Moved(c, p)
  BY Zenon, <1>6 DEF WaitLock, table
<1>7. ASSUME WaitFail(c, p) PROVE Moved(c, p)
  BY Zenon, <1>7 DEF WaitFail, table
<1>8. ASSUME SleepEnter(c, p) PROVE Moved(c, p)
  BY Zenon, <1>8 DEF SleepEnter, table
<1>9. ASSUME SleepDone(c, p) PROVE Moved(c, p)
  BY Zenon, <1>9 DEF SleepDone, table
<1>10. ASSUME SleepMore(c, p) PROVE Moved(c, p)
  BY Zenon, <1>10 DEF SleepMore, table
<1>11. ASSUME SleepRelock(c, p) PROVE Moved(c, p)
  BY Zenon, <1>11 DEF SleepRelock, table
<1>12. ASSUME TrapKilled(c, p) PROVE Moved(c, p)
  BY Zenon, <1>12 DEF TrapKilled, table
<1> HIDE DEF Special, Moved, Executes, Goto
<1> QED
  BY Zenon, <1>2, <1>3, <1>4, <1>5, <1>6, <1>7, <1>8, <1>9, <1>10, <1>11, <1>12 DEF Move

(* Every step preserves what the CPUs execute; in particular the scheduler *)
(* never chooses a process that another CPU still has.                     *)
LEMMA CpuNext == IInv /\ [Next]_vars => CpuInv'
<1> SUFFICES ASSUME IInv, [Next]_vars PROVE CpuInv'
  OBVIOUS
<1>types. /\ ptlock \in CPU \union {NoCPU} /\ tickslock \in CPU \union {NoCPU}
          /\ on \in [CPU -> Slot \union {NoProc}] /\ proc \in [CPU -> Slot \union {NoProc}]
          /\ spc \in [CPU -> {"idle", "swtch", "in", "back"}]
          /\ intr \in [CPU -> {"none", "wakeup", "tail"}]
          /\ pc \in [Slot -> Label] /\ state \in [Slot -> procstate]
  BY Zenon DEF IInv, TypeOK
<1> USE <1>types, InitSlot DEF IInv, CpuInv, Executes, Goto, LockInv, Unlocked, Call
<1>1. ASSUME NEW c \in CPU, NEW p \in Slot, Move(c, p) PROVE CpuInv'
  <2>1. Moved(c, p)
    BY Zenon, <1>1, MoveMoves
  <2> QED
    BY <2>1 DEF Moved, Special
<1>2. ASSUME NEW c \in CPU, NEW p \in Slot, AllocSlot(c, p) PROVE CpuInv'
  BY <1>2 DEF AllocSlot, First
<1>3. ASSUME NEW c \in CPU, NEW p \in Slot, AllocStack(c, p) PROVE CpuInv'
  <2>1. np[p] \in Slot /\ np[p] # p /\ \A d \in CPU : on[d] # np[p] /\ proc[d] # np[p]
    BY <1>3, Building DEF AllocStack, pos
  <2> QED
    BY <1>3, <2>1 DEF AllocStack
<1>4. ASSUME NEW c \in CPU, NEW p \in Slot, AllocNoStack(c, p) PROVE CpuInv'
  <2>1. np[p] \in Slot /\ np[p] # p /\ \A d \in CPU : on[d] # np[p] /\ proc[d] # np[p]
    BY <1>4, Building DEF AllocNoStack, pos
  <2> QED
    BY <1>4, <2>1 DEF AllocNoStack, ForkFailed
<1>5. ASSUME NEW c \in CPU, NEW p \in Slot, ForkCopy(c, p) PROVE CpuInv'
  BY <1>5 DEF ForkCopy
<1>6. ASSUME NEW c \in CPU, NEW p \in Slot, ForkNoMem(c, p) PROVE CpuInv'
  <2>1. np[p] \in Slot /\ np[p] # p /\ \A d \in CPU : on[d] # np[p] /\ proc[d] # np[p]
    BY <1>6, Building DEF ForkNoMem, pos
  <2> QED
    BY <1>6, <2>1 DEF ForkNoMem, ForkFailed
<1>7. ASSUME NEW c \in CPU, NEW p \in Slot, ForkStart(c, p) PROVE CpuInv'
  <2>1. np[p] \in Slot /\ np[p] # p /\ \A d \in CPU : on[d] # np[p] /\ proc[d] # np[p]
    BY <1>7, Building DEF ForkStart, pos
  <2> QED
    BY <1>7, <2>1 DEF ForkStart
<1>8. ASSUME NEW c \in CPU, NEW p \in Slot, Exit(c, p) PROVE CpuInv'
  BY <1>8 DEF Exit, wakeup1, AcquirePtable
<1>9. ASSUME NEW c \in CPU, NEW p \in Slot, WaitReap(c, p) PROVE CpuInv'
  <2>1. spc[c] = "in" /\ ptlock = c
    BY Zenon, <1>9, Executing DEF WaitReap
  <2>3. PICK q \in Slot : /\ state[q] = "ZOMBIE"
                          /\ pc' = [pc EXCEPT ![q] = "none", ![p] = "ret"]
                          /\ state' = [state EXCEPT ![q] = "UNUSED"]
    BY Zenon, <1>9 DEF WaitReap, First
  <2>4. \A d \in CPU : on[d] # q /\ proc[d] # q
    BY SMTT(30), <1>9, <2>1, <2>3, DeadOffCPU DEF WaitReap
  <2> QED
    BY <1>9, <2>1, <2>3, <2>4 DEF WaitReap
<1>10. ASSUME NEW c \in CPU, NEW p \in Slot, WaitSleep(c, p) PROVE CpuInv'
  BY SMTT(30), <1>10 DEF WaitSleep
<1>11. ASSUME NEW c \in CPU, NEW p \in Slot, NEW target \in KillPids, kill(c, p, target)
       PROVE CpuInv'
  BY <1>11 DEF kill, First, rouse
<1>12. ASSUME NEW c \in CPU, NEW p \in Slot, SleepCommit(c, p) PROVE CpuInv'
  BY <1>12 DEF SleepCommit, AcquirePtable
<1>13. ASSUME NEW c \in CPU, NEW p \in Slot, Sched(c, p) PROVE CpuInv'
  <2>1. /\ spc[c] = "in" /\ proc[c] = p
        /\ \A d \in CPU : d # c => on[d] # p /\ proc[d] # p
    BY <1>13, Executing DEF Sched
  <2>2. state[p] \in {"RUNNABLE", "SLEEPING", "ZOMBIE"}
    BY <1>13 DEF Sched, SlotInv, procstate
  <2> QED
    BY <1>13, <2>1, <2>2 DEF Sched, table
<1>14. ASSUME NEW c \in CPU, NEW p \in Slot, Resume(c, p) PROVE CpuInv'
  BY <1>14 DEF Resume
<1>15. ASSUME NEW c \in CPU, NEW p \in Slot, Yield(c, p) PROVE CpuInv'
  BY <1>15 DEF Yield, AcquirePtable
<1>16. ASSUME NEW c \in CPU, SchedulerBack(c) PROVE CpuInv'
  BY <1>16 DEF SchedulerBack, table
<1>17. ASSUME NEW c \in CPU, NEW p \in Slot, SchedulerPick(c, p) PROVE CpuInv'
  <2>1. \A d \in CPU : proc[d] # p
    BY <1>17 DEF SchedulerPick, AcquirePtable
  <2>2. pc[p] = "swtched"
    BY <1>17, <2>1 DEF SchedulerPick, AcquirePtable, SlotInv
  <2> QED
    BY <1>17, <2>1, <2>2 DEF SchedulerPick
<1>18. ASSUME NEW c \in CPU, SchedulerSwtch(c) PROVE CpuInv'
  BY <1>18 DEF SchedulerSwtch, table
<1>19. ASSUME NEW c \in CPU, TimerTick(c) PROVE CpuInv'
  <2>1. spc[c] \in {"idle", "in"} /\ (spc[c] = "in" => pc[on[c]] \in Unlocked)
    <3>1. ASSUME spc[c] = "in" PROVE pc[on[c]] \in Unlocked
      BY <1>19, <3>1 DEF TimerTick, Interruptible, SlotInv, Label
    <3> QED
      BY SMTT(30), <1>19, <3>1 DEF TimerTick, Interruptible
  <2> QED
    BY <1>19, <2>1 DEF TimerTick, table
<1>20. ASSUME NEW c \in CPU, TimerWakeup(c) PROVE CpuInv'
  BY <1>20 DEF TimerWakeup, wakeup1
<1>21. ASSUME NEW c \in CPU, TimerOther(c) PROVE CpuInv'
  <2>1. spc[c] \in {"idle", "in"} /\ (spc[c] = "in" => pc[on[c]] \in Unlocked)
    <3>1. ASSUME spc[c] = "in" PROVE pc[on[c]] \in Unlocked
      BY SMTT(30), <1>21, <3>1 DEF TimerOther, Interruptible, SlotInv, Label
    <3> QED
      BY ZenonT(30), <1>21, <3>1 DEF TimerOther, Interruptible
  <2> QED
    BY <1>21, <2>1 DEF TimerOther, table
<1>22. CASE UNCHANGED vars
  BY <1>22 DEF vars, table, threads
<1> HIDE DEF IInv, CpuInv, Executes, Goto, LockInv, Unlocked, Call
<1> QED
  BY <1>1, <1>2, <1>3, <1>4, <1>5, <1>6, <1>7, <1>8, <1>9, <1>10, <1>11, <1>12, <1>13, <1>14,
     <1>15, <1>16, <1>17, <1>18, <1>19, <1>20, <1>21, <1>22
     DEF Next, Thread, Kernel, Fork, Wait, Sleep, Switch, Scheduler, Timer, Move

(* A step that puts no one to sleep on the ticks keeps TickNotLost.        *)
LEMMA TickFrame ==
  ASSUME IInv, intr[0] = "wakeup" => intr'[0] = "wakeup",
         \A q \in Slot : state'[q] = "SLEEPING" /\ chan'[q] = ticksChan =>
           state[q] = "SLEEPING" /\ chan[q] = ticksChan /\ left'[q] = left[q]
  PROVE  TickNotLost'
  BY Zenon DEF IInv, TickNotLost

(* Every step preserves that no tick is lost between sys_sleep()'s check   *)
(* and its sleep.                                                          *)
LEMMA TickNext == IInv /\ [Next]_vars => TickNotLost'
<1> SUFFICES ASSUME IInv, [Next]_vars PROVE TickNotLost'
  OBVIOUS
<1>types. /\ state \in [Slot -> procstate] /\ chan \in [Slot -> Slot \union {NoProc, ticksChan}]
          /\ left \in [Slot -> 0 .. SleepTicks] /\ intr \in [CPU -> {"none", "wakeup", "tail"}]
  BY Zenon DEF IInv, TypeOK
<1> USE <1>types, InitSlot DEF Executes, Goto
<1>1. ASSUME NEW c \in CPU, NEW p \in Slot, Move(c, p) PROVE TickNotLost'
  <2>1. Moved(c, p)
    BY Zenon, <1>1, MoveMoves
  <2>2. intr[0] = "wakeup" => intr'[0] = "wakeup"
    <3>1. 0 \in CPU
      BY ConstAssumption DEF CPU
    <3> QED
      BY Zenon, <2>1, <3>1 DEF Moved
  <2> QED
    BY Zenon, <2>1, <2>2, TickFrame DEF Moved
<1>2. ASSUME NEW c \in CPU, NEW p \in Slot, AllocSlot(c, p) PROVE TickNotLost'
  BY Zenon, <1>2, TickFrame DEF AllocSlot
<1>3. ASSUME NEW c \in CPU, NEW p \in Slot, AllocStack(c, p) PROVE TickNotLost'
  BY Zenon, <1>3, TickFrame DEF AllocStack
<1>4. ASSUME NEW c \in CPU, NEW p \in Slot, AllocNoStack(c, p) PROVE TickNotLost'
  BY Zenon, <1>4, TickFrame DEF AllocNoStack
<1>5. ASSUME NEW c \in CPU, NEW p \in Slot, ForkCopy(c, p) PROVE TickNotLost'
  BY Zenon, <1>5, TickFrame DEF ForkCopy
<1>6. ASSUME NEW c \in CPU, NEW p \in Slot, ForkNoMem(c, p) PROVE TickNotLost'
  BY Zenon, <1>6, TickFrame DEF ForkNoMem
<1>7. ASSUME NEW c \in CPU, NEW p \in Slot, ForkStart(c, p) PROVE TickNotLost'
  BY Zenon, <1>7, TickFrame DEF ForkStart
<1>8. ASSUME NEW c \in CPU, NEW p \in Slot, Exit(c, p) PROVE TickNotLost'
  BY Zenon, <1>8, TickFrame DEF Exit, wakeup1
<1>9. ASSUME NEW c \in CPU, NEW p \in Slot, WaitReap(c, p) PROVE TickNotLost'
  BY Zenon, <1>9, TickFrame DEF WaitReap
<1>10. ASSUME NEW c \in CPU, NEW p \in Slot, WaitSleep(c, p) PROVE TickNotLost'
  BY Zenon, <1>10, TickFrame DEF WaitSleep
<1>11. ASSUME NEW c \in CPU, NEW p \in Slot, NEW target \in KillPids, kill(c, p, target)
       PROVE TickNotLost'
  <2>1. \A q \in Slot : state'[q] = state[q] \/ (state[q] = "SLEEPING" /\ state'[q] = "RUNNABLE")
    <3>1. UNCHANGED state \/ \E r \in Slot : state' = [state EXCEPT ![r] = rouse(@)]
      BY <1>11, Zenon DEF kill
    <3> QED
      BY Zenon, <3>1 DEF rouse
  <2>2. UNCHANGED <<chan, left, intr>>
    BY Zenon, <1>11 DEF kill
  <2> QED
    BY Zenon, <2>1, <2>2, TickFrame
<1>12. ASSUME NEW c \in CPU, NEW p \in Slot, SleepCommit(c, p) PROVE TickNotLost'
  <2>1. left[p] > 0
    BY Zenon, <1>12 DEF SleepCommit, IInv, FamilyInv
  <2> QED
    BY Zenon, <1>12, <2>1 DEF SleepCommit, IInv, TickNotLost
<1>13. ASSUME NEW c \in CPU, NEW p \in Slot, Sched(c, p) PROVE TickNotLost'
  BY Zenon, <1>13, TickFrame DEF Sched, table
<1>14. ASSUME NEW c \in CPU, NEW p \in Slot, Resume(c, p) PROVE TickNotLost'
  <2>1. state[p] = "RUNNING"
    BY Zenon, <1>14, Executing DEF Resume
  <2> QED
    BY Zenon, <1>14, <2>1, TickFrame DEF Resume
<1>15. ASSUME NEW c \in CPU, NEW p \in Slot, Yield(c, p) PROVE TickNotLost'
  <2>1. intr[0] = "wakeup" => intr'[0] = "wakeup"
    <3>1. intr[c] = "tail" /\ intr' = [intr EXCEPT ![c] = "none"]
      BY ZenonT(30), <1>15 DEF Yield
    <3> QED
      BY <3>1
  <2>2. \A q \in Slot : state'[q] = "SLEEPING" /\ chan'[q] = ticksChan =>
          state[q] = "SLEEPING" /\ chan[q] = ticksChan /\ left'[q] = left[q]
    BY <1>15 DEF Yield
  <2> QED
    BY Zenon, <2>1, <2>2, TickFrame
<1>16. ASSUME NEW c \in CPU, SchedulerBack(c) PROVE TickNotLost'
  BY Zenon, <1>16, TickFrame DEF SchedulerBack, table
<1>17. ASSUME NEW c \in CPU, NEW p \in Slot, SchedulerPick(c, p) PROVE TickNotLost'
  BY Zenon, <1>17, TickFrame DEF SchedulerPick
<1>18. ASSUME NEW c \in CPU, SchedulerSwtch(c) PROVE TickNotLost'
  BY Zenon, <1>18, TickFrame DEF SchedulerSwtch, table
<1>19. ASSUME NEW c \in CPU, TimerTick(c) PROVE TickNotLost'
  BY Zenon, <1>19 DEF TimerTick, TickNotLost
<1>20. ASSUME NEW c \in CPU, TimerWakeup(c) PROVE TickNotLost'
  BY Zenon, <1>20 DEF TimerWakeup, wakeup1, TickNotLost
<1>21. ASSUME NEW c \in CPU, TimerOther(c) PROVE TickNotLost'
  <2>1. intr[0] = "wakeup" => intr'[0] = "wakeup"
    BY <1>21 DEF TimerOther
  <2> QED
    BY Zenon, <1>21, <2>1, TickFrame DEF TimerOther, table
<1>22. CASE UNCHANGED vars
  BY Zenon, <1>22, TickFrame DEF vars, table, threads
<1> HIDE DEF Executes, Goto
<1> QED
  BY <1>1, <1>2, <1>3, <1>4, <1>5, <1>6, <1>7, <1>8, <1>9, <1>10, <1>11, <1>12, <1>13, <1>14,
     <1>15, <1>16, <1>17, <1>18, <1>19, <1>20, <1>21, <1>22
     DEF Next, Thread, Kernel, Fork, Wait, Sleep, Switch, Scheduler, Timer, Move

-----------------------------------------------------------------------------
(* The types, and the agreement of a slot's state with its thread.         *)

(* Every step preserves the types.                                         *)
LEMMA TypeNext == TypeOK /\ [Next]_vars => TypeOK'
<1> SUFFICES ASSUME TypeOK, [Next]_vars PROVE TypeOK'
  OBVIOUS
<1> USE ConstAssumption DEF TypeOK, Executes, Goto, procstate, Label, Unlocked, Call
<1>1. ASSUME NEW c \in CPU, NEW p \in Slot, NEW call \in Call, Syscall(c, p, call) PROVE TypeOK'
  BY Zenon, <1>1 DEF Syscall, table
<1>2. ASSUME NEW c \in CPU, NEW p \in Slot, TrapRet(c, p) PROVE TypeOK'
  BY Zenon, <1>2 DEF TrapRet, table
<1>3. ASSUME NEW c \in CPU, NEW p \in Slot, AllocSlot(c, p) PROVE TypeOK'
  BY <1>3 DEF AllocSlot, First
<1>4. ASSUME NEW c \in CPU, NEW p \in Slot, AllocNoSlot(c, p) PROVE TypeOK'
  BY Zenon, <1>4 DEF AllocNoSlot, table, ForkFailed
<1>5. ASSUME NEW c \in CPU, NEW p \in Slot, AllocStack(c, p) PROVE TypeOK'
  BY Zenon, <1>5 DEF AllocStack
<1>6. ASSUME NEW c \in CPU, NEW p \in Slot, AllocNoStack(c, p) PROVE TypeOK'
  BY Zenon, <1>6 DEF AllocNoStack, ForkFailed
<1>7. ASSUME NEW c \in CPU, NEW p \in Slot, ForkCopy(c, p) PROVE TypeOK'
  BY Zenon, <1>7 DEF ForkCopy
<1>8. ASSUME NEW c \in CPU, NEW p \in Slot, ForkNoMem(c, p) PROVE TypeOK'
  BY Zenon, <1>8 DEF ForkNoMem, ForkFailed
<1>9. ASSUME NEW c \in CPU, NEW p \in Slot, ForkStart(c, p) PROVE TypeOK'
  BY Zenon, <1>9 DEF ForkStart
<1>10. ASSUME NEW c \in CPU, NEW p \in Slot, Exit(c, p) PROVE TypeOK'
  BY Zenon, InitSlot, <1>10 DEF Exit, wakeup1, reparent, AcquirePtable
<1>11. ASSUME NEW c \in CPU, NEW p \in Slot, InitExit(c, p) PROVE TypeOK'
  BY Zenon, <1>11 DEF InitExit, table
<1>12. ASSUME NEW c \in CPU, NEW p \in Slot, WaitLock(c, p) PROVE TypeOK'
  BY Zenon, <1>12 DEF WaitLock, table, AcquirePtable
<1>13. ASSUME NEW c \in CPU, NEW p \in Slot, WaitReap(c, p) PROVE TypeOK'
  BY <1>13 DEF WaitReap
<1>14. ASSUME NEW c \in CPU, NEW p \in Slot, WaitFail(c, p) PROVE TypeOK'
  BY Zenon, <1>14 DEF WaitFail, table
<1>15. ASSUME NEW c \in CPU, NEW p \in Slot, WaitSleep(c, p) PROVE TypeOK'
  BY Zenon, <1>15 DEF WaitSleep
<1>16. ASSUME NEW c \in CPU, NEW p \in Slot, NEW target \in KillPids, kill(c, p, target)
       PROVE TypeOK'
  <2>1. UNCHANGED killed \/ \E r \in Slot : killed' = [killed EXCEPT ![r] = TRUE]
    BY <1>16, Zenon DEF kill
  <2>2. UNCHANGED state \/ \E r \in Slot : state' = [state EXCEPT ![r] = rouse(@)]
    BY <1>16, Zenon DEF kill
  <2>3. killed' \in [Slot -> BOOLEAN]
    BY ZenonT(30), <2>1
  <2>4. state' \in [Slot -> procstate]
    BY <2>2 DEF rouse
  <2> QED
    BY Zenon, <1>16, <2>3, <2>4 DEF kill
<1>17. ASSUME NEW c \in CPU, NEW p \in Slot, SleepEnter(c, p) PROVE TypeOK'
  BY <1>17 DEF SleepEnter, table
<1>18. ASSUME NEW c \in CPU, NEW p \in Slot, SleepDone(c, p) PROVE TypeOK'
  BY <1>18 DEF SleepDone, table
<1>19. ASSUME NEW c \in CPU, NEW p \in Slot, SleepMore(c, p) PROVE TypeOK'
  BY Zenon, <1>19 DEF SleepMore, table
<1>20. ASSUME NEW c \in CPU, NEW p \in Slot, SleepCommit(c, p) PROVE TypeOK'
  BY Zenon, <1>20 DEF SleepCommit, AcquirePtable
<1>21. ASSUME NEW c \in CPU, NEW p \in Slot, SleepRelock(c, p) PROVE TypeOK'
  BY Zenon, <1>21 DEF SleepRelock, table
<1>22. ASSUME NEW c \in CPU, NEW p \in Slot, Sched(c, p) PROVE TypeOK'
  BY Zenon, <1>22 DEF Sched, table
<1>23. ASSUME NEW c \in CPU, SchedulerBack(c) PROVE TypeOK'
  BY Zenon, <1>23 DEF SchedulerBack, table
<1>24. ASSUME NEW c \in CPU, NEW p \in Slot, SchedulerPick(c, p) PROVE TypeOK'
  BY Zenon, <1>24 DEF SchedulerPick, AcquirePtable
<1>25. ASSUME NEW c \in CPU, SchedulerSwtch(c) PROVE TypeOK'
  BY Zenon, <1>25 DEF SchedulerSwtch, table
<1>26. ASSUME NEW c \in CPU, NEW p \in Slot, Resume(c, p) PROVE TypeOK'
  BY Zenon, <1>26 DEF Resume
<1>27. ASSUME NEW c \in CPU, TimerTick(c) PROVE TypeOK'
  BY <1>27 DEF TimerTick, table, elapse
<1>28. ASSUME NEW c \in CPU, TimerWakeup(c) PROVE TypeOK'
  BY Zenon, <1>28 DEF TimerWakeup, wakeup1
<1>29. ASSUME NEW c \in CPU, TimerOther(c) PROVE TypeOK'
  BY Zenon, <1>29 DEF TimerOther, table
<1>30. ASSUME NEW c \in CPU, NEW p \in Slot, TrapKilled(c, p) PROVE TypeOK'
  BY Zenon, <1>30 DEF TrapKilled, table
<1>31. ASSUME NEW c \in CPU, NEW p \in Slot, Yield(c, p) PROVE TypeOK'
  BY ZenonT(30), <1>31 DEF Yield, AcquirePtable
<1>32. CASE UNCHANGED vars
  BY Zenon, <1>32 DEF vars, table, threads
<1> HIDE DEF TypeOK, Executes, Goto, procstate, Label, Unlocked, Call
<1> QED
  BY ZenonT(30), <1>1, <1>2, <1>3, <1>4, <1>5, <1>6, <1>7, <1>8, <1>9, <1>10, <1>11, <1>12, <1>13,
     <1>14, <1>15, <1>16, <1>17, <1>18, <1>19, <1>20, <1>21, <1>22, <1>23, <1>24, <1>25,
     <1>26, <1>27, <1>28, <1>29, <1>30, <1>31, <1>32
     DEF Next, Thread, Kernel, Fork, Wait, Sleep, Switch, Scheduler, Timer

(* A step that changes no slot and no CPU keeps SlotInv.                   *)
LEMMA SlotFrame ==
  ASSUME IInv, UNCHANGED <<state, pc, parent, kstack, resume, proc, on>>
  PROVE  SlotInv'
  BY DEF IInv, SlotInv

(* Every step preserves the agreement of a slot's state with its thread.   *)
LEMMA SlotNext == IInv /\ [Next]_vars => SlotInv'
<1> SUFFICES ASSUME IInv, [Next]_vars PROVE SlotInv'
  OBVIOUS
<1>types. /\ on \in [CPU -> Slot \union {NoProc}] /\ proc \in [CPU -> Slot \union {NoProc}]
          /\ spc \in [CPU -> {"idle", "swtch", "in", "back"}] /\ ptlock \in CPU \union {NoCPU}
          /\ pc \in [Slot -> Label] /\ resume \in [Slot -> Label] /\ kstack \in [Slot -> BOOLEAN]
          /\ state \in [Slot -> procstate] /\ parent \in [Slot -> Slot \union {NoProc}]
          /\ np \in [Slot -> Slot \union {NoProc}]
  BY Zenon DEF IInv, TypeOK
<1> USE <1>types, InitSlot DEF Executes, Goto
<1>1. ASSUME NEW c \in CPU, NEW p \in Slot, Move(c, p) PROVE SlotInv'
  <2>1. Moved(c, p)
    BY Zenon, <1>1, MoveMoves
  <2> QED
    BY <2>1, SMTT(40) DEF Moved, Special, IInv, SlotInv
<1>2. ASSUME NEW c \in CPU, NEW p \in Slot, AllocSlot(c, p) PROVE SlotInv'
  <2>1. state[p] = "RUNNING" /\ proc[c] = p
    BY Zenon, <1>2, Executing DEF AllocSlot
  <2> QED
    BY <1>2, <2>1, SMTT(40) DEF AllocSlot, First, IInv, SlotInv
<1>3. ASSUME NEW c \in CPU, NEW p \in Slot, AllocStack(c, p) PROVE SlotInv'
  <2>1. state[p] = "RUNNING" /\ proc[c] = p
    BY Zenon, <1>3, Executing DEF AllocStack
  <2>2. np[p] \in Slot /\ np[p] # p /\ state[np[p]] = "EMBRYO"
    BY Zenon, <1>3, Building DEF AllocStack, pos
  <2> QED
    BY <1>3, <2>1, <2>2 DEF AllocStack, IInv, SlotInv
<1>4. ASSUME NEW c \in CPU, NEW p \in Slot, AllocNoStack(c, p) PROVE SlotInv'
  <2>1. state[p] = "RUNNING" /\ proc[c] = p
    BY Zenon, <1>4, Executing DEF AllocNoStack
  <2>2. np[p] \in Slot /\ np[p] # p /\ state[np[p]] = "EMBRYO"
    BY Zenon, <1>4, Building DEF AllocNoStack, pos
  <2>3. pc[np[p]] = "none" /\ parent[np[p]] = NoProc
    BY Zenon, <1>4, <2>2 DEF AllocNoStack, BuildInv, pos, IInv, SlotInv
  <2> QED
    BY <1>4, <2>1, <2>2, <2>3 DEF AllocNoStack, ForkFailed, IInv, SlotInv
<1>5. ASSUME NEW c \in CPU, NEW p \in Slot, ForkCopy(c, p) PROVE SlotInv'
  <2>1. state[p] = "RUNNING" /\ proc[c] = p
    BY Zenon, <1>5, Executing DEF ForkCopy
  <2>2. np[p] \in Slot /\ np[p] # p /\ state[np[p]] = "EMBRYO"
    BY ZenonT(30), <1>5, Building DEF ForkCopy, pos
  <2> QED
    BY <1>5, <2>1, <2>2 DEF ForkCopy, IInv, SlotInv
<1>6. ASSUME NEW c \in CPU, NEW p \in Slot, ForkNoMem(c, p) PROVE SlotInv'
  <2>1. state[p] = "RUNNING" /\ proc[c] = p
    BY Zenon, <1>6, Executing DEF ForkNoMem
  <2>2. np[p] \in Slot /\ np[p] # p /\ state[np[p]] = "EMBRYO"
    BY Zenon, <1>6, Building DEF ForkNoMem, pos
  <2>3. parent[np[p]] = NoProc
    BY ZenonT(30), <1>6, <2>2 DEF ForkNoMem, BuildInv, pos, IInv, SlotInv
  <2> QED
    BY <1>6, <2>1, <2>2, <2>3 DEF ForkNoMem, ForkFailed, IInv, SlotInv
<1>7. ASSUME NEW c \in CPU, NEW p \in Slot, ForkStart(c, p) PROVE SlotInv'
  <2>1. state[p] = "RUNNING" /\ proc[c] = p
    BY Zenon, <1>7, Executing DEF ForkStart
  <2>2. np[p] \in Slot /\ np[p] # p /\ state[np[p]] = "EMBRYO"
    BY Zenon, <1>7, Building DEF ForkStart, pos
  <2>3. pc[np[p]] = "swtched"
    BY ZenonT(30), <1>7, <2>2 DEF ForkStart, BuildInv, pos, IInv, SlotInv
  <2> QED
    BY <1>7, <2>1, <2>2, <2>3 DEF ForkStart, Unlocked, IInv, SlotInv
<1>8. ASSUME NEW c \in CPU, NEW p \in Slot, Exit(c, p) PROVE SlotInv'
  <2>1. state[p] = "RUNNING" /\ on[c] = p
    BY <1>8, Executing, ZenonT(30) DEF Executes, Exit
  <2>2. \A q \in Slot : /\ \/ q = p \/ state'[q] = state[q]
                           \/ state[q] = "SLEEPING" /\ state'[q] = "RUNNABLE"
                        /\ parent[q] = NoProc => parent'[q] = NoProc
    BY <1>8, SMTT(40) DEF Exit, wakeup1, reparent, IInv, SlotInv
  <2>3. /\ state'[p] = "ZOMBIE" /\ pc' = [pc EXCEPT ![p] = "sched"]
        /\ resume' = [resume EXCEPT ![p] = "zombie_exit"]
    BY Zenon, <1>8 DEF Exit, wakeup1, IInv, SlotInv
  <2>4. UNCHANGED <<kstack, on, proc>>
    BY Zenon, <1>8 DEF Exit, IInv, SlotInv
  <2> QED
    BY <2>1, <2>2, <2>3, <2>4 DEF IInv, SlotInv
<1>9. ASSUME NEW c \in CPU, NEW p \in Slot, WaitReap(c, p) PROVE SlotInv'
  <2>1. state[p] = "RUNNING" /\ on[c] = p /\ proc[c] = p
    BY <1>9, Executing, Zenon DEF Executes, WaitReap
  <2>2. PICK q \in Slot : /\ state[q] = "ZOMBIE"
                          /\ kstack' = [kstack EXCEPT ![q] = FALSE]
                          /\ parent' = [parent EXCEPT ![q] = NoProc]
                          /\ state' = [state EXCEPT ![q] = "UNUSED"]
                          /\ pc' = [pc EXCEPT ![q] = "none", ![p] = "ret"]
    BY Zenon, <1>9 DEF WaitReap, First, IInv, SlotInv
  <2>3. UNCHANGED <<resume, on, proc>>
    BY ZenonT(30), <1>9 DEF WaitReap, IInv, SlotInv
  <2> QED
    BY <2>1, <2>2, <2>3 DEF IInv, SlotInv
<1>10. ASSUME NEW c \in CPU, NEW p \in Slot, WaitSleep(c, p) PROVE SlotInv'
  <2>1. state[p] = "RUNNING" /\ proc[c] = p
    BY <1>10, Executing, ZenonT(30) DEF Executes, WaitSleep
  <2> QED
    BY <1>10, <2>1, SMTT(40) DEF WaitSleep, IInv, SlotInv
<1>11. ASSUME NEW c \in CPU, NEW p \in Slot, NEW target \in KillPids, kill(c, p, target)
       PROVE SlotInv'
  <2>1. state[p] = "RUNNING" /\ proc[c] = p
    BY ZenonT(30), <1>11, Executing DEF kill
  <2> QED
    BY <1>11, <2>1, SMTT(40) DEF kill, rouse, First, IInv, SlotInv
<1>12. ASSUME NEW c \in CPU, NEW p \in Slot, SleepCommit(c, p) PROVE SlotInv'
  <2>1. state[p] = "RUNNING" /\ proc[c] = p
    BY <1>12, Executing, ZenonT(30) DEF Executes, SleepCommit
  <2> QED
    BY <1>12, <2>1 DEF SleepCommit, Unlocked, IInv, SlotInv
<1>13. ASSUME NEW c \in CPU, NEW p \in Slot, Sched(c, p) PROVE SlotInv'
  <2>1. state[p] # "RUNNING"
    BY Zenon, <1>13 DEF Sched, IInv, SlotInv
  <2>2. \A d \in CPU : on[d] = p => d = c
    <3>1. on[c] = p
      BY Zenon, <1>13 DEF Sched
    <3> QED
      BY ZenonT(30), <3>1, Executing
  <2> QED
    BY <1>13, <2>1, <2>2, SMTT(40) DEF Sched, table, IInv, SlotInv
<1>14. ASSUME NEW c \in CPU, NEW p \in Slot, Resume(c, p) PROVE SlotInv'
  <2>1. state[p] = "RUNNING" /\ proc[c] = p
    BY <1>14, Executing, ZenonT(30) DEF Executes, Resume
  <2> QED
    BY <1>14, <2>1 DEF Resume, Unlocked, Call, IInv, SlotInv
<1>15. ASSUME NEW c \in CPU, NEW p \in Slot, Yield(c, p) PROVE SlotInv'
  <2>1. spc[c] = "in"
    BY Zenon, <1>15, Executing DEF Yield
  <2>2. pc[p] \in Unlocked
    BY Zenon, <1>15, <2>1 DEF Yield, CpuInv, IInv, SlotInv
  <2>3. state[p] = "RUNNING"
    BY Zenon, <1>15, <2>2, Executing DEF Yield, Unlocked, Call
  <2>4. kstack[p]
    BY Zenon, <2>3 DEF IInv, SlotInv
  <2>5. /\ on[c] = p
        /\ state' = [state EXCEPT ![p] = "RUNNABLE"] /\ pc' = [pc EXCEPT ![p] = "sched"]
        /\ resume' = [resume EXCEPT ![p] = IF pc[p] = "user" THEN "ret" ELSE pc[p]]
        /\ UNCHANGED <<kstack, parent, proc, on>>
    BY Zenon, <1>15 DEF Yield, IInv, SlotInv
  <2> QED
    BY <2>2, <2>3, <2>4, <2>5 DEF Unlocked, IInv, SlotInv
<1>16. ASSUME NEW c \in CPU, SchedulerBack(c) PROVE SlotInv'
  <2>1. state[proc[c]] # "RUNNING"
    BY ZenonT(30), <1>16 DEF SchedulerBack, CpuInv, IInv, SlotInv
  <2> QED
    BY <1>16, <2>1 DEF SchedulerBack, table, IInv, SlotInv
<1>17. ASSUME NEW c \in CPU, NEW p \in Slot, SchedulerPick(c, p) PROVE SlotInv'
  <2>1. pc[p] = "swtched"
    BY <1>17, SMTT(40) DEF SchedulerPick, AcquirePtable, LockInv, CpuInv, IInv, SlotInv
  <2>2. proc[c] = NoProc
    BY ZenonT(30), <1>17 DEF SchedulerPick, CpuInv, IInv
  <2> QED
    BY <1>17, <2>1, <2>2, SMTT(40) DEF SchedulerPick, IInv, SlotInv
<1>18. ASSUME NEW c \in CPU, SchedulerSwtch(c) PROVE SlotInv'
  BY <1>18 DEF SchedulerSwtch, table, CpuInv, IInv, SlotInv
<1>19. ASSUME NEW c \in CPU, TimerTick(c) PROVE SlotInv'
  BY Zenon, <1>19, SlotFrame DEF TimerTick, table
<1>20. ASSUME NEW c \in CPU, TimerWakeup(c) PROVE SlotInv'
  BY <1>20 DEF TimerWakeup, wakeup1, IInv, SlotInv
<1>21. ASSUME NEW c \in CPU, TimerOther(c) PROVE SlotInv'
  BY Zenon, <1>21, SlotFrame DEF TimerOther, table
<1>22. CASE UNCHANGED vars
  BY Zenon, <1>22, SlotFrame DEF vars, table, threads
<1> HIDE DEF Executes, Goto
<1> QED
  BY ZenonT(30), <1>1, <1>2, <1>3, <1>4, <1>5, <1>6, <1>7, <1>8, <1>9, <1>10, <1>11, <1>12, <1>13, <1>14,
     <1>15, <1>16, <1>17, <1>18, <1>19, <1>20, <1>21, <1>22
     DEF Next, Thread, Kernel, Fork, Wait, Sleep, Switch, Scheduler, Timer, Move

-----------------------------------------------------------------------------
(* fork()'s ownership of the slot it builds.                               *)

(* A step that moves no builder and touches no EMBRYO keeps BuildInv.      *)
LEMMA BuildFrame ==
  ASSUME IInv, np' = np,
         \A q \in Slot : \/ pos(q)' = pos(q)
                         \/ /\ pos(q) \notin {"kstack", "copy", "start"}
                            /\ pos(q)' \notin {"kstack", "copy", "start"},
         \A q \in Slot : state[q] = "EMBRYO" =>
            state'[q] = "EMBRYO" /\ pc'[q] = pc[q] /\ (parent[q] = NoProc => parent'[q] = NoProc)
  PROVE  BuildInv'
<1>1. np \in [Slot -> Slot \union {NoProc}]
  BY Zenon DEF IInv, TypeOK
<1>2. ASSUME NEW p \in Slot
      PROVE  np[p] # NoProc <=> pos(p)' \in {"kstack", "copy", "start"}
  BY DEF IInv, BuildInv
<1>3. ASSUME NEW p \in Slot, np[p] # NoProc
      PROVE  /\ state'[np[p]] = "EMBRYO"
             /\ pos(p)' = "kstack" <=> pc'[np[p]] = "none"
             /\ pos(p)' # "start" => parent'[np[p]] = NoProc
             /\ \A q \in Slot : np[q] = np[p] => q = p
  <2>1. np[p] \in Slot /\ pos(p)' = pos(p)
    BY <1>1, <1>2, <1>3 DEF IInv, BuildInv
  <2>2. /\ state[np[p]] = "EMBRYO"
        /\ pos(p) = "kstack" <=> pc[np[p]] = "none"
        /\ pos(p) # "start" => parent[np[p]] = NoProc
        /\ \A q \in Slot : np[q] = np[p] => q = p
    BY ZenonT(30), <1>3 DEF IInv, BuildInv
  <2> QED
    BY Zenon, <2>1, <2>2
<1> QED
  BY ZenonT(30), <1>2, <1>3 DEF BuildInv

(* Every step preserves fork()'s ownership of the slot it is building,     *)
(* although fork() writes to it without ptable.lock.                       *)
LEMMA BuildNext == IInv /\ [Next]_vars => BuildInv'
<1> SUFFICES ASSUME IInv, [Next]_vars PROVE BuildInv'
  OBVIOUS
<1>types. /\ state \in [Slot -> procstate] /\ parent \in [Slot -> Slot \union {NoProc}]
          /\ np \in [Slot -> Slot \union {NoProc}]
          /\ pc \in [Slot -> Label] /\ resume \in [Slot -> Label]
  BY Zenon DEF IInv, TypeOK
<1> USE <1>types, InitSlot DEF Executes, Goto
<1>1. ASSUME NEW c \in CPU, NEW p \in Slot, Move(c, p) PROVE BuildInv'
  <2>1. Moved(c, p)
    BY Zenon, <1>1, MoveMoves
  <2> QED
    BY Zenon, <2>1, BuildFrame DEF Moved, Special, pos
<1>2. ASSUME NEW c \in CPU, NEW p \in Slot, AllocSlot(c, p) PROVE BuildInv'
  <2>1. PICK q \in Slot : /\ state[q] = "UNUSED"
                          /\ state' = [state EXCEPT ![q] = "EMBRYO"]
                          /\ np' = [np EXCEPT ![p] = q]
    BY <1>2, Zenon DEF AllocSlot, First
  <2>2. pc[q] = "none" /\ parent[q] = NoProc
    BY Zenon, <2>1 DEF IInv, SlotInv
  <2>3. \A r \in Slot : np[r] # q
    BY Zenon, <2>1 DEF IInv, BuildInv
  <2>4. pc[p] = "fork" /\ pc' = [pc EXCEPT ![p] = "kstack"] /\ UNCHANGED <<parent, resume>>
    BY Zenon, <1>2 DEF AllocSlot
  <2>5. \A r \in Slot \ {p} : np'[r] = np[r] /\ pos(r)' = pos(r)
    BY Zenon, <2>1, <2>4 DEF pos
  <2>6. state[p] # "EMBRYO" /\ p # q
    BY Zenon, <2>2, <2>4, <1>2, Idle DEF AllocSlot
  <2>7. np'[p] = q /\ pos(p)' = "kstack" /\ pc'[q] = "none" /\ state'[q] = "EMBRYO"
    BY Zenon, <2>1, <2>2, <2>4, <2>6 DEF pos
  <2>8. \A r \in Slot : state[r] = "EMBRYO" => pc'[r] = pc[r] /\ state'[r] = "EMBRYO"
    BY Zenon, <2>1, <2>4, <2>6
  <2> QED
    BY <2>2, <2>3, <2>4, <2>5, <2>7, <2>8 DEF IInv, BuildInv
<1>3. ASSUME NEW c \in CPU, NEW p \in Slot, AllocStack(c, p) PROVE BuildInv'
  <2>1. np[p] \in Slot /\ np[p] # p /\ state[np[p]] = "EMBRYO"
    BY Zenon, <1>3, Building DEF AllocStack, pos
  <2>2. \A q \in Slot : np[q] = np[p] => q = p
    BY Zenon, <2>1 DEF IInv, BuildInv
  <2>3. /\ pc' = [pc EXCEPT ![p] = "copy", ![np[p]] = "swtched"]
        /\ resume' = [resume EXCEPT ![np[p]] = "user"]
        /\ pc[p] = "kstack" /\ UNCHANGED <<state, parent, np>>
    BY Zenon, <1>3 DEF AllocStack
  <2>4. state[p] # "EMBRYO"
    BY Zenon, <1>3, Idle DEF AllocStack
  <2>5. pos(p) = "kstack" /\ pos(p)' = "copy" /\ pc'[np[p]] = "swtched"
    BY Zenon, <2>1, <2>3 DEF pos
  <2>6. \A r \in Slot \ {p, np[p]} : pos(r)' = pos(r) /\ pc'[r] = pc[r]
    BY Zenon, <2>1, <2>3 DEF pos
  <2>7. /\ pos(np[p]) \notin {"kstack", "copy", "start"}
        /\ pos(np[p])' \notin {"kstack", "copy", "start"}
    BY <2>1, <2>3 DEF pos, IInv, SlotInv
  <2>8. np[np[p]] = NoProc
    BY Zenon, <2>1, <2>7 DEF IInv, BuildInv
  <2>9. ASSUME NEW r \in Slot \ {p}, np[r] # NoProc
        PROVE  r # np[p] /\ np[r] \in Slot \ {p, np[p]}
    BY ZenonT(30), <2>1, <2>2, <2>4, <2>8, <2>9 DEF IInv, BuildInv
  <2> QED
    BY <2>1, <2>3, <2>5, <2>6, <2>7, <2>8, <2>9 DEF IInv, BuildInv
<1>4. ASSUME NEW c \in CPU, NEW p \in Slot, AllocNoStack(c, p) PROVE BuildInv'
  <2>1. PICK q \in Slot : q = np[p] /\ q # p /\ state[q] = "EMBRYO"
    BY Zenon, <1>4, Building DEF AllocNoStack, pos
  <2>2. \A r \in Slot : np[r] = q => r = p
    BY Zenon, <2>1 DEF IInv, BuildInv
  <2>3. /\ state' = [state EXCEPT ![q] = "UNUSED"] /\ np' = [np EXCEPT ![p] = NoProc]
        /\ UNCHANGED <<parent, resume>>
    BY Zenon, <1>4, <2>1 DEF AllocNoStack
  <2>4. pc' = [pc EXCEPT ![p] = ForkFailed(p)]
    BY Zenon, <1>4, <2>1 DEF AllocNoStack
  <2>5. state[p] # "EMBRYO"
    BY Zenon, <1>4, Idle DEF AllocNoStack
  <2>6. pos(p)' \notin {"kstack", "copy", "start"} /\ np'[p] = NoProc
    BY Zenon, <2>1, <2>3, <2>4 DEF pos, ForkFailed
  <2>7. \A r \in Slot \ {p} : np'[r] = np[r] /\ (np[r] # NoProc => np[r] # q)
    BY Zenon, <2>1, <2>2, <2>3
  <2>8. \A r \in Slot \ {p, q} : pos(r)' = pos(r) /\ pc'[r] = pc[r] /\ state'[r] = state[r]
    BY Zenon, <2>1, <2>3, <2>4 DEF pos
  <2>9. pos(q) \notin {"kstack", "copy", "start"} /\ pos(q)' \notin {"kstack", "copy", "start"}
    BY Zenon, <2>1, <2>3, <2>4 DEF pos, IInv, SlotInv
  <2>10. np[q] = NoProc
    BY Zenon, <2>1, <2>9 DEF IInv, BuildInv
  <2>11. ASSUME NEW r \in Slot, np'[r] # NoProc
         PROVE  r # p /\ r # q /\ np[r] \in Slot \ {p, q} /\ np'[r] = np[r]
    BY <2>1, <2>5, <2>6, <2>7, <2>10, <2>11 DEF IInv, BuildInv
  <2> QED
    BY <2>3, <2>6, <2>7, <2>8, <2>9, <2>10, <2>11 DEF IInv, BuildInv
<1>5. ASSUME NEW c \in CPU, NEW p \in Slot, ForkCopy(c, p) PROVE BuildInv'
  <2>1. np[p] \in Slot /\ np[p] # p /\ state[np[p]] = "EMBRYO"
    BY Zenon, <1>5, Building DEF ForkCopy, pos
  <2>2. \A q \in Slot : np[q] = np[p] => q = p
    BY Zenon, <2>1 DEF IInv, BuildInv
  <2>3. /\ parent' = [parent EXCEPT ![np[p]] = p] /\ pc' = [pc EXCEPT ![p] = "start"]
        /\ pc[p] = "copy" /\ UNCHANGED <<state, resume, np>>
    BY Zenon, <1>5 DEF ForkCopy
  <2>4. state[p] # "EMBRYO"
    BY Zenon, <1>5, Idle DEF ForkCopy
  <2>5. pos(p) = "copy" /\ pos(p)' = "start"
    BY Zenon, <2>3 DEF pos
  <2>6. \A r \in Slot \ {p} : pos(r)' = pos(r) /\ pc'[r] = pc[r]
    BY Zenon, <2>3 DEF pos
  <2>7. ASSUME NEW r \in Slot \ {p}, np[r] # NoProc
        PROVE  np[r] \in Slot \ {p, np[p]} /\ parent'[np[r]] = parent[np[r]]
    BY Zenon, <2>1, <2>2, <2>3, <2>4, <2>7 DEF IInv, BuildInv
  <2> QED
    BY <2>1, <2>3, <2>5, <2>6, <2>7 DEF IInv, BuildInv
<1>6. ASSUME NEW c \in CPU, NEW p \in Slot, ForkNoMem(c, p) PROVE BuildInv'
  <2>1. PICK q \in Slot : q = np[p] /\ q # p /\ state[q] = "EMBRYO"
    BY Zenon, <1>6, Building DEF ForkNoMem, pos
  <2>2. \A r \in Slot : np[r] = q => r = p
    BY Zenon, <2>1 DEF IInv, BuildInv
  <2>3. /\ state' = [state EXCEPT ![q] = "UNUSED"] /\ np' = [np EXCEPT ![p] = NoProc]
        /\ UNCHANGED <<parent, resume>>
    BY Zenon, <1>6, <2>1 DEF ForkNoMem
  <2>4. pc' = [pc EXCEPT ![p] = ForkFailed(p), ![q] = "none"]
    BY Zenon, <1>6, <2>1 DEF ForkNoMem
  <2>5. state[p] # "EMBRYO"
    BY Zenon, <1>6, Idle DEF ForkNoMem
  <2>6. pos(p)' \notin {"kstack", "copy", "start"} /\ np'[p] = NoProc
    BY Zenon, <2>1, <2>3, <2>4 DEF pos, ForkFailed
  <2>7. \A r \in Slot \ {p} : np'[r] = np[r] /\ (np[r] # NoProc => np[r] # q)
    BY Zenon, <2>1, <2>2, <2>3
  <2>8. \A r \in Slot \ {p, q} : pos(r)' = pos(r) /\ pc'[r] = pc[r] /\ state'[r] = state[r]
    BY Zenon, <2>1, <2>3, <2>4 DEF pos
  <2>9. pos(q) \notin {"kstack", "copy", "start"} /\ pos(q)' \notin {"kstack", "copy", "start"}
    BY ZenonT(30), <2>1, <2>3, <2>4 DEF pos, IInv, SlotInv
  <2>10. np[q] = NoProc
    BY Zenon, <2>1, <2>9 DEF IInv, BuildInv
  <2>11. ASSUME NEW r \in Slot, np'[r] # NoProc
         PROVE  r # p /\ r # q /\ np[r] \in Slot \ {p, q} /\ np'[r] = np[r]
    BY <2>1, <2>5, <2>6, <2>7, <2>10, <2>11 DEF IInv, BuildInv
  <2> QED
    BY <2>3, <2>6, <2>7, <2>8, <2>9, <2>10, <2>11 DEF IInv, BuildInv
<1>7. ASSUME NEW c \in CPU, NEW p \in Slot, ForkStart(c, p) PROVE BuildInv'
  <2>1. PICK q \in Slot : q = np[p] /\ q # p /\ state[q] = "EMBRYO"
    BY Zenon, <1>7, Building DEF ForkStart, pos
  <2>2. \A r \in Slot : np[r] = q => r = p
    BY Zenon, <2>1 DEF IInv, BuildInv
  <2>3. /\ state' = [state EXCEPT ![q] = "RUNNABLE"] /\ np' = [np EXCEPT ![p] = NoProc]
        /\ UNCHANGED <<parent, resume>>
    BY Zenon, <1>7, <2>1 DEF ForkStart
  <2>4. pc' = [pc EXCEPT ![p] = "ret"]
    BY Zenon, <1>7, <2>1 DEF ForkStart
  <2>5. state[p] # "EMBRYO"
    BY Zenon, <1>7, Idle DEF ForkStart
  <2>6. pos(p)' \notin {"kstack", "copy", "start"} /\ np'[p] = NoProc
    BY Zenon, <2>1, <2>3, <2>4 DEF pos, ForkFailed
  <2>7. \A r \in Slot \ {p} : np'[r] = np[r] /\ (np[r] # NoProc => np[r] # q)
    BY Zenon, <2>1, <2>2, <2>3
  <2>8. \A r \in Slot \ {p, q} : pos(r)' = pos(r) /\ pc'[r] = pc[r] /\ state'[r] = state[r]
    BY Zenon, <2>1, <2>3, <2>4 DEF pos
  <2>9. pos(q) \notin {"kstack", "copy", "start"} /\ pos(q)' \notin {"kstack", "copy", "start"}
    BY Zenon, <2>1, <2>3, <2>4 DEF pos, IInv, SlotInv
  <2>10. np[q] = NoProc
    BY Zenon, <2>1, <2>9 DEF IInv, BuildInv
  <2>11. ASSUME NEW r \in Slot, np'[r] # NoProc
         PROVE  r # p /\ r # q /\ np[r] \in Slot \ {p, q} /\ np'[r] = np[r]
    BY <2>1, <2>5, <2>6, <2>7, <2>10, <2>11 DEF IInv, BuildInv
  <2> QED
    BY <2>3, <2>6, <2>7, <2>8, <2>9, <2>10, <2>11 DEF IInv, BuildInv
<1>8. ASSUME NEW c \in CPU, NEW p \in Slot, Exit(c, p) PROVE BuildInv'
  <2>1. state[p] = "RUNNING"
    BY Zenon, <1>8, Executing DEF Exit
  <2>2. \A q \in Slot : /\ state[q] = "EMBRYO" => state'[q] = "EMBRYO"
                        /\ parent[q] = NoProc => parent'[q] = NoProc
    BY Zenon, <1>8, <2>1 DEF Exit, wakeup1, reparent
  <2>3. /\ pc[p] = "exit" /\ pc' = [pc EXCEPT ![p] = "sched"]
        /\ resume' = [resume EXCEPT ![p] = "zombie_exit"] /\ np' = np
    BY Zenon, <1>8 DEF Exit
  <2>4. \A q \in Slot : \/ pos(q)' = pos(q)
                        \/ /\ pos(q) \notin {"kstack", "copy", "start"}
                           /\ pos(q)' \notin {"kstack", "copy", "start"}
    BY Zenon, <2>3 DEF pos
  <2>5. \A q \in Slot : state[q] = "EMBRYO" =>
          state'[q] = "EMBRYO" /\ pc'[q] = pc[q] /\ (parent[q] = NoProc => parent'[q] = NoProc)
    BY Zenon, <2>1, <2>2, <2>3
  <2> QED
    BY Zenon, <2>3, <2>4, <2>5, BuildFrame
<1>9. ASSUME NEW c \in CPU, NEW p \in Slot, WaitReap(c, p) PROVE BuildInv'
  <2>1. state[p] = "RUNNING" /\ pc[p] = "wait_scan"
    BY Zenon, <1>9, Executing DEF WaitReap
  <2>2. PICK q \in Slot : /\ state[q] = "ZOMBIE"
                          /\ parent' = [parent EXCEPT ![q] = NoProc]
                          /\ state' = [state EXCEPT ![q] = "UNUSED"]
                          /\ pc' = [pc EXCEPT ![q] = "none", ![p] = "ret"]
    BY Zenon, <1>9 DEF WaitReap, First
  <2>3. pos(q) = "zombie_exit"
    BY Zenon, <2>2 DEF IInv, SlotInv, pos
  <2>4. UNCHANGED <<resume, np>>
    BY Zenon, <1>9 DEF WaitReap
  <2> QED
    BY Zenon, <2>1, <2>2, <2>3, <2>4, BuildFrame DEF pos
<1>10. ASSUME NEW c \in CPU, NEW p \in Slot, WaitSleep(c, p) PROVE BuildInv'
  <2>1. state[p] = "RUNNING"
    BY Zenon, <1>10, Executing DEF WaitSleep
  <2> QED
    BY Zenon, <1>10, <2>1, BuildFrame DEF WaitSleep, pos
<1>11. ASSUME NEW c \in CPU, NEW p \in Slot, NEW target \in KillPids, kill(c, p, target)
       PROVE BuildInv'
  <2>1. \A q \in Slot : state'[q] = state[q] \/ (state[q] = "SLEEPING" /\ state'[q] = "RUNNABLE")
    <3>1. UNCHANGED state \/ \E r \in Slot : state' = [state EXCEPT ![r] = rouse(@)]
      BY <1>11, Zenon DEF kill
    <3> QED
      BY Zenon, <3>1 DEF rouse
  <2>2. UNCHANGED <<parent, resume, np>>
    BY Zenon, <1>11 DEF kill
  <2>3. pc[p] = "kill" /\ pc' = [pc EXCEPT ![p] = "ret"]
    BY Zenon, <1>11 DEF kill
  <2>4. state[p] = "RUNNING"
    BY Zenon, <1>11, <2>3, Executing DEF kill
  <2> QED
    BY Zenon, <2>1, <2>2, <2>3, <2>4, BuildFrame DEF pos
<1>12. ASSUME NEW c \in CPU, NEW p \in Slot, SleepCommit(c, p) PROVE BuildInv'
  <2>1. state[p] = "RUNNING"
    BY Zenon, <1>12, Executing DEF SleepCommit
  <2> QED
    BY Zenon, <1>12, <2>1, BuildFrame DEF SleepCommit, pos
<1>13. ASSUME NEW c \in CPU, NEW p \in Slot, Sched(c, p) PROVE BuildInv'
  <2>1. state[p] # "EMBRYO"
    BY Zenon, <1>13, Idle DEF Sched
  <2> QED
    BY Zenon, <1>13, <2>1, BuildFrame DEF Sched, table, pos
<1>14. ASSUME NEW c \in CPU, NEW p \in Slot, Resume(c, p) PROVE BuildInv'
  <2>1. state[p] = "RUNNING"
    BY Zenon, <1>14, Executing DEF Resume
  <2>2. resume[p] \notin {"sched", "swtched"}
    BY Zenon, <1>14, <2>1 DEF Resume, IInv, SlotInv, Unlocked, Call
  <2> QED
    BY Zenon, <1>14, <2>1, <2>2, BuildFrame DEF Resume, pos
<1>15. ASSUME NEW c \in CPU, NEW p \in Slot, Yield(c, p) PROVE BuildInv'
  <2>1. spc[c] = "in"
    BY Zenon, <1>15, Executing DEF Yield
  <2>2. pc[p] \in Unlocked
    BY Zenon, <1>15, <2>1 DEF Yield, IInv, CpuInv
  <2>3. state[p] = "RUNNING"
    BY Zenon, <1>15, <2>2, Executing DEF Yield, Unlocked, Call
  <2> QED
    BY Zenon, <1>15, <2>2, <2>3, BuildFrame DEF Yield, pos, Unlocked, Call
<1>16. ASSUME NEW c \in CPU, SchedulerBack(c) PROVE BuildInv'
  BY Zenon, <1>16, BuildFrame DEF SchedulerBack, table, pos
<1>17. ASSUME NEW c \in CPU, NEW p \in Slot, SchedulerPick(c, p) PROVE BuildInv'
  BY Zenon, <1>17, BuildFrame DEF SchedulerPick, pos
<1>18. ASSUME NEW c \in CPU, SchedulerSwtch(c) PROVE BuildInv'
  BY Zenon, <1>18, BuildFrame DEF SchedulerSwtch, table, pos
<1>19. ASSUME NEW c \in CPU, TimerTick(c) PROVE BuildInv'
  BY Zenon, <1>19, BuildFrame DEF TimerTick, table, elapse, pos
<1>20. ASSUME NEW c \in CPU, TimerWakeup(c) PROVE BuildInv'
  BY Zenon, <1>20, BuildFrame DEF TimerWakeup, wakeup1, pos
<1>21. ASSUME NEW c \in CPU, TimerOther(c) PROVE BuildInv'
  BY Zenon, <1>21, BuildFrame DEF TimerOther, table, pos
<1>22. CASE UNCHANGED vars
  BY Zenon, <1>22, BuildFrame DEF vars, table, threads, pos
<1> HIDE DEF Executes, Goto
<1> QED
  BY <1>1, <1>2, <1>3, <1>4, <1>5, <1>6, <1>7, <1>8, <1>9, <1>10, <1>11, <1>12, <1>13, <1>14,
     <1>15, <1>16, <1>17, <1>18, <1>19, <1>20, <1>21, <1>22
     DEF Next, Thread, Kernel, Fork, Wait, Sleep, Switch, Scheduler, Timer, Move

-----------------------------------------------------------------------------
(* The family tree.                                                        *)


(* A step that creates no ZOMBIE, puts no one to sleep in wait() and keeps *)
(* the parents keeps FamilyInv.                                            *)
LEMMA FamilyFrame ==
  ASSUME IInv, parent' = parent,
         \A q \in Slot :
           /\ state[q] \in {"SLEEPING", "RUNNABLE", "RUNNING"} =>
                state'[q] \in {"SLEEPING", "RUNNABLE", "RUNNING"}
           /\ state'[q] = "ZOMBIE" => state[q] = "ZOMBIE"
           /\ state'[q] = "SLEEPING" /\ chan'[q] = q =>
                state[q] = "SLEEPING" /\ chan[q] = q /\ killed'[q] = killed[q]
           /\ pc'[q] = "sleep_lock" => left'[q] > 0
  PROVE  FamilyInv'
<1>1. parent \in [Slot -> Slot \union {NoProc}]
  BY ZenonT(30) DEF IInv, TypeOK
<1> QED
  BY <1>1, InitSlot DEF IInv, FamilyInv, children, NoZombieChild

(* Every step preserves the parent relation: live parents, and no parent   *)
(* asleep in wait() while a child is a ZOMBIE.                             *)
LEMMA FamilyNext == IInv /\ [Next]_vars => FamilyInv'
<1> SUFFICES ASSUME IInv, [Next]_vars PROVE FamilyInv'
  OBVIOUS
<1>types. /\ state \in [Slot -> procstate] /\ chan \in [Slot -> Slot \union {NoProc, ticksChan}]
          /\ parent \in [Slot -> Slot \union {NoProc}] /\ killed \in [Slot -> BOOLEAN]
          /\ left \in [Slot -> 0 .. SleepTicks] /\ pc \in [Slot -> Label]
  BY Zenon DEF IInv, TypeOK
<1>more. \A q \in Slot : pc[q] = "sleep_lock" => left[q] > 0
  BY Zenon DEF IInv, FamilyInv
<1> USE <1>types, <1>more, InitSlot DEF Executes, Goto
<1>1. ASSUME NEW c \in CPU, NEW p \in Slot, Move(c, p) PROVE FamilyInv'
  <2>1. Moved(c, p)
    BY Zenon, <1>1, MoveMoves
  <2> QED
    BY Zenon, <2>1, FamilyFrame DEF Moved, Special
<1>2. ASSUME NEW c \in CPU, NEW p \in Slot, AllocSlot(c, p) PROVE FamilyInv'
  BY Zenon, <1>2, FamilyFrame DEF AllocSlot, First
<1>3. ASSUME NEW c \in CPU, NEW p \in Slot, AllocStack(c, p) PROVE FamilyInv'
  <2>1. state[np[p]] = "EMBRYO" /\ np[p] \in Slot
    BY Zenon, <1>3, Building DEF AllocStack, pos
  <2> QED
    BY Zenon, <1>3, <2>1, FamilyFrame DEF AllocStack
<1>4. ASSUME NEW c \in CPU, NEW p \in Slot, AllocNoStack(c, p) PROVE FamilyInv'
  <2>1. state[np[p]] = "EMBRYO" /\ np[p] \in Slot
    BY ZenonT(30), <1>4, Building DEF AllocNoStack, pos
  <2> QED
    BY Zenon, <1>4, <2>1, FamilyFrame DEF AllocNoStack, ForkFailed
<1>5. ASSUME NEW c \in CPU, NEW p \in Slot, ForkCopy(c, p) PROVE FamilyInv'
  <2>1. np[p] \in Slot /\ np[p] # p /\ np[p] # initproc /\ state[np[p]] = "EMBRYO"
    BY Zenon, <1>5, Building DEF ForkCopy, pos
  <2>2. parent[np[p]] = NoProc
    BY Zenon, <1>5, <2>1 DEF ForkCopy, IInv, BuildInv, pos
  <2>3. state[p] = "RUNNING"
    BY Zenon, <1>5, Executing DEF ForkCopy
  <2>4. /\ parent' = [parent EXCEPT ![np[p]] = p] /\ pc' = [pc EXCEPT ![p] = "start"]
        /\ UNCHANGED <<state, chan, killed, left>>
    BY Zenon, <1>5 DEF ForkCopy
  <2>5. ASSUME NEW q \in Slot, state'[q] = "SLEEPING", chan'[q] = q
        PROVE  children(q)' # {} /\ NoZombieChild(q)' /\ ~killed'[q]
    <3>1. q # p /\ children(q) # {} /\ NoZombieChild(q) /\ ~killed[q]
      BY Zenon, <2>3, <2>4, <2>5 DEF IInv, FamilyInv
    <3>2. \A r \in Slot : parent'[r] = q <=> parent[r] = q
      BY Zenon, <2>1, <2>2, <2>4, <3>1
    <3> QED
      BY Zenon, <2>4, <3>1, <3>2 DEF children, NoZombieChild
  <2>6. ASSUME NEW q \in Slot, parent'[q] # NoProc
        PROVE  state'[parent'[q]] \in {"SLEEPING", "RUNNABLE", "RUNNING"} /\ parent'[q] # q
    BY Zenon, <2>1, <2>3, <2>4, <2>6 DEF IInv, FamilyInv
  <2> QED
    BY <2>1, <2>4, <2>5, <2>6 DEF IInv, FamilyInv
<1>6. ASSUME NEW c \in CPU, NEW p \in Slot, ForkNoMem(c, p) PROVE FamilyInv'
  <2>1. state[np[p]] = "EMBRYO" /\ np[p] \in Slot
    BY Zenon, <1>6, Building DEF ForkNoMem, pos
  <2> QED
    BY Zenon, <1>6, <2>1, FamilyFrame DEF ForkNoMem, ForkFailed
<1>7. ASSUME NEW c \in CPU, NEW p \in Slot, ForkStart(c, p) PROVE FamilyInv'
  <2>1. state[np[p]] = "EMBRYO" /\ np[p] \in Slot
    BY Zenon, <1>7, Building DEF ForkStart, pos
  <2> QED
    BY Zenon, <1>7, <2>1, FamilyFrame DEF ForkStart
<1>8. ASSUME NEW c \in CPU, NEW p \in Slot, Exit(c, p) PROVE FamilyInv'
  <2>1. state[p] = "RUNNING" /\ p # initproc
    BY Zenon, <1>8, Executing DEF Exit
  <2>2. \A q \in Slot \ {p} : state'[q] = IF state[q] = "SLEEPING" /\ chan[q] \in exitWakes(p)
                                      THEN "RUNNABLE" ELSE state[q]
    BY Zenon, <1>8 DEF Exit, wakeup1
  <2>3. state'[p] = "ZOMBIE"
    BY Zenon, <1>8 DEF Exit, wakeup1
  <2>4. \A q \in Slot : parent'[q] = IF parent[q] = p THEN initproc ELSE parent[q]
    BY Zenon, <1>8 DEF Exit, reparent
  <2>5. pc' = [pc EXCEPT ![p] = "sched"] /\ UNCHANGED <<chan, killed, left>>
    BY Zenon, <1>8 DEF Exit
  <2>6. state'[initproc] \in {"SLEEPING", "RUNNABLE", "RUNNING"}
    BY Zenon, <2>1, <2>2 DEF IInv, FamilyInv
  <2>7. ASSUME NEW q \in Slot, parent'[q] # NoProc
        PROVE  state'[parent'[q]] \in {"SLEEPING", "RUNNABLE", "RUNNING"}
    <3>1. CASE parent[q] = p
      BY Zenon, <2>4, <2>6, <3>1
    <3>2. CASE parent[q] # p
      <4>1. parent'[q] = parent[q] /\ parent[q] \in Slot \ {p}
        BY Zenon, <2>4, <2>7, <3>2
      <4> QED
        BY Zenon, <2>2, <2>7, <4>1 DEF IInv, FamilyInv
    <3> QED
      BY Zenon, <3>1, <3>2
  <2>8. ASSUME NEW q \in Slot, state'[q] = "SLEEPING", chan'[q] = q
        PROVE  children(q)' # {} /\ NoZombieChild(q)' /\ ~killed'[q]
    <3>1. q # p /\ state[q] = "SLEEPING" /\ chan[q] = q /\ q \notin exitWakes(p)
      BY Zenon, <2>2, <2>3, <2>5, <2>8
    <3>2. parent[p] # q
      BY Zenon, <3>1 DEF exitWakes
    <3>3. \A r \in Slot : parent[r] = q => parent'[r] = q
      BY Zenon, <2>4, <3>1
    <3>4. \A r \in Slot : parent'[r] = q => parent[r] = q \/ (q = initproc /\ parent[r] = p)
      BY Zenon, <2>4
    <3>5. ASSUME NEW r \in Slot, parent'[r] = q PROVE state'[r] # "ZOMBIE"
      <4>1. CASE parent[r] = q
        <5>1. r # p /\ state[r] # "ZOMBIE"
          BY Zenon, <3>1, <3>2, <4>1 DEF IInv, FamilyInv, children, NoZombieChild
        <5> QED
          BY Zenon, <2>2, <5>1
      <4>2. CASE q = initproc /\ parent[r] = p
        <5>1. state[r] # "ZOMBIE"
          BY Zenon, <3>1, <4>2 DEF exitWakes, children
        <5>2. r # p
          BY Zenon, <4>2 DEF IInv, FamilyInv
        <5> QED
          BY Zenon, <2>2, <5>1, <5>2
      <4> QED
        BY Zenon, <3>4, <3>5, <4>1, <4>2
    <3> QED
      BY ZenonT(30), <2>5, <3>1, <3>3, <3>5 DEF IInv, FamilyInv, children, NoZombieChild
  <2>9. ASSUME NEW q \in Slot, pc'[q] = "sleep_lock" PROVE left'[q] > 0
    BY ZenonT(30), <2>5, <2>9
  <2>10. parent'[initproc] = NoProc /\ \A q \in Slot : parent'[q] # q
    BY <2>1, <2>4 DEF IInv, FamilyInv
  <2> QED
    BY Zenon, <2>6, <2>7, <2>8, <2>9, <2>10 DEF FamilyInv
<1>9. ASSUME NEW c \in CPU, NEW p \in Slot, WaitReap(c, p) PROVE FamilyInv'
  <2>1. state[p] = "RUNNING"
    BY Zenon, <1>9, Executing DEF WaitReap
  <2>2. PICK q \in Slot : /\ state[q] = "ZOMBIE" /\ parent[q] = p
                          /\ parent' = [parent EXCEPT ![q] = NoProc]
                          /\ killed' = [killed EXCEPT ![q] = FALSE]
                          /\ state' = [state EXCEPT ![q] = "UNUSED"]
                          /\ pc' = [pc EXCEPT ![q] = "none", ![p] = "ret"]
    BY Zenon, <1>9 DEF WaitReap, First
  <2>3. UNCHANGED <<chan, left>>
    BY Zenon, <1>9 DEF WaitReap
  <2>4. q # initproc /\ \A r \in Slot : parent[r] # q
    BY Zenon, <2>2 DEF IInv, FamilyInv
  <2>5. ASSUME NEW r \in Slot, state'[r] = "SLEEPING", chan'[r] = r
        PROVE  children(r)' # {} /\ NoZombieChild(r)' /\ ~killed'[r]
    <3>1. state[r] = "SLEEPING" /\ chan[r] = r /\ r # p /\ r # q
      BY Zenon, <2>1, <2>2, <2>3, <2>5
    <3>2. \A s \in Slot : parent'[s] = r <=> parent[s] = r
      BY Zenon, <2>2, <3>1
    <3> QED
      BY <2>2, <3>1, <3>2 DEF IInv, FamilyInv, children, NoZombieChild
  <2> QED
    BY ZenonT(30), <2>2, <2>3, <2>4, <2>5 DEF IInv, FamilyInv
<1>10. ASSUME NEW c \in CPU, NEW p \in Slot, WaitSleep(c, p) PROVE FamilyInv'
  <2>1. state[p] = "RUNNING"
    BY Zenon, <1>10, Executing DEF WaitSleep
  <2>2. /\ chan' = [chan EXCEPT ![p] = p] /\ state' = [state EXCEPT ![p] = "SLEEPING"]
        /\ pc' = [pc EXCEPT ![p] = "sched"]
        /\ UNCHANGED <<parent, killed, left>>
        /\ children(p) # {} /\ NoZombieChild(p) /\ ~killed[p]
    BY Zenon, <1>10 DEF WaitSleep
  <2> QED
    BY <2>1, <2>2 DEF IInv, FamilyInv, children, NoZombieChild
<1>11. ASSUME NEW c \in CPU, NEW p \in Slot, NEW target \in KillPids, kill(c, p, target)
       PROVE FamilyInv'
  <2>1. \A q \in Slot :
          /\ state'[q] = state[q] \/ (state[q] = "SLEEPING" /\ state'[q] = "RUNNABLE")
          /\ state'[q] = "SLEEPING" => killed'[q] = killed[q]
    <3>1. CASE UNCHANGED <<killed, state>>
      BY Zenon, <3>1
    <3>2. CASE \E r \in Slot : /\ killed' = [killed EXCEPT ![r] = TRUE]
                               /\ state' = [state EXCEPT ![r] = rouse(@)]
      <4>1. PICK r \in Slot : /\ killed' = [killed EXCEPT ![r] = TRUE]
                              /\ state' = [state EXCEPT ![r] = rouse(@)]
        BY <3>2, Zenon
      <4> QED
        BY <4>1, Zenon DEF rouse
    <3> QED
      BY <1>11, <3>1, <3>2, Zenon DEF kill
  <2>2. UNCHANGED <<parent, chan, left>>
    BY Zenon, <1>11 DEF kill
  <2>3. pc' = [pc EXCEPT ![p] = "ret"]
    BY Zenon, <1>11 DEF kill
  <2> QED
    BY Zenon, <2>1, <2>2, <2>3, FamilyFrame
<1>12. ASSUME NEW c \in CPU, NEW p \in Slot, SleepCommit(c, p) PROVE FamilyInv'
  <2>1. state[p] = "RUNNING"
    BY Zenon, <1>12, Executing DEF SleepCommit
  <2> QED
    BY Zenon, <1>12, <2>1, FamilyFrame DEF SleepCommit
<1>13. ASSUME NEW c \in CPU, NEW p \in Slot, Sched(c, p) PROVE FamilyInv'
  BY Zenon, <1>13, FamilyFrame DEF Sched, table
<1>14. ASSUME NEW c \in CPU, NEW p \in Slot, Resume(c, p) PROVE FamilyInv'
  <2>1. state[p] = "RUNNING"
    BY Zenon, <1>14, Executing DEF Resume
  <2>2. resume[p] # "sleep_lock"
    BY Zenon, <1>14, <2>1 DEF Resume, IInv, SlotInv, Unlocked, Call
  <2> QED
    BY Zenon, <1>14, <2>1, <2>2, FamilyFrame DEF Resume
<1>15. ASSUME NEW c \in CPU, NEW p \in Slot, Yield(c, p) PROVE FamilyInv'
  <2>1. spc[c] = "in"
    BY Zenon, <1>15, Executing DEF Yield
  <2>2. pc[p] \in Unlocked
    BY Zenon, <1>15, <2>1 DEF Yield, IInv, CpuInv
  <2>3. state[p] = "RUNNING"
    BY Zenon, <1>15, <2>2, Executing DEF Yield, Unlocked, Call
  <2> QED
    BY Zenon, <1>15, <2>3, FamilyFrame DEF Yield
<1>16. ASSUME NEW c \in CPU, SchedulerBack(c) PROVE FamilyInv'
  BY Zenon, <1>16, FamilyFrame DEF SchedulerBack, table
<1>17. ASSUME NEW c \in CPU, NEW p \in Slot, SchedulerPick(c, p) PROVE FamilyInv'
  BY Zenon, <1>17, FamilyFrame DEF SchedulerPick
<1>18. ASSUME NEW c \in CPU, SchedulerSwtch(c) PROVE FamilyInv'
  BY Zenon, <1>18, FamilyFrame DEF SchedulerSwtch, table
<1>19. ASSUME NEW c \in CPU, TimerTick(c) PROVE FamilyInv'
  <2>1. \A p \in Slot : pc[p] # "sleep_lock"
    <3> SUFFICES ASSUME NEW p \in Slot, pc[p] = "sleep_lock" PROVE FALSE
      OBVIOUS
    <3>1. state[p] = "RUNNING"
      BY ZenonT(30) DEF IInv, SlotInv, procstate
    <3>2. PICK d \in CPU : proc[d] = p
      BY Zenon, <3>1 DEF IInv, SlotInv
    <3>3. spc[d] = "in" /\ on[d] = p
      BY <3>2 DEF IInv, TypeOK, CpuInv
    <3> QED
      BY Zenon, <1>19, <3>3 DEF IInv, LockInv, TimerTick
  <2> QED
    BY Zenon, <1>19, <2>1, FamilyFrame DEF TimerTick, table
<1>20. ASSUME NEW c \in CPU, TimerWakeup(c) PROVE FamilyInv'
  BY Zenon, <1>20, FamilyFrame DEF TimerWakeup, wakeup1
<1>21. ASSUME NEW c \in CPU, TimerOther(c) PROVE FamilyInv'
  BY Zenon, <1>21, FamilyFrame DEF TimerOther, table
<1>22. CASE UNCHANGED vars
  BY Zenon, <1>22, FamilyFrame DEF vars, table, threads
<1> HIDE DEF Executes, Goto
<1> QED
  BY <1>1, <1>2, <1>3, <1>4, <1>5, <1>6, <1>7, <1>8, <1>9, <1>10, <1>11, <1>12, <1>13, <1>14,
     <1>15, <1>16, <1>17, <1>18, <1>19, <1>20, <1>21, <1>22
     DEF Next, Thread, Kernel, Fork, Wait, Sleep, Switch, Scheduler, Timer, Move

(* The initial state of the kernel satisfies the inductive invariant.      *)
LEMMA IInvInit == Init => IInv
<1> SUFFICES ASSUME Init PROVE IInv
  OBVIOUS
<1> USE InitSlot DEF Init
<1>1. TypeOK
  BY ConstAssumption DEF TypeOK, procstate, Label, Unlocked, Call
<1>2. LockInv
  BY Zenon DEF LockInv
<1>3. CpuInv
  BY Zenon DEF CpuInv
<1>4. SlotInv
  BY Zenon DEF SlotInv, Unlocked
<1>5. BuildInv
  BY Zenon DEF BuildInv, pos
<1>6. FamilyInv
  BY Zenon DEF FamilyInv, NoProc, initproc
<1>7. TickNotLost
  BY Zenon DEF TickNotLost
<1> QED
  BY Zenon, <1>1, <1>2, <1>3, <1>4, <1>5, <1>6, <1>7 DEF IInv

(* The inductive invariant holds in every reachable state, for any number  *)
(* of slots, CPUs and pids: this is what proc.c relies on when it splits   *)
(* its critical sections at swtch().                                       *)
THEOREM ProcInvariant == Spec => []IInv
<1>1. IInv /\ [Next]_vars => IInv'
  <2> SUFFICES ASSUME IInv, [Next]_vars PROVE IInv'
    OBVIOUS
  <2>1. TypeOK'
    BY Zenon, TypeNext DEF IInv
  <2> QED
    BY Zenon, <2>1, LockNext, CpuNext, SlotNext, BuildNext, FamilyNext, TickNext DEF IInv
<1> QED
  BY IInvInit, <1>1, PTL DEF Spec

(* Every variable of the process table keeps its type.                     *)
THEOREM ProcTypeCorrect == Spec => []TypeOK
<1>1. IInv => TypeOK
  BY ZenonT(30) DEF IInv
<1> QED
  BY ProcInvariant, <1>1, PTL

(* No kernel stack is run on by two CPUs, or freed by wait() while a CPU   *)
(* runs on it.                                                             *)
THEOREM ProcStackSafe == Spec => []StackSafe
<1>1. IInv => StackSafe
  <2> SUFFICES ASSUME IInv, NEW c \in CPU, on[c] # NoProc
               PROVE  kstack[on[c]] /\ \A d \in CPU : on[d] = on[c] => d = c
    BY Zenon DEF StackSafe
  <2>1. on[c] \in Slot
    BY Zenon DEF IInv, TypeOK
  <2>2. pc[on[c]] = "sched" \/ state[on[c]] = "RUNNING"
    BY Zenon, <2>1, Executing
  <2>3. state[on[c]] \notin {"UNUSED", "EMBRYO"}
    BY Zenon, <2>1, Idle
  <2> QED
    BY <2>1, <2>3, Executing DEF IInv, SlotInv, TypeOK, procstate
<1> QED
  BY ProcInvariant, <1>1, PTL

(* The panics of sched() are unreachable.                                  *)
THEOREM ProcSchedChecks == Spec => []SchedChecks
<1>1. IInv => SchedChecks
  <2> SUFFICES ASSUME IInv, NEW c \in CPU, NEW p \in Slot, on[c] = p, pc[p] = "sched"
               PROVE  ptlock = c /\ tickslock # c /\ state[p] # "RUNNING"
    BY Zenon DEF SchedChecks
  <2>1. spc[c] = "in"
    BY Zenon, Executing
  <2> QED
    BY Zenon, <2>1 DEF IInv, LockInv, SlotInv, CpuInv, Unlocked, Call
<1> QED
  BY ProcInvariant, <1>1, PTL

(* RUNNING processes and CPUs correspond when ptable.lock is free.         *)
THEOREM ProcRunningHasCPU == Spec => []RunningHasCPU
<1>1. IInv => RunningHasCPU
  <2> SUFFICES ASSUME IInv, ptlock = NoCPU, NEW p \in Slot
               PROVE  state[p] = "RUNNING" <=> \E c \in CPU : on[c] = p /\ proc[c] = p
    BY Zenon DEF RunningHasCPU
  <2>1. ASSUME state[p] = "RUNNING" PROVE \E c \in CPU : on[c] = p /\ proc[c] = p
    <3>1. PICK c \in CPU : proc[c] = p
      BY Zenon, <2>1 DEF IInv, SlotInv
    <3>2. spc[c] \in {"idle", "in"}
      BY Zenon, InitSlot DEF IInv, LockInv, TypeOK
    <3> QED
      BY Zenon, <3>1, <3>2, InitSlot DEF IInv, CpuInv
  <2>2. ASSUME NEW c \in CPU, on[c] = p PROVE state[p] = "RUNNING"
    BY Zenon, <2>2, Executing, InitSlot DEF IInv, LockInv
  <2> QED
    BY Zenon, <2>1, <2>2
<1> QED
  BY ProcInvariant, <1>1, PTL

(* No parent sleeps in wait() with a ZOMBIE child, without children, or    *)
(* killed.                                                                 *)
THEOREM ProcWaitNotLost == Spec => []WaitNotLost
<1>1. IInv => WaitNotLost
  BY Zenon DEF IInv, FamilyInv, WaitNotLost
<1> QED
  BY ProcInvariant, <1>1, PTL

(* No process sleeps in sys_sleep() past the tick that should wake it.     *)
THEOREM ProcTickNotLost == Spec => []TickNotLost
<1>1. IInv => TickNotLost
  BY Zenon DEF IInv
<1> QED
  BY ProcInvariant, <1>1, PTL

(* Every parent is alive.                                                  *)
THEOREM ProcLiveParent == Spec => []LiveParent
<1>1. IInv => LiveParent
  BY Zenon DEF IInv, FamilyInv, LiveParent
<1> QED
  BY ProcInvariant, <1>1, PTL

===============================================================================
