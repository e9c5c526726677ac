----------------------------- MODULE MCLockOrder -----------------------------
(* Small instances of the lock paths.                                      *)
EXTENDS LockOrder

\* In the configurations the lock "sem" stands for those of semaphores, of the log
\* and of sleep-locks, which have the same paths.

OrderedDevices == {consoleintr, ideintr}

\* The paths of the clock, with the two others.
AllPaths == {sys_sleep, scheduler, lottery, consoleread, print_all_procs}

==============================================================================
