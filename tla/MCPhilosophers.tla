--------------------------- MODULE MCPhilosophers ----------------------------
(* The constants of Semaphore for SEMCOUNT philosophers and no kill().     *)
EXTENDS Philosophers
==============================================================================
