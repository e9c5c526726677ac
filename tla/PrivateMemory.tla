---------------------------- MODULE PrivateMemory ----------------------------
(***************************************************************************)
(* What address spaces promise: every process has pages of its own.  Only  *)
(* the process itself changes them; fork copies them, sbrk adds pages of   *)
(* zeros at the end or takes pages off the end, and exec puts a program    *)
(* in their place.  A call that fails changes nothing, with one exception: *)
(* an sbrk down to no memory at all takes the pages away and fails.        *)
(***************************************************************************)
EXTENDS Integers

CONSTANTS Proc, Datum, PGSIZE,
          Grows,    \* arguments of sbrk
          Images    \* what exec may load: [pages, size]

VARIABLES
  pages,   \* process -> its pages, in order; <<>> when it has none
  size     \* process -> the size of its memory

memvars == <<pages, size>>

\* The pages for a size of n.
PagesFor(n) == (n + PGSIZE - 1) \div PGSIZE

MemInit ==
  \E p \in Proc : /\ pages = [q \in Proc |-> IF q = p THEN <<0>> ELSE <<>>]
                  /\ size = [q \in Proc |-> IF q = p THEN PGSIZE ELSE 0]

Store(p) ==
  /\ \E k \in DOMAIN pages[p], v \in Datum : pages' = [pages EXCEPT ![p][k] = v]
  /\ UNCHANGED size

ForkTo(p, q) ==
  /\ pages[q] = <<>> /\ size[q] = 0
  /\ pages' = [pages EXCEPT ![q] = pages[p]]
  /\ size' = [size EXCEPT ![q] = size[p]]

Sbrk(p, n) ==
  /\ size[p] + n > 0
  /\ size' = [size EXCEPT ![p] = @ + n]
  /\ pages' = [pages EXCEPT ![p] =
                 [k \in 1 .. PagesFor(size[p] + n) |-> IF k \in DOMAIN @ THEN @[k] ELSE 0]]

\* sbrk returns -1, and the process, left without its pages, faults at once.
SbrkToNothing(p) ==
  /\ -size[p] \in Grows
  /\ pages' = [pages EXCEPT ![p] = <<>>]
  /\ UNCHANGED size

Exec(p) ==
  \E new \in Images : /\ pages' = [pages EXCEPT ![p] = new.pages]
                      /\ size' = [size EXCEPT ![p] = new.size]

Exit(p) == pages' = [pages EXCEPT ![p] = <<>>] /\ size' = [size EXCEPT ![p] = 0]

MemNext ==
  \E p \in Proc :
    \/ Store(p) \/ (\E q \in Proc \ {p} : ForkTo(p, q))
    \/ (\E n \in Grows : Sbrk(p, n)) \/ SbrkToNothing(p)
    \/ Exec(p) \/ Exit(p)

MemSpec == MemInit /\ [][MemNext]_memvars

==============================================================================
