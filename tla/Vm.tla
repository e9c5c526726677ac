--------------------------------- MODULE Vm ----------------------------------
(***************************************************************************)
(* Physical pages and address spaces: kalloc.c, vm.c, exec.c, and the      *)
(* parts of fork, wait and growproc that handle memory.                    *)
(*                                                                         *)
(* An address space is a page directory, the page tables of its kernel     *)
(* part, the page tables of its user part, and the user pages.  A page     *)
(* holds one datum.  What an operation shares with other processes is the  *)
(* free list, taken page by page; other processes in between only change   *)
(* how many pages are left, which the actions KernelTakes and KernelGives  *)
(* do before it.  An operation is therefore one step.                      *)
(***************************************************************************)
EXTENDS Integers, Sequences, FiniteSets, SequencesExt

CONSTANTS
  Proc,
  NPAGES,      \* physical pages
  PGSIZE,      \* units in a page
  NPTENTRIES,  \* pages in a page table
  UPDE,        \* page tables in the user part
  KPDE,        \* page tables in the kernel part
  Datum,       \* what pages hold
  Programs,    \* executable files: segments, with the datum and the faults of each
  Grows,       \* arguments of sbrk
  MaxHeld,     \* bound: pages taken by other parts of the kernel
  MaxOps       \* bound: operations

Junk == -1     \* what kfree fills a page with
KERNBASE == UPDE * NPTENTRIES * PGSIZE
UPage == 0 .. UPDE * NPTENTRIES - 1
Phys == 1 .. NPAGES

ASSUME VmAssumption ==
  /\ {NPAGES, PGSIZE, NPTENTRIES, UPDE, KPDE} \subseteq Nat \ {0}
  /\ NPAGES >= 4 + KPDE
  /\ 0 \in Datum /\ Datum \subseteq Nat
  /\ Grows \subseteq Int
  /\ {MaxHeld, MaxOps} \subseteq Nat

VARIABLES
  m,         \* the free list, the contents of pages, and a panic
  as,        \* process -> address space
  sz,        \* process -> size in units
  kstack,    \* process -> page of its kernel stack, 0 if none
  st,        \* process -> "unused", "run" or "zombie"
  held,      \* pages of other parts of the kernel
  ops        \* operations so far, at most MaxOps

vmvars == <<m, as, sz, kstack, st, held, ops>>

NoPte == [pa |-> 0, u |-> FALSE]
NoSpace == [pgdir |-> 0, ktab |-> <<>>, tab |-> [d \in 0 .. UPDE - 1 |-> 0],
            pte |-> [k \in UPage |-> NoPte]]

PGROUNDUP(n) == ((n + PGSIZE - 1) \div PGSIZE) * PGSIZE

\* The numbers from .. to - 1 in order.
Upto(from, to) == [j \in 1 .. (IF to > from THEN to - from ELSE 0) |-> from + j - 1]

-----------------------------------------------------------------------------
(* Operators on x = [m, as, ok]: memory and an address space under way.    *)

\* kalloc: the page is in pa, 0 if there is none.
kalloc(mem) ==
  IF mem.free = <<>> THEN [m |-> mem, pa |-> 0]
  ELSE [m |-> [mem EXCEPT !.free = Tail(@)], pa |-> Head(mem.free)]

\* kfree: "Fill with junk to catch dangling refs."
kfree(mem, pa) == [mem EXCEPT !.free = <<pa>> \o @, !.data[pa] = Junk]

Fails(x) == [x EXCEPT !.ok = FALSE]
Panics(x, msg) == [x EXCEPT !.m.panic = msg]

\* walkpgdir with alloc: the page table of user page k exists afterwards, or not ok.
walkpgdir(x, k) ==
  LET d == k \div NPTENTRIES
      a == kalloc(x.m)
  IN IF x.as.tab[d] # 0 THEN x
     ELSE IF a.pa = 0 THEN Fails(x)
     ELSE [x EXCEPT !.m = [a.m EXCEPT !.data[a.pa] = 0], !.as.tab[d] = a.pa]

\* mappages of one user page.
mappages(x, k, pa, u) ==
  LET entered(y) ==
        IF ~y.ok THEN y
        ELSE IF y.as.pte[k].pa # 0 THEN Panics(y, "remap")
        ELSE [y EXCEPT !.as.pte[k] = [pa |-> pa, u |-> u]]
  IN entered(walkpgdir(x, k))

\* deallocuvm: free the pages that are mapped between newsz and oldsz.
deallocuvm(x, oldsz, newsz) ==
  LET drop(y, k) ==
        IF y.as.pte[k].pa = 0 THEN y
        ELSE [y EXCEPT !.m = kfree(y.m, y.as.pte[k].pa), !.as.pte[k] = NoPte]
  IN IF newsz >= oldsz THEN x
     ELSE FoldLeft(drop, x, Upto(PGROUNDUP(newsz) \div PGSIZE, PGROUNDUP(oldsz) \div PGSIZE))

\* freevm: user pages, page tables, page directory.
freevm(x) ==
  LET tabs(s) == SelectSeq([d \in 1 .. UPDE |-> s.tab[d - 1]], LAMBDA t : t # 0)
      tables(y) == FoldLeft(kfree, y.m, tabs(y.as) \o y.as.ktab \o <<y.as.pgdir>>)
  IN [x EXCEPT !.m = tables(deallocuvm(x, KERNBASE, 0)), !.as = NoSpace, !.ok = FALSE]

\* setupkvm: the page directory and the kernel's page tables.
setupkvm(mem) ==
  LET a == kalloc(mem)
      more(y, d) ==
        LET b == kalloc(y.m) IN
        IF ~y.ok THEN y ELSE IF b.pa = 0 THEN Fails(y)
        ELSE [y EXCEPT !.m = b.m, !.as.ktab = Append(@, b.pa)]
      dir == [m |-> a.m, as |-> [NoSpace EXCEPT !.pgdir = a.pa], ok |-> TRUE]
      ended(x) == IF x.ok THEN x ELSE freevm(x)
  IN IF a.pa = 0 THEN [m |-> mem, as |-> NoSpace, ok |-> FALSE]
     ELSE ended(FoldLeft(more, dir, Upto(0, KPDE)))

\* Mutant: the page that could not be mapped is not freed.
UnmappedKept(mem, pa) == mem

\* allocuvm and copyuvm free a page that they could not map.
Unmapped(mem, pa) == kfree(mem, pa)

\* The first page that allocuvm maps.
FirstMapped(oldsz) == PGROUNDUP(oldsz) \div PGSIZE

\* allocuvm: zeroed pages from oldsz to newsz, or what was there before.  When
\* newsz is less nothing is done.
allocuvm(x, oldsz, newsz) ==
  LET more(y, k) ==
        LET a == kalloc(y.m)
            undone(v) == Fails(deallocuvm([v EXCEPT !.ok = TRUE], newsz, oldsz))
            ended(z) == IF z.ok THEN z ELSE [undone(z) EXCEPT !.m = Unmapped(@, a.pa)]
        IN IF ~y.ok THEN y
           ELSE IF a.pa = 0 THEN undone(y)
           ELSE ended(mappages([y EXCEPT !.m = [a.m EXCEPT !.data[a.pa] = 0]], k, a.pa, TRUE))
  IN IF newsz >= KERNBASE THEN Fails(x)
     ELSE FoldLeft(more, x, Upto(FirstMapped(oldsz), PGROUNDUP(newsz) \div PGSIZE))

\* copyuvm: a copy of address space s of the given size.
copyuvm(mem, s, size) ==
  LET more(y, k) ==
        LET a == kalloc(y.m)
            from == s.pte[k].pa
            ended(z) == IF z.ok THEN z ELSE freevm([z EXCEPT !.m = Unmapped(@, a.pa)])
        IN IF ~y.ok THEN y
           ELSE IF from = 0 THEN Panics(y, "copyuvm: page not present")
           ELSE IF a.pa = 0 THEN freevm(y)
           ELSE ended(mappages([y EXCEPT !.m = [a.m EXCEPT !.data[a.pa] = y.m.data[from]]],
                               k, a.pa, s.pte[k].u))
  IN FoldLeft(more, setupkvm(mem), Upto(0, PGROUNDUP(size) \div PGSIZE))

\* Mutant: as much is read as the segment takes in memory.
loaduvmMore(x, seg, v) ==
  LET load(y, k) == [y EXCEPT !.m.data[y.as.pte[k].pa] = v] IN
  FoldLeft(load, x, Upto(seg.vaddr \div PGSIZE, PGROUNDUP(seg.vaddr + seg.memsz) \div PGSIZE))

\* loaduvm: the file's part of a segment is read into its pages.
loaduvm(x, seg, v) ==
  LET load(y, k) ==
        IF y.as.pte[k].pa = 0 THEN Panics(y, "loaduvm: address should exist")
        ELSE [y EXCEPT !.m.data[y.as.pte[k].pa] = v]
  IN FoldLeft(load, x, Upto(seg.vaddr \div PGSIZE, PGROUNDUP(seg.vaddr + seg.filesz) \div PGSIZE))

\* exec, the loop over the segments; ok is FALSE when it goes to bad.
Segment(x, prog, s) ==
  LET seg == prog.segs[s]
      end == seg.vaddr + seg.memsz
      newsz == IF end < x.sz THEN x.sz ELSE end
      loaded(y) ==
        IF ~y.ok \/ newsz = 0 THEN Fails(y)
        ELSE IF seg.vaddr % PGSIZE # 0 \/ prog.short = s THEN Fails([y EXCEPT !.sz = newsz])
        ELSE loaduvm([y EXCEPT !.sz = newsz], seg, prog.v)
  IN IF ~x.ok THEN x
     ELSE IF seg.memsz < seg.filesz THEN Fails(x)
     ELSE loaded(allocuvm(x, x.sz, end))

\* exec, the stack: "Allocate two pages at the next page boundary.  Make the
\* first inaccessible.  Use the second as the user stack."
Stack(x, prog) ==
  LET top == PGROUNDUP(x.sz) + 2 * PGSIZE
      k == top \div PGSIZE - 1
      pushed(y) ==
        IF ~y.ok \/ prog.big THEN freevm(y)
        ELSE [y EXCEPT !.as.pte[k - 1].u = FALSE, !.m.data[y.as.pte[k].pa] = prog.v, !.sz = top]
  IN IF ~x.ok THEN freevm(x) ELSE pushed(allocuvm(x, top - 2 * PGSIZE, top))

\* exec up to "Commit to the user image": the new address space with its size;
\* ok is FALSE, and all is freed, when it failed.
NewImage(mem, prog) ==
  LET loaded(x) ==
        FoldLeft(LAMBDA y, s : Segment(y, prog, s),
                 [m |-> x.m, as |-> x.as, ok |-> TRUE, sz |-> 0], Upto(1, Len(prog.segs) + 1))
      built(x) == IF x.ok THEN Stack(loaded(x), prog) ELSE x
  IN IF prog.magic THEN built(setupkvm(mem)) ELSE [m |-> mem, as |-> NoSpace, ok |-> FALSE]

-----------------------------------------------------------------------------
(* Operations of processes.                                                *)

\* userinit: the first process, with one page.
VmInit ==
  \E p \in Proc :
    LET x == setupkvm([free |-> [j \in 1 .. NPAGES - 1 |-> j + 1],
                       data |-> [b \in Phys |-> Junk], panic |-> ""])
        y == allocuvm(x, 0, PGSIZE)
    IN /\ m = y.m
       /\ as = [q \in Proc |-> IF q = p THEN y.as ELSE NoSpace]
       /\ sz = [q \in Proc |-> IF q = p THEN PGSIZE ELSE 0]
       /\ kstack = [q \in Proc |-> IF q = p THEN 1 ELSE 0]
       /\ st = [q \in Proc |-> IF q = p THEN "run" ELSE "unused"]
       /\ held = {}
       /\ ops = 0

\* p runs; a process without its first page faults at once and exits.
Runs(p) == m.panic = "" /\ st[p] = "run" /\ as[p].pte[0].pa # 0

\* A user program writes to one of its pages.
StoreTo(p, k, v) ==
  /\ Runs(p) /\ as[p].pte[k].u
  /\ m' = [m EXCEPT !.data[as[p].pte[k].pa] = v]
  /\ UNCHANGED <<as, sz, kstack, st, held>>

\* Mutant: the size does not go down.
SizeAfterKeeps(p, n, ok) == IF ~ok \/ n < 0 THEN sz[p] ELSE sz[p] + n

\* growproc returns early when allocuvm or deallocuvm returns 0; deallocuvm
\* returns the old size when there is nothing to free.
SizeAfter(p, n, ok) == IF ~ok \/ sz[p] + n <= 0 THEN sz[p] ELSE sz[p] + n

\* growproc.  A negative result is a large unsigned number.
growproc(p, n) ==
  LET x == [m |-> m, as |-> as[p], ok |-> TRUE]
      y == IF n > 0 THEN allocuvm(x, sz[p], sz[p] + n)
           ELSE IF sz[p] + n < 0 THEN x ELSE deallocuvm(x, sz[p], sz[p] + n)
  IN /\ Runs(p)
     /\ m' = y.m
     /\ as' = [as EXCEPT ![p] = y.as]
     /\ sz' = [sz EXCEPT ![p] = SizeAfter(p, n, y.ok)]
     /\ UNCHANGED <<kstack, st, held>>

\* fork: kernel stack and copy of the memory, or everything is given back.
fork(p, q) ==
  LET a == kalloc(m)
      x == copyuvm(a.m, as[p], sz[p])
  IN /\ Runs(p) /\ st[q] = "unused"
     /\ IF a.pa = 0 THEN UNCHANGED <<m, as, sz, kstack, st>>
        ELSE IF ~x.ok THEN m' = kfree(x.m, a.pa) /\ UNCHANGED <<as, sz, kstack, st>>
        ELSE /\ m' = x.m
             /\ as' = [as EXCEPT ![q] = x.as]
             /\ sz' = [sz EXCEPT ![q] = sz[p]]
             /\ kstack' = [kstack EXCEPT ![q] = a.pa]
             /\ st' = [st EXCEPT ![q] = "run"]
     /\ UNCHANGED held

\* exec: the old address space is freed once the new one is complete.
exec(p, prog) ==
  LET commit(x) ==
        IF x.ok
        THEN /\ m' = freevm([m |-> x.m, as |-> as[p], ok |-> TRUE]).m
             /\ as' = [as EXCEPT ![p] = x.as]
             /\ sz' = [sz EXCEPT ![p] = x.sz]
        ELSE m' = x.m /\ UNCHANGED <<as, sz>>
  IN /\ Runs(p)
     /\ commit(NewImage(m, prog))
     /\ UNCHANGED <<kstack, st, held>>

\* exit, also after a page fault: the memory stays until wait.
exit(p) ==
  /\ m.panic = "" /\ st[p] = "run"
  /\ \E q \in Proc \ {p} : st[q] = "run"
  /\ st' = [st EXCEPT ![p] = "zombie"]
  /\ UNCHANGED <<m, as, sz, kstack, held>>

\* wait, for a zombie.
wait(p) ==
  /\ m.panic = "" /\ st[p] = "zombie"
  /\ m' = freevm([m |-> kfree(m, kstack[p]), as |-> as[p], ok |-> TRUE]).m
  /\ as' = [as EXCEPT ![p] = NoSpace]
  /\ sz' = [sz EXCEPT ![p] = 0]
  /\ kstack' = [kstack EXCEPT ![p] = 0]
  /\ st' = [st EXCEPT ![p] = "unused"]
  /\ UNCHANGED held

\* Pipes, and change_file_size, take pages too.
KernelTakes ==
  /\ m.panic = "" /\ m.free # <<>> /\ Cardinality(held) < MaxHeld
  /\ held' = held \union {kalloc(m).pa}
  /\ m' = kalloc(m).m
  /\ UNCHANGED <<as, sz, kstack, st>>

KernelGives ==
  /\ m.panic = ""
  /\ \E pa \in held : held' = held \ {pa} /\ m' = kfree(m, pa)
  /\ UNCHANGED <<as, sz, kstack, st>>

VmNext ==
  /\ ops < MaxOps /\ ops' = ops + 1
  /\ \/ \E p \in Proc :
          \/ \E k \in UPage, v \in Datum : StoreTo(p, k, v)
          \/ \E n \in Grows : growproc(p, n)
          \/ \E q \in Proc \ {p} : fork(p, q)
          \/ \E prog \in Programs : exec(p, prog)
          \/ exit(p)
          \/ wait(p)
     \/ KernelTakes
     \/ KernelGives

VmSpec == VmInit /\ [][VmNext]_vmvars

-----------------------------------------------------------------------------
(* Properties.                                                             *)

VmTypeOK ==
  /\ m.free \in Seq(Phys) /\ m.data \in [Phys -> Datum \union {Junk}]
  /\ as \in [Proc -> [pgdir : Phys \union {0}, ktab : Seq(Phys), tab : [0 .. UPDE - 1 -> Phys \union {0}],
                      pte : [UPage -> [pa : Phys \union {0}, u : BOOLEAN]]]]
  /\ sz \in [Proc -> 0 .. KERNBASE - 1]
  /\ kstack \in [Proc -> Phys \union {0}]
  /\ st \in [Proc -> {"unused", "run", "zombie"}]
  /\ held \subseteq Phys

\* The places that hold physical page b.
Owners(b) ==
  {<<"free", j>> : j \in {i \in 1 .. Len(m.free) : m.free[i] = b}}
  \union {<<"dir", p>> : p \in {q \in Proc : as[q].pgdir = b}}
  \union {<<"stack", p>> : p \in {q \in Proc : kstack[q] = b}}
  \union {x \in {"tab"} \X Proc \X (0 .. UPDE - 1) : as[x[2]].tab[x[3]] = b}
  \union {x \in {"pte"} \X Proc \X UPage : as[x[2]].pte[x[3]].pa = b}
  \union {x \in {"ktab"} \X Proc \X (1 .. KPDE) : x[3] <= Len(as[x[2]].ktab) /\ as[x[2]].ktab[x[3]] = b}
  \union {<<"held", b>> : h \in held \intersect {b}}

\* Every physical page is in exactly one place, on the free list or in use once:
\* nothing is lost, freed twice or shared, on any of the paths on which fork,
\* exec and sbrk run out of memory half way.
PagesAccounted == \A b \in Phys : Cardinality(Owners(b)) = 1

\* A process has the pages below its size and no others, all of them its own to
\* use but one, the guard page below the stack; unless it gave all its memory
\* up, when growproc returns -1 and leaves the size as it was.  So a page that
\* mappages maps was free, one that copyuvm copies exists, and they and loaduvm
\* do not panic.
SizeMapped ==
  /\ VmTypeOK
  /\ m.panic = ""
  /\ \A p \in Proc :
       LET mapped == {k \in UPage : as[p].pte[k].pa # 0} IN
       /\ mapped # {} => mapped = {k \in UPage : k * PGSIZE < sz[p]}
       /\ Cardinality({k \in mapped : ~as[p].pte[k].u}) <= 1

\* The pages of p, as the program sees them.
PagesOf(p) ==
  [k \in 1 .. Cardinality({x \in UPage : st[p] = "run" /\ as[p].pte[x].pa # 0}) |->
     m.data[as[p].pte[k - 1].pa]]

\* What the pages of prog hold after exec: the file's part of its segments, zeros
\* elsewhere, a guard page, and the arguments.
Image(prog) ==
  LET ends == {prog.segs[s].vaddr + prog.segs[s].memsz : s \in DOMAIN prog.segs}
      size == CHOOSE e \in ends \union {0} : \A f \in ends : f <= e
      n == PGROUNDUP(size) \div PGSIZE
      loaded(k) == \E s \in DOMAIN prog.segs :
        \E u \in k * PGSIZE .. (k + 1) * PGSIZE - 1 :
          u >= prog.segs[s].vaddr /\ u < prog.segs[s].vaddr + prog.segs[s].filesz
  IN [pages |-> [k \in 1 .. n + 2 |-> IF k = n + 2 \/ (k <= n /\ loaded(k - 1)) THEN prog.v ELSE 0],
      size |-> (n + 2) * PGSIZE]

\* The programs that exec may load.
Loadable(prog) ==
  /\ prog.magic /\ prog.short = 0 /\ ~prog.big
  /\ \A s \in DOMAIN prog.segs : prog.segs[s].vaddr % PGSIZE = 0 /\ prog.segs[s].filesz <= prog.segs[s].memsz

Images == {Image(prog) : prog \in {x \in Programs : Loadable(x)}}

Private == INSTANCE PrivateMemory WITH
  pages <- [p \in Proc |-> PagesOf(p)],
  size <- [p \in Proc |-> IF st[p] = "run" THEN sz[p] ELSE 0]

\* Processes have memory of their own: a store, fork, sbrk or exec of one changes
\* no other; a child starts with its parent's data; new pages are zero, never
\* what another process or the allocator left in them; a failed exec, sbrk or
\* fork leaves the memory and its size as they were, except that growproc, asked
\* for no memory at all, frees the pages and returns -1.
ImplementsPrivateMemory == Private!MemSpec

==============================================================================
