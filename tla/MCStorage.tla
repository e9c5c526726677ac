----------------------------- MODULE MCStorage ------------------------------
(***************************************************************************)
(* Two allocators and what is built on them, checked in one run: blocks    *)
(* and files (Blocks), pages and address spaces (Vm).  They share nothing; *)
(* part says which of the two a behaviour is about.                        *)
(***************************************************************************)
EXTENDS Blocks, Vm, TLC

VARIABLE part

\* The kinds of executable files: a segment of one page; two segments that
\* overlap; a file that ends too early; arguments that do not fit; a segment
\* that does not begin at a page; more file than memory; not an executable.
Seg(vaddr, memsz, filesz) == [vaddr |-> vaddr, memsz |-> memsz, filesz |-> filesz]
Prog(segs, short, big) ==
  [magic |-> TRUE, segs |-> segs, short |-> short, big |-> big, v |-> 2]
MCPrograms ==
  {Prog(<<Seg(0, 1, 1)>>, 0, FALSE), Prog(<<Seg(0, 3, 1), Seg(0, 2, 2)>>, 0, FALSE),
   Prog(<<Seg(0, 2, 2), Seg(2, 1, 1)>>, 2, FALSE), Prog(<<Seg(0, 1, 1)>>, 0, TRUE),
   Prog(<<Seg(1, 1, 1)>>, 0, FALSE), Prog(<<Seg(0, 1, 2)>>, 0, FALSE),
   [Prog(<<>>, 0, FALSE) EXCEPT !.magic = FALSE]}
MCGrows == {-2, -1, 1, 3}

StorageInit == part \in {"blocks", "vm"} /\ BlocksInit /\ VmInit

StorageNext ==
  /\ UNCHANGED part
  /\ \/ part = "blocks" /\ BlocksNext /\ UNCHANGED vmvars
     \/ part = "vm" /\ VmNext /\ UNCHANGED blockvars

StorageSpec == StorageInit /\ [][StorageNext]_<<part, blockvars, vmvars>>

StorageSymmetry == Permutations(Proc) \union Permutations(OpenFile) \union Permutations(Writer)
                    \union Permutations(Value)

=============================================================================
