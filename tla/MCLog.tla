-------------------------------- MODULE MCLog --------------------------------
(* Small instances of the write-ahead log.                                 *)
EXTENDS Log, TLC

\* Processes, contents, and the blocks other than FirstInode are interchangeable.
LogSymmetry ==
  Permutations(Proc) \union Permutations(Block \ {FirstInode}) \union Permutations(Data)

==============================================================================
