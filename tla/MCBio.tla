-------------------------------- MODULE MCBio --------------------------------
(* A small instance of the buffer cache.                                   *)
EXTENDS Bio

\* A process that has block 1 may get block 2 as well.
MCPairs == {<<1, 2>>}

MCBioSpec == BioSpec /\ BioFairness

==============================================================================
