----------------------------- MODULE AtomicFile ------------------------------
(***************************************************************************)
(* What files promise: a file is a size and that many units of data, and   *)
(* read, write, change_file_size and the freeing of a file act on it in    *)
(* one step.  An open file carries the offset of the next read or write.   *)
(***************************************************************************)
EXTENDS Naturals, Sequences

CONSTANTS Inum, OpenFile, Unit, Limit   \* Limit: no file holds more units

VARIABLES
  size,     \* inode -> size
  unit,     \* inode -> unit at each place, 0 beyond the size
  ip,       \* open file -> its inode, 0 when closed
  off,      \* open file -> offset
  got       \* what the last read returned

filevars == <<size, unit, ip, off, got>>

Place == 0 .. Limit - 1

FileInit ==
  /\ size = [i \in Inum |-> 0]
  /\ unit = [i \in Inum |-> [k \in Place |-> 0]]
  /\ ip = [f \in OpenFile |-> 0]
  /\ off = [f \in OpenFile |-> 0]
  /\ got = <<>>

Larger(x, y) == IF x > y THEN x ELSE y

\* n units v are written at the offset of f, and nothing else changes.
Write(f, i, n, v) ==
  /\ ip[f] = i
  /\ off[f] <= size[i] /\ off[f] + n <= Limit
  /\ off' = [off EXCEPT ![f] = @ + n]
  /\ unit' = [unit EXCEPT ![i] =
                [k \in Place |-> IF k \in off[f] .. off[f] + n - 1 THEN v ELSE @[k]]]
  /\ size' = [size EXCEPT ![i] = Larger(@, off[f] + n)]
  /\ UNCHANGED <<ip, got>>

\* n units are read at the offset of f.
Read(f, i, n) ==
  /\ ip[f] = i
  /\ off[f] + n <= size[i] /\ off[f] + n <= Limit
  /\ off' = [off EXCEPT ![f] = @ + n]
  /\ got' = [k \in 1 .. n |-> unit[i][off[f] + k - 1]]
  /\ UNCHANGED <<size, unit, ip>>

\* "decrease its size to length by cutting off the end of the file or increase
\* its size to length by adding 0s to the end of the file".  When the length is
\* more than a file can hold, nothing is promised of the units that are added.
Resize(i, length) ==
  /\ size' = [size EXCEPT ![i] = length]
  /\ \A j \in Inum \ {i} : unit'[j] = unit[j]
  /\ unit' \in [Inum -> [Place -> Unit]]
  /\ \A k \in Place :
       IF k < length /\ k < size[i] THEN unit'[i][k] = unit[i][k]
       ELSE length <= Limit => unit'[i][k] = 0
  /\ UNCHANGED <<ip, off, got>>

Free(i) ==
  /\ size' = [size EXCEPT ![i] = 0]
  /\ unit' = [unit EXCEPT ![i] = [k \in Place |-> 0]]
  /\ UNCHANGED <<ip, off, got>>

Reopen(f) ==
  /\ \E i \in Inum \union {0} : ip' = [ip EXCEPT ![f] = i]
  /\ off' = [off EXCEPT ![f] = 0]
  /\ UNCHANGED <<size, unit, got>>

FileNext ==
  \/ \E f \in OpenFile, i \in Inum :
       \E n \in 1 .. Limit : (\E v \in Unit : Write(f, i, n, v)) \/ Read(f, i, n)
  \/ \E i \in Inum : Free(i)
  \/ \E i \in Inum : Resize(i, size'[i])
  \/ \E f \in OpenFile : Reopen(f)

FileSpec == FileInit /\ [][FileNext]_filevars

==============================================================================
