------------------------------ MODULE LogProofs ------------------------------
(***************************************************************************)
(* For any number of processes and blocks, and any size of the log: the    *)
(* operations in progress fit into its header, no process sleeps in        *)
(* begin_op() for nothing, and the log implements AtomicDisk until a       *)
(* header has more blocks than the log on disk.                            *)
(***************************************************************************)
EXTENDS Log, FiniteSetTheorems, TLAPS

Committing == {"write_log", "write_head", "install", "clear", "done"}
Locking == {"modified", "checked", "panic"}

\* Of what the operations in progress may write, the part that has no entry in
\* the header yet.  A block that was changed and not yet reported to log_write()
\* counts here, and not in Unwritten.
Unlogged ==
  {x \in InOp \X (1 .. MAXOPBLOCKS) : x[2] > Cardinality({c \in wrote[x[1]] : InLog(c)})}

\* The count of operations, and the entries that are reserved for them.
Reserved ==
  /\ outstanding = Cardinality(InOp)
  /\ \A p \in Proc : IsFiniteSet(wrote[p]) /\ Cardinality(wrote[p]) <= MAXOPBLOCKS
  /\ \A p \in InOp : \A c \in wrote[p] : InLog(c) \/ (c = buf[p] /\ pc[p] \in Locking)
  /\ \A p \in Proc : pc[p] \in Locking => buf[p] \in wrote[p]
  /\ \A c \in Block : lock[c] # NoProc => pc[lock[c]] \in Locking /\ buf[lock[c]] = c
  /\ Len(lh) + Cardinality(Unlogged) <= LOGSIZE

\* What the phases of a commit and of recovery say about the rest of the state.
Phases ==
  /\ committing <=> phase \in Committing
  /\ committing => outstanding = 0
  /\ phase \in Recovery => ~committing /\ \A p \in Proc : pc[p] = "user"
  /\ phase = "read_head" => lh = << >> /\ tail = 1
  /\ phase = "recover" => tail <= Len(lh) \/ tail = 1
  /\ phase = "done" => lh = << >>
  /\ phase = "none" /\ outstanding = 0 => lh = << >>
  /\ phase \in {"write_log", "write_head", "install"} => lh # << >> /\ tail <= Len(lh)
  /\ phase = "write_head" => tail = 1

\* The header on disk, and the blocks it names.
Header ==
  /\ Len(header) <= LOGSIZE
  /\ \A i, j \in 1 .. Len(lh) : lh[i] = lh[j] => i = j
  /\ \A i, j \in 1 .. Len(header) : header[i] = header[j] => i = j
  /\ phase \in {"none", "write_log", "write_head", "done"} => header = << >>
  /\ phase \in {"install", "clear", "recover", "reset"} => header = lh

\* Where the contents of the blocks are.
Contents ==
  /\ \A c \in Block : c \in dirty <=>
       \/ phase \in {"none", "write_log", "write_head", "done"} /\ InLog(c)
       \/ phase = "install" /\ \E i \in tail .. Len(lh) : lh[i] = c
  /\ \A c \in Block : c \notin dirty /\ lock[c] = NoProc => cache[c] = disk[c]
  /\ phase = "write_log" => \A i \in 1 .. tail - 1 : logdata[i] = cache[lh[i]]
  /\ phase \in {"write_head", "install", "clear"} =>
       \A i \in 1 .. Len(lh) : logdata[i] = cache[lh[i]]
  /\ phase = "recover" => \A i \in 1 .. tail - 1 : disk[lh[i]] = logdata[i]
  /\ phase = "reset" => \A i \in 1 .. Len(lh) : disk[lh[i]] = logdata[i]

\* As long as the log is not overrun, the headers name blocks of the log.
Sound == ~overrun => Contents /\ Len(lh) < nlog /\ Len(header) < nlog

\* The inductive invariant.
LogInv == LogTypeOK /\ Reserved /\ Phases /\ Header /\ Sound /\ SleepJustified

\* log_write panics with the log full.
Panics ==
  \A p \in Proc : pc[p] = "panic" => Len(lh) >= LOGSIZE \/ Len(lh) >= nlog - 1

-----------------------------------------------------------------------------
(* The entries that are reserved.                                          *)

\* Slots of the log that are reserved for the processes in O.
LEMMA SlotsBound ==
  ASSUME NEW O \in SUBSET Proc, NEW U \in SUBSET (O \X (1 .. MAXOPBLOCKS))
  PROVE  /\ IsFiniteSet(O) /\ Cardinality(O) \in Nat
         /\ Cardinality(O) <= Cardinality(Proc) /\ Cardinality(Proc) \in Nat
         /\ IsFiniteSet(U) /\ Cardinality(U) \in Nat
         /\ Cardinality(U) <= Cardinality(O) * MAXOPBLOCKS
<1>1. IsFiniteSet(Proc)
  BY Zenon, LogAssumption
<1>2. IsFiniteSet(O) /\ Cardinality(O) <= Cardinality(Proc)
  BY Zenon, <1>1, FS_Subset
<1>3. IsFiniteSet(1 .. MAXOPBLOCKS) /\ Cardinality(1 .. MAXOPBLOCKS) = MAXOPBLOCKS
  BY LogAssumption, FS_Interval
<1>4. /\ IsFiniteSet(O \X (1 .. MAXOPBLOCKS))
      /\ Cardinality(O \X (1 .. MAXOPBLOCKS)) = Cardinality(O) * MAXOPBLOCKS
  BY Zenon, <1>2, <1>3, FS_Product
<1>5. IsFiniteSet(U) /\ Cardinality(U) <= Cardinality(O) * MAXOPBLOCKS
  BY Zenon, <1>4, FS_Subset
<1>6. Cardinality(O) \in Nat /\ Cardinality(Proc) \in Nat /\ Cardinality(U) \in Nat
  BY Zenon, <1>1, <1>2, <1>5, FS_CardinalityType
<1> QED BY Zenon, <1>2, <1>5, <1>6

\* Each operation in progress may write MAXOPBLOCKS blocks at most.
LEMMA UnloggedBound ==
  ASSUME LogTypeOK
  PROVE  /\ IsFiniteSet(InOp) /\ Cardinality(InOp) \in Nat
         /\ Cardinality(InOp) <= Cardinality(Proc) /\ Cardinality(Proc) \in Nat
         /\ IsFiniteSet(Unlogged) /\ Cardinality(Unlogged) \in Nat
         /\ Cardinality(Unlogged) <= Cardinality(InOp) * MAXOPBLOCKS
<1>1. InOp \in SUBSET Proc /\ Unlogged \in SUBSET (InOp \X (1 .. MAXOPBLOCKS))
  BY Zenon DEF InOp, Unlogged
<1> QED BY Zenon, <1>1, SlotsBound

\* What an operation has not written is part of what has no entry.
LEMMA UnwrittenInUnlogged ==
  ASSUME LogTypeOK, Reserved
  PROVE  Cardinality(Unwritten) \in Nat /\ Cardinality(Unwritten) <= Cardinality(Unlogged)
<1>1. ASSUME NEW x \in Unwritten PROVE x \in Unlogged
  <2>1. x[1] \in Proc /\ IsFiniteSet(wrote[x[1]])
    BY Zenon DEF Unwritten, InOp, Reserved
  <2>2. {c \in wrote[x[1]] : InLog(c)} \in SUBSET wrote[x[1]]
    OBVIOUS
  <2>3. Cardinality({c \in wrote[x[1]] : InLog(c)}) <= Cardinality(wrote[x[1]])
    BY Zenon, <2>1, <2>2, FS_Subset
  <2>4. Cardinality({c \in wrote[x[1]] : InLog(c)}) \in Nat /\ Cardinality(wrote[x[1]]) \in Nat
    BY Zenon, <2>1, <2>2, FS_Subset, FS_CardinalityType
  <2> HIDE DEF InLog
  <2> QED BY <2>3, <2>4, LogAssumption DEF Unwritten, Unlogged
<1>2. Unwritten \in SUBSET Unlogged
  BY Zenon, <1>1
<1>3. IsFiniteSet(Unlogged)
  BY Zenon, UnloggedBound
<1> QED BY Zenon, <1>2, <1>3, FS_Subset, FS_CardinalityType

\* The invariant has what WithinReserve says.
LEMMA LogInvReserve == LogInv /\ Panics => WithinReserve
<1> SUFFICES ASSUME LogInv, Panics PROVE WithinReserve
  OBVIOUS
<1>1. LogTypeOK /\ Reserved /\ Phases
  BY Zenon DEF LogInv
<1>2. Len(lh) \in Nat
  BY <1>1 DEF LogTypeOK
<1>3. Len(lh) + Cardinality(Unwritten) <= LOGSIZE
  BY <1>1, <1>2, UnwrittenInUnlogged, UnloggedBound, LogAssumption DEF Reserved
<1>4. ASSUME committing PROVE outstanding = 0 /\ InOp = {} /\ \A c \in Block : lock[c] = NoProc
  <2>1. outstanding = 0
    BY Zenon, <1>1, <1>4 DEF Phases
  <2>2. InOp = {}
    BY Zenon, <1>1, <2>1, UnloggedBound, FS_EmptySet DEF Reserved
  <2>3. \A c \in Block : lock[c] \in Proc \union {NoProc}
    BY Zenon, <1>1 DEF LogTypeOK
  <2> QED BY Zenon, <1>1, <2>1, <2>2, <2>3 DEF Reserved, InOp, Locking
<1> QED BY Zenon, <1>1, <1>3, <1>4 DEF WithinReserve, Panics

-----------------------------------------------------------------------------
(* The invariant.                                                          *)

\* The disk at the start has an empty log.
LEMMA LogInvInit == Init => LogInv
<1> SUFFICES ASSUME Init PROVE LogInv
  OBVIOUS
<1> USE LogAssumption
<1>1. InOp = {}
  BY Zenon DEF Init, InOp
<1>2. Cardinality(InOp) = 0 /\ Unlogged = {} /\ Cardinality(Unlogged) = 0
  BY Zenon, <1>1, FS_EmptySet DEF Unlogged
<1>3. Len(<<>>) = 0 /\ <<>> \in Seq(Block)
  OBVIOUS
<1>4. LogTypeOK
  <2>1. logdata \in [1 .. nlog - 1 -> Data]
    BY Zenon DEF Init
  <2>2. Cardinality(Proc) \in Nat
    BY Zenon, FS_CardinalityType
  <2>3. 1 \in 1 .. LOGSIZE /\ 0 \in 0 .. Cardinality(Proc)
    BY <2>2
  <2>4. disk \in [Block -> Data] /\ header \in Seq(Block) /\ lh \in Seq(Block)
    BY Zenon, <1>3 DEF Init
  <2>5. pc \in [Proc -> {"user"}] /\ wrote \in [Proc -> SUBSET Block]
        /\ lock \in [Block -> {NoProc}]
    BY Zenon DEF Init
  <2> QED BY <2>1, <2>3, <2>4, <2>5, Zenon DEF Init, LogTypeOK, Recovery
<1>5. Reserved
  BY <1>1, <1>2, <1>3, FS_EmptySet DEF Init, Reserved, Locking
<1>6. Phases
  BY Zenon, <1>3 DEF Init, Phases, Committing, Recovery
<1>7. Header /\ Sound
  BY <1>3 DEF Init, Header, Contents, Sound
<1>8. SleepJustified
  BY Zenon DEF Init, SleepJustified
<1> QED BY Zenon, <1>4, <1>5, <1>6, <1>7, <1>8 DEF LogInv

\* While an operation is in progress nobody commits or recovers.
LEMMA OpPhase ==
  ASSUME LogInv, NEW p \in InOp
  PROVE  phase = "none" /\ ~committing /\ outstanding \in Nat /\ outstanding >= 1 /\ p \in Proc
<1>1. LogTypeOK /\ Reserved /\ Phases
  BY Zenon DEF LogInv
<1>2. IsFiniteSet(InOp) /\ Cardinality(InOp) \in Nat /\ outstanding = Cardinality(InOp)
  BY Zenon, <1>1, UnloggedBound DEF Reserved
<1>3. outstanding # 0
  BY Zenon, <1>2, FS_EmptySet
<1>4. p \in Proc /\ pc[p] # "user"
  BY Zenon DEF InOp
<1>5. ~committing /\ phase \notin Committing /\ phase \notin Recovery
  BY Zenon, <1>1, <1>3, <1>4 DEF Phases
<1>6. phase = "none"
  BY Zenon, <1>1, <1>5 DEF LogTypeOK, Committing, Recovery
<1> QED BY <1>2, <1>3, <1>4, <1>5, <1>6

\* A process begins an operation, or sleeps.
LEMMA begin_opKeeps ==
  ASSUME LogInv, NEW p \in Proc, begin_op(p)
  PROVE  LogInv' /\ p \notin InOp /\ (InOp' = InOp \/ InOp' = InOp \union {p})
<1> USE LogAssumption
<1>1. LogTypeOK /\ Reserved /\ Phases /\ Header /\ Sound /\ SleepJustified
  BY Zenon DEF LogInv
<1>2. /\ phase \notin Recovery /\ pc[p] \in {"user", "woken"} /\ p \notin InOp
      /\ UNCHANGED <<disk, logdata, header, cache, dirty, lock, buf, lh, committing, phase, tail, overrun>>
  BY Zenon DEF begin_op, InOp, ondisk, buffers
<1>3. Header'
  BY <1>1, <1>2 DEF Header
<1>4. Sound'
  BY <1>1, <1>2 DEF Sound, Contents, InLog
<1>5. \A c \in Block : lock[c] # NoProc => lock[c] # p
  BY Zenon, <1>1, <1>2 DEF Reserved, Locking
<1>6. CASE committing \/ NoRoom
  <2>1. pc' = [pc EXCEPT ![p] = "asleep"] /\ UNCHANGED <<outstanding, wrote>>
    BY Zenon, <1>6 DEF begin_op
  <2>2. InOp' = InOp
    BY Zenon, <1>1, <1>2, <2>1 DEF InOp, LogTypeOK
  <2>3. Unlogged' = Unlogged
    BY Zenon, <1>2, <2>1, <2>2 DEF Unlogged, InLog
  <2>4. LogTypeOK'
    BY Zenon, <1>1, <1>2, <2>1 DEF LogTypeOK
  <2>5. Reserved'
    <3>1. \A q \in Proc : pc'[q] \in Locking <=> pc[q] \in Locking
      BY Zenon, <1>1, <1>2, <2>1 DEF LogTypeOK, Locking
    <3>2. \A c \in Block : lock[c] \in Proc \union {NoProc}
      BY Zenon, <1>1 DEF LogTypeOK
    <3> QED BY Zenon, <1>1, <1>2, <2>1, <2>2, <2>3, <3>1, <3>2 DEF Reserved, InOp, InLog
  <2>6. Phases'
    BY Zenon, <1>1, <1>2, <2>1 DEF Phases
  <2>7. SleepJustified'
    <3>1. ASSUME ~committing, outstanding = 0 PROVE FALSE
      <4>1. phase = "none"
        BY Zenon, <1>1, <1>2, <3>1 DEF Phases, LogTypeOK, Committing
      <4>2. Len(lh) = 0
        BY <1>1, <3>1, <4>1 DEF Phases
      <4> QED BY <1>6, <3>1, <4>2 DEF NoRoom
    <3>2. committing \/ (NoRoom /\ outstanding > 0)
      BY <1>1, <1>6, <3>1, FS_CardinalityType DEF LogTypeOK
    <3> QED BY Zenon, <1>2, <2>1, <3>2 DEF SleepJustified, NoRoom
  <2> QED BY Zenon, <1>2, <1>3, <1>4, <2>2, <2>4, <2>5, <2>6, <2>7 DEF LogInv
<1>7. CASE ~committing /\ ~NoRoom
  <2>1. /\ pc' = [pc EXCEPT ![p] = "op"] /\ outstanding' = outstanding + 1
        /\ wrote' = [wrote EXCEPT ![p] = {}]
    BY Zenon, <1>7 DEF begin_op
  <2>2. InOp' = InOp \union {p}
    BY <1>1, <1>2, <2>1 DEF InOp, LogTypeOK
  <2>3. IsFiniteSet(InOp) /\ Cardinality(InOp) \in Nat /\ outstanding = Cardinality(InOp)
    BY Zenon, <1>1, UnloggedBound DEF Reserved
  <2>4. outstanding' = Cardinality(InOp')
    BY Zenon, <1>2, <2>1, <2>2, <2>3, FS_AddElement
  <2>5. InOp' \in SUBSET Proc /\ Unlogged' \in SUBSET (InOp' \X (1 .. MAXOPBLOCKS))
    BY Zenon DEF InOp, Unlogged
  <2>6. /\ Cardinality(Unlogged') \in Nat
        /\ Cardinality(Unlogged') <= outstanding' * MAXOPBLOCKS
        /\ outstanding' \in 0 .. Cardinality(Proc)
    <3>1. /\ Cardinality(Unlogged') \in Nat
          /\ Cardinality(Unlogged') <= Cardinality(InOp') * MAXOPBLOCKS
          /\ Cardinality(InOp') \in Nat /\ Cardinality(Proc) \in Nat
          /\ Cardinality(InOp') <= Cardinality(Proc)
      BY Zenon, <2>5, SlotsBound
    <3> QED BY <2>4, <3>1
  <2>7. Len(lh) \in Nat
    BY <1>1 DEF LogTypeOK
  <2>8. Len(lh') + Cardinality(Unlogged') <= LOGSIZE
    <3>1. Len(lh) + outstanding' * MAXOPBLOCKS <= LOGSIZE
      BY <1>7, <2>1, <2>3, <2>7 DEF NoRoom
    <3>2. outstanding' * MAXOPBLOCKS \in Nat
      BY <2>1, <2>3
    <3> QED BY <1>2, <2>6, <2>7, <3>1, <3>2
  <2>9. LogTypeOK'
    <3>1. pc' \in [Proc -> {"user", "asleep", "woken", "op", "modified", "checked", "commit", "panic"}]
          /\ wrote' \in [Proc -> SUBSET Block]
      BY Zenon, <1>1, <2>1 DEF LogTypeOK
    <3> QED BY Zenon, <1>1, <1>2, <2>6, <3>1 DEF LogTypeOK
  <2>10. Reserved'
    <3>1. \A q \in Proc : pc'[q] \in Locking <=> pc[q] \in Locking
      BY Zenon, <1>1, <1>2, <2>1 DEF LogTypeOK, Locking
    <3>2. \A c \in Block : lock[c] \in Proc \union {NoProc}
      BY Zenon, <1>1 DEF LogTypeOK
    <3>3. \A q \in Proc : wrote'[q] = IF q = p THEN {} ELSE wrote[q]
      BY Zenon, <1>1, <2>1 DEF LogTypeOK
    <3>4. \A q \in Proc : IsFiniteSet(wrote'[q]) /\ Cardinality(wrote'[q]) <= MAXOPBLOCKS
      BY <1>1, <3>3, FS_EmptySet DEF Reserved
    <3>5. pc[p] \notin Locking
      BY Zenon, <1>2 DEF Locking
    <3>6. \A q \in InOp' : \A c \in wrote'[q] : InLog(c)' \/ (c = buf'[q] /\ pc'[q] \in Locking)
      BY Zenon, <1>1, <1>2, <2>2, <3>1, <3>3 DEF Reserved, InOp, InLog
    <3>7. \A q \in Proc : pc'[q] \in Locking => buf'[q] \in wrote'[q]
      BY Zenon, <1>1, <1>2, <3>1, <3>3, <3>5 DEF Reserved
    <3>8. \A c \in Block : lock'[c] # NoProc => pc'[lock'[c]] \in Locking /\ buf'[lock'[c]] = c
      BY Zenon, <1>1, <1>2, <3>1, <3>2 DEF Reserved
    <3> QED BY Zenon, <2>4, <2>8, <3>4, <3>6, <3>7, <3>8 DEF Reserved
  <2>11. Phases'
    BY <1>1, <1>2, <1>7, <2>1, <2>3 DEF Phases
  <2>12. SleepJustified'
    <3>1. ASSUME NEW q \in Proc, pc'[q] = "asleep" PROVE NoRoom' /\ outstanding' > 0
      <4>1. pc[q] = "asleep"
        BY Zenon, <1>1, <2>1, <3>1 DEF LogTypeOK
      <4> QED BY Zenon, <1>1, <1>7, <4>1 DEF SleepJustified
    <3> QED BY Zenon, <3>1 DEF SleepJustified
  <2> QED BY Zenon, <1>2, <1>3, <1>4, <2>2, <2>9, <2>10, <2>11, <2>12 DEF LogInv
<1> QED BY Zenon, <1>6, <1>7

\* A block is changed: it counts as unlogged until log_write().
LEMMA ModifyKeeps ==
  ASSUME LogInv, NEW p \in Proc, NEW c \in Block, NEW d \in Data, Modify(p, c, d)
  PROVE  LogInv' /\ p \in InOp /\ InOp' = InOp /\ phase = "none"
<1> USE LogAssumption
<1>1. LogTypeOK /\ Reserved /\ Phases /\ Header /\ Sound /\ SleepJustified
  BY Zenon DEF LogInv
<1>2. /\ pc[p] = "op" /\ Cardinality(wrote[p] \union {c}) <= MAXOPBLOCKS /\ lock[c] = NoProc
      /\ cache' = [cache EXCEPT ![c] = d] /\ lock' = [lock EXCEPT ![c] = p]
      /\ pc' = [pc EXCEPT ![p] = "modified"] /\ buf' = [buf EXCEPT ![p] = c]
      /\ wrote' = [wrote EXCEPT ![p] = @ \union {c}]
      /\ UNCHANGED <<disk, logdata, header, dirty, lh, outstanding, committing, phase, tail, overrun>>
  BY Zenon DEF Modify, ondisk
<1>3. p \in InOp /\ phase = "none" /\ ~committing /\ outstanding \in Nat /\ outstanding >= 1
  BY Zenon, <1>2, OpPhase DEF InOp
<1>4. LogTypeOK'
  BY Zenon, <1>1, <1>2 DEF LogTypeOK
<1>5. InOp' = InOp
  BY Zenon, <1>1, <1>2 DEF InOp, LogTypeOK
<1>6. \A q \in Proc : wrote'[q] = IF q = p THEN wrote[p] \union {c} ELSE wrote[q]
  BY Zenon, <1>1, <1>2 DEF LogTypeOK
<1>7. \A q \in Proc : IsFiniteSet(wrote'[q]) /\ Cardinality(wrote'[q]) <= MAXOPBLOCKS
  <2>1. \A q \in Proc : IsFiniteSet(wrote[q]) /\ Cardinality(wrote[q]) <= MAXOPBLOCKS
    BY Zenon, <1>1 DEF Reserved
  <2>2. IsFiniteSet(wrote[p] \union {c})
    BY Zenon, <2>1, FS_AddElement
  <2> QED BY Zenon, <1>2, <1>6, <2>1, <2>2
<1>8. \A e : InLog(e)' <=> InLog(e)
  BY Zenon, <1>2 DEF InLog
<1>9. Unlogged' \in SUBSET Unlogged
  <2> SUFFICES ASSUME NEW x \in Unlogged' PROVE x \in Unlogged
    OBVIOUS
  <2> DEFINE U(q) == {e \in wrote[q] : InLog(e)}
             V(q) == {e \in wrote'[q] : InLog(e)'}
  <2>1. x \in InOp \X (1 .. MAXOPBLOCKS) /\ x[2] > Cardinality(V(x[1])) /\ x[1] \in Proc /\ x[2] \in Nat
    BY <1>5 DEF Unlogged, InOp
  <2>2. IsFiniteSet(V(x[1]))
    <3>1. V(x[1]) \in SUBSET wrote'[x[1]]
      OBVIOUS
    <3> QED BY Zenon, <1>7, <2>1, <3>1, FS_Subset
  <2>3. U(x[1]) \in SUBSET V(x[1])
    BY Zenon, <1>6, <1>8, <2>1
  <2>4. Cardinality(U(x[1])) <= Cardinality(V(x[1])) /\ IsFiniteSet(U(x[1]))
    BY Zenon, <2>2, <2>3, FS_Subset
  <2>5. Cardinality(U(x[1])) \in Nat /\ Cardinality(V(x[1])) \in Nat
    BY Zenon, <2>2, <2>4, FS_CardinalityType
  <2>6. x[2] > Cardinality(U(x[1]))
    <3> HIDE DEF U, V
    <3> QED BY <2>1, <2>4, <2>5
  <2> QED BY Zenon, <2>1, <2>6 DEF Unlogged
<1>10. Len(lh') + Cardinality(Unlogged') <= LOGSIZE
  <2>1. Cardinality(Unlogged') <= Cardinality(Unlogged) /\ IsFiniteSet(Unlogged')
    BY Zenon, <1>1, <1>9, UnloggedBound, FS_Subset
  <2>2. Cardinality(Unlogged) \in Nat /\ Cardinality(Unlogged') \in Nat /\ Len(lh) \in Nat
    BY <1>1, <2>1, UnloggedBound, FS_CardinalityType DEF LogTypeOK
  <2> QED BY <1>1, <1>2, <2>1, <2>2 DEF Reserved
<1>11. Reserved'
  <2>1. \A q \in Proc : q # p => pc'[q] = pc[q] /\ buf'[q] = buf[q]
    BY Zenon, <1>1, <1>2 DEF LogTypeOK
  <2>2. pc'[p] \in Locking /\ buf'[p] = c /\ c \in wrote'[p]
    BY Zenon, <1>1, <1>2, <1>6 DEF LogTypeOK, Locking
  <2>3. \A e \in Block : lock'[e] = IF e = c THEN p ELSE lock[e]
    BY Zenon, <1>1, <1>2 DEF LogTypeOK
  <2>4. \A e \in Block : lock[e] \in Proc \union {NoProc} /\ lock[e] # p
    BY <1>1, <1>2 DEF LogTypeOK, Reserved, Locking
  <2>5. \A q \in InOp' : \A e \in wrote'[q] : InLog(e)' \/ (e = buf'[q] /\ pc'[q] \in Locking)
    <3>1. \A e \in wrote[p] : InLog(e)
      BY Zenon, <1>1, <1>2, <1>3 DEF Reserved, Locking
    <3> HIDE DEF InLog
    <3> QED BY <1>1, <1>5, <1>6, <1>8, <2>1, <2>2, <3>1 DEF Reserved, InOp
  <2>6. \A q \in Proc : pc'[q] \in Locking => buf'[q] \in wrote'[q]
    BY Zenon, <1>1, <1>6, <2>1, <2>2 DEF Reserved
  <2>7. \A e \in Block : lock'[e] # NoProc => pc'[lock'[e]] \in Locking /\ buf'[lock'[e]] = e
    BY <1>1, <2>1, <2>2, <2>3, <2>4 DEF Reserved
  <2>8. outstanding' = Cardinality(InOp')
    BY Zenon, <1>1, <1>2, <1>5 DEF Reserved
  <2> QED BY Zenon, <1>7, <1>10, <2>5, <2>6, <2>7, <2>8 DEF Reserved
<1>12. Phases'
  BY Zenon, <1>1, <1>2, <1>3 DEF Phases, Recovery
<1>13. Header'
  BY <1>1, <1>2 DEF Header
<1>14. Sound'
  <2>0. SUFFICES ASSUME ~overrun, Contents, Len(lh) < nlog, Len(header) < nlog
                 PROVE  Contents'
    BY <1>1, <1>2 DEF Sound
  <2>1. \A e \in Block : e # c => cache'[e] = cache[e] /\ lock'[e] = lock[e]
    BY Zenon, <1>1, <1>2 DEF LogTypeOK
  <2>2. lock'[c] # NoProc
    BY Zenon, <1>1, <1>2 DEF LogTypeOK
  <2> QED BY <1>2, <1>3, <1>8, <2>0, <2>1, <2>2 DEF Contents
<1>15. SleepJustified'
  BY Zenon, <1>1, <1>2 DEF SleepJustified, LogTypeOK, NoRoom
<1> QED BY Zenon, <1>3, <1>4, <1>5, <1>11, <1>12, <1>13, <1>14, <1>15 DEF LogInv

\* log_write's tests change nothing but the place.
LEMMA log_write_checkKeeps ==
  ASSUME LogInv, NEW p \in Proc, log_write_check(p)
  PROVE  LogInv' /\ InOp' = InOp
<1>1. LogTypeOK /\ Reserved /\ Phases /\ Header /\ Sound /\ SleepJustified
  BY Zenon DEF LogInv
<1>2. /\ pc[p] = "modified"
      /\ \E x \in {"checked", "panic"} : pc' = [pc EXCEPT ![p] = x]
      /\ UNCHANGED <<disk, logdata, header, cache, dirty, lock, buf, wrote, lh, outstanding,
                     committing, phase, tail, overrun>>
  BY Zenon DEF log_write_check, ondisk, buffers
<1>3. p \in InOp /\ phase = "none" /\ ~committing
  BY Zenon, <1>2, OpPhase DEF InOp
<1>4. LogTypeOK'
  BY Zenon, <1>1, <1>2 DEF LogTypeOK
<1>5. InOp' = InOp /\ \A q \in Proc : pc'[q] \in Locking <=> pc[q] \in Locking
  BY Zenon, <1>1, <1>2 DEF InOp, LogTypeOK, Locking
<1>6. Unlogged' = Unlogged
  BY <1>2, <1>5 DEF Unlogged, InLog
<1>7. Reserved'
  <2>1. \A e \in Block : lock[e] \in Proc \union {NoProc}
    BY Zenon, <1>1 DEF LogTypeOK
  <2> QED BY Zenon, <1>1, <1>2, <1>5, <1>6, <2>1 DEF Reserved, InOp, InLog
<1>8. Phases'
  BY Zenon, <1>1, <1>2, <1>3 DEF Phases, Recovery
<1>9. Header' /\ Sound'
  BY <1>1, <1>2 DEF Header, Sound, Contents, InLog
<1>10. SleepJustified'
  BY Zenon, <1>1, <1>2 DEF SleepJustified, LogTypeOK, NoRoom
<1> QED BY Zenon, <1>4, <1>5, <1>7, <1>8, <1>9, <1>10 DEF LogInv

\* log_write uses up an entry that was reserved for the operation.
LEMMA log_writeKeeps ==
  ASSUME LogInv, NEW p \in Proc, log_write(p)
  PROVE  LogInv' /\ InOp' = InOp
<1> USE LogAssumption
<1>1. LogTypeOK /\ Reserved /\ Phases /\ Header /\ Sound /\ SleepJustified
  BY Zenon DEF LogInv
<1> DEFINE c == buf[p]
<1>2. /\ pc[p] = "checked" /\ lh' = (IF InLog(c) THEN lh ELSE Append(lh, c))
      /\ dirty' = dirty \union {c} /\ lock' = [lock EXCEPT ![c] = NoProc]
      /\ pc' = [pc EXCEPT ![p] = "op"]
      /\ overrun' = (overrun \/ Len(lh') >= nlog)
      /\ UNCHANGED <<disk, logdata, header, cache, buf, wrote, outstanding, committing, phase, tail>>
  BY Zenon DEF log_write, ondisk
<1>3. p \in InOp /\ phase = "none" /\ ~committing /\ outstanding \in Nat /\ outstanding >= 1
  BY Zenon, <1>2, OpPhase DEF InOp
<1>4. c \in Block /\ lh \in Seq(Block) /\ Len(lh) \in Nat /\ c \in wrote[p]
  BY <1>1, <1>2 DEF LogTypeOK, Reserved, Locking
<1> HIDE DEF c
<1>5. lh' \in Seq(Block) /\ Len(lh') = (IF InLog(c) THEN Len(lh) ELSE Len(lh) + 1)
  BY <1>2, <1>4
<1>6. /\ \A i \in 1 .. Len(lh) : lh'[i] = lh[i]
      /\ ~InLog(c) => lh'[Len(lh) + 1] = c
  BY <1>2, <1>4
<1>7. \A e : InLog(e)' <=> InLog(e) \/ e = c
  <2> SUFFICES ASSUME NEW e PROVE InLog(e)' <=> InLog(e) \/ e = c
    OBVIOUS
  <2>1. InLog(e) => InLog(e)'
    BY <1>4, <1>5, <1>6 DEF InLog
  <2>2. e = c /\ ~InLog(c) => InLog(e)'
    <3>1. ~InLog(c) => Len(lh) + 1 \in 1 .. Len(lh')
      BY <1>4, <1>5
    <3> QED BY Zenon, <1>6, <3>1 DEF InLog
  <2>3. InLog(e)' /\ e # c => InLog(e)
    <3>1. \A i \in 1 .. Len(lh') : i \in 1 .. Len(lh) \/ (~InLog(c) /\ i = Len(lh) + 1)
      BY <1>4, <1>5
    <3> QED BY Zenon, <1>6, <3>1 DEF InLog
  <2> HIDE DEF InLog
  <2> QED BY Zenon, <2>1, <2>2, <2>3
<1>8. LogTypeOK'
  BY Zenon, <1>1, <1>2, <1>4, <1>5 DEF LogTypeOK
<1>9. InOp' = InOp
  BY Zenon, <1>1, <1>2 DEF InOp, LogTypeOK
<1> DEFINE U(q) == {e \in wrote[q] : InLog(e)}
           V(q) == {e \in wrote'[q] : InLog(e)'}
<1>10. \A q \in Proc : /\ IsFiniteSet(U(q)) /\ IsFiniteSet(V(q))
                       /\ Cardinality(U(q)) \in Nat /\ Cardinality(V(q)) \in Nat
                       /\ Cardinality(U(q)) <= Cardinality(V(q))
                       /\ Cardinality(V(q)) <= MAXOPBLOCKS
  <2> SUFFICES ASSUME NEW q \in Proc
               PROVE  /\ IsFiniteSet(U(q)) /\ IsFiniteSet(V(q))
                      /\ Cardinality(U(q)) \in Nat /\ Cardinality(V(q)) \in Nat
                      /\ Cardinality(U(q)) <= Cardinality(V(q))
                      /\ Cardinality(V(q)) <= MAXOPBLOCKS
    OBVIOUS
  <2>1. IsFiniteSet(wrote[q]) /\ Cardinality(wrote[q]) <= MAXOPBLOCKS
    BY Zenon, <1>1 DEF Reserved
  <2>2. V(q) \in SUBSET wrote[q] /\ U(q) \in SUBSET V(q)
    BY Zenon, <1>2, <1>7
  <2> HIDE DEF U, V
  <2>3. IsFiniteSet(V(q)) /\ Cardinality(V(q)) <= Cardinality(wrote[q])
    BY Zenon, <2>1, <2>2, FS_Subset
  <2>4. IsFiniteSet(U(q)) /\ Cardinality(U(q)) <= Cardinality(V(q))
    BY Zenon, <2>2, <2>3, FS_Subset
  <2>5. Cardinality(U(q)) \in Nat /\ Cardinality(V(q)) \in Nat /\ Cardinality(wrote[q]) \in Nat
    BY Zenon, <2>1, <2>3, <2>4, FS_CardinalityType
  <2> QED BY <2>1, <2>3, <2>4, <2>5
<1>11. /\ Unlogged = {x \in InOp \X (1 .. MAXOPBLOCKS) : x[2] > Cardinality(U(x[1]))}
       /\ Unlogged' = {x \in InOp \X (1 .. MAXOPBLOCKS) : x[2] > Cardinality(V(x[1]))}
  BY Zenon, <1>9 DEF Unlogged
<1>12. ~InLog(c) => Cardinality(V(p)) = Cardinality(U(p)) + 1
  <2> SUFFICES ASSUME ~InLog(c) PROVE Cardinality(V(p)) = Cardinality(U(p)) + 1
    OBVIOUS
  <2>1. V(p) = U(p) \union {c} /\ c \notin U(p)
    BY Zenon, <1>2, <1>4, <1>7
  <2> HIDE DEF U, V
  <2> QED BY Zenon, <1>10, <2>1, FS_AddElement
<1>13. Unlogged' \in SUBSET Unlogged
  <2> HIDE DEF U, V
  <2> SUFFICES ASSUME NEW x \in Unlogged' PROVE x \in Unlogged
    OBVIOUS
  <2>1. x \in InOp \X (1 .. MAXOPBLOCKS) /\ x[2] > Cardinality(V(x[1])) /\ x[1] \in Proc /\ x[2] \in Nat
    BY <1>11 DEF InOp
  <2> QED BY <1>10, <1>11, <2>1
<1>14. ~InLog(c) => Unlogged' \in SUBSET (Unlogged \ {<<p, Cardinality(V(p))>>})
                    /\ <<p, Cardinality(V(p))>> \in Unlogged
  <2> HIDE DEF U, V
  <2> SUFFICES ASSUME ~InLog(c)
               PROVE  /\ <<p, Cardinality(V(p))>> \notin Unlogged'
                      /\ <<p, Cardinality(V(p))>> \in Unlogged
    BY Zenon, <1>13
  <2>1. Cardinality(V(p)) \in 1 .. MAXOPBLOCKS /\ Cardinality(V(p)) > Cardinality(U(p))
    BY <1>10, <1>12
  <2>2. <<p, Cardinality(V(p))>> \in Unlogged
    BY Zenon, <1>3, <1>11, <2>1
  <2>3. <<p, Cardinality(V(p))>> \notin Unlogged'
    BY <1>11, <2>1
  <2> QED BY Zenon, <2>2, <2>3
<1>15. Len(lh') + Cardinality(Unlogged') <= LOGSIZE
  <2> HIDE DEF U, V
  <2>1. IsFiniteSet(Unlogged) /\ Cardinality(Unlogged) \in Nat /\ Len(lh) + Cardinality(Unlogged) <= LOGSIZE
    BY Zenon, <1>1, UnloggedBound DEF Reserved
  <2>2. CASE InLog(c)
    <3>1. Cardinality(Unlogged') <= Cardinality(Unlogged) /\ Cardinality(Unlogged') \in Nat
      BY Zenon, <1>13, <2>1, FS_Subset, FS_CardinalityType
    <3> QED BY <1>4, <1>5, <2>1, <2>2, <3>1
  <2>3. CASE ~InLog(c)
    <3> DEFINE W == Unlogged \ {<<p, Cardinality(V(p))>>}
    <3>1. IsFiniteSet(W) /\ Cardinality(W) = Cardinality(Unlogged) - 1
      BY Zenon, <1>14, <2>1, <2>3, FS_RemoveElement
    <3>2. Unlogged' \in SUBSET W
      BY Zenon, <1>14, <2>3
    <3> HIDE DEF W
    <3>3. Cardinality(Unlogged') <= Cardinality(W) /\ Cardinality(Unlogged') \in Nat
      BY Zenon, <3>1, <3>2, FS_Subset, FS_CardinalityType
    <3> QED BY <1>4, <1>5, <2>1, <2>3, <3>1, <3>3
  <2> QED BY Zenon, <2>2, <2>3
<1>16. Reserved'
  <2>1. \A q \in Proc : q # p => pc'[q] = pc[q]
    BY Zenon, <1>1, <1>2 DEF LogTypeOK
  <2>2. \A e \in Block : lock'[e] = IF e = c THEN NoProc ELSE lock[e]
    BY Zenon, <1>1, <1>2, <1>4 DEF LogTypeOK
  <2>3. \A e \in Block : lock[e] \in Proc \union {NoProc}
    BY Zenon, <1>1 DEF LogTypeOK
  <2>4. \A q \in InOp' : \A e \in wrote'[q] : InLog(e)' \/ (e = buf'[q] /\ pc'[q] \in Locking)
    <3> HIDE DEF InLog
    <3> SUFFICES ASSUME NEW q \in InOp, NEW e \in wrote[q], ~InLog(e), e # c
                 PROVE  e = buf[q] /\ pc'[q] \in Locking
      BY Zenon, <1>2, <1>7, <1>9
    <3>1. e = buf[q] /\ pc[q] \in Locking /\ q \in Proc
      BY Zenon, <1>1 DEF Reserved, InOp
    <3> QED BY Zenon, <2>1, <3>1 DEF c
  <2>5. \A q \in Proc : pc'[q] \in Locking => buf'[q] \in wrote'[q]
    <3>1. pc'[p] = "op"
      BY Zenon, <1>1, <1>2 DEF LogTypeOK
    <3> QED BY Zenon, <1>1, <1>2, <2>1, <3>1 DEF Reserved, Locking
  <2>6. \A e \in Block : lock'[e] # NoProc => pc'[lock'[e]] \in Locking /\ buf'[lock'[e]] = e
    <3> SUFFICES ASSUME NEW e \in Block, lock'[e] # NoProc
                 PROVE  pc'[lock'[e]] \in Locking /\ buf'[lock'[e]] = e
      OBVIOUS
    <3>1. e # c /\ lock'[e] = lock[e] /\ lock[e] \in Proc
      BY Zenon, <2>2, <2>3
    <3>2. pc[lock[e]] \in Locking /\ buf[lock[e]] = e
      BY Zenon, <1>1, <3>1 DEF Reserved
    <3>3. lock[e] # p
      BY Zenon, <3>1, <3>2 DEF c
    <3> QED BY Zenon, <1>2, <2>1, <3>1, <3>2, <3>3
  <2>7. outstanding' = Cardinality(InOp') /\ wrote' = wrote
    BY Zenon, <1>1, <1>2, <1>9 DEF Reserved
  <2> QED BY Zenon, <1>1, <1>15, <2>4, <2>5, <2>6, <2>7 DEF Reserved
<1>17. Phases'
  BY <1>1, <1>2, <1>3 DEF Phases, Recovery
<1>18. Header'
  <2>1. \A i, j \in 1 .. Len(lh') : lh'[i] = lh'[j] => i = j
    <3>1. CASE InLog(c)
      BY Zenon, <1>1, <1>2, <3>1 DEF Header
    <3>2. CASE ~InLog(c)
      <4>1. \A i \in 1 .. Len(lh) : lh[i] # c
        BY Zenon, <3>2 DEF InLog
      <4>2. \A i \in 1 .. Len(lh') : i \in 1 .. Len(lh) \/ i = Len(lh) + 1
        BY <1>4, <1>5, <3>2
      <4>3. \A i, j \in 1 .. Len(lh) : lh[i] = lh[j] => i = j
        BY Zenon, <1>1 DEF Header
      <4> QED BY Zenon, <1>6, <3>2, <4>1, <4>2, <4>3
    <3> QED BY Zenon, <3>1, <3>2
  <2> QED BY <1>1, <1>2, <1>3, <2>1 DEF Header
<1>19. Sound'
  <2>0. SUFFICES ASSUME ~overrun, Contents, Len(header) < nlog, ~(Len(lh') >= nlog)
                 PROVE  Contents'
    <3>1. Len(lh') \in Nat /\ nlog \in Nat
      BY <1>4, <1>5, LogAssumption
    <3>2. ~(Len(lh') >= nlog) => Len(lh') < nlog
      BY <3>1
    <3> QED BY Zenon, <1>1, <1>2, <3>2 DEF Sound
  <2>1. \A e \in Block : e \in dirty' <=> InLog(e)'
    <3>1. \A e \in Block : e \in dirty <=> InLog(e)
      BY Zenon, <1>3, <2>0 DEF Contents
    <3> QED BY Zenon, <1>2, <1>7, <3>1
  <2>2. \A e \in Block : e \notin dirty' /\ lock'[e] = NoProc => cache'[e] = disk'[e]
    <3>1. \A e \in Block : e # c => lock'[e] = lock[e]
      BY Zenon, <1>1, <1>2, <1>4 DEF LogTypeOK
    <3> QED BY Zenon, <1>2, <2>0, <3>1 DEF Contents
  <2> QED BY Zenon, <1>2, <1>3, <2>1, <2>2 DEF Contents
<1>20. SleepJustified'
  <2> SUFFICES ASSUME NEW q \in Proc, pc'[q] = "asleep" PROVE NoRoom'
    BY <1>2, <1>3 DEF SleepJustified
  <2>1. pc[q] = "asleep"
    BY Zenon, <1>1, <1>2 DEF LogTypeOK
  <2>2. NoRoom
    BY Zenon, <1>1, <1>3, <2>1 DEF SleepJustified
  <2>3. (outstanding + 1) * MAXOPBLOCKS \in Nat
    BY <1>3
  <2> QED BY <1>2, <1>4, <1>5, <2>2, <2>3 DEF NoRoom
<1> QED BY Zenon, <1>8, <1>9, <1>16, <1>17, <1>18, <1>19, <1>20 DEF LogInv

\* An operation ends; the last one begins the commit.
LEMMA end_opKeeps ==
  ASSUME LogInv, NEW p \in Proc, end_op(p)
  PROVE  LogInv' /\ p \in InOp /\ InOp' = InOp \ {p} /\ phase = "none" /\ phase' \notin Recovery
<1> USE LogAssumption
<1>1. LogTypeOK /\ Reserved /\ Phases /\ Header /\ Sound /\ SleepJustified
  BY Zenon DEF LogInv
<1>2. /\ pc[p] = "op" /\ outstanding' = outstanding - 1
      /\ UNCHANGED <<disk, logdata, header, cache, dirty, lock, buf, wrote, lh, overrun>>
  BY Zenon DEF end_op, ondisk, buffers
<1>3. p \in InOp /\ phase = "none" /\ ~committing /\ outstanding \in Nat /\ outstanding >= 1
  BY Zenon, <1>2, OpPhase DEF InOp
<1>4. \/ /\ Last /\ committing' = TRUE /\ pc' = [pc EXCEPT ![p] = "commit"]
         /\ phase' = (IF lh # << >> THEN "write_log" ELSE "done") /\ tail' = 1
      \/ /\ ~Last /\ pc' = [q \in Proc |-> IF q = p THEN "user" ELSE EndWakes(q)]
         /\ UNCHANGED <<committing, phase, tail>>
  BY Zenon, <1>3 DEF end_op
<1>5. /\ pc'[p] \in {"commit", "user"}
      /\ \A q \in Proc : q # p => pc'[q] = pc[q] \/ (pc[q] = "asleep" /\ pc'[q] = "woken")
      /\ pc' \in [Proc -> {"user", "asleep", "woken", "op", "modified", "checked", "commit", "panic"}]
  BY Zenon, <1>1, <1>4 DEF LogTypeOK, EndWakes, Woken
<1>6. InOp' = InOp \ {p}
  BY Zenon, <1>1, <1>5 DEF InOp
<1>7. \A q \in Proc : pc'[q] \in Locking <=> pc[q] \in Locking
  BY Zenon, <1>1, <1>2, <1>5 DEF Locking
<1>8. IsFiniteSet(InOp) /\ Cardinality(InOp) \in Nat /\ outstanding = Cardinality(InOp)
  BY Zenon, <1>1, UnloggedBound DEF Reserved
<1>9. outstanding' = Cardinality(InOp') /\ outstanding' \in 0 .. Cardinality(Proc)
  <2>1. outstanding' = Cardinality(InOp')
    BY Zenon, <1>2, <1>3, <1>6, <1>8, FS_RemoveElement
  <2>2. outstanding \in 0 .. Cardinality(Proc)
    BY Zenon, <1>1 DEF LogTypeOK
  <2>3. Cardinality(Proc) \in Nat
    BY Zenon, <1>1, UnloggedBound
  <2> QED BY <1>2, <1>3, <2>1, <2>2, <2>3
<1>10. Len(lh) \in Nat /\ (lh # << >> => 1 <= Len(lh)) /\ 1 \in 1 .. LOGSIZE
  BY <1>1 DEF LogTypeOK
<1>11. LogTypeOK'
  <2>1. committing' \in BOOLEAN /\ tail' \in 1 .. LOGSIZE
        /\ phase' \in Recovery \union {"none", "write_log", "write_head", "install", "clear", "done"}
    BY Zenon, <1>1, <1>4, <1>10 DEF LogTypeOK
  <2> QED BY Zenon, <1>1, <1>2, <1>5, <1>9, <2>1 DEF LogTypeOK
<1>12. Len(lh') + Cardinality(Unlogged') <= LOGSIZE
  <2>1. Unlogged' \in SUBSET Unlogged
    BY Zenon, <1>2, <1>6 DEF Unlogged, InLog
  <2>2. IsFiniteSet(Unlogged) /\ Cardinality(Unlogged) \in Nat
    BY Zenon, <1>1, UnloggedBound
  <2>3. Cardinality(Unlogged') <= Cardinality(Unlogged) /\ Cardinality(Unlogged') \in Nat
    BY Zenon, <2>1, <2>2, FS_Subset, FS_CardinalityType
  <2> QED BY <1>1, <1>2, <1>10, <2>2, <2>3 DEF Reserved
<1>13. Reserved'
  <2>1. \A e \in Block : lock[e] \in Proc \union {NoProc}
    BY Zenon, <1>1 DEF LogTypeOK
  <2>2. \A q \in InOp' : \A e \in wrote'[q] : InLog(e)' \/ (e = buf'[q] /\ pc'[q] \in Locking)
    BY Zenon, <1>1, <1>2, <1>6, <1>7 DEF Reserved, InOp, InLog
  <2>3. \A q \in Proc : pc'[q] \in Locking => buf'[q] \in wrote'[q]
    BY Zenon, <1>1, <1>2, <1>7 DEF Reserved
  <2>4. \A e \in Block : lock'[e] # NoProc => pc'[lock'[e]] \in Locking /\ buf'[lock'[e]] = e
    BY Zenon, <1>1, <1>2, <1>7, <2>1 DEF Reserved
  <2> QED BY Zenon, <1>1, <1>2, <1>9, <1>12, <2>2, <2>3, <2>4 DEF Reserved
<1>14. phase' \in {"none", "write_log", "done"}
  BY Zenon, <1>3, <1>4
<1>15. Phases'
  <2>1. CASE Last
    BY <1>2, <1>4, <1>10, <2>1 DEF Phases, Committing, Recovery, Last
  <2>2. CASE ~Last
    <3>1. outstanding' # 0
      BY <1>2, <1>3, <2>2 DEF Last
    <3> QED BY <1>2, <1>3, <1>4, <2>2, <3>1 DEF Phases, Committing, Recovery
  <2> QED BY Zenon, <2>1, <2>2
<1>16. Header'
  BY <1>1, <1>2, <1>3, <1>14 DEF Header
<1>17. Sound'
  <2>0. SUFFICES ASSUME Contents PROVE Contents'
    BY <1>1, <1>2 DEF Sound
  <2>1. \A e \in Block : e \in dirty' <=> InLog(e)'
    BY Zenon, <1>2, <1>3, <2>0 DEF Contents, InLog
  <2>2. \A e \in Block : e \notin dirty' /\ lock'[e] = NoProc => cache'[e] = disk'[e]
    BY Zenon, <1>2, <2>0 DEF Contents
  <2>3. phase' = "write_log" => tail' = 1
    BY Zenon, <1>3, <1>4
  <2> QED BY <1>2, <1>14, <2>1, <2>2, <2>3 DEF Contents
<1>18. SleepJustified'
  <2>1. CASE Last
    BY Zenon, <1>4, <2>1 DEF SleepJustified
  <2>2. CASE ~Last
    <3>1. \A q \in Proc : pc'[q] # "asleep"
      BY Zenon, <1>4, <2>2 DEF EndWakes, Woken
    <3> QED BY Zenon, <3>1 DEF SleepJustified
  <2> QED BY Zenon, <2>1, <2>2
<1> QED BY Zenon, <1>3, <1>6, <1>11, <1>13, <1>14, <1>15, <1>16, <1>17, <1>18 DEF LogInv, Recovery

\* While nobody is between begin_op() and end_op(), no buffer is locked.
LEMMA Quiet ==
  ASSUME LogInv, phase # "none"
  PROVE  InOp = {} /\ outstanding = 0 /\ \A c \in Block : lock[c] = NoProc
<1>1. LogTypeOK /\ Reserved /\ Phases
  BY Zenon DEF LogInv
<1>2. InOp = {}
  BY Zenon, OpPhase
<1>3. outstanding = 0
  BY Zenon, <1>1, <1>2, FS_EmptySet DEF Reserved
<1>4. \A c \in Block : lock[c] \in Proc \union {NoProc}
  BY Zenon, <1>1 DEF LogTypeOK
<1> QED BY Zenon, <1>1, <1>2, <1>3, <1>4 DEF Reserved, InOp, Locking

\* A step that leaves the calls, their count and the header in memory alone
\* keeps what is said about them.
LEMMA CallsKept ==
  ASSUME LogInv, UNCHANGED <<pc, buf, wrote, lock, outstanding, lh>>
  PROVE  Reserved' /\ InOp' = InOp
<1>1. InOp' = InOp
  BY Zenon DEF InOp
<1>2. Unlogged' = Unlogged
  BY Zenon, <1>1 DEF Unlogged, InLog
<1> QED BY Zenon, <1>1, <1>2 DEF LogInv, Reserved, InLog

\* end_op after commit().
LEMMA EndCommitKeeps ==
  ASSUME LogInv, NEW p \in Proc, EndCommit(p)
  PROVE  LogInv' /\ InOp = {} /\ InOp' = {}
<1>1. LogTypeOK /\ Reserved /\ Phases /\ Header /\ Sound /\ SleepJustified
  BY Zenon DEF LogInv
<1>2. /\ pc[p] = "commit" /\ phase = "done" /\ ~committing' /\ phase' = "none"
      /\ pc' = [q \in Proc |-> IF q = p THEN "user" ELSE Woken(q)]
      /\ UNCHANGED <<disk, logdata, header, cache, dirty, lock, buf, wrote, lh, outstanding, tail, overrun>>
  BY Zenon DEF EndCommit, ondisk, buffers
<1>3. InOp = {} /\ outstanding = 0 /\ (\A c \in Block : lock[c] = NoProc) /\ lh = << >>
  BY Zenon, <1>1, <1>2, Quiet DEF Phases
<1>4. /\ pc' \in [Proc -> {"user", "asleep", "woken", "op", "modified", "checked", "commit", "panic"}]
      /\ \A q \in Proc : pc'[q] # "asleep"
      /\ \A q \in Proc : pc'[q] \in Locking \union {"op"} => q \in InOp
  BY Zenon, <1>1, <1>2 DEF LogTypeOK, Woken, Locking, InOp
<1>5. InOp' = {}
  BY Zenon, <1>3, <1>4 DEF InOp, Locking
<1>6. LogTypeOK'
  BY Zenon, <1>1, <1>2, <1>4 DEF LogTypeOK, EndCommit
<1>7. Unlogged' = {} /\ Cardinality(Unlogged') = 0 /\ Cardinality(InOp') = 0
  BY Zenon, <1>5, FS_EmptySet DEF Unlogged
<1>8. Reserved'
  <2>1. Len(lh') = 0
    BY Zenon, <1>2, <1>3
  <2> QED BY <1>1, <1>2, <1>3, <1>4, <1>5, <1>7, <2>1, LogAssumption DEF Reserved
<1>9. Phases'
  BY Zenon, <1>2, <1>3 DEF Phases, Committing, Recovery
<1>10. Header' /\ Sound'
  BY <1>1, <1>2 DEF Header, Sound, Contents, InLog
<1>11. SleepJustified'
  BY Zenon, <1>4 DEF SleepJustified
<1> QED BY Zenon, <1>3, <1>5, <1>6, <1>8, <1>9, <1>10, <1>11 DEF LogInv

\* commit() and recovery go on while nobody is in an operation; what they say of
\* the phases follows from the phase they come to.
LEMMA SleepKept ==
  ASSUME LogInv, UNCHANGED <<pc, outstanding, lh, committing>>
  PROVE  SleepJustified'
BY Zenon DEF LogInv, SleepJustified, NoRoom

\* write_log: one more block is in the log.
LEMMA write_logKeeps ==
  ASSUME LogInv, write_log
  PROVE  LogInv' /\ InOp' = InOp
<1> USE LogAssumption
<1>1. LogTypeOK /\ Reserved /\ Phases /\ Header /\ Sound /\ SleepJustified
  BY Zenon DEF LogInv
<1>2. /\ phase = "write_log" /\ CopyToLog
      /\ \/ tail < Len(lh) /\ tail' = tail + 1 /\ phase' = "write_log"
         \/ tail >= Len(lh) /\ tail' = 1 /\ phase' = "write_head"
      /\ UNCHANGED <<header, lock, pc, buf, wrote, lh, outstanding, committing, overrun>>
  BY <1>1 DEF write_log, CopyToLog, buffers, calls, LogTypeOK
<1>3. /\ Len(lh) \in Nat /\ tail \in Nat /\ 1 <= tail /\ tail <= Len(lh) /\ lh # << >>
      /\ \A i \in 1 .. Len(lh) : lh[i] \in Block
  BY <1>1, <1>2 DEF Phases, LogTypeOK
<1>4. Reserved' /\ InOp' = InOp /\ SleepJustified'
  BY Zenon, <1>2, CallsKept, SleepKept
<1>5. Len(lh) <= LOGSIZE
  BY <1>1, <1>3, UnloggedBound DEF Reserved
<1>6. LogTypeOK'
  <2>1. cache[lh[tail]] \in Data
    BY <1>1, <1>3 DEF LogTypeOK
  <2>2. tail' \in 1 .. LOGSIZE
    BY <1>2, <1>3, <1>5
  <2>3. /\ disk' \in [Block -> Data] /\ cache' \in [Block -> Data] /\ dirty' \subseteq Block
        /\ logdata' \in [1 .. nlog - 1 -> Data]
    <3>1. CASE tail < nlog
      BY Zenon, <1>1, <1>2, <2>1, <3>1 DEF CopyToLog, LogTypeOK, buffers
    <3>2. CASE ~(tail < nlog)
      BY Zenon, <1>1, <1>2, <2>1, <3>2 DEF CopyToLog, LogTypeOK
    <3> QED BY Zenon, <3>1, <3>2
  <2> QED BY Zenon, <1>1, <1>2, <2>2, <2>3 DEF LogTypeOK
<1>7. Phases'
  BY <1>1, <1>2, <1>3 DEF Phases, Committing, Recovery
<1>8. Header'
  BY <1>1, <1>2 DEF Header
<1>9. Sound'
  <2>0. SUFFICES ASSUME ~overrun, Contents, Len(lh) < nlog PROVE Contents'
    BY <1>1, <1>2 DEF Sound
  <2>7. /\ tail < nlog /\ logdata' = [logdata EXCEPT ![tail] = cache[lh[tail]]]
        /\ UNCHANGED <<disk, cache, dirty>>
    <3>1. tail < nlog
      BY <1>3, <2>0
    <3> QED BY Zenon, <1>2, <3>1 DEF CopyToLog, buffers
  <2>1. \A i \in 1 .. tail : logdata'[i] = cache[lh[i]]
    <3>1. \A i \in 1 .. tail : i \in 1 .. nlog - 1 /\ (i = tail \/ i \in 1 .. tail - 1)
      BY <1>3, <2>7
    <3>2. \A i \in 1 .. tail - 1 : logdata[i] = cache[lh[i]]
      BY Zenon, <1>2, <2>0 DEF Contents
    <3> QED BY Zenon, <1>1, <2>7, <3>1, <3>2 DEF LogTypeOK
  <2>2. phase' = "write_log" => tail' - 1 = tail
    BY <1>2, <1>3
  <2>3. phase' = "write_head" => Len(lh) = tail
    BY <1>2, <1>3
  <2>4. \A e \in Block : e \in dirty' <=> InLog(e)'
    BY Zenon, <1>2, <2>0, <2>7 DEF Contents, InLog
  <2>5. \A e \in Block : e \notin dirty' /\ lock'[e] = NoProc => cache'[e] = disk'[e]
    BY Zenon, <1>2, <2>0, <2>7 DEF Contents
  <2>6. phase' \in {"write_log", "write_head"}
    BY Zenon, <1>2
  <2> QED BY <1>2, <2>1, <2>2, <2>3, <2>4, <2>5, <2>6, <2>7 DEF Contents
<1> QED BY Zenon, <1>4, <1>6, <1>7, <1>8, <1>9 DEF LogInv

\* write_head: the header on disk names what is in the log.
LEMMA write_headKeeps ==
  ASSUME LogInv, write_head
  PROVE  LogInv' /\ InOp' = InOp
<1>1. LogTypeOK /\ Reserved /\ Phases /\ Header /\ Sound /\ SleepJustified
  BY Zenon DEF LogInv
<1>2. /\ phase = "write_head" /\ header' = lh /\ phase' = "install"
      /\ UNCHANGED <<disk, logdata, cache, dirty, lock, pc, buf, wrote, lh, outstanding, committing, tail, overrun>>
  BY Zenon DEF write_head, buffers, calls
<1>3. Reserved' /\ InOp' = InOp /\ SleepJustified'
  BY Zenon, <1>2, CallsKept, SleepKept
<1>4. LogTypeOK'
  BY Zenon, <1>1, <1>2 DEF LogTypeOK
<1>5. Phases'
  BY Zenon, <1>1, <1>2 DEF Phases, Committing, Recovery
<1>6. Header'
  <2>1. Len(lh) <= LOGSIZE
    BY <1>1, UnloggedBound, LogAssumption DEF Reserved, LogTypeOK
  <2> QED BY Zenon, <1>1, <1>2, <2>1 DEF Header
<1>7. Sound'
  <2>0. SUFFICES ASSUME Contents PROVE Contents'
    BY <1>1, <1>2 DEF Sound
  <2>1. tail = 1
    BY Zenon, <1>1, <1>2 DEF Phases
  <2>2. \A e \in Block : e \in dirty' <=> \E i \in tail' .. Len(lh') : lh'[i] = e
    BY Zenon, <1>2, <2>0, <2>1 DEF Contents, InLog
  <2> QED BY Zenon, <1>2, <2>0, <2>2 DEF Contents
<1> QED BY Zenon, <1>3, <1>4, <1>5, <1>6, <1>7 DEF LogInv

\* install_trans: one more block is at its home location.
LEMMA install_transKeeps ==
  ASSUME LogInv, install_trans
  PROVE  LogInv' /\ InOp' = InOp
<1> USE LogAssumption
<1>1. LogTypeOK /\ Reserved /\ Phases /\ Header /\ Sound /\ SleepJustified
  BY Zenon DEF LogInv
<1> DEFINE c == lh[tail]
<1>2. /\ phase = "install" \/ (phase = "recover" /\ lh # << >>)
      /\ disk' = [disk EXCEPT ![c] = LogBlock(tail)]
      /\ cache' = [cache EXCEPT ![c] = LogBlock(tail)]
      /\ dirty' = dirty \ {c}
      /\ \/ tail < Len(lh) /\ tail' = tail + 1 /\ phase' = phase
         \/ tail >= Len(lh) /\ tail' = 1 /\ phase' = IF phase = "install" THEN "clear" ELSE "reset"
      /\ UNCHANGED <<logdata, header, lock, pc, buf, wrote, lh, outstanding, committing, overrun>>
  BY <1>1 DEF install_trans, InstallsMore, calls, LogTypeOK
<1>3. /\ Len(lh) \in Nat /\ tail \in Nat /\ 1 <= tail /\ tail <= Len(lh) /\ lh # << >>
      /\ \A i \in 1 .. Len(lh) : lh[i] \in Block
  BY <1>1, <1>2 DEF Phases, LogTypeOK
<1>4. Reserved' /\ InOp' = InOp /\ SleepJustified'
  BY Zenon, <1>2, CallsKept, SleepKept
<1>5. Len(lh) <= LOGSIZE
  BY <1>1, <1>3, UnloggedBound DEF Reserved
<1>6. c \in Block /\ LogBlock(tail) \in Data /\ \A i \in 1 .. Len(lh) : lh[i] = c <=> i = tail
  <2>1. tail \in 1 .. Len(lh) /\ (tail < nlog => tail \in 1 .. nlog - 1)
    BY <1>3
  <2>2. LogBlock(tail) \in Data
    BY Zenon, <1>1, <2>1 DEF LogTypeOK, LogBlock
  <2> QED BY Zenon, <1>1, <1>3, <2>1, <2>2 DEF LogTypeOK, Header
<1> HIDE DEF c
<1>7. LogTypeOK'
  <2>1. tail' \in 1 .. LOGSIZE
    BY <1>2, <1>3, <1>5
  <2>2. phase' \in {"install", "recover", "clear", "reset"}
    BY Zenon, <1>2
  <2> QED BY Zenon, <1>1, <1>2, <1>6, <2>1, <2>2 DEF LogTypeOK, Recovery
<1>8. Phases'
  <2>1. CASE phase = "install"
    BY <1>1, <1>2, <1>3, <2>1 DEF Phases, Committing, Recovery
  <2>2. CASE phase = "recover"
    BY <1>1, <1>2, <1>3, <2>2 DEF Phases, Committing, Recovery
  <2> QED BY Zenon, <1>2, <2>1, <2>2
<1>9. Header'
  BY Zenon, <1>1, <1>2 DEF Header
<1>14. SUFFICES ASSUME ~overrun, Contents, Len(lh) < nlog PROVE Contents'
  <2>1. SUFFICES Sound'
    BY Zenon, <1>4, <1>7, <1>8, <1>9 DEF LogInv
  <2> QED BY <1>1, <1>2 DEF Sound
<1>15. LogBlock(tail) = logdata[tail]
  BY <1>3, <1>14 DEF LogBlock
<1>10. \A e \in Block : /\ disk'[e] = IF e = c THEN logdata[tail] ELSE disk[e]
                        /\ cache'[e] = IF e = c THEN logdata[tail] ELSE cache[e]
  BY Zenon, <1>1, <1>2, <1>6, <1>15 DEF LogTypeOK
<1>11. \A e \in Block : e \notin dirty' /\ lock'[e] = NoProc => cache'[e] = disk'[e]
  BY <1>2, <1>10, <1>14 DEF Contents
<1>12. CASE phase = "install"
  <2>1. phase' = "install" \/ phase' = "clear"
    BY Zenon, <1>2, <1>12
  <2>2. \A i \in 1 .. Len(lh) : logdata'[i] = cache'[lh[i]]
    BY Zenon, <1>2, <1>3, <1>6, <1>10, <1>12, <1>14 DEF Contents
  <2>3. \A e \in Block : e \in dirty <=> \E i \in tail .. Len(lh) : lh[i] = e
    BY Zenon, <1>12, <1>14 DEF Contents
  <2>4. \A e \in Block : e \in dirty' <=> \E i \in tail + 1 .. Len(lh) : lh[i] = e
    <3> SUFFICES ASSUME NEW e \in Block
                 PROVE  e \in dirty' <=> \E i \in tail + 1 .. Len(lh) : lh[i] = e
      OBVIOUS
    <3>1. \A i \in tail .. Len(lh) : i \in 1 .. Len(lh) /\ (i = tail \/ i \in tail + 1 .. Len(lh))
      BY <1>3
    <3>2. \A i \in tail + 1 .. Len(lh) : i \in tail .. Len(lh) /\ i \in 1 .. Len(lh) /\ i # tail
      BY <1>3
    <3> QED BY Zenon, <1>2, <1>6, <2>3, <3>1, <3>2
  <2>5. phase' = "clear" => tail + 1 .. Len(lh) = {}
    BY <1>2, <1>3, <1>12
  <2>6. phase' = "install" => tail' = tail + 1
    BY Zenon, <1>2, <1>12
  <2>7. \A e \in Block : e \in dirty' <=> (phase' = "install" /\ \E i \in tail' .. Len(lh') : lh'[i] = e)
    BY Zenon, <1>2, <2>1, <2>4, <2>5, <2>6
  <2> QED BY Zenon, <1>2, <1>11, <2>1, <2>2, <2>7 DEF Contents
<1>13. CASE phase = "recover"
  <2>1. phase' = "recover" \/ phase' = "reset"
    BY Zenon, <1>2, <1>13
  <2>2. \A i \in 1 .. tail : disk'[lh[i]] = logdata'[i]
    <3>1. \A i \in 1 .. tail : i \in 1 .. Len(lh) /\ (i = tail \/ i \in 1 .. tail - 1)
      BY <1>3
    <3>2. \A i \in 1 .. tail - 1 : disk[lh[i]] = logdata[i]
      BY Zenon, <1>13, <1>14 DEF Contents
    <3> QED BY Zenon, <1>2, <1>3, <1>6, <1>10, <3>1, <3>2
  <2>3. phase' = "recover" => tail' - 1 = tail
    BY <1>2, <1>3, <1>13
  <2>4. phase' = "reset" => tail = Len(lh)
    BY <1>2, <1>3, <1>13
  <2>5. \A e \in Block : e \notin dirty'
    BY Zenon, <1>2, <1>13, <1>14 DEF Contents
  <2> QED BY Zenon, <1>2, <1>11, <2>1, <2>2, <2>3, <2>4, <2>5 DEF Contents
<1> QED BY Zenon, <1>2, <1>12, <1>13

\* recover_from_log with an empty log.
LEMMA RecoverNothingKeeps ==
  ASSUME LogInv, RecoverNothing
  PROVE  LogInv' /\ InOp' = InOp
<1>1. LogTypeOK /\ Reserved /\ Phases /\ Header /\ Sound /\ SleepJustified
  BY Zenon DEF LogInv
<1>2. /\ phase = "recover" /\ lh = << >> /\ phase' = "reset"
      /\ UNCHANGED <<disk, logdata, header, cache, dirty, lock, pc, buf, wrote, lh, outstanding, committing, tail, overrun>>
  BY Zenon DEF RecoverNothing, ondisk, buffers, calls
<1>3. Reserved' /\ InOp' = InOp /\ SleepJustified'
  BY Zenon, <1>2, CallsKept, SleepKept
<1>4. LogTypeOK' /\ Header'
  BY <1>1, <1>2 DEF LogTypeOK, Header, Recovery
<1>5. Phases'
  BY Zenon, <1>1, <1>2 DEF Phases, Committing, Recovery
<1>6. Sound'
  <2>0. SUFFICES ASSUME Contents PROVE Contents'
    BY <1>1, <1>2 DEF Sound
  <2>1. 1 .. Len(lh) = {}
    BY <1>2
  <2>2. \A e \in Block : e \notin dirty'
    BY Zenon, <1>2, <2>0 DEF Contents
  <2> QED BY Zenon, <1>2, <2>0, <2>1, <2>2 DEF Contents
<1> QED BY Zenon, <1>3, <1>4, <1>5, <1>6 DEF LogInv

\* An empty header needs no entries.
LEMMA EmptyHeader ==
  ASSUME LogInv, phase # "none", lh' = << >>, UNCHANGED <<pc, buf, wrote, lock, outstanding>>
  PROVE  Reserved' /\ InOp' = InOp
<1>1. InOp = {} /\ InOp' = InOp
  BY Zenon, Quiet DEF InOp
<1>2. Unlogged' = {} /\ Cardinality(Unlogged') = 0
  BY Zenon, <1>1, FS_EmptySet DEF Unlogged
<1>3. Len(lh') = 0
  OBVIOUS
<1> QED BY <1>1, <1>2, <1>3, LogAssumption DEF LogInv, Reserved

\* The transaction is erased from the log.
LEMMA ClearHeadKeeps ==
  ASSUME LogInv, ClearHead
  PROVE  LogInv' /\ InOp' = InOp
<1>1. LogTypeOK /\ Reserved /\ Phases /\ Header /\ Sound /\ SleepJustified
  BY Zenon DEF LogInv
<1>2. /\ phase \in {"clear", "reset"} /\ lh' = << >> /\ header' = << >>
      /\ phase' = (IF phase = "clear" THEN "done" ELSE "none")
      /\ UNCHANGED <<disk, logdata, cache, dirty, lock, pc, buf, wrote, outstanding, committing, tail, overrun>>
  BY Zenon DEF ClearHead, buffers, calls
<1>3. Reserved' /\ InOp' = InOp
  BY Zenon, <1>2, EmptyHeader
<1>4. Len(lh') = 0 /\ Len(header') = 0 /\ 1 .. Len(lh') = {} /\ << >> \in Seq(Block)
  BY <1>2
<1>5. LogTypeOK'
  BY Zenon, <1>1, <1>2, <1>4 DEF LogTypeOK
<1>6. Phases'
  BY Zenon, <1>1, <1>2, <1>4 DEF Phases, Committing, Recovery
<1>7. Header'
  BY <1>2, <1>4, LogAssumption DEF Header
<1>8. Sound'
  <2>0. SUFFICES ASSUME Contents PROVE Contents'
    BY <1>1, <1>2, <1>4, LogAssumption DEF Sound
  <2>1. \A e \in Block : e \notin dirty' /\ ~InLog(e)'
    BY Zenon, <1>2, <1>4, <2>0 DEF Contents, InLog
  <2> QED BY Zenon, <1>2, <1>4, <2>0, <2>1 DEF Contents
<1>9. SleepJustified'
  <2>1. CASE phase = "clear"
    BY Zenon, <1>1, <1>2, <2>1 DEF Phases, Committing, SleepJustified
  <2>2. CASE phase = "reset"
    BY Zenon, <1>1, <1>2, <2>2 DEF Phases, Recovery, SleepJustified
  <2> QED BY Zenon, <1>2, <2>1, <2>2
<1> QED BY Zenon, <1>3, <1>5, <1>6, <1>7, <1>8, <1>9 DEF LogInv

\* The header is read in again.
LEMMA read_headKeeps ==
  ASSUME LogInv, read_head
  PROVE  LogInv' /\ InOp' = InOp
<1>1. LogTypeOK /\ Reserved /\ Phases /\ Header /\ Sound /\ SleepJustified
  BY Zenon DEF LogInv
<1>2. /\ phase = "read_head" /\ lh' = header /\ phase' = "recover"
      /\ UNCHANGED <<disk, logdata, header, cache, dirty, lock, pc, buf, wrote, outstanding, committing, tail, overrun>>
  BY Zenon DEF read_head, ondisk, buffers, calls
<1>3. InOp = {} /\ InOp' = InOp
  BY Zenon, <1>2, Quiet DEF InOp
<1>4. Unlogged' = {} /\ Cardinality(Unlogged') = 0
  BY Zenon, <1>3, FS_EmptySet DEF Unlogged
<1>5. Len(header) \in Nat /\ Len(header) <= LOGSIZE
  BY <1>1 DEF LogTypeOK, Header
<1>6. Reserved'
  <2>1. Len(lh') + Cardinality(Unlogged') <= LOGSIZE
    BY <1>2, <1>4, <1>5, LogAssumption
  <2> QED BY Zenon, <1>1, <1>2, <1>3, <2>1 DEF Reserved
<1>7. LogTypeOK'
  BY Zenon, <1>1, <1>2 DEF LogTypeOK, Recovery
<1>8. Phases'
  BY Zenon, <1>1, <1>2 DEF Phases, Committing, Recovery
<1>9. Header'
  BY <1>1, <1>2 DEF Header
<1>10. Sound'
  <2>0. SUFFICES ASSUME Contents PROVE Contents'
    BY <1>1, <1>2 DEF Sound
  <2>1. tail' = 1
    BY Zenon, <1>1, <1>2 DEF Phases
  <2>2. \A e \in Block : e \notin dirty'
    BY Zenon, <1>2, <2>0 DEF Contents
  <2> QED BY <1>2, <2>0, <2>1, <2>2 DEF Contents
<1>11. SleepJustified'
  BY Zenon, <1>1, <1>2 DEF Phases, Recovery, SleepJustified
<1> QED BY Zenon, <1>3, <1>6, <1>7, <1>8, <1>9, <1>10, <1>11 DEF LogInv

\* A buffer that is neither pinned nor locked has what is on disk.
LEMMA RecycleKeeps ==
  ASSUME LogInv, NEW c \in Block, Recycle(c)
  PROVE  LogInv' /\ InOp' = InOp /\ (~overrun => cache' = cache)
<1>1. LogTypeOK /\ Reserved /\ Phases /\ Header /\ Sound /\ SleepJustified
  BY Zenon DEF LogInv
<1>2. /\ c \notin dirty /\ lock[c] = NoProc /\ cache' = [cache EXCEPT ![c] = disk[c]]
      /\ UNCHANGED <<disk, logdata, header, dirty, lock, pc, buf, wrote, lh, outstanding, committing, phase, tail, overrun>>
  BY Zenon DEF Recycle, ondisk, calls
<1>3. ~overrun => cache' = cache
  BY <1>1, <1>2 DEF Sound, Contents, LogTypeOK
<1>4. Reserved' /\ InOp' = InOp /\ SleepJustified'
  BY Zenon, <1>2, CallsKept, SleepKept
<1>5. LogTypeOK' /\ Phases' /\ Header'
  BY <1>1, <1>2 DEF LogTypeOK, Phases, Header
<1>6. Sound'
  BY <1>1, <1>2, <1>3 DEF Sound, Contents, InLog
<1> QED BY Zenon, <1>3, <1>4, <1>5, <1>6 DEF LogInv

\* The machine starts again from the disk.
LEMMA CrashKeeps ==
  ASSUME LogInv, Crash
  PROVE  LogInv' /\ InOp' = {}
<1> USE LogAssumption
<1>1. LogTypeOK /\ Header /\ Sound
  BY Zenon DEF LogInv
<1>2. /\ lh' = << >> /\ outstanding' = 0 /\ committing' = FALSE /\ cache' = disk /\ dirty' = {}
      /\ lock' = [c \in Block |-> NoProc] /\ pc' = [p \in Proc |-> "user"]
      /\ wrote' = [p \in Proc |-> {}] /\ phase' = "read_head" /\ tail' = 1
      /\ UNCHANGED <<disk, logdata, header, buf, overrun>>
  BY Zenon DEF Crash, ondisk
<1>3. InOp' = {} /\ Len(lh') = 0 /\ << >> \in Seq(Block)
  BY <1>2 DEF InOp
<1>4. Unlogged' = {} /\ Cardinality(Unlogged') = 0 /\ Cardinality(InOp') = 0
  BY Zenon, <1>3, FS_EmptySet DEF Unlogged
<1>5. LogTypeOK'
  <2>1. 0 \in 0 .. Cardinality(Proc) /\ 1 \in 1 .. LOGSIZE
    BY <1>1, UnloggedBound
  <2>2. /\ lock' \in [Block -> Proc \union {NoProc}] /\ wrote' \in [Proc -> SUBSET Block]
        /\ pc' \in [Proc -> {"user", "asleep", "woken", "op", "modified", "checked", "commit", "panic"}]
    BY Zenon, <1>2
  <2>3. /\ disk' \in [Block -> Data] /\ cache' \in [Block -> Data] /\ logdata' \in [1 .. nlog - 1 -> Data]
        /\ header' \in Seq(Block) /\ buf' \in [Proc -> Block] /\ overrun' \in BOOLEAN
    BY Zenon, <1>1, <1>2 DEF LogTypeOK
  <2> QED BY <1>2, <1>3, <2>1, <2>2, <2>3, Zenon DEF LogTypeOK, Recovery
<1>6. Reserved'
  BY <1>2, <1>3, <1>4, FS_EmptySet DEF Reserved, Locking
<1>7. Phases'
  BY Zenon, <1>2 DEF Phases, Committing, Recovery
<1>8. Header'
  BY <1>1, <1>2, <1>3 DEF Header
<1>9. Sound'
  <2>1. Contents'
    BY Zenon, <1>2 DEF Contents
  <2> QED BY <1>1, <1>2, <1>3, <2>1 DEF Sound
<1>10. SleepJustified'
  BY Zenon, <1>2 DEF SleepJustified
<1> QED BY Zenon, <1>3, <1>5, <1>6, <1>7, <1>8, <1>9, <1>10 DEF LogInv

\* Every step keeps the invariant.
LEMMA LogInvStep == LogInv /\ [Next]_vars => LogInv'
<1> SUFFICES ASSUME LogInv, [Next]_vars PROVE LogInv'
  OBVIOUS
<1>1. ASSUME NEW p \in Proc, Call(p) PROVE LogInv'
  BY Zenon, <1>1, begin_opKeeps, ModifyKeeps, log_write_checkKeeps, log_writeKeeps, end_opKeeps,
     EndCommitKeeps DEF Call
<1>2. ASSUME WriteDisk PROVE LogInv'
  BY Zenon, <1>2, write_logKeeps, write_headKeeps, install_transKeeps, ClearHeadKeeps DEF WriteDisk
<1>3. ASSUME NEW c \in Block, Recycle(c) PROVE LogInv'
  BY Zenon, <1>3, RecycleKeeps
<1>4. CASE UNCHANGED vars
  <2>1. Reserved' /\ SleepJustified'
    BY Zenon, <1>4, CallsKept, SleepKept DEF vars, calls, buffers
  <2> QED BY <1>4, <2>1 DEF LogInv, LogTypeOK, Phases, Header, Sound, Contents, InLog,
                            vars, ondisk, calls, buffers
<1> QED BY Zenon, <1>1, <1>2, <1>3, <1>4, RecoverNothingKeeps, read_headKeeps, CrashKeeps DEF Next

\* The invariant holds throughout.
LEMMA LogInvariant == Spec => []LogInv
BY LogInvInit, LogInvStep, PTL DEF Spec

\* Only the test in log_write() panics: an operation is in progress when it is
\* made, and the header does not shrink before it ends.
LEMMA PanicsStep == LogInv /\ Panics /\ [Next]_vars => Panics'
<1> SUFFICES ASSUME LogInv, Panics, [Next]_vars, NEW q \in Proc, pc'[q] = "panic"
             PROVE  Len(lh') >= LOGSIZE \/ Len(lh') >= nlog - 1
  BY Zenon DEF Panics
<1>1. LogTypeOK /\ Len(lh) \in Nat /\ LOGSIZE \in Nat /\ nlog \in Nat
  BY LogAssumption DEF LogInv, LogTypeOK
<1>2. ASSUME pc[q] = "panic", lh' = lh PROVE Len(lh') >= LOGSIZE \/ Len(lh') >= nlog - 1
  BY Zenon, <1>2 DEF Panics
<1>3. ASSUME NEW p \in Proc, Call(p) PROVE Len(lh') >= LOGSIZE \/ Len(lh') >= nlog - 1
  <2>1. CASE begin_op(p)
    BY Zenon, <1>1, <1>2, <2>1 DEF begin_op, LogTypeOK
  <2>2. ASSUME NEW c \in Block, NEW d \in Data, Modify(p, c, d)
        PROVE  Len(lh') >= LOGSIZE \/ Len(lh') >= nlog - 1
    BY Zenon, <1>1, <1>2, <2>2 DEF Modify, LogTypeOK
  <2>3. CASE log_write_check(p)
    <3>1. p \in InOp
      BY Zenon, <2>3 DEF log_write_check, InOp
    <3>2. ~(outstanding < 1)
      <4>1. outstanding \in Nat /\ outstanding >= 1
        BY Zenon, <3>1, OpPhase
      <4> QED BY <4>1
    <3> QED BY Zenon, <1>1, <1>2, <2>3, <3>2 DEF log_write_check, LogTypeOK
  <2>4. CASE log_write(p)
    <3>1. pc[q] = "panic"
      BY Zenon, <1>1, <2>4 DEF log_write, LogTypeOK
    <3>2. lh \in Seq(Block) /\ buf[p] \in Block
      BY Zenon, <1>1 DEF LogTypeOK
    <3>3. lh' = (IF InLog(buf[p]) THEN lh ELSE Append(lh, buf[p]))
      BY Zenon, <2>4 DEF log_write
    <3>4. Len(lh') = Len(lh) \/ Len(lh') = Len(lh) + 1
      <4> HIDE DEF InLog
      <4> QED BY <3>2, <3>3
    <3>5. Len(lh) >= LOGSIZE \/ Len(lh) >= nlog - 1
      BY Zenon, <3>1 DEF Panics
    <3> QED BY <1>1, <3>4, <3>5
  <2>5. CASE end_op(p)
    <3>1. ~committing
      BY Zenon, <2>5, OpPhase DEF end_op, InOp
    <3> QED BY Zenon, <1>1, <1>2, <2>5, <3>1 DEF end_op, LogTypeOK, EndWakes, Woken
  <2>6. CASE EndCommit(p)
    BY Zenon, <1>1, <1>2, <2>6 DEF EndCommit, LogTypeOK, Woken
  <2> QED BY Zenon, <1>3, <2>1, <2>2, <2>3, <2>4, <2>5, <2>6 DEF Call
<1>4. ASSUME phase # "none", pc' = pc PROVE FALSE
  BY Zenon, <1>4, Quiet DEF InOp
<1>5. CASE WriteDisk
  BY Zenon, <1>4, <1>5 DEF WriteDisk, write_log, write_head, install_trans, ClearHead, calls
<1>6. CASE RecoverNothing \/ read_head
  BY Zenon, <1>4, <1>6 DEF RecoverNothing, read_head, calls
<1>7. ASSUME NEW c \in Block, Recycle(c) PROVE Len(lh') >= LOGSIZE \/ Len(lh') >= nlog - 1
  BY Zenon, <1>2, <1>7 DEF Recycle, calls
<1>8. CASE Crash
  BY Zenon, <1>8 DEF Crash
<1>9. CASE UNCHANGED vars
  BY Zenon, <1>2, <1>9 DEF vars, calls
<1> QED BY Zenon, <1>3, <1>5, <1>6, <1>7, <1>8, <1>9 DEF Next

\* The header never overflows, log_write() panics only with the log full, and
\* nobody is in an operation during a commit.
THEOREM WithinReserveAlways == Spec => []WithinReserve
<1>1. Init => Panics
  BY Zenon DEF Init, Panics
<1> QED BY <1>1, LogInvariant, LogInvReserve, PanicsStep, PTL DEF Spec

\* A process that sleeps in begin_op() will be woken: there is a commit or an
\* operation that ends with wakeup(&log), or it has panicked.
THEOREM SleepJustifiedAlways == Spec => []SleepJustified
<1>1. LogInv => SleepJustified
  BY Zenon DEF LogInv
<1> QED BY <1>1, LogInvariant, PTL

-----------------------------------------------------------------------------
(* The log implements AtomicDisk.                                          *)

\* What recovery makes of header h, log l and disk d.
RecoveredOf(h, l, d) ==
  [c \in Block |-> IF \E i \in 1 .. Len(h) : h[i] = c
                   THEN l[CHOOSE i \in 1 .. Len(h) : h[i] = c] ELSE d[c]]

\* The entries of a header are different, so each block has one place in the log.
LEMMA RecoveredAt ==
  ASSUME NEW h, NEW l, NEW d, \A i, j \in 1 .. Len(h) : h[i] = h[j] => i = j, NEW c \in Block
  PROVE  /\ \A i \in 1 .. Len(h) : h[i] = c => RecoveredOf(h, l, d)[c] = l[i]
         /\ (\A i \in 1 .. Len(h) : h[i] # c) => RecoveredOf(h, l, d)[c] = d[c]
<1>1. ASSUME NEW i \in 1 .. Len(h), h[i] = c PROVE RecoveredOf(h, l, d)[c] = l[i]
  <2>1. (CHOOSE j \in 1 .. Len(h) : h[j] = c) = i
    BY Zenon, <1>1
  <2> QED BY Zenon, <1>1, <2>1 DEF RecoveredOf
<1>2. ASSUME \A i \in 1 .. Len(h) : h[i] # c PROVE RecoveredOf(h, l, d)[c] = d[c]
  BY Zenon, <1>2 DEF RecoveredOf
<1> QED BY Zenon, <1>1, <1>2

\* The current contents, as AtomicDisk sees them.
Cur == IF phase \in Recovery THEN Recovered ELSE cache

\* Without a header the disk is what recovery makes of it.
LEMMA RecoveredHome ==
  ASSUME NEW h, NEW l, NEW d \in [Block -> Data], h = << >>
  PROVE  RecoveredOf(h, l, d) = d
BY DEF RecoveredOf

\* From the real commit until the header is cleared, recovery makes of the disk
\* what is in the cache.
LEMMA RecoveredCache == LogInv /\ ~overrun /\ phase \in {"install", "clear"} => Recovered = cache
<1> SUFFICES ASSUME LogInv, ~overrun, phase \in {"install", "clear"} PROVE Recovered = cache
  OBVIOUS
<1>1. LogTypeOK /\ Header /\ Contents
  BY Zenon DEF LogInv, Sound
<1>2. Recovered = RecoveredOf(header, logdata, disk)
  BY Zenon DEF Recovered, RecoveredOf
<1>3. header = lh /\ \A c \in Block : lock[c] = NoProc
  BY Zenon, <1>1, Quiet DEF Header
<1>4. \A i, j \in 1 .. Len(header) : header[i] = header[j] => i = j
  BY Zenon, <1>1 DEF Header
<1>5. ASSUME NEW c \in Block PROVE Recovered[c] = cache[c]
  <2>1. CASE \E i \in 1 .. Len(header) : header[i] = c
    <3>1. PICK i \in 1 .. Len(header) : header[i] = c
      BY Zenon, <2>1
    <3>2. Recovered[c] = logdata[i]
      <4>1. \A k \in 1 .. Len(header) :
              header[k] = c => RecoveredOf(header, logdata, disk)[c] = logdata[k]
        BY ONLY <1>4, c \in Block, RecoveredAt
      <4> QED BY Zenon, <1>2, <3>1, <4>1
    <3>3. logdata[i] = cache[c]
      BY Zenon, <1>1, <1>3, <3>1 DEF Contents
    <3> QED BY Zenon, <3>2, <3>3
  <2>2. CASE \A i \in 1 .. Len(header) : header[i] # c
    <3>1. Recovered[c] = disk[c]
      BY <1>2, <1>4, <2>2, RecoveredAt
    <3>2. \A i \in tail .. Len(lh) : i \in 1 .. Len(header)
      BY <1>1, <1>3 DEF LogTypeOK
    <3>3. c \notin dirty
      BY Zenon, <1>1, <1>3, <2>2, <3>2 DEF Contents
    <3> QED BY Zenon, <1>1, <1>3, <3>1, <3>3 DEF Contents
  <2> QED BY Zenon, <2>1, <2>2
<1>6. cache \in [Block -> Data]
  BY Zenon, <1>1 DEF LogTypeOK
<1> QED BY Zenon, <1>5, <1>6 DEF Recovered

\* Outside of that the header is empty and the disk is recovered, unless recovery
\* is going on.
LEMMA RecoveredDisk ==
  LogInv /\ phase \in {"none", "write_log", "write_head", "done"} => Recovered = disk
<1> SUFFICES ASSUME LogInv, phase \in {"none", "write_log", "write_head", "done"}
             PROVE  Recovered = disk
  OBVIOUS
<1>1. header = << >> /\ disk \in [Block -> Data]
  BY Zenon DEF LogInv, Header, LogTypeOK
<1>2. Recovered = RecoveredOf(header, logdata, disk)
  BY Zenon DEF Recovered, RecoveredOf
<1> QED BY Zenon, <1>1, <1>2, RecoveredHome

\* When recovery is done with its blocks, disk and cache have what it promised.
LEMMA RecoveredReset == LogInv /\ ~overrun /\ phase \in {"clear", "reset"} => Recovered = disk /\ cache = disk
<1> SUFFICES ASSUME LogInv, ~overrun, phase \in {"clear", "reset"} PROVE Recovered = disk /\ cache = disk
  OBVIOUS
<1>1. LogTypeOK /\ Header /\ Contents
  BY Zenon DEF LogInv, Sound
<1>2. header = lh /\ \A c \in Block : lock[c] = NoProc
  BY Zenon, <1>1, Quiet DEF Header
<1>3. \A c \in Block : cache[c] = disk[c]
  BY Zenon, <1>1, <1>2 DEF Contents
<1>4. cache = disk
  BY <1>1, <1>3 DEF LogTypeOK
<1>5. CASE phase = "clear"
  BY Zenon, <1>4, <1>5, RecoveredCache
<1>6. CASE phase = "reset"
  <2>1. Recovered = RecoveredOf(header, logdata, disk)
    BY Zenon DEF Recovered, RecoveredOf
  <2>2. \A i, j \in 1 .. Len(header) : header[i] = header[j] => i = j
    BY Zenon, <1>1 DEF Header
  <2>3. ASSUME NEW c \in Block PROVE Recovered[c] = disk[c]
    <3>1. \A i \in 1 .. Len(header) : disk[header[i]] = logdata[i]
      BY Zenon, <1>1, <1>2, <1>6 DEF Contents
    <3> QED BY <2>1, <2>2, <3>1, RecoveredAt
  <2>4. disk \in [Block -> Data]
    BY Zenon, <1>1 DEF LogTypeOK
  <2> QED BY Zenon, <1>4, <2>3, <2>4 DEF Recovered
<1> QED BY Zenon, <1>4, <1>5, <1>6

\* A step that AtomicDisk does not see.
LEMMA Stutters ==
  ASSUME Cur' = Cur, Recovered' = Recovered, InOp' = InOp
  PROVE  [Abstract!Next]_(Abstract!vars)
BY Zenon DEF Abstract!vars, Cur

\* The disk is left alone, and so is what recovery makes of it.
LEMMA RecoveredKept == ASSUME UNCHANGED <<disk, logdata, header>> PROVE Recovered' = Recovered
BY Zenon DEF Recovered

\* The calls: begin_op and end_op are Begin and End, a change in the cache is a
\* Write, and the rest is not seen.
LEMMA CallMaps ==
  ASSUME LogInv, NEW p \in Proc, Call(p)
  PROVE  [Abstract!Next]_(Abstract!vars)
<1>1. CASE begin_op(p)
  <2>1. UNCHANGED <<disk, logdata, header, cache, phase>>
    BY Zenon, <1>1 DEF begin_op, ondisk, buffers
  <2>2. Recovered' = Recovered /\ Cur' = Cur
    BY Zenon, <2>1, RecoveredKept DEF Cur
  <2>3. p \notin InOp /\ (InOp' = InOp \/ InOp' = InOp \union {p})
    BY Zenon, <1>1, begin_opKeeps
  <2>4. CASE InOp' = InOp
    BY Zenon, <2>2, <2>4, Stutters
  <2>5. CASE InOp' = InOp \union {p}
    <3>1. Abstract!Begin(p)
      BY Zenon, <2>2, <2>3, <2>5 DEF Abstract!Begin, Cur
    <3> QED BY Zenon, <3>1 DEF Abstract!Next
  <2> QED BY Zenon, <2>3, <2>4, <2>5
<1>2. ASSUME NEW c \in Block, NEW d \in Data, Modify(p, c, d) PROVE [Abstract!Next]_(Abstract!vars)
  <2>1. UNCHANGED <<disk, logdata, header, phase>> /\ cache' = [cache EXCEPT ![c] = d]
    BY Zenon, <1>2 DEF Modify, ondisk
  <2>2. p \in InOp /\ InOp' = InOp /\ phase = "none"
    BY Zenon, <1>2, ModifyKeeps
  <2>3. Recovered' = Recovered
    BY Zenon, <2>1, RecoveredKept
  <2>4. Cur = cache /\ Cur' = cache'
    BY Zenon, <2>1, <2>2 DEF Cur, Recovery
  <2>5. Abstract!Write(p, c, d)
    BY Zenon, <2>1, <2>2, <2>3, <2>4 DEF Abstract!Write, Cur
  <2> QED BY Zenon, <2>5 DEF Abstract!Next
<1>3. CASE log_write_check(p)
  <2>1. UNCHANGED <<disk, logdata, header, cache, phase>>
    BY Zenon, <1>3 DEF log_write_check, ondisk, buffers
  <2> QED BY Zenon, <1>3, <2>1, log_write_checkKeeps, RecoveredKept, Stutters DEF Cur
<1>4. CASE log_write(p)
  <2>1. UNCHANGED <<disk, logdata, header, cache, phase>>
    BY Zenon, <1>4 DEF log_write, ondisk
  <2> QED BY Zenon, <1>4, <2>1, log_writeKeeps, RecoveredKept, Stutters DEF Cur
<1>5. CASE end_op(p)
  <2>1. UNCHANGED <<disk, logdata, header, cache>>
    BY Zenon, <1>5 DEF end_op, ondisk, buffers
  <2>2. p \in InOp /\ InOp' = InOp \ {p} /\ phase = "none" /\ phase' \notin Recovery
    BY Zenon, <1>5, end_opKeeps
  <2>3. Recovered' = Recovered
    BY Zenon, <2>1, RecoveredKept
  <2>4. Cur = cache /\ Cur' = cache
    BY Zenon, <2>1, <2>2 DEF Cur, Recovery
  <2>5. Abstract!End(p)
    BY Zenon, <2>2, <2>3, <2>4 DEF Abstract!End, Cur
  <2> QED BY Zenon, <2>5 DEF Abstract!Next
<1>6. CASE EndCommit(p)
  <2>1. UNCHANGED <<disk, logdata, header, cache>> /\ phase = "done" /\ phase' = "none"
    BY Zenon, <1>6 DEF EndCommit, ondisk, buffers
  <2>2. Recovered' = Recovered /\ Cur' = Cur
    BY Zenon, <2>1, RecoveredKept DEF Cur, Recovery
  <2> QED BY Zenon, <1>6, <2>2, EndCommitKeeps, Stutters
<1> QED BY Zenon, <1>1, <1>2, <1>3, <1>4, <1>5, <1>6 DEF Call

\* Of the writes of commit() and of recovery, write_head is the Commit, and the
\* others are not seen.
LEMMA WriteDiskMaps ==
  ASSUME LogInv, LogInv', WriteDisk, ~overrun, ~overrun',
         (LogInv /\ ~overrun /\ phase \in {"install", "clear"} => Recovered = cache)',
         (LogInv /\ phase \in {"none", "write_log", "write_head", "done"} => Recovered = disk)'
  PROVE  [Abstract!Next]_(Abstract!vars)
<1>1. CASE write_log
  <2>1. /\ phase = "write_log" /\ phase' \in {"write_log", "write_head"}
        /\ UNCHANGED <<disk, cache>>
    <3>1. phase = "write_log" /\ phase' \in {"write_log", "write_head"} /\ CopyToLog
      BY Zenon, <1>1 DEF write_log
    <3>2. tail \in 1 .. LOGSIZE /\ tail <= Len(lh) /\ Len(lh) < nlog /\ lh \in Seq(Block)
      BY Zenon, <3>1 DEF LogInv, Sound, Phases, LogTypeOK
    <3>3. tail < nlog
      BY <3>2, LogAssumption
    <3> QED BY Zenon, <3>1, <3>3 DEF CopyToLog, buffers
  <2>2. Recovered = disk /\ Recovered' = disk
    BY Zenon, <2>1, RecoveredDisk
  <2>3. Cur' = Cur
    BY Zenon, <2>1 DEF Cur, Recovery
  <2> QED BY Zenon, <1>1, <2>2, <2>3, write_logKeeps, Stutters
<1>2. CASE write_head
  <2>1. phase = "write_head" /\ phase' = "install" /\ UNCHANGED cache
    BY Zenon, <1>2 DEF write_head, buffers
  <2>2. Recovered' = cache /\ Cur = cache /\ Cur' = cache
    BY Zenon, <2>1 DEF Cur, Recovery
  <2>3. InOp = {} /\ InOp' = {}
    BY Zenon, <1>2, <2>1, Quiet, write_headKeeps
  <2>4. Abstract!Commit
    BY Zenon, <2>2, <2>3 DEF Abstract!Commit, Cur
  <2> QED BY Zenon, <2>4 DEF Abstract!Next
<1>3. CASE install_trans /\ phase = "install"
  <2>1. /\ phase' \in {"install", "clear"} /\ cache' = [cache EXCEPT ![lh[tail]] = LogBlock(tail)]
    BY Zenon, <1>3 DEF install_trans
  <2>2. tail \in 1 .. Len(lh) /\ cache \in [Block -> Data] /\ LogBlock(tail) = logdata[tail]
    <3>1. /\ tail \in 1 .. LOGSIZE /\ tail <= Len(lh) /\ lh \in Seq(Block) /\ cache \in [Block -> Data]
          /\ Len(lh) < nlog
      BY Zenon, <1>3 DEF LogInv, Sound, Phases, LogTypeOK
    <3> QED BY <3>1, LogAssumption DEF LogBlock
  <2>3. cache' = cache
    <3>1. logdata[tail] = cache[lh[tail]]
      BY Zenon, <1>3, <2>2 DEF LogInv, Sound, Contents
    <3> QED BY <2>1, <2>2, <3>1
  <2>4. Recovered = cache /\ Recovered' = cache
    BY Zenon, <1>3, <2>1, <2>3, RecoveredCache
  <2>5. Cur' = Cur
    BY Zenon, <1>3, <2>1, <2>3 DEF Cur, Recovery
  <2> QED BY Zenon, <1>3, <2>4, <2>5, install_transKeeps, Stutters
<1>4. CASE install_trans /\ phase = "recover"
  <2>1. /\ phase' \in {"recover", "reset"} /\ disk' = [disk EXCEPT ![lh[tail]] = LogBlock(tail)]
        /\ UNCHANGED <<header, logdata>> /\ lh # << >>
    BY Zenon, <1>4 DEF install_trans
  <2>2. tail \in 1 .. Len(lh) /\ disk \in [Block -> Data] /\ header = lh
    <3>1. /\ tail \in 1 .. LOGSIZE /\ (tail <= Len(lh) \/ tail = 1) /\ lh \in Seq(Block)
          /\ disk \in [Block -> Data] /\ header = lh
      BY Zenon, <1>4, <2>1 DEF LogInv, Phases, LogTypeOK, Header
    <3> QED BY <2>1, <3>1
  <2>3. \A c \in Block : c = header[tail] \/ disk'[c] = disk[c]
    BY Zenon, <2>1, <2>2
  <2>4. Recovered' = Recovered
    BY Zenon, <2>1, <2>2, <2>3 DEF Recovered
  <2>5. Cur' = Cur
    BY Zenon, <1>4, <2>1, <2>4 DEF Cur, Recovery
  <2> QED BY Zenon, <1>4, <2>4, <2>5, install_transKeeps, Stutters
<1>5. CASE ClearHead
  <2>1. /\ phase \in {"clear", "reset"} /\ phase' \in {"done", "none"}
        /\ UNCHANGED <<disk, cache>>
    BY Zenon, <1>5 DEF ClearHead, buffers
  <2>2. Recovered = disk /\ cache = disk /\ Recovered' = disk
    BY Zenon, <2>1, RecoveredReset
  <2>3. Cur' = Cur
    BY Zenon, <2>1, <2>2 DEF Cur, Recovery
  <2> QED BY Zenon, <1>5, <2>2, <2>3, ClearHeadKeeps, Stutters
<1>6. install_trans => phase = "install" \/ phase = "recover"
  BY Zenon DEF install_trans
<1> QED BY Zenon, <1>1, <1>2, <1>3, <1>4, <1>5, <1>6 DEF WriteDisk

\* An overrun is for ever.
LEMMA OverrunStays == overrun /\ [Next]_vars => overrun'
<1> SUFFICES ASSUME overrun, [Next]_vars PROVE overrun'
  OBVIOUS
<1>1. ASSUME NEW p \in Proc, Call(p) PROVE overrun'
  BY Zenon, <1>1 DEF Call, begin_op, Modify, log_write_check, log_write, end_op, EndCommit
<1>2. CASE WriteDisk
  BY Zenon, <1>2 DEF WriteDisk, write_log, write_head, install_trans, ClearHead
<1> QED BY Zenon, <1>1, <1>2 DEF Next, RecoverNothing, read_head, Recycle, Crash, vars

\* Every step of the log before it is overrun is a step of AtomicDisk, or none.
LEMMA StepMaps == LogInv /\ LogInv' /\ [Next]_vars => [Abstract!SoundNext]_(Abstract!vars)
<1>1. (LogInv /\ ~overrun /\ phase \in {"install", "clear"} => Recovered = cache)'
  BY RecoveredCache, PTL
<1>2. (LogInv /\ phase \in {"none", "write_log", "write_head", "done"} => Recovered = disk)'
  BY RecoveredDisk, PTL
<1> SUFFICES ASSUME LogInv, LogInv', [Next]_vars, ~overrun'
             PROVE  [Abstract!Next]_(Abstract!vars)
  BY Zenon DEF Abstract!SoundNext
<1>0. ~overrun
  BY Zenon, OverrunStays
<1>3. CASE WriteDisk
  BY Zenon, <1>0, <1>1, <1>2, <1>3, WriteDiskMaps
<1>4. CASE RecoverNothing
  <2>1. UNCHANGED <<disk, logdata, header, cache>> /\ phase \in Recovery /\ phase' \in Recovery
    BY Zenon, <1>4 DEF RecoverNothing, ondisk, buffers, Recovery
  <2>2. Recovered' = Recovered /\ Cur' = Cur
    BY Zenon, <2>1, RecoveredKept DEF Cur
  <2> QED BY Zenon, <1>4, <2>2, RecoverNothingKeeps, Stutters
<1>5. CASE read_head
  <2>1. UNCHANGED <<disk, logdata, header, cache>> /\ phase \in Recovery /\ phase' \in Recovery
    BY Zenon, <1>5 DEF read_head, ondisk, buffers, Recovery
  <2>2. Recovered' = Recovered /\ Cur' = Cur
    BY Zenon, <2>1, RecoveredKept DEF Cur
  <2> QED BY Zenon, <1>5, <2>2, read_headKeeps, Stutters
<1>6. ASSUME NEW c \in Block, Recycle(c) PROVE [Abstract!Next]_(Abstract!vars)
  <2>1. UNCHANGED <<disk, logdata, header, phase>>
    BY Zenon, <1>6 DEF Recycle, ondisk
  <2> QED BY Zenon, <1>0, <1>6, <2>1, RecycleKeeps, RecoveredKept, Stutters DEF Cur
<1>7. CASE Crash
  <2>1. UNCHANGED <<disk, logdata, header>> /\ phase' \in Recovery
    BY Zenon, <1>7 DEF Crash, ondisk, Recovery
  <2>2. Recovered' = Recovered
    BY Zenon, <2>1, RecoveredKept
  <2>3. Cur' = Recovered
    BY Zenon, <2>1, <2>2 DEF Cur
  <2>4. InOp' = {}
    BY Zenon, <1>7, CrashKeeps
  <2>5. Abstract!Crash
    BY Zenon, <2>2, <2>3, <2>4 DEF Abstract!Crash, Cur
  <2> QED BY Zenon, <2>5 DEF Abstract!Next
<1>8. CASE UNCHANGED vars
  <2>1. UNCHANGED <<disk, logdata, header, cache, phase>> /\ InOp' = InOp
    BY Zenon, <1>8 DEF vars, ondisk, buffers, calls, InOp
  <2> QED BY Zenon, <2>1, RecoveredKept, Stutters DEF Cur
<1>9. ASSUME NEW p \in Proc, Call(p) PROVE [Abstract!Next]_(Abstract!vars)
  BY Zenon, <1>9, CallMaps
<1> QED BY Zenon, <1>3, <1>4, <1>5, <1>6, <1>7, <1>8, <1>9 DEF Next

\* The initial states are those of AtomicDisk.
LEMMA InitMaps == Init => Abstract!Init
<1> SUFFICES ASSUME Init PROVE Abstract!Init
  OBVIOUS
<1>1. header = << >> /\ disk \in [Block -> Data] /\ phase \in Recovery
  BY Zenon DEF Init, Recovery
<1>2. Recovered = RecoveredOf(header, logdata, disk)
  BY Zenon DEF Recovered, RecoveredOf
<1>3. Recovered = disk
  BY Zenon, <1>1, <1>2, RecoveredHome
<1>4. InOp = {}
  BY Zenon DEF Init, InOp
<1> QED BY Zenon, <1>1, <1>3, <1>4 DEF Abstract!Init

\* Whatever crashes and however the calls interleave, an operation's writes
\* survive all or none, until the log on disk is overrun: up to there every
\* behaviour of the log is one of AtomicDisk.
THEOREM LogImplementsAtomicDisk == Spec => ImplementsAtomicDisk
BY LogInvariant, InitMaps, StepMaps, PTL DEF Spec, ImplementsAtomicDisk, Abstract!Spec

==============================================================================
