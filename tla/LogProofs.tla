----------------------------- MODULE LogProofs ------------------------------
(***************************************************************************)
(* Proofs about Log.tla, for every number of processes, sectors and log    *)
(* slots: its types, log.outstanding and the phases of a commit, the buffers *)
(* that bget may recycle, what a recovery would install, wakeups in        *)
(* begin_op, and the atomicity of a commit.                                *)
(***************************************************************************)
EXTENDS Log, FiniteSetTheorems, TLAPS

USE LogAssumption, SMTT(30), Z3T(30), Zenon DEF LogAssumption

\* Every variable of the log keeps its type; in particular log.lh.n and every
\* index stay within sector[LOGSIZE].
THEOREM TypeCorrect == Spec => []TypeOK
<1>. USE DEF TypeOK, lh, Slots, Phases, InLogWrite, InOp, PCs
<1>1. Init => TypeOK
  BY DEF Init, ZeroSectors
<1>2. TypeOK /\ [Next]_vars => TypeOK'
  <2>. SUFFICES ASSUME TypeOK, [Next]_vars PROVE TypeOK'
    OBVIOUS
  <2>. USE DEF disk, hdr, bufs, locals
  <2>1. ASSUME NEW p \in Procs, BeginOp(p) PROVE TypeOK'
    <3>1. pc' \in [Procs -> PCs]
      BY Zenon, <2>1 DEF BeginOp
    <3>2. outstanding' \in Int
      BY <2>1 DEF BeginOp
    <3>3. UNCHANGED <<disk, lh, committing, phase, tail, bufs, locals>>
      BY <2>1 DEF BeginOp
    <3>. QED  BY <3>1, <3>2, <3>3
  <2>2. ASSUME NEW p \in Procs, EndOp(p) PROVE TypeOK'
    <3>1. pc' \in [Procs -> PCs]
      BY Zenon, <2>2 DEF EndOp, WakeLog
    <3>2. outstanding' \in Int /\ wrote' \in [Procs -> SUBSET Blocks]
      BY <2>2 DEF EndOp
    <3>3. committing' \in {0, 1} /\ phase' \in Phases /\ tail' \in 0 .. LOGSIZE
      BY <2>2 DEF EndOp
    <3>4. UNCHANGED <<disk, lh, bufs, blk, idx, reg>>
      BY <2>2 DEF EndOp
    <3>. QED  BY <3>1, <3>2, <3>3, <3>4
  <2>3. ASSUME NEW p \in Procs, EndCommit(p) PROVE TypeOK'
    BY <2>3 DEF EndCommit, WakeLog
  <2>4. ASSUME NEW p \in Procs, NEW b \in Blocks, NEW v \in Values, Modify(p, b, v)
        PROVE TypeOK'
    BY <2>4 DEF Modify
  <2>5. ASSUME NEW p \in Procs, LogWriteEnter(p) PROVE TypeOK'
    BY <2>5 DEF LogWriteEnter
  <2>6. ASSUME NEW p \in Procs, LogWriteScan(p) PROVE TypeOK'
    BY <2>6 DEF LogWriteScan
  <2>7. ASSUME NEW p \in Procs, LogWriteStore(p) PROVE TypeOK'
    <3>1. sector' \in [Slots -> Blocks]
      BY Zenon, <2>7 DEF LogWriteStore
    <3>2. pc' \in [Procs -> PCs]
      BY Zenon, <2>7 DEF LogWriteStore
    <3>3. UNCHANGED <<disk, n, outstanding, committing, phase, tail, bufs, locals>>
      BY <2>7 DEF LogWriteStore
    <3>. QED  BY <3>1, <3>2, <3>3
  <2>8. ASSUME NEW p \in Procs, LogWriteCheck(p) PROVE TypeOK'
    BY <2>8 DEF LogWriteCheck
  <2>9. ASSUME NEW p \in Procs, LogWriteLoad(p) PROVE TypeOK'
    BY <2>9 DEF LogWriteLoad
  <2>10. ASSUME NEW p \in Procs, LogWriteInc(p) PROVE TypeOK'
    <3>1. n' \in 0 .. LOGSIZE
      BY <2>10 DEF LogWriteInc
    <3>2. pc' \in [Procs -> PCs]
      BY Zenon, <2>10 DEF LogWriteInc
    <3>3. UNCHANGED <<disk, sector, outstanding, committing, phase, tail, bufs, locals>>
      BY <2>10 DEF LogWriteInc
    <3>. QED  BY <3>1, <3>2, <3>3
  <2>11. ASSUME NEW p \in Procs, LogWritePin(p) PROVE TypeOK'
    BY <2>11 DEF LogWritePin
  <2>12. CASE WriteLog
    BY <2>12 DEF WriteLog, Bread
  <2>13. CASE WriteHead
    BY <2>13 DEF WriteHead, CopySectors
  <2>14. CASE InstallTrans
    BY <2>14 DEF InstallTrans
  <2>15. CASE EraseHead
    BY <2>15 DEF EraseHead
  <2>16. CASE ReadHead
    BY <2>16 DEF ReadHead, CopySectors
  <2>17. ASSUME NEW b \in Blocks, ReadIn(b) \/ Evict(b) PROVE TypeOK'
    BY Zenon, <2>17 DEF ReadIn, Evict
  <2>18. CASE Crash
    BY <2>18 DEF Crash, ZeroSectors
  <2>19. CASE UNCHANGED vars
    BY <2>19 DEF vars
  <2>. QED
    BY Zenon, <2>1, <2>2, <2>3, <2>4, <2>5, <2>6, <2>7, <2>8, <2>9, <2>10, <2>11,
       <2>12, <2>13, <2>14, <2>15, <2>16, <2>17, <2>18, <2>19
    DEF Next, ProcStep, CommitStep, CacheStep
<1>. QED
  BY <1>1, <1>2, PTL DEF Spec

-----------------------------------------------------------------------------
\* The set of open operations is finite, so log.outstanding can be compared with
\* its size.
LEMMA OpenFinite == TypeOK => IsFiniteSet(Open) /\ Cardinality(Open) \in Nat
  BY FS_Subset, FS_CardinalityType DEF Open

\* Actions that open or close no operation.
LEMMA OpenUnchanged ==
  ASSUME TypeOK, NEW p \in Procs, NEW c \in PCs,
         pc[p] \in InOp \cup {"panic"} <=> c \in InOp \cup {"panic"},
         pc' = [pc EXCEPT ![p] = c]
  PROVE  Open' = Open
  BY DEF TypeOK, Open

\* Every step keeps log.outstanding equal to the number of open operations, and
\* commit() and recovery to themselves.
LEMMA PhaseStep == TypeOK /\ PhaseInv /\ [Next]_vars => PhaseInv'
<1>. SUFFICES ASSUME TypeOK, PhaseInv, [Next]_vars PROVE PhaseInv'
  OBVIOUS
<1>. USE OpenFinite DEF TypeOK, PhaseInv, lh, disk, hdr, bufs, locals
<1>1. ASSUME NEW p \in Procs, BeginOp(p) PROVE PhaseInv'
  <2>1. CASE pc' = [pc EXCEPT ![p] = "sleep"] /\ UNCHANGED outstanding
    <3>1. Open' = Open
      BY Zenon, <1>1, <2>1, OpenUnchanged DEF BeginOp, InOp, InLogWrite, PCs
    <3>. QED  BY <1>1, <2>1, <3>1 DEF BeginOp, Writing, InLogWrite
  <2>2. CASE ~(committing = 1 \/ ~LogHasRoom)
    <3>1. /\ phase = "idle" /\ outstanding' = outstanding + 1
          /\ pc' = [pc EXCEPT ![p] = "op"] /\ pc[p] = "out"
          /\ UNCHANGED <<disk, lh, committing, phase, tail, bufs, locals>>
      BY <1>1, <2>2 DEF BeginOp
    <3>2. Open' = Open \cup {p} /\ p \notin Open
      BY <3>1 DEF Open, InOp, InLogWrite
    <3>3. outstanding' = Cardinality(Open')
      BY Zenon, <3>1, <3>2, FS_AddElement
    <3>. QED  BY <3>1, <3>3 DEF Writing, InLogWrite
  <2>. QED  BY <1>1, <2>1, <2>2 DEF BeginOp
<1>2. ASSUME NEW p \in Procs, EndOp(p) PROVE PhaseInv'
  <2>1. p \in Open /\ phase = "idle" /\ committing = 0
    BY <1>2 DEF EndOp, Open, InOp
  <2>2. Open' = Open \ {p}
    BY <1>2, <2>1 DEF EndOp, WakeLog, Open, InOp, InLogWrite
  <2>3. /\ outstanding' = Cardinality(Open')
        /\ outstanding = 1 => Open' = {}
    <3>1. IsFiniteSet(Open) /\ outstanding = Cardinality(Open)
      OBVIOUS
    <3>2. IsFiniteSet(Open') /\ Cardinality(Open') = outstanding - 1
      BY <2>1, <2>2, <3>1, FS_RemoveElement
    <3>3. outstanding' = outstanding - 1
      BY <1>2 DEF EndOp
    <3>4. Cardinality(Open') = 0 => Open' = {}
      BY <3>2, FS_EmptySet
    <3>. QED  BY <3>2, <3>3, <3>4
  <2>4. \A b \in Blocks : busy'[b] \in Procs =>
          pc'[busy'[b]] \in Writing /\ blk'[busy'[b]] = b
    BY <1>2, <2>1 DEF EndOp, WakeLog, Writing, InLogWrite
  <2>. QED  BY <1>2, <2>1, <2>3, <2>4 DEF EndOp
<1>3. ASSUME NEW p \in Procs, EndCommit(p) PROVE PhaseInv'
  <2>1. Open' = Open
    BY <1>3 DEF EndCommit, WakeLog, Open, InOp, InLogWrite
  <2>2. \A b \in Blocks : busy'[b] \in Procs =>
          pc'[busy'[b]] \in Writing /\ blk'[busy'[b]] = b
    BY <1>3 DEF EndCommit, WakeLog, Writing, InLogWrite
  <2>. QED  BY Zenon, <1>3, <2>1, <2>2 DEF EndCommit
<1>4. ASSUME NEW p \in Procs, NEW b \in Blocks, NEW v \in Values, Modify(p, b, v)
      PROVE PhaseInv'
  <2>1. Open' = Open
    BY Zenon, <1>4, OpenUnchanged DEF Modify, InOp, InLogWrite, PCs
  <2>2. \A c \in Blocks : busy'[c] \in Procs =>
          pc'[busy'[c]] \in Writing /\ blk'[busy'[c]] = c
    BY <1>4 DEF Modify, Writing, InLogWrite
  <2>. QED  BY <1>4, <2>1, <2>2 DEF Modify
<1>5. ASSUME NEW p \in Procs,
             \/ LogWriteEnter(p) \/ LogWriteScan(p) \/ LogWriteStore(p)
             \/ LogWriteCheck(p) \/ LogWriteLoad(p) \/ LogWriteInc(p)
      PROVE PhaseInv'
  <2>1. PICK c \in {"scan", "store", "check", "load", "inc", "pin", "panic"} :
          pc' = [pc EXCEPT ![p] = c]
    BY <1>5 DEF LogWriteEnter, LogWriteScan, LogWriteStore, LogWriteCheck,
                LogWriteLoad, LogWriteInc
  <2>2. pc[p] \in Writing /\ p \in Open /\ phase = "idle"
    BY <1>5 DEF LogWriteEnter, LogWriteScan, LogWriteStore, LogWriteCheck,
                LogWriteLoad, LogWriteInc, Writing, Open, InOp, InLogWrite
  <2>3. Open' = Open
    BY Zenon, <2>1, <2>2, OpenUnchanged DEF Open, InOp, InLogWrite, PCs
  <2>4. UNCHANGED <<outstanding, committing, phase, tail, busy, blk>>
    BY <1>5 DEF LogWriteEnter, LogWriteScan, LogWriteStore, LogWriteCheck,
                LogWriteLoad, LogWriteInc
  <2>5. \A b \in Blocks : busy'[b] \in Procs =>
          pc'[busy'[b]] \in Writing /\ blk'[busy'[b]] = b
    BY <2>1, <2>4 DEF Writing, InLogWrite
  <2>. QED  BY <2>2, <2>3, <2>4, <2>5
<1>6. ASSUME NEW p \in Procs, LogWritePin(p) PROVE PhaseInv'
  <2>1. Open' = Open
    BY Zenon, <1>6, OpenUnchanged DEF LogWritePin, InOp, InLogWrite, PCs
  <2>2. \A b \in Blocks : busy'[b] \in Procs =>
          pc'[busy'[b]] \in Writing /\ blk'[busy'[b]] = b
    BY <1>6 DEF LogWritePin
  <2>. QED  BY <1>6, <2>1, <2>2 DEF LogWritePin
<1>7. CASE CommitStep \/ ReadHead
  <2>1. Open' = Open /\ UNCHANGED <<pc, busy, blk, outstanding>>
    BY <1>7 DEF CommitStep, WriteLog, WriteHead, InstallTrans, EraseHead,
                ReadHead, Open
  <2>. QED
    BY <1>7, <2>1, SMTT(40) DEF CommitStep, WriteLog, WriteHead, InstallTrans, EraseHead,
                      ReadHead
<1>8. CASE CacheStep
  <2>1. UNCHANGED <<disk, hdr, busy, pc, locals>>
    BY <1>8 DEF CacheStep, ReadIn, Evict
  <2>. QED  BY <2>1 DEF Open
<1>9. CASE Crash
  <2>1. Open' = {}
    BY <1>9 DEF Crash, Open, InOp, InLogWrite
  <2>. QED  BY <1>9, <2>1, FS_EmptySet DEF Crash
<1>10. CASE UNCHANGED vars
  BY <1>10 DEF vars, Open
<1>. QED
  BY Zenon, <1>1, <1>2, <1>3, <1>4, <1>5, <1>6, <1>7, <1>8, <1>9, <1>10
  DEF Next, ProcStep

\* Every step keeps the buffers that bget may recycle equal to their sectors.
LEMMA CleanStep == TypeOK /\ CleanInv /\ [Next]_vars => CleanInv'
<1>. SUFFICES ASSUME TypeOK, CleanInv, [Next]_vars PROVE CleanInv'
  OBVIOUS
<1>. USE DEF TypeOK, CleanInv, lh, disk, hdr, bufs, locals
<1>1. ASSUME NEW p \in Procs, NEW b \in Blocks, NEW v \in Values, Modify(p, b, v)
      PROVE CleanInv'
  BY <1>1 DEF Modify
<1>2. ASSUME NEW p \in Procs, LogWritePin(p) PROVE CleanInv'
  BY <1>2 DEF LogWritePin
<1>3. CASE WriteLog
  BY <1>3 DEF WriteLog, Bread, Slots
<1>4. CASE InstallTrans
  BY <1>4 DEF InstallTrans, Slots
<1>5. CASE CacheStep
  BY <1>5 DEF CacheStep, ReadIn, Evict
<1>6. CASE Crash
  BY <1>6 DEF Crash
<1>7. CASE WriteHead \/ EraseHead \/ ReadHead
  BY <1>7 DEF WriteHead, EraseHead, ReadHead
<1>8. ASSUME NEW p \in Procs,
             \/ BeginOp(p) \/ EndOp(p) \/ EndCommit(p)
             \/ LogWriteEnter(p) \/ LogWriteScan(p) \/ LogWriteStore(p)
             \/ LogWriteCheck(p) \/ LogWriteLoad(p) \/ LogWriteInc(p)
      PROVE CleanInv'
  <2>1. UNCHANGED <<home, bufs>>
    BY <1>8 DEF BeginOp, EndOp, EndCommit, LogWriteEnter, LogWriteScan,
                LogWriteStore, LogWriteCheck, LogWriteLoad, LogWriteInc
  <2>. QED  BY <2>1
<1>9. CASE UNCHANGED vars
  BY <1>9 DEF vars
<1>. QED
  BY Zenon, <1>1, <1>2, <1>3, <1>4, <1>5, <1>6, <1>7, <1>8, <1>9
  DEF Next, ProcStep, CommitStep

-----------------------------------------------------------------------------
\* What a reader of the cache sees does not depend on which clean sectors are
\* cached.
LEMMA BreadCache == TypeOK /\ CleanInv /\ PhaseInv /\ CacheStep =>
                      \A b \in Blocks : Bread(b)' = Bread(b)
  BY DEF TypeOK, CleanInv, CacheStep, ReadIn, Evict, Bread, disk

\* A step that leaves the disk, the header and the phase alone, and shows every
\* reader of the cache the same contents, keeps the image.
LEMMA ImageFrame ==
  ASSUME TypeOK, ImageInv,
         UNCHANGED <<home, logblk, hn, hsector, n, sector, committing, phase, tail>>,
         \A b \in Blocks : Bread(b)' = Bread(b)
  PROVE  ImageInv'
<1>1. /\ n \in Int /\ n <= LOGSIZE /\ tail \in Int /\ tail <= LOGSIZE
      /\ \A i \in 0 .. LOGSIZE - 1 : sector[i] \in Blocks
  BY LogAssumption DEF TypeOK, Slots
<1>2. \A i \in 0 .. n - 1 : Bread(sector[i])' = Bread(sector[i])
  <2>. SUFFICES ASSUME NEW i \in 0 .. n - 1 PROVE Bread(sector[i])' = Bread(sector[i])
    OBVIOUS
  <2>1. sector[i] \in Blocks /\ sector'[i] = sector[i]
    BY <1>1, LogAssumption
  <2>. QED  BY Zenon, <2>1 DEF Bread
<1>3. \A i \in 0 .. tail - 1 : Bread(sector[i])' = Bread(sector[i])
  <2>. SUFFICES ASSUME NEW i \in 0 .. tail - 1 PROVE Bread(sector[i])' = Bread(sector[i])
    OBVIOUS
  <2>1. sector[i] \in Blocks /\ sector'[i] = sector[i]
    BY <1>1, LogAssumption
  <2>. QED  BY <2>1 DEF Bread
<1>4. phase' = "wlog" => \A i \in 0 .. tail' - 1 : logblk'[i] = Bread(sector[i])'
  BY <1>3 DEF ImageInv
<1>5. (phase' = "install" /\ committing' = 1) =>
        \A i \in 0 .. n' - 1 : logblk'[i] = Bread(sector[i])'
  BY <1>2 DEF ImageInv
<1>. QED  BY <1>4, <1>5 DEF ImageInv

\* Every step keeps what write_log, write_head and install_trans have copied so
\* far, which is what a recovery would install.
LEMMA ImageStep ==
  TypeOK /\ PhaseInv /\ CleanInv /\ ImageInv /\ [Next]_vars => ImageInv'
<1>. SUFFICES ASSUME TypeOK, PhaseInv, CleanInv, ImageInv, [Next]_vars
              PROVE  ImageInv'
  OBVIOUS
<1>. USE DEF TypeOK, Slots
<1>1. CASE WriteLog
  <2>1. sector[tail] \in Blocks /\ tail \in Slots
    BY <1>1 DEF WriteLog
  <2>2. \A b \in Blocks : Bread(b)' = Bread(b)
    BY <1>1, <2>1 DEF WriteLog, Bread
  <2>3. \A i \in 0 .. tail' - 1 : logblk'[i] = Bread(sector[i])
    BY <1>1, <2>1 DEF WriteLog, ImageInv
  <2>4. phase = "wlog" /\ hn = 0 /\ UNCHANGED <<phase, hn, n, sector>> /\ tail' <= n
    BY <1>1 DEF WriteLog, lh, ImageInv
  <2>5. \A i \in 0 .. tail' - 1 : logblk'[i] = Bread(sector[i])'
    <3>. SUFFICES ASSUME NEW i \in 0 .. tail' - 1 PROVE logblk'[i] = Bread(sector[i])'
      OBVIOUS
    <3>1. sector[i] \in Blocks /\ sector'[i] = sector[i]
      BY <1>1, <2>4 DEF WriteLog
    <3>. QED  BY Zenon, <2>2, <2>3, <3>1 DEF Bread
  <2>. QED  BY <2>4, <2>5 DEF ImageInv
<1>2. CASE WriteHead
  <2>1. \A i \in 0 .. n - 1 : logblk[i] = Bread(sector[i])
    BY <1>2 DEF WriteHead, ImageInv
  <2>2. \A i \in 0 .. n - 1 : hsector'[i] = sector[i]
    BY <1>2 DEF WriteHead, CopySectors
  <2>3. /\ hn' = n /\ n' = n /\ phase' = "install" /\ tail' = 0
        /\ UNCHANGED <<home, logblk, sector, cache, committing>>
    BY <1>2 DEF WriteHead, lh, bufs
  <2>4. \A i \in 0 .. n' - 1 : logblk'[i] = Bread(sector[i])'
    BY <2>1, <2>3 DEF Bread
  <2>5. \A i, j \in 0 .. hn' - 1 : hsector'[i] = hsector'[j] => logblk'[i] = logblk'[j]
    BY <2>1, <2>2, <2>3
  <2>6. \A i \in 0 .. n' - 1 : hsector'[i] = sector'[i]
    BY <2>2, <2>3
  <2>7. 0 .. tail' - 1 = {}
    BY <2>3
  <2>. QED  BY <2>3, <2>4, <2>5, <2>6, <2>7 DEF ImageInv
<1>3. CASE InstallTrans
  <2>1. sector[tail] \in Blocks /\ tail \in Slots
    BY <1>3 DEF InstallTrans
  <2>2. \A i \in 0 .. tail' - 1 : home'[sector[i]] = logblk[i]
    <3>1. \A i, j \in 0 .. n - 1 : sector[i] = sector[j] => logblk[i] = logblk[j]
      BY <1>3 DEF InstallTrans, ImageInv
    <3>2. /\ home' = [home EXCEPT ![sector[tail]] = logblk[tail]]
          /\ tail' = tail + 1 /\ tail < n
          /\ \A i \in 0 .. tail - 1 : home[sector[i]] = logblk[i]
      BY <1>3 DEF InstallTrans, ImageInv
    <3>3. ASSUME NEW i \in 0 .. tail' - 1 PROVE home'[sector[i]] = logblk[i]
      <4>1. i \in 0 .. n - 1 /\ sector[i] \in Blocks /\ tail \in 0 .. n - 1
        BY <3>2
      <4>2. CASE sector[i] = sector[tail]
        BY <2>1, <3>1, <3>2, <4>1, <4>2
      <4>3. CASE sector[i] # sector[tail]
        BY <2>1, <3>2, <4>1, <4>3
      <4>. QED  BY <4>2, <4>3
    <3>. QED  BY <3>3
  <2>3. committing = 1 => \A i \in 0 .. n - 1 : logblk[i] = Bread(sector[i])'
    BY <1>3, <2>1, SMTT(40) DEF InstallTrans, ImageInv, Bread, lh
  <2>. QED  BY <1>3, <2>2, <2>3, SMTT(40) DEF InstallTrans, ImageInv, lh
<1>4. CASE EraseHead
  BY <1>4 DEF EraseHead, ImageInv
<1>5. CASE ReadHead
  BY <1>5, SMTT(40) DEF ReadHead, ImageInv, CopySectors, disk, PhaseInv
<1>6. CASE CacheStep
  <2>1. UNCHANGED <<disk, hdr>>
    BY <1>6 DEF CacheStep, ReadIn, Evict
  <2>2. UNCHANGED <<home, logblk, hn, hsector, n, sector, committing, phase, tail>>
    BY <2>1 DEF disk, hdr, lh
  <2>3. \A b \in Blocks : Bread(b)' = Bread(b)
    BY <1>6, BreadCache
  <2>. QED  BY <2>2, <2>3, ImageFrame
<1>7. CASE Crash
  BY <1>7, SMTT(40) DEF Crash, ImageInv, disk
<1>8. ASSUME NEW p \in Procs, BeginOp(p) PROVE ImageInv'
  <2>1. UNCHANGED <<disk, lh, committing, phase, tail, bufs>>
    BY <1>8 DEF BeginOp
  <2>2. UNCHANGED <<home, logblk, hn, hsector, n, sector, committing, phase, tail>>
    BY <2>1 DEF disk, lh
  <2>3. \A b \in Blocks : Bread(b)' = Bread(b)
    BY <2>1 DEF Bread, disk, bufs
  <2>. QED  BY <2>2, <2>3, ImageFrame
<1>9. ASSUME NEW p \in Procs,
             \/ EndOp(p) \/ EndCommit(p)
             \/ \E b \in Blocks, v \in Values : Modify(p, b, v)
             \/ LogWriteEnter(p) \/ LogWriteScan(p) \/ LogWriteStore(p)
             \/ LogWriteCheck(p) \/ LogWriteLoad(p) \/ LogWriteInc(p)
             \/ LogWritePin(p)
      PROVE ImageInv'
  <2>1. phase \in {"idle", "end"}
    BY Zenon, <1>9 DEF EndOp, EndCommit, Modify, LogWriteEnter, LogWriteScan,
         LogWriteStore, LogWriteCheck, LogWriteLoad, LogWriteInc, LogWritePin,
         PhaseInv, Open, InOp, InLogWrite
  <2>2. UNCHANGED disk
    BY Zenon, <1>9 DEF EndOp, EndCommit, Modify, LogWriteEnter, LogWriteScan,
         LogWriteStore, LogWriteCheck, LogWriteLoad, LogWriteInc, LogWritePin
  <2>3. phase' \in {"idle", "end"} \/ (phase' = "wlog" /\ tail' = 0)
    BY Zenon, <1>9, <2>1 DEF EndOp, EndCommit, Modify, LogWriteEnter, LogWriteScan,
         LogWriteStore, LogWriteCheck, LogWriteLoad, LogWriteInc, LogWritePin, hdr
  <2>4. hn' = 0 /\ 0 .. hn' - 1 = {}
    BY <2>1, <2>2 DEF ImageInv, disk
  <2>5. phase' = "wlog" => 0 .. tail' - 1 = {}
    BY <2>3
  <2>. HIDE DEF TypeOK, Slots
  <2>. QED  BY Zenon, <2>3, <2>4, <2>5 DEF ImageInv
<1>10. CASE UNCHANGED vars
  <2>1. UNCHANGED <<home, logblk, hn, hsector, n, sector, committing, phase, tail>>
    BY <1>10 DEF vars, disk, hdr, lh
  <2>2. \A b \in Blocks : Bread(b)' = Bread(b)
    BY <1>10 DEF vars, Bread, disk, bufs
  <2>. QED  BY <2>1, <2>2, ImageFrame
<1>. QED
  BY <1>1, <1>2, <1>3, <1>4, <1>5, <1>6, <1>7, <1>8, <1>9, <1>10
  DEF Next, ProcStep, CommitStep

\* While an operation is open, end_op has not begun to commit.
LEMMA OpenCounted ==
  TypeOK /\ PhaseInv => /\ outstanding \in Nat
                        /\ Open # {} => outstanding > 0 /\ phase = "idle" /\ committing = 0
                        /\ outstanding = 0 => Open = {}
<1>. SUFFICES ASSUME TypeOK, PhaseInv
              PROVE  /\ outstanding \in Nat
                     /\ Open # {} => outstanding > 0 /\ phase = "idle" /\ committing = 0
                     /\ outstanding = 0 => Open = {}
  OBVIOUS
<1>1. outstanding = Cardinality(Open) /\ outstanding \in Nat /\ IsFiniteSet(Open)
  BY OpenFinite DEF PhaseInv
<1>2. outstanding = 0 <=> Open = {}
  BY <1>1, FS_EmptySet
<1>3. Open # {} => phase = "idle" /\ committing = 0
  BY DEF PhaseInv
<1>. QED  BY <1>1, <1>2, <1>3

\* The steps of log_write, and the update before it, run inside an operation.
InsideOp(p) ==
  \/ \E b \in Blocks \ {BootBlock}, v \in Values : Modify(p, b, v)
  \/ LogWriteEnter(p) \/ LogWriteScan(p) \/ LogWriteStore(p)
  \/ LogWriteCheck(p) \/ LogWriteLoad(p) \/ LogWriteInc(p) \/ LogWritePin(p)

\* A step inside an operation finds the log open and leaves the disk and
\* log.outstanding as they are.
LEMMA InsideOpFacts ==
  ASSUME TypeOK, PhaseInv, NEW p \in Procs, InsideOp(p)
  PROVE  /\ outstanding > 0 /\ phase = "idle" /\ committing = 0
         /\ UNCHANGED <<disk, outstanding, committing, phase, tail>>
         /\ pc[p] \in InOp
         /\ \E c \in InOp \cup {"panic"} : pc' = [pc EXCEPT ![p] = c]
<1>. USE DEF InsideOp, Modify, LogWriteEnter, LogWriteScan, LogWriteStore,
             LogWriteCheck, LogWriteLoad, LogWriteInc, LogWritePin
<1>1. pc[p] \in InOp
  BY Zenon DEF InOp, InLogWrite
<1>2. UNCHANGED <<disk, outstanding, committing, phase, tail>>
  BY Zenon DEF hdr
<1>3. \E c \in InOp \cup {"panic"} : pc' = [pc EXCEPT ![p] = c]
  BY Zenon DEF InOp, InLogWrite
<1>. QED  BY Zenon, <1>1, <1>2, <1>3, OpenCounted DEF Open

\* Every step leaves a wakeup(&log) to come for whoever sleeps in begin_op.
LEMMA WakeStep ==
  TypeOK /\ PhaseInv /\ WakeInv /\ [Next]_vars => WakeInv'
<1>. SUFFICES ASSUME TypeOK, PhaseInv, WakeInv, [Next]_vars PROVE WakeInv'
  OBVIOUS
<1>a. outstanding \in Int /\ n \in Int /\ pc \in [Procs -> PCs]
  BY LogAssumption DEF TypeOK
<1>. USE DEF WakeInv, NoLostWakeup
<1>1. ASSUME NEW p \in Procs, BeginOp(p) PROVE WakeInv'
  <2>1. CASE committing = 1 \/ ~LogHasRoom
    <3>1. /\ UNCHANGED <<n, outstanding, phase, committing>>
          /\ pc' = [pc EXCEPT ![p] = "sleep"]
          /\ phase = "idle" \/ committing = 1
      BY <1>1, <2>1 DEF BeginOp, lh
    <3>2. committing = 1 \/ outstanding > 0
      <4>1. CASE committing = 0 /\ outstanding = 0
        <5>1. n = 0 /\ ~LogHasRoom
          BY <2>1, <3>1, <4>1
        <5>. QED  BY <4>1, <5>1, LogAssumption DEF LogHasRoom
      <4>2. outstanding \in Nat /\ committing \in {0, 1}
        BY OpenCounted DEF TypeOK
      <4>. QED  BY <4>1, <4>2
    <3>3. ~(phase = "rhead" \/ (phase = "install" /\ committing = 0))
      BY <3>1 DEF PhaseInv
    <3>. QED  BY <3>1, <3>2, <3>3
  <2>2. CASE ~(committing = 1 \/ ~LogHasRoom)
    <3>1. /\ outstanding' = outstanding + 1 /\ phase' = "idle"
      BY <1>1, <2>2 DEF BeginOp
    <3>2. outstanding' > 0
      BY <3>1, OpenCounted
    <3>. QED  BY <3>1, <3>2
  <2>. QED  BY <2>1, <2>2
<1>2. ASSUME NEW p \in Procs, EndOp(p) PROVE WakeInv'
  <2>1. outstanding > 0 /\ phase = "idle" /\ committing = 0 /\ n' = n
    BY <1>2, OpenCounted DEF EndOp, Open, InOp, lh
  <2>2. CASE outstanding = 1
    <3>1. committing' = 1
      BY <1>2, <2>1, <2>2 DEF EndOp
    <3>2. phase' = "wlog" \/ (phase' = "end" /\ n' = 0)
      <4>1. n >= 0
        BY LogAssumption DEF TypeOK
      <4>. QED  BY <1>2, <1>a, <2>1, <2>2, <4>1 DEF EndOp
    <3>. QED  BY <3>1, <3>2
  <2>3. CASE outstanding # 1
    <3>1. outstanding' > 0 /\ phase' = "idle"
      BY <1>2, <1>a, <2>1, <2>3 DEF EndOp
    <3>. QED  BY <3>1
  <2>. QED  BY <2>2, <2>3
<1>3. ASSUME NEW p \in Procs, EndCommit(p) PROVE WakeInv'
  <2>1. n' = 0 /\ phase' = "idle"
    BY <1>3 DEF EndCommit, lh
  <2>2. \A q \in Procs : pc'[q] # "sleep"
    BY <1>3, <1>a DEF EndCommit, WakeLog
  <2>. QED  BY <2>1, <2>2
<1>4. ASSUME NEW p \in Procs, InsideOp(p) PROVE WakeInv'
  <2>1. phase' = "idle" /\ outstanding' > 0
    BY <1>4, InsideOpFacts
  <2>. QED  BY <1>a, <2>1
<1>5. CASE WriteLog \/ WriteHead \/ InstallTrans
  <2>1. /\ phase' \in {"wlog", "install"}
        /\ UNCHANGED <<pc, outstanding, committing>>
        /\ phase = "install" \/ committing = 1
    BY <1>5 DEF WriteLog, WriteHead, InstallTrans, PhaseInv
  <2>2. phase' = "install" /\ committing = 0 => phase = "install"
    BY <2>1
  <2>. QED  BY <2>1, <2>2
<1>6. CASE EraseHead
  BY <1>6 DEF EraseHead
<1>7. CASE ReadHead
  BY <1>7 DEF ReadHead
<1>8. CASE CacheStep
  BY <1>8 DEF CacheStep, ReadIn, Evict, hdr, lh
<1>9. CASE Crash
  BY <1>9 DEF Crash
<1>10. CASE UNCHANGED vars
  BY <1>10 DEF vars, hdr, lh
<1>. QED
  BY Zenon, <1>1, <1>2, <1>3, <1>4, <1>5, <1>6, <1>7, <1>8, <1>9, <1>10
  DEF Next, ProcStep, CommitStep, InsideOp

-----------------------------------------------------------------------------
\* Only the header write of commit() changes what recovery would produce.
LEMMA RecoveredStep ==
  ASSUME TypeOK, PhaseInv, ImageInv, [Next]_vars, ~WriteHead
  PROVE  Recovered' = Recovered
<1>. USE DEF TypeOK, Slots
<1>1. CASE WriteLog
  <2>1. hn = 0 /\ UNCHANGED <<home, hn, hsector>>
    BY <1>1 DEF WriteLog, ImageInv
  <2>2. 0 .. hn - 1 = {} /\ 0 .. hn' - 1 = {}
    BY <2>1
  <2>. HIDE DEF TypeOK, Slots
  <2>. QED  BY <2>1, <2>2 DEF Recovered, RecoverImage
<1>2. CASE InstallTrans
  <2>1. /\ hn = n /\ tail \in 0 .. hn - 1 /\ hsector[tail] = sector[tail]
        /\ home' = [home EXCEPT ![sector[tail]] = logblk[tail]]
        /\ UNCHANGED <<logblk, hn, hsector>>
    BY <1>2, SMTT(40) DEF InstallTrans, ImageInv
  <2>2. ASSUME NEW b \in Blocks PROVE Recovered'[b] = Recovered[b]
    BY <2>1 DEF Recovered, RecoverImage
  <2>. QED  BY Zenon, <2>2 DEF Recovered, RecoverImage
<1>3. CASE EraseHead
  <2>1. /\ \A i \in 0 .. hn - 1 : home[hsector[i]] = logblk[i]
        /\ hn' = 0 /\ UNCHANGED <<home, logblk, hsector>>
    BY <1>3 DEF EraseHead, ImageInv
  <2>2. ASSUME NEW b \in Blocks PROVE Recovered'[b] = Recovered[b]
    <3>. DEFINE I == CHOOSE i \in 0 .. hn - 1 : hsector[i] = b
    <3>1. Recovered'[b] = home[b]
      BY <2>1 DEF Recovered, RecoverImage
    <3>2. CASE \E i \in 0 .. hn - 1 : hsector[i] = b
      <4>1. I \in 0 .. hn - 1 /\ hsector[I] = b
        BY Zenon, <3>2
      <4>2. Recovered[b] = logblk[I]
        BY <3>2 DEF Recovered, RecoverImage
      <4>. QED  BY <2>1, <3>1, <4>1, <4>2
    <3>3. CASE ~(\E i \in 0 .. hn - 1 : hsector[i] = b)
      BY <3>1, <3>3 DEF Recovered, RecoverImage
    <3>. QED  BY Zenon, <3>2, <3>3
  <2>. QED  BY Zenon, <2>2 DEF Recovered, RecoverImage
<1>4. CASE UNCHANGED disk
  BY <1>4 DEF disk, Recovered
<1>5. \/ WriteLog \/ InstallTrans \/ EraseHead \/ UNCHANGED disk
  <2>1. ASSUME NEW p \in Procs, InsideOp(p) PROVE UNCHANGED disk
    BY <2>1, InsideOpFacts
  <2>2. ASSUME NEW p \in Procs, BeginOp(p) \/ EndOp(p) \/ EndCommit(p)
        PROVE  UNCHANGED disk
    BY <2>2 DEF BeginOp, EndOp, EndCommit
  <2>3. ReadHead \/ CacheStep \/ Crash \/ UNCHANGED vars => UNCHANGED disk
    BY DEF ReadHead, CacheStep, ReadIn, Evict, Crash, vars
  <2>. QED  BY <2>1, <2>2, <2>3 DEF Next, ProcStep, CommitStep, InsideOp
<1>. QED  BY <1>1, <1>2, <1>3, <1>4, <1>5

\* The commit point: every logged sector takes its buffer's contents.
LEMMA CommitPoint ==
  ASSUME TypeOK, PhaseInv, ImageInv, WriteHead
  PROVE  /\ Active = {}
         /\ Recovered' = [b \in Blocks |-> IF b \in Logged THEN Bread(b) ELSE Recovered[b]]
<1>. USE DEF TypeOK, Slots
<1>1. Active = {}
  BY DEF WriteHead, PhaseInv, Active, Open
<1>2. /\ hn = 0 /\ hn' = n /\ UNCHANGED <<home, logblk>>
      /\ \A i \in 0 .. n - 1 : hsector'[i] = sector[i]
      /\ \A i \in 0 .. n - 1 : logblk[i] = Bread(sector[i])
  BY SMTT(40) DEF WriteHead, ImageInv, CopySectors
<1>3. \A b \in Blocks : Recovered[b] = home[b]
  BY <1>2 DEF Recovered, RecoverImage
<1>4. ASSUME NEW b \in Blocks
      PROVE  Recovered'[b] = IF b \in Logged THEN Bread(b) ELSE Recovered[b]
  <2>. DEFINE I == CHOOSE i \in 0 .. hn' - 1 : hsector'[i] = b
  <2>1. CASE b \in Logged
    <3>1. \E i \in 0 .. hn' - 1 : hsector'[i] = b
      BY Zenon, <1>2, <2>1 DEF Logged
    <3>2. I \in 0 .. hn' - 1 /\ hsector'[I] = b
      BY Zenon, <3>1
    <3>3. Recovered'[b] = logblk'[I]
      BY <3>1 DEF Recovered, RecoverImage
    <3>4. logblk'[I] = Bread(b)
      BY <1>2, <3>2
    <3>. QED  BY <2>1, <3>3, <3>4
  <2>2. CASE b \notin Logged
    <3>1. ~(\E i \in 0 .. hn' - 1 : hsector'[i] = b)
      BY <1>2, <2>2 DEF Logged
    <3>2. Recovered'[b] = home'[b]
      BY Zenon, <3>1 DEF Recovered, RecoverImage
    <3>. QED  BY <1>2, <1>3, <2>2, <3>2
  <2>. QED  BY Zenon, <2>1, <2>2
<1>5. Recovered' = [b \in Blocks |-> Recovered'[b]]
  BY DEF Recovered, RecoverImage
<1>. QED  BY <1>1, <1>4, <1>5

-----------------------------------------------------------------------------
SafeInv == TypeOK /\ PhaseInv /\ CleanInv /\ ImageInv /\ WakeInv

\* The part of the invariant that holds however calls of log_write overlap.
THEOREM SafeInvHolds == Spec => []SafeInv
<1>1. Init => SafeInv
  <2>. SUFFICES ASSUME Init PROVE SafeInv
    OBVIOUS
  <2>1. TypeOK
    BY DEF Init, TypeOK, ZeroSectors, Slots, Phases, PCs
  <2>2. Open = {}
    BY DEF Init, Open, InOp, InLogWrite
  <2>3. PhaseInv
    BY <2>2, FS_EmptySet DEF Init, PhaseInv
  <2>4. CleanInv /\ ImageInv
    BY DEF Init, CleanInv, ImageInv
  <2>5. WakeInv
    BY DEF Init, WakeInv, NoLostWakeup
  <2>. QED  BY <2>1, <2>3, <2>4, <2>5 DEF SafeInv
<1>2. TypeOK /\ SafeInv /\ TypeOK' /\ [Next]_vars => SafeInv'
  BY PhaseStep, CleanStep, ImageStep, WakeStep DEF SafeInv
<1>. QED
  BY <1>1, <1>2, TypeCorrect, PTL DEF Spec

\* A process asleep in begin_op always has a wakeup(&log) still to come: the
\* log has an operation in progress, or commit() is running.
THEOREM NoLostWakeupHolds == Spec => []NoLostWakeup
<1>1. SafeInv => NoLostWakeup
  BY DEF SafeInv, WakeInv
<1>. QED
  BY <1>1, SafeInvHolds, PTL

\* What the disk holds after a power failure changes at the header write of
\* commit() only, when no operation is in progress, and then for all logged
\* sectors at once: however log_write calls overlap, wherever a commit or a
\* recovery is interrupted.
THEOREM CommitIsAtomicHolds == Spec => CommitIsAtomic
<1>1. SafeInv /\ [Next]_vars =>
        [Recovered' # Recovered =>
           /\ WriteHead
           /\ Active = {}
           /\ Recovered' = [b \in Blocks |-> IF b \in Logged THEN Bread(b)
                                             ELSE Recovered[b]]]_vars
  BY RecoveredStep, CommitPoint DEF SafeInv
<1>. QED
  BY <1>1, SafeInvHolds, PTL DEF Spec, CommitIsAtomic
=============================================================================
