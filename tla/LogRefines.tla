----------------------------- MODULE LogRefines -----------------------------
(***************************************************************************)
(* Proofs about Log.tla when calls of log_write do not overlap, for every  *)
(* number of processes, blocks and values and every log size: every pinned *)
(* sector is in log.lh, a commit writes all of them, and Log implements    *)
(* AtomicDisk.                                                             *)
(***************************************************************************)
EXTENDS LogProofs

USE LogAssumption, SMTT(30), Z3T(30), Zenon DEF LogAssumption

\* A range that grows.
LEMMA Wider == ASSUME NEW a \in Int, NEW b \in Int, a <= b, NEW i \in 0 .. a - 1 PROVE i \in 0 .. b - 1
  OBVIOUS

\* A step that pins no further buffer, drops no entry of log.lh and does not
\* advance install_trans leaves every pinned sector in log.lh.
LEMMA PinnedFrame ==
  ASSUME TypeOK, PinnedInv,
         dirty' \subseteq dirty, n' \in Int, n <= n',
         \A i \in 0 .. n - 1 : sector'[i] = sector[i],
         phase' = "install" => tail' = 0 \/ (phase = "install" /\ tail' = tail)
  PROVE  PinnedInv'
<1>. SUFFICES ASSUME NEW b \in dirty'
              PROVE  \E i \in 0 .. n' - 1 : sector'[i] = b /\ (phase' = "install" => i >= tail')
  BY Zenon DEF PinnedInv
<1>1. PICK i \in 0 .. n - 1 : sector[i] = b /\ (phase = "install" => i >= tail)
  BY DEF PinnedInv
<1>2. i \in 0 .. n' - 1
  <2>1. n \in Int
    BY DEF TypeOK
  <2>. QED  BY Zenon, <1>1, <2>1, Wider
<1>3. sector'[i] = b /\ (phase' = "install" => i >= tail')
  BY <1>1
<1>. QED  BY Zenon, <1>2, <1>3

\* Steps that touch no state of a process inside log_write.
LEMMA SerialFrame ==
  ASSUME TypeOK, SerialInv,
         UNCHANGED <<n, sector, dirty>>,
         \A q \in Procs : pc'[q] \in InLogWrite \cup {"pin"} =>
           pc'[q] = pc[q] /\ idx'[q] = idx[q] /\ reg'[q] = reg[q] /\ blk'[q] = blk[q],
         phase' = "install" => tail' = 0 \/ (phase = "install" /\ tail' = tail)
  PROVE  SerialInv'
<1>0. OneWriter /\ IndexInv /\ PinnedInv
  BY DEF SerialInv
<1>1. OneWriter'
  BY <1>0 DEF OneWriter
<1>2. IndexInv'
  <2>. SUFFICES ASSUME NEW q \in Procs, pc'[q] \in InLogWrite \cup {"pin"}
                PROVE  IndexInv!(q)'
    BY DEF IndexInv, InLogWrite
  <2>1. pc'[q] = pc[q] /\ idx'[q] = idx[q] /\ reg'[q] = reg[q] /\ blk'[q] = blk[q]
    OBVIOUS
  <2>2. IndexInv!(q)
    BY <1>0 DEF IndexInv
  <2>. QED  BY <2>1, <2>2
<1>3. PinnedInv'
  <2>1. n' \in Int /\ n <= n'
    BY DEF TypeOK
  <2>2. dirty' \subseteq dirty /\ \A i \in 0 .. n - 1 : sector'[i] = sector[i]
    OBVIOUS
  <2>. QED  BY <1>0, <2>1, <2>2, PinnedFrame
<1>. QED  BY <1>1, <1>2, <1>3 DEF SerialInv

\* Without overlapping calls, every step of log_write keeps the index it found
\* good, and every pinned sector in log.lh.
LEMMA SerialStep ==
  ASSUME ~OVERLAP
  PROVE  SafeInv /\ SerialInv /\ [Next]_vars => SerialInv'
<1>. SUFFICES ASSUME SafeInv, SerialInv, [Next]_vars PROVE SerialInv'
  OBVIOUS
<1>a. TypeOK
  BY DEF SafeInv
<1>b. OneWriter /\ IndexInv /\ PinnedInv
  BY DEF SerialInv
<1>c. /\ n \in Int /\ LOGSIZE \in Int /\ n >= 0 /\ n <= LOGSIZE
      /\ pc \in [Procs -> PCs]
      /\ sector \in [Slots -> Blocks]
  BY <1>a, LogAssumption DEF TypeOK
<1>d. /\ idx \in [Procs -> Int] /\ reg \in [Procs -> Int]
      /\ \A q \in Procs : idx[q] >= 0
      /\ blk \in [Procs -> Blocks]
  BY <1>a, <1>c DEF TypeOK
<1>1. ASSUME NEW p \in Procs, BeginOp(p) \/ EndOp(p) \/ EndCommit(p)
      PROVE SerialInv'
  <2>1. \A q \in Procs : pc'[q] \in InLogWrite \cup {"pin"} => pc'[q] = pc[q]
    <3>1. CASE BeginOp(p)
      BY <3>1, <1>c DEF BeginOp, InLogWrite
    <3>2. CASE EndOp(p)
      BY <3>2, <1>c DEF EndOp, WakeLog, InLogWrite
    <3>3. CASE EndCommit(p)
      BY <3>3, <1>c DEF EndCommit, WakeLog, InLogWrite
    <3>. QED  BY <1>1, <3>1, <3>2, <3>3
  <2>2. UNCHANGED <<n, sector, dirty, idx, reg, blk>>
    BY <1>1 DEF BeginOp, EndOp, EndCommit, lh, bufs, locals
  <2>3. phase' = "install" => phase = "install" /\ UNCHANGED tail
    BY <1>1 DEF BeginOp, EndOp, EndCommit
  <2>. QED  BY <1>a, <2>1, <2>2, <2>3, SerialFrame
<1>2. ASSUME NEW p \in Procs, NEW b \in Blocks, NEW v \in Values, Modify(p, b, v)
      PROVE SerialInv'
  <2>1. \A q \in Procs : pc'[q] \in InLogWrite \cup {"pin"} =>
          pc'[q] = pc[q] /\ idx'[q] = idx[q] /\ reg'[q] = reg[q] /\ blk'[q] = blk[q]
    BY <1>2, <1>c, <1>d DEF Modify, InLogWrite
  <2>2. UNCHANGED <<n, sector, dirty, phase, tail>>
    BY <1>2 DEF Modify, hdr, lh
  <2>. QED  BY <1>a, <2>1, <2>2, SerialFrame
<1>3. ASSUME NEW p \in Procs, LogWriteEnter(p) PROVE SerialInv'
  <2>1. \A q \in Procs : pc[q] \notin InLogWrite
    BY <1>3 DEF LogWriteEnter
  <2>2. /\ UNCHANGED <<n, sector, dirty, idx, reg, blk, phase, tail>>
        /\ \A q \in Procs : pc'[q] = pc[q] \/ (q = p /\ pc'[q] \in {"panic", "scan"})
    BY <1>3, <1>c DEF LogWriteEnter, hdr, lh, bufs, locals
  <2>3. OneWriter'
    BY <2>1, <2>2 DEF OneWriter, InLogWrite
  <2>4. ASSUME NEW q \in Procs PROVE IndexInv!(q)'
    <3>1. IndexInv!(q)
      BY <1>b DEF IndexInv
    <3>2. CASE pc'[q] = pc[q]
      BY <3>1, <3>2, <2>2
    <3>3. CASE pc'[q] \in {"panic", "scan"}
      BY <3>3
    <3>. QED  BY <3>2, <3>3, <2>2
  <2>5. PinnedInv'
    BY <1>a, <1>b, <1>c, <2>2, PinnedFrame
  <2>. QED  BY <2>3, <2>4, <2>5 DEF SerialInv, IndexInv
<1>4. ASSUME NEW p \in Procs, LogWriteScan(p) PROVE SerialInv'
  <2>1. PICK i \in 0 .. n : ScanStopsAt(blk[p], i) /\ idx' = [idx EXCEPT ![p] = i]
    BY Zenon, <1>4 DEF LogWriteScan
  <2>2. /\ UNCHANGED <<n, sector, dirty, reg, blk, phase, tail>>
        /\ pc[p] = "scan" /\ pc' = [pc EXCEPT ![p] = "store"]
    BY <1>4 DEF LogWriteScan, hdr, lh, bufs
  <2>3. OneWriter'
    BY <1>b, <1>c, <2>2 DEF OneWriter, InLogWrite
  <2>4. ASSUME NEW q \in Procs PROVE IndexInv!(q)'
    <3>1. IndexInv!(q)
      BY <1>b DEF IndexInv
    <3>2. CASE q # p
      <4>1. pc'[q] = pc[q] /\ idx'[q] = idx[q]
        BY <3>2, <1>c, <1>d, <2>1, <2>2
      <4>. QED  BY <3>1, <4>1, <2>2
    <3>3. CASE q = p
      <4>1. pc'[p] = "store" /\ idx'[p] = i
        BY <1>c, <1>d, <2>1, <2>2
      <4>2. i <= n /\ (i = n \/ sector[i] = blk[p])
        BY <2>1, <1>c DEF ScanStopsAt
      <4>. QED  BY <3>3, <4>1, <4>2, <2>2
    <3>. QED  BY <3>2, <3>3
  <2>5. PinnedInv'
    BY <1>a, <1>b, <1>c, <2>2, PinnedFrame
  <2>. QED  BY <2>3, <2>4, <2>5 DEF SerialInv, IndexInv
<1>5. ASSUME NEW p \in Procs, LogWriteStore(p) PROVE SerialInv'
  <2>0. pc[p] = "store" /\ idx[p] <= n /\ (idx[p] = n \/ sector[idx[p]] = blk[p])
    BY <1>5, <1>b DEF LogWriteStore, IndexInv
  <2>1. /\ UNCHANGED <<n, dirty, idx, reg, blk, phase, tail>>
        /\ \A q \in Procs \ {p} : pc'[q] = pc[q]
        /\ pc'[p] \in {"check", "panic"}
    BY <1>5, <1>c DEF LogWriteStore, bufs, locals
  <2>2. pc'[p] = "check" => idx[p] < LOGSIZE /\ sector'[idx[p]] = blk[p]
    <3>1. CASE idx[p] < LOGSIZE
      <4>1. idx[p] \in Slots
        BY <3>1, <1>c, <1>d DEF Slots
      <4>. QED  BY <3>1, <4>1, <1>5, <1>c DEF LogWriteStore
    <3>2. CASE ~(idx[p] < LOGSIZE)
      BY <3>2, <1>5, <1>c DEF LogWriteStore
    <3>. QED  BY <3>1, <3>2
  <2>3. ASSUME NEW i \in 0 .. n - 1 PROVE sector'[i] = sector[i]
    <3>1. i \in Slots
      BY <1>c DEF Slots
    <3>2. CASE i = idx[p]
      <4>1. sector[idx[p]] = blk[p]
        BY <3>2, <2>0, <1>c
      <4>. QED  BY <3>1, <3>2, <4>1, <1>5, <1>c DEF LogWriteStore
    <3>3. CASE i # idx[p]
      BY <3>1, <3>3, <1>5, <1>c DEF LogWriteStore
    <3>. QED  BY <3>2, <3>3
  <2>4. OneWriter'
    <3>. SUFFICES ASSUME NEW q \in Procs, NEW r \in Procs,
                         pc'[q] \in InLogWrite, pc'[r] \in InLogWrite
                  PROVE  q = r
      BY DEF OneWriter
    <3>1. pc[q] \in InLogWrite /\ pc[r] \in InLogWrite
      BY <2>0, <2>1 DEF InLogWrite
    <3>. QED  BY <3>1, <1>b DEF OneWriter
  <2>5. ASSUME NEW q \in Procs, q # p PROVE pc'[q] \notin InLogWrite
    <3>1. pc[q] \notin InLogWrite
      BY <2>0, <2>5, <1>b DEF OneWriter, InLogWrite
    <3>. QED  BY <3>1, <2>1, <2>5
  <2>6. ASSUME NEW q \in Procs PROVE IndexInv!(q)'
    <3>1. CASE q # p /\ pc'[q] # "pin"
      BY <3>1, <2>5 DEF InLogWrite
    <3>2. CASE q # p /\ pc'[q] = "pin"
      <4>1. pc[q] = "pin"
        BY <3>2, <2>1
      <4>2. PICK i \in 0 .. n - 1 : sector[i] = blk[q]
        BY <4>1, <1>b DEF IndexInv
      <4>3. i \in 0 .. n' - 1 /\ sector'[i] = blk'[q]
        BY <4>2, <2>1, <2>3
      <4>. QED  BY <3>2, <4>3
    <3>3. CASE q = p
      BY <3>3, <2>0, <2>1, <2>2
    <3>. QED  BY <3>1, <3>2, <3>3
  <2>7. PinnedInv'
    BY <1>a, <1>b, <1>c, <2>1, <2>3, PinnedFrame
  <2>. QED  BY <2>4, <2>6, <2>7 DEF SerialInv, IndexInv
<1>6. ASSUME NEW p \in Procs, LogWriteCheck(p) \/ LogWriteLoad(p) PROVE SerialInv'
  <2>1. /\ UNCHANGED <<n, sector, dirty, idx, blk, phase, tail>>
        /\ \A q \in Procs \ {p} : pc'[q] = pc[q] /\ reg'[q] = reg[q]
        /\ pc[p] \in {"check", "load"}
    BY <1>6, <1>c, <1>d DEF LogWriteCheck, LogWriteLoad, hdr, lh, bufs, locals
  <2>2. \/ pc[p] = "check" /\ idx[p] = n /\ pc'[p] = "load"
        \/ pc[p] = "check" /\ idx[p] # n /\ pc'[p] = "pin"
        \/ pc[p] = "load" /\ pc'[p] = "inc" /\ reg'[p] = n
    BY <1>6, <1>c, <1>d DEF LogWriteCheck, LogWriteLoad
  <2>3. OneWriter'
    <3>. SUFFICES ASSUME NEW q \in Procs, NEW r \in Procs,
                         pc'[q] \in InLogWrite, pc'[r] \in InLogWrite
                  PROVE  q = r
      BY DEF OneWriter
    <3>1. pc[q] \in InLogWrite /\ pc[r] \in InLogWrite
      BY <2>1 DEF InLogWrite
    <3>. QED  BY <3>1, <1>b DEF OneWriter
  <2>4. ASSUME NEW q \in Procs PROVE IndexInv!(q)'
    <3>1. IndexInv!(q)
      BY <1>b DEF IndexInv
    <3>2. CASE q # p
      <4>1. pc'[q] = pc[q] /\ reg'[q] = reg[q]
        BY <3>2, <2>1
      <4>. QED  BY <3>1, <4>1, <2>1
    <3>3. CASE q = p /\ pc[p] = "check" /\ idx[p] = n /\ pc'[p] = "load"
      BY <3>1, <3>3, <2>1
    <3>4. CASE q = p /\ pc[p] = "check" /\ idx[p] # n /\ pc'[p] = "pin"
      <4>1. idx[p] <= n /\ sector[idx[p]] = blk[p]
        BY <3>1, <3>4
      <4>2. idx[p] \in 0 .. n - 1
        BY <3>4, <4>1, <1>c, <1>d
      <4>. QED  BY <3>4, <4>1, <4>2, <2>1
    <3>5. CASE q = p /\ pc[p] = "load" /\ pc'[p] = "inc" /\ reg'[p] = n
      BY <3>1, <3>5, <2>1
    <3>. QED  BY <3>2, <3>3, <3>4, <3>5, <2>2
  <2>5. PinnedInv'
    BY <1>a, <1>b, <1>c, <2>1, PinnedFrame
  <2>. QED  BY <2>3, <2>4, <2>5 DEF SerialInv, IndexInv
<1>7. ASSUME NEW p \in Procs, LogWriteInc(p) PROVE SerialInv'
  <2>1. pc[p] = "inc" /\ reg[p] = n /\ n < LOGSIZE /\ sector[n] = blk[p]
    BY <1>7, <1>b DEF LogWriteInc, IndexInv
  <2>2. /\ n' = n + 1 /\ pc' = [pc EXCEPT ![p] = "pin"]
        /\ UNCHANGED <<sector, dirty, idx, reg, blk, phase, tail>>
    BY <1>7, <2>1 DEF LogWriteInc, bufs, locals
  <2>3. ASSUME NEW q \in Procs, q # p PROVE pc[q] \notin InLogWrite
    BY <2>1, <2>3, <1>b DEF OneWriter, InLogWrite
  <2>4. OneWriter'
    BY <1>b, <1>c, <2>2 DEF OneWriter, InLogWrite
  <2>5. ASSUME NEW q \in Procs PROVE IndexInv!(q)'
    <3>1. CASE q # p
      <4>1. pc'[q] = pc[q] /\ pc[q] \notin InLogWrite
        BY <3>1, <1>c, <2>2, <2>3
      <4>2. CASE pc[q] # "pin"
        BY <4>1, <4>2 DEF InLogWrite
      <4>3. CASE pc[q] = "pin"
        <5>1. PICK i \in 0 .. n - 1 : sector[i] = blk[q]
          BY <4>3, <1>b DEF IndexInv
        <5>2. i \in 0 .. n' - 1 /\ sector'[i] = blk'[q]
          BY <5>1, <1>c, <2>2
        <5>. QED  BY <4>1, <4>3, <5>2
      <4>. QED  BY <4>2, <4>3
    <3>2. CASE q = p
      <4>1. pc'[p] = "pin"
        BY <1>c, <2>2
      <4>2. n \in 0 .. n' - 1 /\ sector'[n] = blk'[p]
        BY <1>c, <2>1, <2>2
      <4>. QED  BY <3>2, <4>1, <4>2
    <3>. QED  BY <3>1, <3>2
  <2>6. PinnedInv'
    BY <1>a, <1>b, <1>c, <2>2, PinnedFrame
  <2>. QED  BY <2>4, <2>5, <2>6 DEF SerialInv, IndexInv
<1>8. ASSUME NEW p \in Procs, LogWritePin(p) PROVE SerialInv'
  <2>1. phase = "idle"
    BY Zenon, <1>8, InsideOpFacts DEF InsideOp, SafeInv, LogWritePin, InLogWrite
  <2>2. /\ UNCHANGED <<n, sector, phase, tail>>
        /\ pc[p] = "pin" /\ pc' = [pc EXCEPT ![p] = "op"]
        /\ dirty' = dirty \cup {blk[p]}
        /\ \A q \in Procs \ {p} :
             blk'[q] = blk[q] /\ idx'[q] = idx[q] /\ reg'[q] = reg[q]
    BY <1>8, <1>d DEF LogWritePin, hdr, lh
  <2>3. OneWriter'
    BY <1>b, <1>c, <2>2 DEF OneWriter, InLogWrite
  <2>4. ASSUME NEW b \in dirty'
        PROVE  \E i \in 0 .. n' - 1 : sector'[i] = b /\ (phase' = "install" => i >= tail')
    <3>1. PICK i \in 0 .. n - 1 : sector[i] = b
      <4>1. CASE b \in dirty
        BY <4>1, <1>b DEF PinnedInv
      <4>2. CASE b = blk[p]
        BY <4>2, <2>2, <1>b DEF IndexInv
      <4>. QED  BY <4>1, <4>2, <2>2
    <3>. QED  BY <3>1, <2>1, <2>2
  <2>5. ASSUME NEW q \in Procs PROVE IndexInv!(q)'
    <3>1. CASE q = p
      <4>1. pc'[q] = "op"
        BY <3>1, <1>c, <2>2
      <4>. QED  BY <4>1
    <3>2. CASE q # p
      <4>1. /\ pc'[q] = pc[q] /\ idx'[q] = idx[q] /\ blk'[q] = blk[q] /\ reg'[q] = reg[q]
            /\ n' = n /\ sector' = sector
        BY <3>2, <1>c, <2>2
      <4>2. IndexInv!(q)
        BY <1>b DEF IndexInv
      <4>. QED  BY <4>1, <4>2
    <3>. QED  BY <3>1, <3>2
  <2>. QED  BY <2>3, <2>4, <2>5 DEF SerialInv, IndexInv, PinnedInv
<1>9. CASE WriteLog \/ WriteHead
  <2>1. UNCHANGED <<n, sector, dirty, idx, reg, blk, pc>>
    BY <1>9 DEF WriteLog, WriteHead, lh, bufs, locals
  <2>2. phase' = "install" => tail' = 0 \/ (phase = "install" /\ tail' = tail)
    BY <1>9 DEF WriteLog, WriteHead
  <2>. QED  BY <1>a, <2>1, <2>2, SerialFrame
<1>10. CASE InstallTrans
  <2>1. /\ UNCHANGED <<n, sector, idx, reg, blk, phase, pc>>
        /\ phase = "install" /\ tail' = tail + 1
        /\ dirty' = dirty \ {sector[tail]}
    BY <1>10 DEF InstallTrans, lh, locals
  <2>2. ASSUME NEW b \in dirty'
        PROVE  \E i \in 0 .. n' - 1 : sector'[i] = b /\ (phase' = "install" => i >= tail')
    <3>1. PICK i \in 0 .. n - 1 : sector[i] = b /\ i >= tail
      BY <2>1, <1>b DEF PinnedInv
    <3>2. tail \in Int /\ i \in Int /\ i # tail
      BY <1>a, <1>c, <2>1, <3>1 DEF TypeOK
    <3>. QED  BY <3>1, <3>2, <2>1
  <2>3. OneWriter' /\ IndexInv'
    BY <2>1, <1>b DEF OneWriter, IndexInv
  <2>. QED  BY <2>2, <2>3 DEF SerialInv, PinnedInv
<1>11. CASE EraseHead \/ ReadHead
  <2>1. \A q \in Procs : pc'[q] \notin InLogWrite \cup {"pin"}
    BY <1>11 DEF EraseHead, ReadHead, SafeInv, PhaseInv, Open, InOp, InLogWrite
  <2>2. dirty' = {}
    BY <1>11, <1>a, <1>b DEF EraseHead, ReadHead, SafeInv, PinnedInv, WakeInv, bufs, TypeOK
  <2>. QED  BY <2>1, <2>2 DEF SerialInv, OneWriter, IndexInv, PinnedInv, InLogWrite
<1>12. CASE CacheStep \/ UNCHANGED vars
  <2>1. UNCHANGED <<n, sector, dirty, idx, reg, blk, pc, phase, tail>>
    BY <1>12 DEF CacheStep, ReadIn, Evict, vars, hdr, lh, bufs, locals
  <2>. QED  BY <1>a, <2>1, SerialFrame
<1>13. CASE Crash
  BY <1>13 DEF Crash, SerialInv, OneWriter, IndexInv, PinnedInv, InLogWrite
<1>. QED
  BY <1>1, <1>2, <1>3, <1>4, <1>5, <1>6, <1>7, <1>8, <1>9, <1>10, <1>11,
     <1>12, <1>13
  DEF Next, ProcStep, CommitStep

\* Without overlapping calls of log_write, every pinned sector is in log.lh, or
\* was and is installed.
THEOREM SerialInvHolds == ASSUME ~OVERLAP PROVE Spec => []SerialInv
<1>1. Init => SerialInv
  BY DEF Init, SerialInv, OneWriter, IndexInv, PinnedInv, InLogWrite
<1>2. SafeInv /\ SerialInv /\ [Next]_vars => SerialInv'
  BY SerialStep
<1>. QED
  BY <1>1, <1>2, SafeInvHolds, PTL DEF Spec

\* With no operation and no commit in progress every update is on disk.
THEOREM CommitWritesAllHolds == ASSUME ~OVERLAP PROVE Spec => []CommitWritesAll
<1>1. SafeInv /\ SerialInv => CommitWritesAll
  <2>. SUFFICES ASSUME SafeInv, SerialInv, phase = "idle", outstanding = 0
                PROVE  dirty = {} /\ \A b \in Blocks : Bread(b) = Recovered[b]
    BY DEF CommitWritesAll
  <2>1. Open = {} /\ n = 0 /\ hn = 0
    BY OpenCounted DEF SafeInv, WakeInv, ImageInv
  <2>2. dirty = {}
    BY <2>1 DEF SerialInv, PinnedInv
  <2>3. ASSUME NEW b \in Blocks PROVE busy[b] \notin Procs
    BY <2>1, <2>3, SMTT(40) DEF SafeInv, PhaseInv, Open, Writing, InOp
  <2>4. ASSUME NEW b \in Blocks PROVE Bread(b) = home[b]
    BY <2>2, <2>3 DEF SafeInv, CleanInv, Bread
  <2>5. ASSUME NEW b \in Blocks PROVE Recovered[b] = home[b]
    BY <2>1 DEF Recovered, RecoverImage
  <2>. QED  BY <2>2, <2>4, <2>5
<1>. QED
  BY <1>1, SafeInvHolds, SerialInvHolds, PTL

-----------------------------------------------------------------------------
\* The reader's image is that of recovery: nobody has read a buffer yet.
Booting == phase \in {"rhead", "install"} /\ committing = 0

\* A step that changes neither what a crash leaves nor what bread returns
\* changes nothing a caller can read.
LEMMA CurrentSame ==
  ASSUME Recovered' = Recovered, Booting' <=> Booting,
         \A b \in Blocks : Booting \/ Bread(b)' = Bread(b)
  PROVE  Current' = Current
<1>1. CASE Booting
  BY <1>1 DEF Booting, Current
<1>2. CASE ~Booting
  <2>1. [b \in Blocks |-> Bread(b)]' = [b \in Blocks |-> Bread(b)]
    BY <1>2
  <2>. QED  BY <1>2, <2>1 DEF Booting, Current
<1>. QED  BY <1>1, <1>2

\* When recovery ends, the buffers show exactly the recovered disk.
LEMMA RecoveryEnds ==
  ASSUME SafeInv, SerialInv, EraseHead, committing = 0
  PROVE  Current' = Current
<1>. USE DEF SafeInv, TypeOK
<1>1. /\ dirty = {} /\ hn' = 0 /\ UNCHANGED <<home, cache, logblk, hsector>>
      /\ phase' = "idle" /\ phase = "install"
  BY DEF EraseHead, SerialInv, PinnedInv, bufs
<1>2. ASSUME NEW b \in Blocks PROVE busy[b] \notin Procs
  BY <1>1 DEF PhaseInv, Open, Writing, InOp
<1>3. ASSUME NEW b \in Blocks PROVE Bread(b)' = home[b]
  BY <1>1, <1>2 DEF CleanInv, Bread
<1>4. ASSUME NEW b \in Blocks PROVE Recovered'[b] = home[b]
  BY <1>1 DEF Recovered, RecoverImage
<1>5. Recovered' = Recovered
  <2>1. ~WriteHead
    BY <1>1 DEF WriteHead
  <2>2. [Next]_vars
    BY DEF Next, CommitStep
  <2>. QED  BY <2>1, <2>2, RecoveredStep
<1>6. [b \in Blocks |-> Bread(b)]' = Recovered'
  <2>1. Recovered' = [b \in Blocks |-> Recovered'[b]]
    BY DEF Recovered, RecoverImage
  <2>. QED  BY <1>3, <1>4, <2>1
<1>7. Current' = [b \in Blocks |-> Bread(b)]'
  BY <1>1 DEF Current
<1>8. Current = Recovered
  BY <1>1 DEF Current
<1>. QED  BY <1>5, <1>6, <1>7, <1>8

\* A process step inside an operation, log_write's included, is a write of one
\* block, the end of an operation (a panic), or invisible.
LEMMA InsideRefines ==
  ASSUME SafeInv, [Next]_vars, NEW p \in Procs, InsideOp(p)
  PROVE  [Abstract!Next]_(Abstract!vars)
<1>. USE DEF SafeInv
<1>1. /\ phase = "idle" /\ phase' = phase /\ committing' = committing
      /\ UNCHANGED disk /\ pc[p] \in InOp
      /\ \E c \in InOp \cup {"panic"} : pc' = [pc EXCEPT ![p] = c]
  BY InsideOpFacts
<1>2. Recovered' = Recovered
  BY <1>1 DEF disk, Recovered
<1>3. ~Booting /\ ~Booting'
  BY <1>1 DEF Booting
<1>4. Active' \in {Active, Active \ {p}} /\ p \in Active
  <2>1. "panic" \notin InOp
    BY DEF InOp, InLogWrite
  <2>2. PICK c \in InOp \cup {"panic"} : pc' = [pc EXCEPT ![p] = c]
    BY Zenon, <1>1
  <2>3. \A q \in Procs : pc'[q] = IF q = p THEN c ELSE pc[q]
    BY <2>2 DEF TypeOK
  <2>4. CASE c = "panic"
    BY <1>1, <2>1, <2>3, <2>4 DEF Active
  <2>5. CASE c \in InOp
    BY <1>1, <2>3, <2>5 DEF Active
  <2>. QED  BY <1>1, <2>4, <2>5 DEF Active
<1>5. CASE \E b \in Blocks \ {BootBlock}, v \in Values : Modify(p, b, v)
  <2>1. PICK b \in Blocks \ {BootBlock}, v \in Values : Modify(p, b, v)
    BY <1>5
  <2>2. ASSUME NEW c \in Blocks PROVE Bread(c)' = IF c = b THEN v ELSE Bread(c)
    BY <2>1, <1>1, LogAssumption DEF Modify, Bread, TypeOK, disk, LogAssumption
  <2>3. Current = [c \in Blocks |-> Bread(c)] /\ Current' = [c \in Blocks |-> Bread(c)]'
    BY <1>3 DEF Current, Booting
  <2>4. Current' = [Current EXCEPT ![b] = v]
    BY <2>2, <2>3
  <2>5. pc' = [pc EXCEPT ![p] = "enter"]
    BY Zenon, <2>1 DEF Modify
  <2>6. Active' = Active
    BY <1>1, <2>5 DEF Active, TypeOK, InOp
  <2>7. Abstract!Write(p, b, v)
    BY <1>2, <1>4, <2>4, <2>6 DEF Abstract!Write
  <2>. QED  BY <2>7 DEF Abstract!Next
<1>6. CASE ~\E b \in Blocks \ {BootBlock}, v \in Values : Modify(p, b, v)
  <2>1. UNCHANGED cache
    BY <1>6 DEF InsideOp, LogWriteEnter, LogWriteScan, LogWriteStore,
             LogWriteCheck, LogWriteLoad, LogWriteInc, LogWritePin, bufs
  <2>2. \A b \in Blocks : Bread(b)' = Bread(b)
    BY <2>1, <1>1 DEF Bread, disk
  <2>3. Current' = Current
    BY <2>2, <1>2, <1>3, CurrentSame
  <2>4. CASE Active' = Active
    BY <1>2, <2>3, <2>4 DEF Abstract!vars
  <2>5. CASE Active' = Active \ {p}
    <3>1. Abstract!End(p)
      BY <1>2, <1>4, <2>3, <2>5 DEF Abstract!End
    <3>. QED  BY <3>1 DEF Abstract!Next
  <2>. QED  BY <1>4, <2>4, <2>5
<1>. QED  BY <1>5, <1>6


\* begin_op and end_op begin and end an operation, or are invisible.
LEMMA OpRefines ==
  ASSUME SafeInv, [Next]_vars, NEW p \in Procs, BeginOp(p) \/ EndOp(p) \/ EndCommit(p)
  PROVE  [Abstract!Next]_(Abstract!vars)
<1>. USE DEF SafeInv
<1>1. UNCHANGED <<disk, cache>>
  BY DEF BeginOp, EndOp, EndCommit, bufs
<1>2. Recovered' = Recovered
  BY <1>1 DEF disk, Recovered
<1>3. Booting' <=> Booting
  BY Zenon, OpenCounted DEF BeginOp, EndOp, EndCommit, Booting, Open, InOp, PhaseInv, TypeOK, Phases
<1>4. \A b \in Blocks : Bread(b)' = Bread(b)
  BY Zenon, <1>1 DEF Bread, disk
<1>5. Current' = Current
  BY <1>2, <1>3, <1>4, CurrentSame
<1>6. \/ Active' = Active
      \/ p \notin Active /\ Active' = Active \cup {p}
      \/ p \in Active /\ Active' = Active \ {p}
  <2>1. "out" \notin InOp /\ "sleep" \notin InOp /\ "commit" \notin InOp
        /\ "panic" \notin InOp /\ "op" \in InOp
    BY DEF InOp, InLogWrite
  <2>2. CASE BeginOp(p)
    BY <2>1, <2>2 DEF BeginOp, Active, TypeOK
  <2>3. CASE EndOp(p)
    BY <2>1, <2>3 DEF EndOp, Active, WakeLog, TypeOK
  <2>4. CASE EndCommit(p)
    BY <2>1, <2>4 DEF EndCommit, Active, WakeLog, TypeOK
  <2>. QED  BY <2>2, <2>3, <2>4
<1>7. Abstract!Begin(p) \/ Abstract!End(p) \/ UNCHANGED Abstract!vars
  BY <1>2, <1>5, <1>6 DEF Abstract!Begin, Abstract!End, Abstract!vars
<1>. QED  BY <1>7 DEF Abstract!Next

\* The steps of commit(), of recovery and of the cache are invisible, except
\* the header write, which commits.
LEMMA CommitRefines ==
  ASSUME SafeInv, SerialInv, [Next]_vars, CommitStep \/ ReadHead \/ CacheStep
  PROVE  [Abstract!Next]_(Abstract!vars)
<1>. USE DEF SafeInv
<1>1. Active' = Active
  BY DEF CommitStep, WriteLog, WriteHead, InstallTrans, EraseHead, ReadHead,
         CacheStep, ReadIn, Evict, Active
<1>2. ASSUME Recovered' = Recovered, Current' = Current
      PROVE  [Abstract!Next]_(Abstract!vars)
  BY <1>1, <1>2 DEF Abstract!vars
<1>3. CASE WriteHead
  <2>1. /\ committing = 1 /\ UNCHANGED <<home, cache, committing>> /\ phase = "wlog"
        /\ hn = 0
    BY Zenon, <1>3 DEF WriteHead, PhaseInv, bufs, ImageInv
  <2>2. ~Booting /\ ~Booting'
    BY <2>1 DEF Booting
  <2>3. \A b \in Blocks : Bread(b)' = Bread(b)
    BY <2>1 DEF Bread
  <2>4. Current = [b \in Blocks |-> Bread(b)] /\ Current' = [b \in Blocks |-> Bread(b)]'
    BY <2>2 DEF Current, Booting
  <2>5. Active = {} /\ Recovered' = [b \in Blocks |-> IF b \in Logged THEN Bread(b)
                                                       ELSE Recovered[b]]
    BY <1>3, CommitPoint
  <2>6. ASSUME NEW b \in Blocks, b \notin Logged PROVE Bread(b) = Recovered[b]
    <3>1. b \notin dirty
      BY <2>6 DEF SerialInv, PinnedInv, Logged
    <3>2. busy[b] \notin Procs
      BY <2>1 DEF PhaseInv, Open, Writing, InOp
    <3>3. Recovered[b] = home[b]
      BY <2>1 DEF Recovered, RecoverImage
    <3>. QED  BY <3>1, <3>2, <3>3 DEF CleanInv, Bread
  <2>7. Recovered' = Current
    BY <2>4, <2>5, <2>6
  <2>8. Current' = Current
    BY <2>3, <2>4
  <2>9. Abstract!Commit
    BY <1>1, <2>5, <2>7, <2>8 DEF Abstract!Commit
  <2>. QED  BY <2>9 DEF Abstract!Next
<1>4. CASE ~WriteHead
  <2>1. Recovered' = Recovered
    BY <1>4, RecoveredStep
  <2>2. CASE EraseHead /\ committing = 0
    BY <1>2, <2>1, <2>2, RecoveryEnds
  <2>3. CASE CacheStep
    <3>1. Booting' <=> Booting
      BY <2>3 DEF Booting, CacheStep, ReadIn, Evict, hdr
    <3>. QED  BY <1>2, <2>1, <2>3, <3>1, BreadCache, CurrentSame
  <2>4. CASE ReadHead
    <3>1. Booting /\ Booting'
      BY Zenon, <2>4 DEF ReadHead, Booting, PhaseInv
    <3>. QED  BY <1>2, <2>1, <3>1, CurrentSame
  <2>5. CASE EraseHead /\ committing = 1
    <3>1. ~Booting /\ ~Booting' /\ UNCHANGED <<home, cache>>
      BY <2>5 DEF EraseHead, Booting, bufs
    <3>2. \A b \in Blocks : Bread(b)' = Bread(b)
      BY <3>1 DEF Bread
    <3>. QED  BY <1>2, <2>1, <3>1, <3>2, CurrentSame
  <2>6. CASE WriteLog
    <3>1. Booting' <=> Booting
      BY <2>6 DEF WriteLog, Booting
    <3>2. \A b \in Blocks : Bread(b)' = Bread(b)
      BY <2>6 DEF WriteLog, Bread, TypeOK, Slots
    <3>. QED  BY <1>2, <2>1, <3>1, <3>2, CurrentSame
  <2>7. CASE InstallTrans
    <3>1. (Booting' <=> Booting) /\ (~Booting => committing = 1)
      BY <2>7 DEF InstallTrans, Booting, TypeOK
    <3>2. ASSUME committing = 1, NEW b \in Blocks PROVE Bread(b)' = Bread(b)
      <4>1. logblk[tail] = Bread(sector[tail]) /\ logblk[tail] \in Values
        <5>1. phase = "install" /\ tail \in 0 .. n - 1 /\ tail \in Slots
          <6>1. phase = "install" /\ tail < n
            BY <2>7 DEF InstallTrans
          <6>2. n \in 0 .. LOGSIZE /\ tail \in 0 .. LOGSIZE
            BY DEF TypeOK
          <6>. QED  BY <6>1, <6>2, LogAssumption DEF Slots, LogAssumption
        <5>2. \A i \in 0 .. n - 1 : logblk[i] = Bread(sector[i])
          BY <3>2, <5>1 DEF ImageInv
        <5>3. logblk[tail] \in Values
          BY <5>1 DEF TypeOK
        <5>. QED  BY <5>1, <5>2, <5>3
      <4>2. /\ cache' = [cache EXCEPT ![sector[tail]] = logblk[tail]]
            /\ home' = [home EXCEPT ![sector[tail]] = logblk[tail]]
        BY <2>7 DEF InstallTrans
      <4>. QED  BY <4>1, <4>2, LogAssumption DEF Bread, TypeOK, LogAssumption
    <3>. QED  BY <1>2, <2>1, <3>1, <3>2, CurrentSame
  <2>. QED  BY <1>4, <2>2, <2>3, <2>4, <2>5, <2>6, <2>7 DEF CommitStep, TypeOK
<1>. QED  BY <1>3, <1>4

\* A power failure forgets the operations in progress and leaves the disk.
LEMMA CrashRefines ==
  ASSUME Crash
  PROVE  [Abstract!Next]_(Abstract!vars)
<1>1. Recovered' = Recovered /\ Booting'
  BY DEF Crash, disk, Recovered, Booting
<1>2. Current' = Recovered'
  BY <1>1 DEF Current, Booting
<1>3. Active' = {}
  BY DEF Crash, Active, InOp, InLogWrite
<1>4. Abstract!PowerFail
  BY <1>1, <1>2, <1>3 DEF Abstract!PowerFail
<1>. QED  BY <1>4 DEF Abstract!Next

\* log.c implements the abstract transactional disk: every step of Log is a
\* step of AtomicDisk or invisible.
THEOREM LogImplementsAtomicDisk ==
  ASSUME ~OVERLAP PROVE Spec => ImplementsAtomicDisk
<1>1. Init => Abstract!Init
  <2>. SUFFICES ASSUME Init PROVE Abstract!Init
    OBVIOUS
  <2>1. hn = 0 /\ home \in [Blocks -> Values] /\ Booting
    BY DEF Init, Booting
  <2>2. Recovered = [b \in Blocks |-> home[b]]
    BY <2>1 DEF Recovered, RecoverImage
  <2>3. Recovered \in [Blocks -> Values]
    BY <2>1, <2>2
  <2>4. Current = Recovered
    BY <2>1 DEF Current, Booting
  <2>5. Active = {}
    BY DEF Init, Active, InOp, InLogWrite
  <2>. QED  BY <2>3, <2>4, <2>5 DEF Abstract!Init
<1>2. SafeInv /\ SerialInv /\ [Next]_vars => [Abstract!Next]_(Abstract!vars)
  <2>. SUFFICES ASSUME SafeInv, SerialInv, [Next]_vars
                PROVE  [Abstract!Next]_(Abstract!vars)
    OBVIOUS
  <2>1. CASE UNCHANGED vars
    <3>1. Recovered' = Recovered /\ Active' = Active
      BY <2>1 DEF vars, disk, Recovered, Active
    <3>2. Current' = Current
      BY <2>1, <3>1 DEF vars, hdr, bufs, disk, Current, Bread
    <3>. QED  BY <3>1, <3>2 DEF Abstract!vars
  <2>2. CASE Crash
    BY <2>2, CrashRefines
  <2>3. CASE CommitStep \/ ReadHead \/ CacheStep
    BY <2>3, CommitRefines
  <2>4. ASSUME NEW p \in Procs, InsideOp(p) PROVE [Abstract!Next]_(Abstract!vars)
    BY <2>4, InsideRefines
  <2>5. ASSUME NEW p \in Procs, BeginOp(p) \/ EndOp(p) \/ EndCommit(p)
        PROVE  [Abstract!Next]_(Abstract!vars)
    BY <2>5, OpRefines
  <2>. QED
    BY <2>1, <2>2, <2>3, <2>4, <2>5 DEF Next, ProcStep, InsideOp
<1>. QED
  BY <1>1, <1>2, SafeInvHolds, SerialInvHolds, PTL
  DEF Spec, ImplementsAtomicDisk, Abstract!Spec
=============================================================================
