---------------------------- MODULE ExIdeProofs ----------------------------
(***************************************************************************)
(* The steps of ex_ide.c keep the invariant of BlockProofs.tla.  With it,  *)
(* when the kernel's block I/O and the direct read do not overlap: the     *)
(* cache is coherent, the drive works on the head of the queue, nobody is  *)
(* left asleep, and a direct read delivers the file.                       *)
(***************************************************************************)
EXTENDS BlockProofs

USE IdeAssumption, SMTT(30), Z3T(30), Zenon DEF PCs, IdeAssumption

\* sys_ExFileRead makes the nodes of the whole file.
LEMMA ExFileReadKeeps ==
  ASSUME DriveTypes, BufTypes, ExTypes, HoldInv, FlagInv, QueueInv, DriveInv,
         OneBufPerSector, CleanIsOnDisk, ChainInv, ExFileRead
  PROVE  BlockInv'
<1>. USE DEF Nodes, Null
<1>1. N \in Nat /\ N >= 1 /\ \A i \in 1 .. N : File[i] \in Sectors
  BY FileFacts
<1>2. UNCHANGED <<disk, drive, intr, idequeue, bufs, pc, arg, panicked, lru, want>>
  BY DEF ExFileRead, bvars
<1>7. DriveTypes' /\ BufTypes'
  BY <1>2, TypesFrame DEF drive, bufs
<1>3. ExTypes'
  <2>2. node' \in [Nodes -> [sector : Sectors, location : 0 .. N + 1, next : 0 .. N + 1]]
    BY <1>1 DEF ExFileRead
  <2>3. /\ exqueue' \in 0 .. N + 1 /\ last' \in 0 .. N + 1 /\ transfercount' \in 0 .. N + 1
        /\ mem' \in [0 .. N + 1 -> Vals \cup {NoVal}] /\ xpc' \in {"out", "filled", "reading"}
    BY <1>1 DEF ExFileRead
  <2>. QED  BY <2>2, <2>3 DEF ExTypes
<1>4. HoldInv' /\ FlagInv' /\ QueueInv' /\ OneBufPerSector' /\ CleanIsOnDisk'
  BY <1>2, KernelFrame DEF bufs
<1>5. DriveInv'
  BY <1>2 DEF DriveInv, FirstIsActive, ExFileRead, drive, bufs
<1>6. ChainInv'
  BY <1>1 DEF ChainInv, ExFileRead, Block, Surplus
<1>. QED  BY <1>3, <1>4, <1>5, <1>6, <1>7 DEF BlockInv

\* The direct read starts when the drive has nothing else to do.
LEMMA ExReadSectorKeeps ==
  ASSUME DriveTypes, BufTypes, ExTypes, HoldInv, FlagInv, QueueInv, DriveInv,
         OneBufPerSector, CleanIsOnDisk, ChainInv, ExReadSector, ~SHARED
  PROVE  BlockInv'
<1>1. /\ xpc = "filled" /\ xpc' = "reading" /\ idequeue = <<>> /\ intr = 0
      /\ exqueue \in Nodes /\ node[exqueue].sector \in Sectors
  BY DEF ExReadSector, Quiet, ChainInv, ExTypes
<1>2. DriveTypes' /\ BufTypes' /\ ExTypes'
  <2>1. DriveTypes'
    BY <1>1 DEF DriveTypes, ExReadSector, ideread
  <2>2. BufTypes'
    BY BufTypesFrame DEF ExReadSector
  <2>3. ExTypes'
    BY <1>1 DEF ExTypes, ExReadSector
  <2>. QED  BY <2>1, <2>2, <2>3
<1>3. HoldInv' /\ FlagInv' /\ QueueInv' /\ OneBufPerSector' /\ CleanIsOnDisk'
  BY KernelFrame DEF ExReadSector, bufs
<1>4. DriveInv'
  BY <1>1 DEF DriveInv, FirstIsActive, ExReadSector, ideread, bufs
<1>5. ChainInv'
  BY <1>1 DEF ChainInv, ExReadSector
<1>. QED  BY <1>2, <1>3, <1>4, <1>5 DEF BlockInv

\* ex_ideintr puts the sector in its block and goes on to the next node.  The
\* surplus node goes nowhere: either its fields are gone, or its sector is one
\* the drive cannot read.
LEMMA ExIdeIntrKeeps ==
  ASSUME DriveTypes, BufTypes, ExTypes, HoldInv, FlagInv, QueueInv, DriveInv,
         OneBufPerSector, CleanIsOnDisk, ChainInv, ExIdeIntr(1)
  PROVE  /\ BlockInv'
         /\ xpc' = "out" => \A i \in 1 .. N : File[i] \in Good => mem'[i] = disk[File[i]]
<1>. USE DEF Nodes, Null
<1>. DEFINE h == exqueue
<1>1. N \in Nat /\ N >= 1 /\ BootSector \in Sectors
  BY FileFacts
<1>2. intr = 1 /\ idequeue = <<>> /\ xpc = "reading" /\ busy = 0
  BY DEF ExIdeIntr, DriveInv
<1>3. h \in 1 .. N + 1 /\ transfercount \in 0 .. N + 1 /\ transfercount < h
  BY <1>2 DEF ChainInv, ExTypes
<1>4. csec = node[h].sector /\ (csec \in Good => port = disk[csec])
  BY <1>2 DEF DriveInv
<1>5. /\ node \in [1 .. N + 1 -> [sector : Sectors, location : 0 .. N + 1, next : 0 .. N + 1]]
      /\ mem \in [0 .. N + 1 -> Vals \cup {NoVal}] /\ last \in 0 .. N + 1
  BY DEF ExTypes
<1>6. csec \in Sectors
  <2>1. node[h] \in [sector : Sectors, location : 0 .. N + 1, next : 0 .. N + 1]
    BY <1>3, <1>5
  <2>. QED  BY <1>4, <2>1
<1>7. port \in Vals \cup {NoVal} /\ disk \in [Sectors -> Vals]
  BY Zenon DEF DriveTypes
<1>8. /\ intr' = 0 /\ idequeue' = <<>> /\ disk' = disk
      /\ UNCHANGED <<panicked, bsector, bdata, valid, dirty, holder, pc, arg, lru, want>>
  BY <1>2, <1>3 DEF ExIdeIntr, bufs
<1>9. /\ ExTake(h)
      /\ \/ exqueue' = 0 /\ driverest(csec \notin Faults) /\ xpc' = "out"
         \/ exqueue' # 0 /\ ideread(node'[exqueue'].sector) /\ xpc' = xpc
  BY <1>3 DEF ExIdeIntr
<1>10. \A i \in h .. N : node[i] = Block(i)
  BY <1>2 DEF ChainInv
<1>11. node[N + 1] = IF h = N + 1 /\ File[N] \in Good THEN Zeroed ELSE Surplus
  BY <1>2 DEF ChainInv
<1>12. \A i \in 1 .. N : i < h /\ File[i] \in Good => mem[i] = disk[File[i]]
  BY <1>2 DEF ChainInv
<1>. HIDE DEF h
<1>13. HoldInv' /\ FlagInv' /\ QueueInv' /\ OneBufPerSector' /\ CleanIsOnDisk' /\ BufTypes'
  BY <1>2, <1>8, KernelFrame, BufTypesFrame DEF bufs
<1>14. ASSUME NEW s \in Sectors, ideread(s), xpc' = "reading", s = node'[exqueue'].sector
       PROVE  DriveTypes' /\ DriveInv'
  <2>1. DriveTypes'
    BY <1>2, <1>8, <1>14 DEF DriveTypes, ideread
  <2>2. DriveInv'
    BY <1>8, <1>14 DEF DriveInv, FirstIsActive, ideread
  <2>. QED  BY <2>1, <2>2
<1>15. CASE h <= N
  <2>1. node[h] = Block(h)
    BY <1>1, <1>3, <1>10, <1>15
  <2>2. csec = File[h] /\ node[h].next = h + 1 /\ node[h].location = h
    BY <1>4, <2>1 DEF Block
  <2>3. exqueue' = h + 1 /\ last' = last
    BY <1>3, <1>9, <2>2 DEF ExTake
  <2>4. xpc' = "reading" /\ ideread(node'[h + 1].sector)
    BY <1>2, <1>3, <1>9, <2>3
  <2>5. h + 1 \in 1 .. N + 1 /\ h \in 1 .. N
    BY <1>1, <1>3, <1>15
  <2>6. CASE csec \in Faults
    <3>1. mem' = mem /\ node' = node /\ transfercount' = transfercount
      BY <1>9, <2>6 DEF ExTake
    <3>2. File[h] \notin Good
      BY <2>2, <2>6 DEF Good
    <3>3. ChainInv'
      <4>1. \A i \in h + 1 .. N : node'[i] = Block(i)
        BY <1>1, <1>3, <1>10, <3>1
      <4>2. node'[N + 1] = IF h + 1 = N + 1 /\ File[N] \in Good THEN Zeroed ELSE Surplus
        BY <1>1, <1>3, <1>11, <1>15, <3>1, <3>2
      <4>3. \A i \in 1 .. N : i < h + 1 /\ File[i] \in Good => mem'[i] = disk'[File[i]]
        <5>. SUFFICES ASSUME NEW i \in 1 .. N, i < h + 1, File[i] \in Good
                      PROVE  mem'[i] = disk'[File[i]]
          OBVIOUS
        <5>1. i # h
          BY <3>2
        <5>2. i < h
          BY <1>1, <1>3, <5>1
        <5>. QED  BY <1>8, <1>12, <3>1, <5>2
      <4>4. transfercount' < h + 1
        BY <1>1, <1>3, <3>1
      <4>. QED  BY <2>3, <2>4, <2>5, <4>1, <4>2, <4>3, <4>4 DEF ChainInv
    <3>4. ExTypes'
      BY <1>1, <1>3, <1>5, <2>3, <2>4, <2>5, <3>1 DEF ExTypes
    <3>5. DriveTypes' /\ DriveInv'
      <4>1. node'[h + 1].sector \in Sectors
        BY <1>5, <2>5, <3>1
      <4>. QED  BY <1>14, <2>3, <2>4, <4>1
    <3>. QED  BY <1>13, <2>4, <3>3, <3>4, <3>5, Zenon DEF BlockInv
  <2>7. CASE csec \notin Faults
    <3>1. mem' = [mem EXCEPT ![h] = port] /\ transfercount' = transfercount + 1
      BY <1>9, <2>2, <2>7 DEF ExTake
    <3>2. node' = IF h = N THEN [node EXCEPT ![N + 1] = Zeroed] ELSE node
      BY <1>9, <2>2, <2>7 DEF ExTake, Overwrite, Zeroed
    <3>3. node' \in [1 .. N + 1 -> [sector : Sectors, location : 0 .. N + 1, next : 0 .. N + 1]]
      BY <1>1, <1>5, <3>2 DEF Zeroed
    <3>4. port = disk[File[h]] /\ File[h] \in Good
      BY <1>4, <1>6, <2>2, <2>7 DEF Good
    <3>5. ChainInv'
      <4>1. \A i \in h + 1 .. N : node'[i] = Block(i)
        BY <1>1, <1>3, <1>5, <1>10, <3>2
      <4>2. node'[N + 1] = IF h + 1 = N + 1 /\ File[N] \in Good THEN Zeroed ELSE Surplus
        <5>1. CASE h = N
          BY <1>1, <1>5, <3>2, <3>4, <5>1
        <5>2. CASE h # N
          BY <1>1, <1>3, <1>11, <1>15, <3>2, <5>2
        <5>. QED  BY <5>1, <5>2
      <4>3. \A i \in 1 .. N : i < h + 1 /\ File[i] \in Good => mem'[i] = disk'[File[i]]
        <5>1. mem'[h] = disk[File[h]]
          BY <1>1, <1>5, <2>5, <3>1, <3>4
        <5>2. \A i \in 1 .. N : i # h => mem'[i] = mem[i]
          BY <1>1, <1>5, <3>1
        <5>3. \A i \in 1 .. N : i < h + 1 => i < h \/ i = h
          BY <1>1, <1>3
        <5>. QED  BY <1>3, <1>8, <1>12, <5>1, <5>2, <5>3
      <4>4. transfercount' < h + 1
        BY <1>1, <1>3, <3>1
      <4>. QED  BY <2>3, <2>4, <2>5, <4>1, <4>2, <4>3, <4>4 DEF ChainInv
    <3>6. ExTypes'
      <4>1. transfercount' \in 0 .. N + 1
        BY <1>1, <1>3, <1>15, <3>1
      <4>2. mem' \in [0 .. N + 1 -> Vals \cup {NoVal}]
        BY Zenon, <1>5, <1>7, <3>1
      <4>3. exqueue' \in 0 .. N + 1 /\ last' \in 0 .. N + 1 /\ xpc' = "reading"
        BY <1>1, <1>5, <2>3, <2>4, <2>5
      <4>. QED  BY <3>3, <4>1, <4>2, <4>3 DEF ExTypes
    <3>7. DriveTypes' /\ DriveInv'
      <4>1. node'[h + 1].sector \in Sectors
        BY <2>5, <3>3
      <4>. QED  BY <1>14, <2>3, <2>4, <4>1
    <3>. QED  BY <1>13, <2>4, <3>5, <3>6, <3>7, Zenon DEF BlockInv
  <2>. QED  BY <2>6, <2>7
<1>16. CASE h = N + 1
  <2>1. node[h].next = 0 /\ node[h].location \in {0, N + 1}
    BY <1>11, <1>16 DEF Zeroed, Surplus
  <2>2. exqueue' = 0 /\ last' = 0
    BY <1>9, <2>1 DEF ExTake
  <2>3. xpc' = "out" /\ driverest(csec \notin Faults)
    BY <1>9, <2>2
  <2>4. mem' = mem \/ (csec \notin Faults /\ mem' = [mem EXCEPT ![node[h].location] = port])
    BY <1>9 DEF ExTake
  <2>5. \A i \in 1 .. N : File[i] \in Good => mem'[i] = disk[File[i]]
    <3>1. CASE File[N] \in Good
      <4>1. node[h].location = 0
        BY <1>11, <1>16, <3>1 DEF Zeroed
      <4>2. \A i \in 1 .. N : mem'[i] = mem[i]
        BY <1>1, <1>5, <2>4, <4>1
      <4>. QED  BY <1>1, <1>12, <1>16, <4>2
    <3>2. CASE File[N] \notin Good
      <4>1. csec = File[N]
        BY <1>4, <1>11, <1>16, <3>2 DEF Surplus
      <4>2. csec \in Faults
        BY <1>6, <3>2, <4>1 DEF Good
      <4>. QED  BY <1>1, <1>12, <1>16, <2>4, <4>2
    <3>. QED  BY <3>1, <3>2
  <2>6. ChainInv'
    BY <2>2, <2>3 DEF ChainInv
  <2>7. DriveTypes'
    BY <1>2, <1>8, <2>3 DEF DriveTypes, driverest
  <2>8. DriveInv'
    BY <1>2, <1>8, <2>3 DEF DriveInv, FirstIsActive, driverest
  <2>9. ExTypes'
    <3>1. node' = node
      BY <1>1, <1>9, <2>1 DEF ExTake, Overwrite
    <3>2. mem' \in [0 .. N + 1 -> Vals \cup {NoVal}]
      BY Zenon, <1>1, <1>5, <1>7, <2>1, <2>4
    <3>3. transfercount' \in {transfercount, transfercount + 1}
      BY <1>9 DEF ExTake
    <3>4. transfercount' \in 0 .. N + 1
      BY <1>1, <1>3, <1>16, <3>3
    <3>. QED  BY <1>1, <1>5, <2>2, <2>3, <3>1, <3>2, <3>4 DEF ExTypes
  <2>. QED  BY <1>13, <2>5, <2>6, <2>7, <2>8, <2>9, Zenon DEF BlockInv
<1>. QED  BY <1>1, <1>3, <1>15, <1>16

\* BlockInv holds at the start, and every step keeps it.
THEOREM BlockInductive == ASSUME ~SHARED PROVE Spec => []BlockInv
<1>1. Init => BlockInv
  <2>. SUFFICES ASSUME Init PROVE BlockInv
    OBVIOUS
  <2>0. N \in Nat /\ N >= 1 /\ BootSector \in Sectors
    BY FileFacts
  <2>. USE DEF Init, BioInit
  <2>1. DriveTypes /\ BufTypes /\ ExTypes
    <3>1. DriveTypes
      BY DEF DriveTypes
    <3>2. BufTypes
      BY DEF BufTypes
    <3>. QED  BY <2>0, <3>1, <3>2 DEF ExTypes, Nodes, Null
  <2>2. HoldInv /\ FlagInv /\ QueueInv
    BY DEF HoldInv, Holding, FlagInv, QueueInv, Queued
  <2>3. DriveInv /\ OneBufPerSector /\ CleanIsOnDisk /\ ChainInv
    BY DEF DriveInv, FirstIsActive, OneBufPerSector, CleanIsOnDisk, ChainInv
  <2>. QED  BY <2>1, <2>2, <2>3 DEF BlockInv
<1>2. BlockInv /\ [Next]_vars => BlockInv'
  <2>. SUFFICES ASSUME BlockInv, [Next]_vars PROVE BlockInv'
    OBVIOUS
  <2>0. /\ DriveTypes /\ BufTypes /\ ExTypes /\ HoldInv /\ FlagInv /\ QueueInv /\ DriveInv
        /\ OneBufPerSector /\ CleanIsOnDisk /\ ChainInv
    BY DEF BlockInv
  <2>1. CASE Kernel
    <3>1. UNCHANGED exo /\ (xpc # "reading" \/ idequeue' = idequeue)
      BY <2>1 DEF Kernel
    <3>2. CASE BioIde
      BY <2>0, <3>1, <3>2, DriveDoneKeeps, IdeIntrKeeps, IderwKeeps, IderwResumeKeeps DEF BioIde
    <3>3. ASSUME NEW p \in Procs, Bget(p) \/ Brelse(p) PROVE BlockInv'
      BY <2>0, <3>1, <3>3, BgetKeeps, BrelseKeeps
    <3>4. ASSUME NEW p \in Procs, NEW s \in Sectors, Bread(p, s) PROVE BlockInv'
      BY <2>0, <3>1, <3>4, BreadKeeps
    <3>5. ASSUME NEW p \in Procs, NEW v \in Vals, Bwrite(p, v) \/ LogWrite(p, v) PROVE BlockInv'
      BY <2>0, <3>1, <3>5, BwriteKeeps, LogWriteKeeps
    <3>. QED  BY <2>1, <3>2, <3>3, <3>4, <3>5 DEF Kernel, BioNext
  <2>2. CASE ExFileRead
    BY <2>0, <2>2, ExFileReadKeeps
  <2>3. CASE ExReadSector
    BY <2>0, <2>3, ExReadSectorKeeps
  <2>4. CASE ExIdeIntr(1)
    BY <2>0, <2>4, ExIdeIntrKeeps
  <2>5. CASE UNCHANGED vars
    <3>1. /\ UNCHANGED <<disk, cmd, csec, cval, busy, port, intr, idequeue>>
          /\ UNCHANGED <<bsector, bdata, valid, dirty, holder, pc, arg, panicked, lru, want>>
          /\ UNCHANGED <<node, exqueue, last, transfercount, mem, xpc>>
      BY <2>5 DEF vars, bvars, drive, bufs, exo
    <3>2. DriveTypes' /\ BufTypes'
      BY <2>0, <3>1, TypesFrame
    <3>3. HoldInv' /\ FlagInv' /\ QueueInv' /\ OneBufPerSector' /\ CleanIsOnDisk'
      BY <2>0, <3>1, KernelFrame
    <3>4. DriveInv' /\ ExTypes' /\ ChainInv'
      BY <2>0, <3>1, DriveFrame, ExFrame DEF drive, exo
    <3>. QED  BY <3>2, <3>3, <3>4 DEF BlockInv
  <2>. QED  BY <2>1, <2>2, <2>3, <2>4, <2>5 DEF Next
<1>. QED  BY <1>1, <1>2, PTL DEF Spec

\* The cache is coherent: a sector has one buffer, and a clean buffer has the
\* sector's contents, whatever requests are under way.
THEOREM Coherence == ASSUME ~SHARED PROVE Spec => []CacheCoherent
<1>1. BlockInv => CacheCoherent
  BY Types DEF BlockInv, CacheCoherent
<1>. QED  BY <1>1, BlockInductive, PTL

\* The drive works on the head of the queue, or has finished with it and is
\* about to say so: no completion is attributed to the wrong buffer.
THEOREM ActiveSafety == ASSUME ~SHARED PROVE Spec => []FirstIsActive
<1>1. BlockInv => FirstIsActive
  BY DEF BlockInv, DriveInv
<1>. QED  BY <1>1, BlockInductive, PTL

\* Nobody sleeps on a buffer that nobody works on.
THEOREM SleeperSafety == ASSUME ~SHARED PROVE Spec => []NoForgottenSleeper
<1>1. BlockInv => NoForgottenSleeper
  <2>. SUFFICES ASSUME BlockInv, NEW p \in Procs
                PROVE  /\ pc[p] = "iosleep" => \E i \in DOMAIN idequeue : idequeue[i] = arg[p]
                       /\ pc[p] = "getsleep" => holder[arg[p]] # NoProc
    BY Zenon DEF NoForgottenSleeper
  <2>1. pc[p] = "iosleep" => arg[p] \in Queued
    BY DEF BlockInv, QueueInv
  <2>2. pc[p] = "getsleep" => holder[arg[p]] # NoProc
    BY DEF BlockInv, HoldInv
  <2>. QED  BY <2>1, <2>2 DEF Queued
<1>. QED  BY <1>1, BlockInductive, PTL

\* At the end of a direct read every readable sector of the file is in its
\* place.
THEOREM Delivery == ASSUME ~SHARED PROVE Spec => FileDelivered
<1>. DEFINE Arrived == xpc = "reading" /\ xpc' = "out"
                         => \A i \in 1 .. N : File[i] \in Good => mem'[i] = disk[File[i]]
<1>1. BlockInv /\ [Next]_vars => [Arrived]_vars
  <2>. SUFFICES ASSUME BlockInv, Next, xpc = "reading", xpc' = "out" PROVE Arrived
    BY DEF Arrived
  <2>1. ExIdeIntr(1)
    BY DEF Next, Kernel, ExFileRead, ExReadSector, exo
  <2>. QED  BY <2>1, ExIdeIntrKeeps DEF BlockInv
<1>. QED  BY <1>1, BlockInductive, PTL DEF Spec, FileDelivered
=============================================================================
