---------------------------- MODULE BlockProofs ----------------------------
(***************************************************************************)
(* The inductive invariant of ide.c, bio.c and ex_ide.c (ExIde.tla) when   *)
(* the kernel's block I/O and the direct read do not overlap, for every    *)
(* number of processes, buffers, sectors and contents and every file, and  *)
(* that the steps of ide.c and bio.c keep it.                              *)
(***************************************************************************)
EXTENDS ExIde, TLAPS

\* Where a process has the buffer in arg.
Holding == {"rw", "iosleep", "io", "have"}

\* holder and arg agree; who waits in bget waits for a holder; a buffer that
\* is held has a sector.
HoldInv ==
  /\ \A p \in Procs : pc[p] \in Holding => arg[p] \in Bufs /\ holder[arg[p]] = p
  /\ \A b \in Bufs : holder[b] \in Procs => arg[holder[b]] = b /\ pc[holder[b]] \in Holding
  /\ \A p \in Procs : pc[p] = "getsleep" => arg[p] \in Bufs /\ holder[arg[p]] # NoProc
  /\ \A p \in Procs : pc[p] \in {"get", "getsleep"} => want[p] \in Sectors
  /\ \A b \in Bufs : holder[b] # NoProc => bsector[b] \in Sectors

\* The flags of a buffer tell where its holder is.
FlagInv ==
  /\ dirty \subseteq valid
  /\ \A b \in dirty : bdata[b] \in Vals
  /\ \A p \in Procs : pc[p] = "have" => arg[p] \in valid
  /\ \A p \in Procs : pc[p] = "io" => arg[p] \in valid \ dirty
  /\ \A p \in Procs : pc[p] \in {"rw", "iosleep"} => arg[p] \notin valid \ dirty

\* The queue holds the buffers whose holders sleep in iderw.
Queued == {idequeue[i] : i \in DOMAIN idequeue}
QueueInv ==
  /\ \A b \in Queued : holder[b] \in Procs /\ pc[holder[b]] = "iosleep"
  /\ \A p \in Procs : pc[p] = "iosleep" => arg[p] \in Queued

\* The drive works for the head of the queue or for the direct read, and for
\* nobody else; its answer is the right one.
DriveInv ==
  /\ intr = 1 => busy = 0
  /\ idequeue = <<>> /\ xpc # "reading" => busy = 0 /\ intr = 0
  /\ xpc = "reading" => /\ idequeue = <<>>
                        /\ cmd = "read" /\ csec = node[exqueue].sector
                        /\ busy = 1 \/ intr = 1
  /\ FirstIsActive
  /\ busy = 1 => csec \in Sectors
  /\ busy = 1 /\ cmd = "write" => cval = bdata[idequeue[1]]
  /\ intr = 1 /\ csec \in Good =>
       IF cmd = "write" THEN disk[csec] = bdata[idequeue[1]] ELSE port = disk[csec]

\* The nodes still to be read are as sys_ExFileRead made them, but for the
\* surplus one once the last block has arrived, and what has been read is in
\* its place.
Block(i) == [sector |-> File[i], location |-> i, next |-> i + 1]
Surplus == [sector |-> File[N], location |-> N + 1, next |-> Null]
Zeroed == [sector |-> BootSector, location |-> 0, next |-> Null]
ChainInv ==
  /\ xpc = "out" => exqueue = Null
  /\ xpc = "filled" => exqueue = 1
  /\ xpc # "out" =>
       /\ exqueue \in Nodes /\ transfercount < exqueue
       /\ \A i \in exqueue .. N : node[i] = Block(i)
       /\ node[N + 1] = IF exqueue = N + 1 /\ File[N] \in Good THEN Zeroed ELSE Surplus
       /\ \A i \in 1 .. N : i < exqueue /\ File[i] \in Good => mem[i] = disk[File[i]]

\* The type invariant in three parts: the drive and its queue, the cache and
\* its users, the direct read.
DriveTypes ==
  /\ disk \in [Sectors -> Vals]
  /\ cmd \in {"none", "read", "write"} /\ csec \in Sectors \cup {NoSector}
  /\ cval \in Vals \cup {NoVal} /\ port \in Vals \cup {NoVal}
  /\ busy \in {0, 1} /\ intr \in {0, 1}
  /\ idequeue \in Seq(Bufs)
  /\ \A i, j \in DOMAIN idequeue : idequeue[i] = idequeue[j] => i = j
BufTypes ==
  /\ bsector \in [Bufs -> Sectors \cup {NoSector}] /\ bdata \in [Bufs -> Vals \cup {NoVal}]
  /\ valid \subseteq Bufs /\ dirty \subseteq Bufs
  /\ holder \in [Bufs -> Procs \cup {NoProc}]
  /\ pc \in [Procs -> PCs]
  /\ arg \in [Procs -> Bufs \cup {NoBuf}] /\ want \in [Procs -> Sectors \cup {NoSector}]
  /\ lru \in Orders /\ panicked \in {0, 1}
ExTypes ==
  /\ node \in [Nodes -> [sector : Sectors, location : 0 .. N + 1, next : 0 .. N + 1]]
  /\ exqueue \in 0 .. N + 1 /\ last \in 0 .. N + 1
  /\ transfercount \in 0 .. N + 1
  /\ mem \in [0 .. N + 1 -> Vals \cup {NoVal}]
  /\ xpc \in {"out", "filled", "reading"}

\* The inductive invariant.
BlockInv ==
  /\ DriveTypes /\ BufTypes /\ ExTypes /\ HoldInv /\ FlagInv /\ QueueInv /\ DriveInv
  /\ OneBufPerSector /\ CleanIsOnDisk /\ ChainInv
-----------------------------------------------------------------------------
USE IdeAssumption, SMTT(30), Z3T(30), Zenon DEF PCs, IdeAssumption

\* The file has a block, and its blocks are sectors.
LEMMA FileFacts ==
  N \in Nat /\ N >= 1 /\ BootSector \in Sectors /\ \A i \in 1 .. N : File[i] \in Sectors
BY ExIdeAssumption DEF ExIdeAssumption, N

\* The three parts are the type invariant.
LEMMA Types == DriveTypes /\ BufTypes /\ ExTypes => ExoTypeOK
BY DEF DriveTypes, BufTypes, ExTypes, ExoTypeOK, TypeOK

\* What the kernel's block I/O rests on stays when its state does.
LEMMA KernelFrame ==
  ASSUME HoldInv, FlagInv, QueueInv, OneBufPerSector, CleanIsOnDisk,
         UNCHANGED <<disk, idequeue, bsector, bdata, valid, dirty, holder, pc, arg, want>>
  PROVE  HoldInv' /\ FlagInv' /\ QueueInv' /\ OneBufPerSector' /\ CleanIsOnDisk'
<1>1. HoldInv'
  BY DEF HoldInv
<1>2. FlagInv'
  BY DEF FlagInv
<1>3. QueueInv'
  BY DEF QueueInv, Queued
<1>4. OneBufPerSector'
  BY DEF OneBufPerSector
<1>5. CleanIsOnDisk'
  BY DEF CleanIsOnDisk
<1>. QED  BY <1>1, <1>2, <1>3, <1>4, <1>5

\* The kernel's types stay when its state does.
LEMMA TypesFrame ==
  ASSUME DriveTypes, BufTypes,
         UNCHANGED <<disk, cmd, csec, cval, busy, port, intr, idequeue, bsector, bdata, valid, dirty,
                     holder, pc, arg, want, lru, panicked>>
  PROVE  DriveTypes' /\ BufTypes'
<1>1. DriveTypes'
  BY DEF DriveTypes
<1>2. BufTypes'
  BY DEF BufTypes
<1>. QED  BY <1>1, <1>2

\* The buffers' types do when they, their users and panicked stay.
LEMMA BufTypesFrame ==
  ASSUME BufTypes, UNCHANGED <<bufs, pc, arg, want, lru, panicked>>
  PROVE  BufTypes'
BY DEF BufTypes, bufs

\* What is known of the drive stays when it and the buffers' contents do.
LEMMA DriveFrame ==
  ASSUME DriveTypes, DriveInv,
         UNCHANGED <<disk, drive, intr, idequeue, bsector, bdata, dirty, exo>>
  PROVE  DriveTypes' /\ DriveInv'
<1>1. UNCHANGED <<disk, cmd, csec, cval, busy, port, intr, idequeue, bsector, bdata, dirty,
                  node, exqueue, xpc>>
  BY DEF drive, exo
<1>2. DriveTypes'
  BY <1>1 DEF DriveTypes
<1>3. DriveInv'
  BY <1>1 DEF DriveInv, FirstIsActive
<1>. QED  BY <1>2, <1>3

\* It stays when only buffers other than the head of the queue change.
LEMMA HeadFrame ==
  ASSUME DriveInv, UNCHANGED <<disk, drive, intr, exo>>,
         idequeue' = <<>> <=> idequeue = <<>>,
         idequeue # <<>> => /\ idequeue'[1] = idequeue[1]
                            /\ bsector'[idequeue[1]] = bsector[idequeue[1]]
                            /\ bdata'[idequeue[1]] = bdata[idequeue[1]]
                            /\ idequeue[1] \in dirty' <=> idequeue[1] \in dirty
  PROVE  DriveInv'
<1>1. UNCHANGED <<disk, cmd, csec, cval, busy, port, intr, node, exqueue, xpc>>
  BY DEF drive, exo
<1>2. CASE idequeue = <<>>
  BY <1>1, <1>2 DEF DriveInv, FirstIsActive
<1>3. CASE idequeue # <<>>
  BY <1>1, <1>3 DEF DriveInv, FirstIsActive
<1>. QED  BY <1>2, <1>3

\* A request is started on the head of the queue.
LEMMA StartKeeps ==
  ASSUME NEW b, idestart(b), idequeue' # <<>>, idequeue'[1] = b, bsector[b] \in Sectors,
         bsector'[b] = bsector[b], bdata'[b] = bdata[b], b \in dirty' <=> b \in dirty,
         intr' = 0, xpc' # "reading"
  PROVE  DriveInv'
BY DEF DriveInv, FirstIsActive, idestart

\* What is known of the direct read stays when its state and the disk do.
LEMMA ExFrame ==
  ASSUME ExTypes, ChainInv, UNCHANGED <<disk, exo>>
  PROVE  ExTypes' /\ ChainInv'
<1>1. UNCHANGED <<disk, node, exqueue, last, transfercount, mem, xpc>>
  BY DEF exo
<1>2. ExTypes'
  BY <1>1 DEF ExTypes
<1>3. ChainInv'
  BY <1>1 DEF ChainInv
<1>. QED  BY <1>2, <1>3

\* No request is in the queue twice.
Once(q) == \A i, j \in DOMAIN q : q[i] = q[j] => i = j

\* A request joins the queue at its end.
LEMMA QueueAppend ==
  ASSUME NEW q \in Seq(Bufs), Once(q), NEW b \in Bufs, \A i \in DOMAIN q : q[i] # b
  PROVE  /\ Append(q, b) \in Seq(Bufs) /\ Once(Append(q, b))
         /\ {Append(q, b)[i] : i \in DOMAIN Append(q, b)} = {q[i] : i \in DOMAIN q} \cup {b}
         /\ Append(q, b) # <<>> /\ Append(q, b) # q
         /\ Append(q, b)[1] = IF q = <<>> THEN b ELSE q[1]
<1>. DEFINE r == Append(q, b)
<1>1. /\ r \in Seq(Bufs) /\ Len(q) \in Nat
      /\ DOMAIN r = 1 .. Len(q) + 1 /\ DOMAIN q = 1 .. Len(q)
      /\ \A i \in 1 .. Len(q) : r[i] = q[i]
      /\ r[Len(q) + 1] = b
      /\ r # <<>> /\ r # q
      /\ q = <<>> => Len(q) = 0
      /\ q # <<>> => Len(q) > 0
  OBVIOUS
<1>. HIDE DEF r
<1>2. Once(r)
  BY <1>1 DEF Once
<1>3. {r[i] : i \in DOMAIN r} = {q[i] : i \in DOMAIN q} \cup {b}
  <2>1. ASSUME NEW i \in DOMAIN r PROVE r[i] \in {q[j] : j \in DOMAIN q} \cup {b}
    BY <1>1
  <2>2. ASSUME NEW i \in DOMAIN q PROVE \E j \in DOMAIN r : r[j] = q[i]
    BY <1>1
  <2>3. \E j \in DOMAIN r : r[j] = b
    BY <1>1
  <2>. QED  BY <2>1, <2>2, <2>3
<1>4. r[1] = IF q = <<>> THEN b ELSE q[1]
  BY <1>1
<1>. QED  BY <1>1, <1>2, <1>3, <1>4, Zenon DEF r

\* A request that is done leaves the queue at its head.
LEMMA QueueTail ==
  ASSUME NEW q \in Seq(Bufs), Once(q), q # <<>>
  PROVE  /\ Tail(q) \in Seq(Bufs) /\ Once(Tail(q))
         /\ q[1] \in Bufs /\ q[1] \in {q[i] : i \in DOMAIN q}
         /\ {Tail(q)[i] : i \in DOMAIN Tail(q)} = {q[i] : i \in DOMAIN q} \ {q[1]}
         /\ Tail(q) # <<>> => Tail(q)[1] \in {q[i] : i \in DOMAIN q} \ {q[1]}
<1>. DEFINE r == Tail(q)
<1>1. /\ r \in Seq(Bufs) /\ Len(q) \in Nat /\ Len(q) > 0
      /\ DOMAIN r = 1 .. Len(q) - 1 /\ DOMAIN q = 1 .. Len(q)
      /\ \A i \in 1 .. Len(q) - 1 : r[i] = q[i + 1]
      /\ r # <<>> => Len(q) > 1
      /\ q[1] \in Bufs
  OBVIOUS
<1>. HIDE DEF r
<1>2. Once(r)
  <2>. SUFFICES ASSUME NEW i \in DOMAIN r, NEW j \in DOMAIN r, r[i] = r[j] PROVE i = j
    BY DEF Once
  <2>1. i + 1 \in DOMAIN q /\ j + 1 \in DOMAIN q /\ q[i + 1] = q[j + 1]
    BY <1>1
  <2>2. i + 1 = j + 1
    BY <2>1 DEF Once
  <2>. QED  BY <1>1, <2>2
<1>3. {r[i] : i \in DOMAIN r} = {q[i] : i \in DOMAIN q} \ {q[1]}
  <2>1. ASSUME NEW i \in DOMAIN r PROVE r[i] \in {q[j] : j \in DOMAIN q} \ {q[1]}
    <3>1. i + 1 \in DOMAIN q /\ r[i] = q[i + 1] /\ 1 \in DOMAIN q /\ i + 1 # 1
      BY <1>1
    <3>. QED  BY <3>1 DEF Once
  <2>2. ASSUME NEW i \in DOMAIN q, q[i] # q[1] PROVE \E j \in DOMAIN r : r[j] = q[i]
    <3>1. i - 1 \in DOMAIN r /\ r[i - 1] = q[i]
      BY <1>1, <2>2
    <3>. QED  BY <3>1
  <2>. QED  BY <2>1, <2>2
<1>4. q[1] \in {q[i] : i \in DOMAIN q}
  BY <1>1
<1>5. r # <<>> => r[1] \in {r[i] : i \in DOMAIN r}
  <2>1. r # <<>> => 1 \in DOMAIN r
    BY <1>1
  <2>. QED  BY <2>1
<1>. QED  BY <1>1, <1>2, <1>3, <1>4, <1>5, Zenon DEF r

\* The head of the queue is one of the buffers queued.
LEMMA HeadQueued ==
  ASSUME DriveTypes
  PROVE  Queued \subseteq Bufs /\ (idequeue # <<>> => idequeue[1] \in Queued)
BY DEF DriveTypes, Queued

\* The drive finishes: a written sector is the head's, and the head is the
\* only buffer of that sector.
LEMMA DriveDoneKeeps ==
  ASSUME DriveTypes, BufTypes, ExTypes, HoldInv, FlagInv, QueueInv, DriveInv,
         OneBufPerSector, CleanIsOnDisk, ChainInv,
         DriveDone, UNCHANGED <<lru, want, exo>>
  PROVE  BlockInv'
<1>1. DriveTypes'
  BY DEF DriveTypes, DriveDone, DriveInv, FirstIsActive, FlagInv
<1>0. BufTypes' /\ ExTypes'
  <2>1. BufTypes'
    BY DEF BufTypes, DriveDone, bufs
  <2>2. ExTypes'
    BY DEF ExTypes, exo
  <2>. QED  BY <2>1, <2>2
<1>2. HoldInv' /\ FlagInv' /\ QueueInv' /\ OneBufPerSector'
  BY DEF HoldInv, FlagInv, QueueInv, OneBufPerSector, DriveDone, bufs, Queued
<1>3. DriveInv'
  BY DEF DriveTypes, DriveInv, FirstIsActive, DriveDone, bufs, exo, Good
<1>4. CleanIsOnDisk'
  <2>. SUFFICES ASSUME NEW b \in valid \ dirty, bsector[b] \in Good
                PROVE  bdata[b] = disk'[bsector[b]]
    BY DEF CleanIsOnDisk, DriveDone, bufs, Good
  <2>1. bdata[b] = disk[bsector[b]] /\ bsector[b] # NoSector /\ b \in Bufs
    BY DEF CleanIsOnDisk, BufTypes, Good
  <2>2. cmd = "write" => csec = bsector[idequeue[1]] /\ idequeue[1] \in dirty
    BY DEF DriveInv, FirstIsActive, DriveDone
  <2>3. cmd = "write" => csec # bsector[b]
    BY <2>1, <2>2 DEF OneBufPerSector, BufTypes
  <2>. QED  BY <2>1, <2>3 DEF DriveDone, DriveTypes
<1>5. ChainInv'
  <2>1. UNCHANGED <<node, exqueue, transfercount, mem, xpc>>
    BY DEF exo
  <2>2. xpc \in {"out", "filled", "reading"}
    BY DEF ExTypes
  <2>3. xpc = "reading" => disk' = disk
    BY DEF DriveDone, DriveInv
  <2>4. xpc = "filled" => \A i \in 1 .. N : ~(i < exqueue)
    BY DEF ChainInv
  <2>. QED  BY <2>1, <2>2, <2>3, <2>4 DEF ChainInv
<1>. QED  BY <1>0, <1>1, <1>2, <1>3, <1>4, <1>5 DEF BlockInv

\* iderw never meets its panics, queues the buffer and sleeps.
LEMMA IderwKeeps ==
  ASSUME DriveTypes, BufTypes, ExTypes, HoldInv, FlagInv, QueueInv, DriveInv,
         OneBufPerSector, CleanIsOnDisk, ChainInv,
         NEW p \in Procs, Iderw(p), UNCHANGED <<lru, want, exo>>,
         xpc # "reading" \/ idequeue' = idequeue
  PROVE  BlockInv'
<1>. DEFINE b == arg[p]
<1>1. /\ b \in Bufs /\ holder[b] = p /\ p # NoProc /\ pc[p] = "rw"
      /\ b \notin valid \ dirty /\ bsector[b] \in Sectors
  BY DEF Iderw, HoldInv, FlagInv, Holding, BufTypes
<1>2. /\ idequeue' = Append(idequeue, b)
      /\ \/ idequeue = <<>> /\ busy = 0 /\ idestart(b)
         \/ idequeue # <<>> /\ UNCHANGED drive
      /\ pc' = [pc EXCEPT ![p] = "iosleep"]
      /\ UNCHANGED <<panicked, disk, intr, bufs, arg>>
  BY <1>1 DEF Iderw
<1>3. idequeue \in Seq(Bufs) /\ Once(idequeue) /\ \A i \in DOMAIN idequeue : idequeue[i] # b
  BY <1>1 DEF DriveTypes, Once, QueueInv, Queued
<1>4. /\ idequeue' \in Seq(Bufs) /\ Once(idequeue')
      /\ Queued' = Queued \cup {b}
      /\ idequeue' # <<>> /\ idequeue' # idequeue
      /\ idequeue'[1] = IF idequeue = <<>> THEN b ELSE idequeue[1]
  <2>1. /\ Append(idequeue, b) \in Seq(Bufs) /\ Once(Append(idequeue, b))
        /\ {Append(idequeue, b)[i] : i \in DOMAIN Append(idequeue, b)}
             = {idequeue[i] : i \in DOMAIN idequeue} \cup {b}
        /\ Append(idequeue, b) # <<>> /\ Append(idequeue, b) # idequeue
        /\ Append(idequeue, b)[1] = IF idequeue = <<>> THEN b ELSE idequeue[1]
    BY <1>1, <1>3, QueueAppend
  <2>. HIDE DEF b
  <2>. QED  BY <1>2, <2>1, Zenon DEF Queued
<1>5. DriveTypes' /\ BufTypes'
  <2>1. /\ cmd' \in {"none", "read", "write"} /\ csec' \in Sectors \cup {NoSector}
        /\ cval' \in Vals \cup {NoVal} /\ port' \in Vals \cup {NoVal} /\ busy' \in {0, 1}
    BY <1>1, <1>2 DEF DriveTypes, BufTypes, idestart, drive
  <2>2. DriveTypes'
    BY <1>2, <1>4, <2>1 DEF DriveTypes, Once
  <2>3. BufTypes'
    BY <1>2 DEF BufTypes, bufs
  <2>. QED  BY <2>2, <2>3
<1>6. HoldInv' /\ FlagInv' /\ OneBufPerSector' /\ CleanIsOnDisk'
  BY <1>1, <1>2 DEF BufTypes, HoldInv, Holding, FlagInv, OneBufPerSector, CleanIsOnDisk, bufs
<1>7. QueueInv'
  BY <1>1, <1>2, <1>4 DEF BufTypes, HoldInv, QueueInv, bufs
<1>8. DriveInv'
  <2>1. CASE idequeue = <<>>
    <3>1. idestart(b) /\ intr = 0 /\ intr' = intr /\ UNCHANGED <<bsector, bdata, dirty>>
      BY Zenon, <1>2, <1>4, <2>1 DEF DriveInv, bufs
    <3>. QED  BY Zenon, <1>1, <1>4, <2>1, <3>1, StartKeeps DEF exo
  <2>2. CASE idequeue # <<>>
    BY <1>2, <1>4, <2>2, HeadFrame DEF bufs
  <2>. QED  BY <2>1, <2>2
<1>9. ExTypes' /\ ChainInv'
  BY <1>2, ExFrame
<1>. QED  BY <1>5, <1>6, <1>7, <1>8, <1>9 DEF BlockInv

\* After a wakeup the request is done: the caller goes on.
LEMMA IderwResumeKeeps ==
  ASSUME DriveTypes, BufTypes, ExTypes, HoldInv, FlagInv, QueueInv, DriveInv,
         OneBufPerSector, CleanIsOnDisk, ChainInv,
         NEW p \in Procs, IderwResume(p), UNCHANGED <<lru, want, exo>>
  PROVE  BlockInv'
<1>1. pc[p] = "io" /\ arg[p] \in valid \ dirty /\ pc' = [pc EXCEPT ![p] = "have"]
  BY Zenon DEF IderwResume, FlagInv
<1>2. UNCHANGED <<disk, drive, intr, idequeue, bsector, bdata, valid, dirty, holder, arg, panicked>>
  BY DEF IderwResume, bufs
<1>5. DriveTypes' /\ DriveInv' /\ ExTypes' /\ ChainInv'
  BY <1>2, DriveFrame, ExFrame
<1>6. BufTypes' /\ OneBufPerSector' /\ CleanIsOnDisk'
  BY <1>1, <1>2 DEF BufTypes, OneBufPerSector, CleanIsOnDisk
<1>3. HoldInv' /\ FlagInv'
  BY <1>1, <1>2 DEF BufTypes, HoldInv, Holding, FlagInv
<1>4. QueueInv'
  BY <1>1, <1>2 DEF BufTypes, HoldInv, Holding, QueueInv, Queued
<1>. QED  BY <1>3, <1>4, <1>5, <1>6 DEF BlockInv

\* ideintr gives the head what it asked for, wakes its holder and starts the
\* next request.
LEMMA IdeIntrKeeps ==
  ASSUME DriveTypes, BufTypes, ExTypes, HoldInv, FlagInv, QueueInv, DriveInv,
         OneBufPerSector, CleanIsOnDisk, ChainInv,
         IdeIntr, UNCHANGED <<lru, want, exo>>
  PROVE  BlockInv'
<1>. DEFINE b == idequeue[1]
<1>1. /\ idequeue \in Seq(Bufs) /\ Once(idequeue) /\ idequeue # <<>>
      /\ idequeue' = Tail(idequeue)
  BY DEF IdeIntr, IntrHead, DriveTypes, Once
<1>2. /\ idequeue' \in Seq(Bufs) /\ Once(idequeue') /\ b \in Bufs /\ b \in Queued
      /\ Queued' = Queued \ {b}
      /\ idequeue' # <<>> => idequeue'[1] \in Queued \ {b}
  <2>1. /\ Tail(idequeue) \in Seq(Bufs) /\ Once(Tail(idequeue))
        /\ idequeue[1] \in Bufs /\ idequeue[1] \in {idequeue[i] : i \in DOMAIN idequeue}
        /\ {Tail(idequeue)[i] : i \in DOMAIN Tail(idequeue)}
             = {idequeue[i] : i \in DOMAIN idequeue} \ {idequeue[1]}
        /\ Tail(idequeue) # <<>>
             => Tail(idequeue)[1] \in {idequeue[i] : i \in DOMAIN idequeue} \ {idequeue[1]}
    BY <1>1, QueueTail, Zenon
  <2>. QED  BY <1>1, <2>1, Zenon DEF Queued
<1>3. Queued \subseteq Bufs
  BY HeadQueued
<1>4. /\ intr = 1 /\ intr' = 0 /\ busy = 0 /\ xpc # "reading" /\ csec = bsector[b]
      /\ b \in dirty /\ csec \in Good => bdata[b] = disk[csec]
      /\ b \notin dirty /\ csec \in Good => port = disk[csec]
  BY <1>1 DEF IdeIntr, DriveInv, FirstIsActive
<1>5. /\ bdata' = IF b \in dirty \/ csec \in Faults THEN bdata ELSE [bdata EXCEPT ![b] = port]
      /\ valid' = valid \cup {b} /\ dirty' = dirty \ {b}
      /\ pc' = WakeBuf(b, pc)
      /\ UNCHANGED <<bsector, holder, disk, arg, panicked>>
  BY DEF IdeIntr, IntrHead
<1>6. \/ idequeue' # <<>> /\ idestart(idequeue'[1])
      \/ idequeue' = <<>> /\ driverest(b \notin dirty)
  BY DEF IdeIntr, IntrHead
<1>. HIDE DEF b
<1>7. DriveTypes' /\ BufTypes'
  <2>1. /\ cmd' \in {"none", "read", "write"} /\ csec' \in Sectors \cup {NoSector}
        /\ cval' \in Vals \cup {NoVal} /\ port' \in Vals \cup {NoVal} /\ busy' \in {0, 1}
    BY <1>2, <1>3, <1>6 DEF DriveTypes, BufTypes, idestart, driverest
  <2>2. DriveTypes'
    BY <1>2, <1>4, <1>5, <2>1 DEF DriveTypes, Once
  <2>3. BufTypes'
    <3>1. port \in Vals \cup {NoVal}
      BY DEF DriveTypes
    <3>. QED  BY <1>2, <1>5, <3>1 DEF BufTypes, WakeBuf
  <2>. QED  BY <2>2, <2>3
<1>8. HoldInv'
  BY <1>2, <1>5 DEF BufTypes, HoldInv, Holding, WakeBuf
<1>9. FlagInv'
  <2>1. \A q \in Procs : pc[q] = "rw" => arg[q] # b
    BY <1>2 DEF QueueInv, HoldInv, Holding
  <2>. QED  BY <1>2, <1>5, <2>1 DEF BufTypes, FlagInv, WakeBuf
<1>10. QueueInv'
  BY <1>2, <1>3, <1>5 DEF BufTypes, QueueInv, HoldInv, Holding, WakeBuf
<1>11. DriveInv'
  <2>1. CASE idequeue' # <<>> /\ idestart(idequeue'[1])
    <3>. DEFINE c == idequeue'[1]
    <3>1. c \in Bufs /\ c # b /\ holder[c] \in Procs
      BY <1>2, <1>3, <2>1 DEF QueueInv
    <3>2. bsector[c] \in Sectors
      BY <3>1 DEF HoldInv
    <3>3. bsector'[c] = bsector[c] /\ bdata'[c] = bdata[c] /\ (c \in dirty' <=> c \in dirty)
      BY <1>5, <3>1 DEF BufTypes
    <3>4. intr' = 0 /\ xpc' # "reading"
      BY <1>4 DEF exo
    <3>. QED  BY Zenon, <2>1, <3>2, <3>3, <3>4, StartKeeps
  <2>2. CASE idequeue' = <<>> /\ driverest(b \notin dirty)
    <3>1. busy' = 0 /\ intr' = 0 /\ xpc' # "reading" /\ idequeue' = <<>>
      BY <1>4, <2>2 DEF driverest, exo
    <3>. QED  BY <3>1 DEF DriveInv, FirstIsActive
  <2>. QED  BY <1>6, <2>1, <2>2
<1>12. OneBufPerSector' /\ CleanIsOnDisk'
  BY <1>2, <1>4, <1>5 DEF OneBufPerSector, CleanIsOnDisk, BufTypes, Good
<1>13. ExTypes' /\ ChainInv'
  BY <1>5, ExFrame
<1>. QED  BY <1>7, <1>8, <1>9, <1>10, <1>11, <1>12, <1>13 DEF BlockInv

\* bread is called.
LEMMA BreadKeeps ==
  ASSUME DriveTypes, BufTypes, ExTypes, HoldInv, FlagInv, QueueInv, DriveInv,
         OneBufPerSector, CleanIsOnDisk, ChainInv,
         NEW p \in Procs, NEW s \in Sectors, Bread(p, s), UNCHANGED exo
  PROVE  BlockInv'
<1>0. UNCHANGED <<disk, drive, intr, idequeue, bsector, bdata, valid, dirty, holder>>
  BY DEF Bread, cache, bufs
<1>1. DriveTypes' /\ DriveInv' /\ ExTypes' /\ ChainInv'
  BY <1>0, DriveFrame, ExFrame
<1>3. BufTypes' /\ OneBufPerSector' /\ CleanIsOnDisk'
  BY DEF BufTypes, OneBufPerSector, CleanIsOnDisk, Bread, cache, bufs
<1>2. HoldInv' /\ FlagInv' /\ QueueInv'
  BY DEF BufTypes, HoldInv, Holding, FlagInv, QueueInv, Queued, Bread, cache, bufs
<1>. QED  BY <1>1, <1>2, <1>3 DEF BlockInv

\* What bget recycles nobody holds and no request is queued for.
LEMMA RecycledFree ==
  ASSUME BufTypes, NEW b \in Recycled
  PROVE  b \in Bufs /\ holder[b] = NoProc /\ b \notin dirty
BY DEF Recycled, Recyclable, BufTypes, Orders

\* bget takes the buffer of the sector, or a free one when it has none.
LEMMA BgetKeeps ==
  ASSUME DriveTypes, BufTypes, ExTypes, HoldInv, FlagInv, QueueInv, DriveInv,
         OneBufPerSector, CleanIsOnDisk, ChainInv,
         NEW p \in Procs, Bget(p), UNCHANGED exo
  PROVE  BlockInv'
<1>1. /\ pc[p] = "get" /\ want[p] \in Sectors /\ p # NoProc
      /\ UNCHANGED <<disk, drive, intr, idequeue, bdata, lru, want>>
  BY DEF Bget, HoldInv, BufTypes
<1>2. Queued \subseteq Bufs /\ (idequeue # <<>> => idequeue[1] \in Queued)
  BY HeadQueued
<1>3. ExTypes' /\ ChainInv'
  BY Zenon, <1>1, ExFrame
<1>4. ASSUME NEW b \in Cached(want[p]), holder[b] = NoProc,
             holder' = [holder EXCEPT ![b] = p],
             pc' = [pc EXCEPT ![p] = IF b \in valid THEN "have" ELSE "rw"],
             arg' = [arg EXCEPT ![p] = b],
             UNCHANGED <<bsector, valid, dirty, panicked>>
      PROVE  BlockInv'
  <2>1. b \in Bufs /\ bsector[b] = want[p]
    BY <1>4 DEF Cached
  <2>2. DriveTypes' /\ DriveInv' /\ BufTypes' /\ OneBufPerSector' /\ CleanIsOnDisk'
    <3>1. DriveTypes' /\ DriveInv'
      BY <1>1, <1>4, DriveFrame
    <3>2. BufTypes' /\ OneBufPerSector' /\ CleanIsOnDisk'
      BY <1>1, <1>4, <2>1 DEF BufTypes, OneBufPerSector, CleanIsOnDisk
    <3>. QED  BY <3>1, <3>2
  <2>3. HoldInv'
    BY <1>1, <1>4, <2>1 DEF BufTypes, HoldInv, Holding
  <2>4. FlagInv'
    BY <1>1, <1>4, <2>1 DEF BufTypes, FlagInv
  <2>5. QueueInv'
    BY <1>1, <1>2, <1>4, <2>1 DEF BufTypes, QueueInv, Queued
  <2>. QED  BY <1>3, <2>2, <2>3, <2>4, <2>5 DEF BlockInv
<1>5. ASSUME NEW b \in Cached(want[p]), holder[b] # NoProc,
             pc' = [pc EXCEPT ![p] = "getsleep"],
             arg' = [arg EXCEPT ![p] = b],
             UNCHANGED <<holder, bsector, valid, dirty, panicked>>
      PROVE  BlockInv'
  <2>1. b \in Bufs
    BY <1>5 DEF Cached
  <2>2. DriveTypes' /\ DriveInv' /\ BufTypes' /\ OneBufPerSector' /\ CleanIsOnDisk'
    <3>1. DriveTypes' /\ DriveInv'
      BY <1>1, <1>5, DriveFrame
    <3>2. BufTypes' /\ OneBufPerSector' /\ CleanIsOnDisk'
      BY <1>1, <1>5, <2>1 DEF BufTypes, OneBufPerSector, CleanIsOnDisk
    <3>. QED  BY <3>1, <3>2
  <2>3. HoldInv' /\ FlagInv'
    BY <1>1, <1>5, <2>1 DEF BufTypes, HoldInv, Holding, FlagInv
  <2>4. QueueInv'
    BY <1>1, <1>5, <2>1 DEF BufTypes, QueueInv, Queued
  <2>. QED  BY <1>3, <2>2, <2>3, <2>4 DEF BlockInv
<1>6. ASSUME Cached(want[p]) = {}, NEW b \in Recycled,
             arg' = [arg EXCEPT ![p] = b],
             bsector' = [bsector EXCEPT ![b] = want[p]],
             valid' = valid \ {b}, dirty' = dirty \ {b},
             holder' = [holder EXCEPT ![b] = p],
             pc' = [pc EXCEPT ![p] = "rw"], UNCHANGED panicked
      PROVE  BlockInv'
  <2>1. b \in Bufs /\ holder[b] = NoProc /\ b \notin dirty
    BY RecycledFree
  <2>2. b \notin Queued
    BY <2>1 DEF QueueInv
  <2>3. \A c \in Bufs : bsector[c] # want[p]
    BY <1>6 DEF Cached
  <2>4. DriveTypes' /\ BufTypes'
    <3>1. DriveTypes'
      BY <1>1 DEF DriveTypes, drive
    <3>2. BufTypes'
      BY <1>1, <1>6, <2>1 DEF BufTypes
    <3>. QED  BY <3>1, <3>2
  <2>5. DriveInv'
    <3>1. idequeue # <<>> => /\ bsector'[idequeue[1]] = bsector[idequeue[1]]
                             /\ idequeue[1] \in dirty' <=> idequeue[1] \in dirty
      BY <1>2, <1>6, <2>2 DEF BufTypes
    <3>. QED  BY Zenon, <1>1, <3>1, HeadFrame
  <2>6. OneBufPerSector' /\ CleanIsOnDisk'
    BY Zenon, <1>1, <1>6, <2>1, <2>3 DEF BufTypes, OneBufPerSector, CleanIsOnDisk
  <2>7. HoldInv'
    BY <1>1, <1>6, <2>1 DEF BufTypes, HoldInv, Holding
  <2>8. FlagInv'
    BY <1>1, <1>6, <2>1 DEF BufTypes, FlagInv, HoldInv, Holding
  <2>9. QueueInv'
    BY <1>1, <1>2, <1>6, <2>1, <2>2 DEF BufTypes, QueueInv, Queued
  <2>. QED  BY <1>3, <2>4, <2>5, <2>6, <2>7, <2>8, <2>9 DEF BlockInv
<1>7. ASSUME panicked' = 1, pc' = [pc EXCEPT ![p] = "panic"],
             UNCHANGED <<arg, bsector, valid, dirty, holder>>
      PROVE  BlockInv'
  <2>1. DriveTypes' /\ DriveInv' /\ BufTypes' /\ OneBufPerSector' /\ CleanIsOnDisk'
    <3>1. DriveTypes' /\ DriveInv'
      BY <1>1, <1>7, DriveFrame
    <3>2. BufTypes' /\ OneBufPerSector' /\ CleanIsOnDisk'
      BY <1>1, <1>7 DEF BufTypes, OneBufPerSector, CleanIsOnDisk
    <3>. QED  BY <3>1, <3>2
  <2>2. HoldInv'
    BY <1>1, <1>7 DEF BufTypes, HoldInv, Holding
  <2>3. FlagInv'
    BY <1>1, <1>7 DEF BufTypes, FlagInv
  <2>4. QueueInv'
    BY <1>1, <1>7 DEF BufTypes, QueueInv, Queued
  <2>. QED  BY <1>3, <2>1, <2>2, <2>3, <2>4 DEF BlockInv
<1>. QED  BY <1>4, <1>5, <1>6, <1>7 DEF Bget

\* The holder changes the data, which nobody else reads, and bwrite asks for
\* it to be written.
LEMMA BwriteKeeps ==
  ASSUME DriveTypes, BufTypes, ExTypes, HoldInv, FlagInv, QueueInv, DriveInv,
         OneBufPerSector, CleanIsOnDisk, ChainInv,
         NEW p \in Procs, NEW v \in Vals, Bwrite(p, v), UNCHANGED exo
  PROVE  BlockInv'
<1>. DEFINE b == arg[p]
<1>1. /\ pc[p] = "have" /\ b \in Bufs /\ holder[b] = p /\ b \in valid /\ p # NoProc
      /\ bdata' = [bdata EXCEPT ![b] = v] /\ dirty' = dirty \cup {b}
      /\ pc' = [pc EXCEPT ![p] = "rw"]
      /\ UNCHANGED <<disk, drive, intr, idequeue, bsector, valid, holder, arg, panicked, lru, want>>
  BY DEF Bwrite, HoldInv, Holding, FlagInv, BufTypes
<1>2. b \notin Queued /\ (idequeue # <<>> => idequeue[1] \in Queued /\ idequeue[1] \in Bufs)
  BY Zenon, <1>1, HeadQueued DEF QueueInv
<1>. HIDE DEF b
<1>3. DriveTypes' /\ BufTypes'
  <2>1. DriveTypes'
    BY <1>1 DEF DriveTypes, drive
  <2>2. BufTypes'
    BY <1>1 DEF BufTypes
  <2>. QED  BY <2>1, <2>2
<1>4. DriveInv'
  <2>1. idequeue # <<>> => /\ bdata'[idequeue[1]] = bdata[idequeue[1]]
                           /\ idequeue[1] \in dirty' <=> idequeue[1] \in dirty
    BY <1>1, <1>2 DEF BufTypes
  <2>. QED  BY <1>1, <2>1, HeadFrame
<1>5. OneBufPerSector' /\ CleanIsOnDisk'
  BY <1>1 DEF BufTypes, OneBufPerSector, CleanIsOnDisk
<1>9. ExTypes' /\ ChainInv'
  BY <1>1, ExFrame
<1>6. HoldInv'
  BY <1>1 DEF BufTypes, HoldInv, Holding
<1>7. FlagInv'
  <2>1. \A q \in Procs \ {p} : pc[q] \in Holding => arg[q] # b
    BY Zenon, <1>1 DEF HoldInv
  <2>2. arg[p] = b
    BY DEF b
  <2>. QED  BY <1>1, <2>1, <2>2 DEF BufTypes, FlagInv, Holding
<1>8. QueueInv'
  BY <1>1, <1>2 DEF BufTypes, HoldInv, QueueInv, Queued
<1>. QED  BY <1>3, <1>4, <1>5, <1>6, <1>7, <1>8, <1>9 DEF BlockInv

\* log_write only pins the buffer.
LEMMA LogWriteKeeps ==
  ASSUME DriveTypes, BufTypes, ExTypes, HoldInv, FlagInv, QueueInv, DriveInv,
         OneBufPerSector, CleanIsOnDisk, ChainInv,
         NEW p \in Procs, NEW v \in Vals, LogWrite(p, v), UNCHANGED exo
  PROVE  BlockInv'
<1>. DEFINE b == arg[p]
<1>1. /\ pc[p] = "have" /\ b \in Bufs /\ holder[b] = p /\ b \in valid /\ p # NoProc
      /\ bdata' = [bdata EXCEPT ![b] = v] /\ dirty' = dirty \cup {b}
      /\ UNCHANGED <<disk, drive, intr, idequeue, bsector, valid, holder, pc, arg, panicked, lru, want>>
  BY DEF LogWrite, HoldInv, Holding, FlagInv, BufTypes
<1>2. b \notin Queued /\ (idequeue # <<>> => idequeue[1] \in Queued /\ idequeue[1] \in Bufs)
  BY Zenon, <1>1, HeadQueued DEF QueueInv
<1>. HIDE DEF b
<1>3. DriveTypes' /\ BufTypes'
  <2>1. DriveTypes'
    BY <1>1 DEF DriveTypes, drive
  <2>2. BufTypes'
    BY <1>1 DEF BufTypes
  <2>. QED  BY <2>1, <2>2
<1>4. DriveInv'
  <2>1. idequeue # <<>> => /\ bdata'[idequeue[1]] = bdata[idequeue[1]]
                           /\ idequeue[1] \in dirty' <=> idequeue[1] \in dirty
    BY <1>1, <1>2 DEF BufTypes
  <2>. QED  BY <1>1, <2>1, HeadFrame
<1>8. HoldInv'
  BY Zenon, <1>1 DEF HoldInv
<1>9. QueueInv'
  <2>1. Queued' = Queued
    BY Zenon, <1>1 DEF Queued
  <2>. QED  BY Zenon, <1>1, <2>1 DEF QueueInv
<1>5. OneBufPerSector' /\ CleanIsOnDisk'
  BY <1>1 DEF BufTypes, OneBufPerSector, CleanIsOnDisk
<1>7. ExTypes' /\ ChainInv'
  BY Zenon, <1>1, ExFrame
<1>6. FlagInv'
  <2>1. \A q \in Procs \ {p} : pc[q] \in Holding => arg[q] # b
    BY Zenon, <1>1 DEF HoldInv
  <2>2. arg[p] = b
    BY DEF b
  <2>. QED  BY <1>1, <2>1, <2>2 DEF BufTypes, FlagInv, Holding
<1>. QED  BY <1>3, <1>4, <1>5, <1>6, <1>7, <1>8, <1>9 DEF BlockInv

\* The list has every buffer once after one has moved to the front.
LEMMA MovedFrontOrder ==
  ASSUME lru \in Orders, NEW b \in Bufs, NEW l \in MovedFront(b)
  PROVE  l \in Orders
<1>0. NBUF \in Nat
  BY BioAssumption DEF BioAssumption
<1>1. PICK k \in 1 .. NBUF :
        lru[k] = b /\ l = [i \in 1 .. NBUF |-> IF i = 1 THEN b ELSE IF i <= k THEN lru[i - 1] ELSE lru[i]]
  BY DEF MovedFront
<1>2. /\ lru \in [1 .. NBUF -> Bufs]
      /\ \A i, j \in 1 .. NBUF : lru[i] = lru[j] => i = j
      /\ \A c \in Bufs : \E i \in 1 .. NBUF : lru[i] = c
  BY DEF Orders
<1>3. l \in [1 .. NBUF -> Bufs]
  BY <1>0, <1>1, <1>2
<1>4. ASSUME NEW i \in 1 .. NBUF, NEW j \in 1 .. NBUF, l[i] = l[j] PROVE i = j
  BY <1>0, <1>1, <1>2, <1>4
<1>5. ASSUME NEW c \in Bufs PROVE \E i \in 1 .. NBUF : l[i] = c
  <2>1. PICK j \in 1 .. NBUF : lru[j] = c
    BY <1>2
  <2>2. CASE j = k
    BY <1>0, <1>1, <2>1, <2>2
  <2>3. CASE j < k
    <3>1. j + 1 \in 1 .. NBUF /\ j + 1 # 1 /\ j + 1 <= k /\ (j + 1) - 1 = j
      BY <1>0, <2>3
    <3>. QED  BY <1>1, <2>1, <3>1
  <2>4. CASE j > k
    BY <1>0, <1>1, <2>1, <2>4
  <2>. QED  BY <2>2, <2>3, <2>4
<1>. QED  BY <1>3, <1>4, <1>5 DEF Orders

\* brelse frees the buffer and wakes who waits for it.
LEMMA BrelseKeeps ==
  ASSUME DriveTypes, BufTypes, ExTypes, HoldInv, FlagInv, QueueInv, DriveInv,
         OneBufPerSector, CleanIsOnDisk, ChainInv,
         NEW p \in Procs, Brelse(p), UNCHANGED exo
  PROVE  BlockInv'
<1>. DEFINE b == arg[p]
<1>0. lru' \in MovedFront(b) /\ pc' = WakeBuf(b, [pc EXCEPT ![p] = "out"])
  BY DEF Brelse
<1>1. /\ pc[p] = "have" /\ arg[p] = b /\ b \in Bufs /\ holder[b] = p /\ b \in valid /\ p # NoProc
      /\ holder' = [holder EXCEPT ![b] = NoProc]
      /\ arg' = [arg EXCEPT ![p] = NoBuf] /\ want' = [want EXCEPT ![p] = NoSector]
      /\ UNCHANGED <<disk, drive, intr, idequeue, bsector, bdata, valid, dirty, panicked>>
  BY DEF Brelse, HoldInv, Holding, FlagInv, BufTypes
<1>2. b \notin Queued /\ Queued \subseteq Bufs
  BY Zenon, <1>1, HeadQueued DEF QueueInv
<1>3. /\ pc' \in [Procs -> PCs]
      /\ pc'[p] = "out"
      /\ \A q \in Procs \ {p} : pc'[q] = IF pc[q] = "getsleep" /\ arg[q] = b THEN "get" ELSE pc[q]
  BY <1>0, <1>1 DEF BufTypes, WakeBuf, HoldInv, Holding
<1>4. lru' \in Orders
  BY <1>0, <1>1, MovedFrontOrder DEF BufTypes
<1>. HIDE DEF b
<1>5. BufTypes'
  <2>1. /\ holder' \in [Bufs -> Procs \cup {NoProc}]
        /\ arg' \in [Procs -> Bufs \cup {NoBuf}] /\ want' \in [Procs -> Sectors \cup {NoSector}]
    BY <1>1 DEF BufTypes
  <2>2. UNCHANGED <<bsector, bdata, valid, dirty, panicked>> /\ pc' \in [Procs -> PCs]
    BY Zenon, <1>1, <1>3
  <2>. QED  BY <1>4, <2>1, <2>2 DEF BufTypes
<1>6. DriveTypes' /\ DriveInv' /\ ExTypes' /\ ChainInv'
  BY <1>1, DriveFrame, ExFrame
<1>10. OneBufPerSector' /\ CleanIsOnDisk'
  BY <1>1 DEF OneBufPerSector, CleanIsOnDisk
<1>7. HoldInv'
  <2>1. ASSUME NEW q \in Procs, pc'[q] \in Holding
        PROVE  q # p /\ arg'[q] = arg[q] /\ arg[q] \in Bufs /\ holder'[arg[q]] = q
    <3>1. q # p /\ pc[q] = pc'[q]
      BY Zenon, <1>3, <2>1 DEF Holding
    <3>2. arg[q] \in Bufs /\ holder[arg[q]] = q
      BY <2>1, <3>1 DEF HoldInv
    <3>. QED  BY <1>1, <3>1, <3>2 DEF BufTypes
  <2>2. ASSUME NEW c \in Bufs, holder'[c] \in Procs
        PROVE  arg'[holder'[c]] = c /\ pc'[holder'[c]] \in Holding
    <3>1. c # b /\ holder'[c] = holder[c]
      BY <1>1, <2>2 DEF BufTypes
    <3>2. arg[holder[c]] = c /\ pc[holder[c]] \in Holding /\ holder[c] # p
      BY <1>1, <2>2, <3>1 DEF HoldInv
    <3>. QED  BY <1>1, <1>3, <2>2, <3>1, <3>2 DEF BufTypes, Holding
  <2>3. ASSUME NEW q \in Procs, pc'[q] = "getsleep"
        PROVE  arg'[q] \in Bufs /\ holder'[arg'[q]] # NoProc
    <3>1. q # p /\ pc[q] = "getsleep" /\ arg[q] # b
      BY Zenon, <1>3, <2>3
    <3>2. arg[q] \in Bufs /\ holder[arg[q]] # NoProc
      BY <3>1 DEF HoldInv
    <3>. QED  BY <1>1, <3>1, <3>2 DEF BufTypes
  <2>4. ASSUME NEW q \in Procs, pc'[q] \in {"get", "getsleep"} PROVE want'[q] \in Sectors
    BY <1>1, <1>3, <2>4 DEF BufTypes, HoldInv
  <2>5. ASSUME NEW c \in Bufs, holder'[c] # NoProc PROVE bsector'[c] \in Sectors
    BY <1>1, <2>5 DEF BufTypes, HoldInv
  <2>. QED  BY <2>1, <2>2, <2>3, <2>4, <2>5 DEF HoldInv
<1>8. FlagInv'
  BY <1>1, <1>3 DEF BufTypes, FlagInv
<1>9. QueueInv'
  <2>1. Queued' = Queued
    BY Zenon, <1>1 DEF Queued
  <2>2. ASSUME NEW c \in Queued PROVE holder'[c] \in Procs /\ pc'[holder'[c]] = "iosleep"
    <3>1. c # b /\ holder'[c] = holder[c] /\ holder[c] \in Procs /\ pc[holder[c]] = "iosleep"
      BY <1>1, <1>2 DEF BufTypes, QueueInv
    <3>. QED  BY <1>1, <1>3, <3>1
  <2>3. ASSUME NEW q \in Procs, pc'[q] = "iosleep" PROVE arg'[q] \in Queued
    BY <1>1, <1>3, <2>3 DEF BufTypes, QueueInv
  <2>. QED  BY Zenon, <2>1, <2>2, <2>3 DEF QueueInv
<1>. QED  BY <1>5, <1>6, <1>7, <1>8, <1>9, <1>10 DEF BlockInv
=============================================================================
