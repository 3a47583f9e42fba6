------------------------------- MODULE ExIde -------------------------------
(***************************************************************************)
(* ex_ide.c and sysfs.c beside bio.c and ide.c: a registered process       *)
(* (proc->type == 1) has the sectors of a file read straight into its      *)
(* memory, through its own queue, on the same drive and the same interrupt *)
(* and without idelock.  A queue node lies in the memory its sector goes   *)
(* to: node i in block i of the destination.  sys_ExFileRead adds one node *)
(* more than the file has blocks, inside the last block; when that block   *)
(* arrives, the bytes past the end of the file, zeros, replace its fields. *)
(*                                                                         *)
(* With SHARED = FALSE the kernel's block I/O and the direct read do not   *)
(* overlap and the interrupt is taken on the process that reads.           *)
(***************************************************************************)
EXTENDS Bio

CONSTANTS
  File,        \* bmap(ip, 0), bmap(ip, 1), ... of the file
  BootSector,  \* sector 0
  SHARED

ASSUME ExIdeAssumption ==
  File \in Seq(Sectors) /\ File # <<>> /\ BootSector \in Sectors /\ SHARED \in BOOLEAN

N == Len(File)
Nodes == 1 .. N + 1
Null == 0

VARIABLES
  node,                 \* struct buffer: sector, location, next
  exqueue, last,        \* idequeue and last of ex_ide.c
  transfercount,
  mem,                  \* the destination's blocks; mem[0] is address 0
  xpc                   \* the registered process: "out", "filled" or "reading"

exo == <<node, exqueue, last, transfercount, mem, xpc>>
vars == <<bvars, exo>>

Init ==
  /\ BioInit
  /\ node = [i \in Nodes |-> [sector |-> BootSector, location |-> Null, next |-> Null]]
  /\ exqueue = Null /\ last = Null
  /\ transfercount = 0
  /\ mem = [i \in 0 .. N + 1 |-> NoVal]
  /\ xpc = "out"

\* ExResetTransferCount and ExFileRead, as the library calls them: a queue
\* of all blocks of the file and of the surplus node.
ExFileRead ==
  /\ panicked = 0 /\ xpc = "out"
  /\ transfercount' = 0
  /\ node' = [i \in Nodes |-> [sector |-> File[IF i > N THEN N ELSE i], location |-> i,
                               next |-> IF i = N + 1 THEN Null ELSE i + 1]]
  /\ exqueue' = 1 /\ last' = N + 1
  /\ mem' = [i \in 0 .. N + 1 |-> NoVal]
  /\ xpc' = "filled"
  /\ UNCHANGED bvars

\* ideread: no queue and no lock, only idewait(0).
ideread(s) ==
  /\ busy' = 1 /\ cmd' = "read" /\ csec' = s
  /\ cval' = NoVal /\ port' = NoVal

Quiet == idequeue = <<>> /\ intr = 0 /\ busy = 0

\* ExReadSector: ProcessBuffer on the head of the queue.
ExReadSector ==
  /\ panicked = 0 /\ xpc = "filled" /\ busy = 0
  /\ SHARED \/ Quiet
  /\ ideread(node[exqueue].sector)
  /\ xpc' = "reading"
  /\ UNCHANGED <<disk, intr, idequeue, bufs, pc, arg, panicked, lru, want,
                 node, exqueue, last, transfercount, mem>>

\* The node that lies in a block is overwritten when the block arrives.
Overwrite(l) ==
  IF l = N THEN [node EXCEPT ![N + 1] = [sector |-> BootSector, location |-> 0, next |-> Null]]
           ELSE node

\* Mutant: location is taken from the queue after it has advanced.
ExTakeNext(h) ==
  /\ exqueue' = node[h].next
  /\ last' = IF exqueue' = Null THEN Null ELSE last
  /\ mem' = [mem EXCEPT ![IF exqueue' = Null THEN 0 ELSE node[exqueue'].location] = port]
  /\ node' = Overwrite(node[h].location)
  /\ transfercount' = transfercount + 1

\* ex_ideintr's part under bufferlock, with node h at the head.
ExTake(h) ==
  /\ exqueue' = node[h].next
  /\ last' = IF exqueue' = Null THEN Null ELSE last
  /\ IF csec \in Faults THEN UNCHANGED <<mem, node, transfercount>>
     ELSE /\ mem' = [mem EXCEPT ![node[h].location] = port]
          /\ node' = Overwrite(node[h].location)
          /\ transfercount' = transfercount + 1

\* ideintr with ide.c's queue empty: a registered process goes on to
\* ex_ideintr and ProcessBuffer; any other context dereferences b == 0.
ExIdeIntr(type) ==
  /\ panicked = 0 /\ intr = 1 /\ idequeue = <<>>
  /\ intr' = 0
  /\ IF type = 1 /\ exqueue # Null
     THEN /\ busy = 0
          /\ ExTake(exqueue)
          /\ IF exqueue' = Null
             THEN driverest(csec \notin Faults) /\ xpc' = "out"
             ELSE ideread(node'[exqueue'].sector) /\ UNCHANGED xpc
          /\ UNCHANGED panicked
     ELSE panicked' = 1 /\ UNCHANGED <<drive, exo>>
  /\ UNCHANGED <<disk, idequeue, bufs, pc, arg, lru, want>>

\* The kernel's own block I/O.
Kernel ==
  /\ panicked = 0
  /\ BioNext
  /\ SHARED \/ xpc # "reading" \/ idequeue' = idequeue
  /\ UNCHANGED exo

Next ==
  \/ Kernel \/ ExFileRead \/ ExReadSector
  \/ \E type \in IF SHARED THEN {0, 1} ELSE {1} : ExIdeIntr(type)

Spec == Init /\ [][Next]_vars
-----------------------------------------------------------------------------
\* Every variable has its type.
ExoTypeOK ==
  /\ TypeOK
  /\ node \in [Nodes -> [sector : Sectors, location : 0 .. N + 1, next : 0 .. N + 1]]
  /\ exqueue \in 0 .. N + 1 /\ last \in 0 .. N + 1
  /\ transfercount \in 0 .. N + 1
  /\ mem \in [0 .. N + 1 -> Vals \cup {NoVal}]
  /\ xpc \in {"out", "filled", "reading"}

\* The cache is coherent, direct reads included: a sector has one buffer, and a
\* clean buffer has the sector's contents.
CacheCoherent == ExoTypeOK /\ OneBufPerSector /\ CleanIsOnDisk

\* The end of a direct read: every readable sector of the file is in its
\* place in the caller's memory (ex_ide.c:137-147).
FileDelivered ==
  [][xpc = "reading" /\ xpc' = "out"
       => \A i \in 1 .. N : File[i] \in Good => mem'[i] = disk[File[i]]]_vars
=============================================================================
