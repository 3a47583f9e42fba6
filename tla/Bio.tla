-------------------------------- MODULE Bio --------------------------------
(***************************************************************************)
(* bio.c over ide.c: bget, bread, bwrite, brelse, and log_write's way of   *)
(* leaving a released buffer B_DIRTY.  bcache.lock makes bget (up to its   *)
(* return or its sleep) and brelse one step each.                          *)
(***************************************************************************)
EXTENDS Ide, FiniteSets

CONSTANTS
  NBUF,
  MaxPins   \* bound on buffers left B_DIRTY: LOGSIZE in the code

ASSUME BioAssumption == NBUF \in Nat /\ Cardinality(Bufs) = NBUF

VARIABLES
  lru,   \* the list of all buffers, head.next (most recently used) first
  want   \* per process: the sector it called bread for

cache == <<bufs, lru>>
bvars == <<disk, drive, intr, idequeue, bufs, pc, arg, panicked, lru, want>>

\* The orders the list can be in: every buffer once.
Orders ==
  {l \in [1 .. NBUF -> Bufs] :
     /\ \A i, j \in 1 .. NBUF : l[i] = l[j] => i = j
     /\ \A b \in Bufs : \E i \in 1 .. NBUF : l[i] = b}

BioInit ==  \* binit, after ideinit
  /\ disk \in [Sectors -> Vals]
  /\ cmd = "none" /\ csec = NoSector /\ cval = NoVal /\ busy = 0 /\ port = NoVal
  /\ intr = 0 /\ idequeue = <<>>
  /\ bsector = [b \in Bufs |-> NoSector]
  /\ bdata = [b \in Bufs |-> NoVal]
  /\ valid = {} /\ dirty = {}
  /\ holder = [b \in Bufs |-> NoProc]
  /\ lru \in Orders
  /\ pc = [p \in Procs |-> "out"]
  /\ arg = [p \in Procs |-> NoBuf]
  /\ panicked = 0
  /\ want = [p \in Procs |-> NoSector]

\* bread(dev, s) is called.
Bread(p, s) ==
  /\ pc[p] = "out"
  /\ want' = [want EXCEPT ![p] = s]
  /\ pc' = [pc EXCEPT ![p] = "get"]
  /\ UNCHANGED <<disk, drive, intr, idequeue, cache, arg, panicked>>

\* Mutant: a buffer whose first read is under way is not looked at.
CachedValid(s) == {b \in Bufs : bsector[b] = s /\ b \in valid}
\* bget's first loop.
Cached(s) == {b \in Bufs : bsector[b] = s}
\* Mutant: pinned buffers are recycled.
RecyclePinned == {i \in DOMAIN lru : holder[lru[i]] = NoProc}
\* Positions of the non-busy and clean buffers.
Recyclable == {i \in DOMAIN lru : holder[lru[i]] = NoProc /\ lru[i] \notin dirty}
\* The one bget takes: its scan starts at the LRU end.
Recycled == {lru[i] : i \in {j \in Recyclable : \A k \in Recyclable : k <= j}}

\* bget, and bread's test of B_VALID on the buffer it returns.
Bget(p) ==
  /\ pc[p] = "get"
  /\ \/ \E b \in Cached(want[p]) :
          /\ IF holder[b] = NoProc
             THEN /\ holder' = [holder EXCEPT ![b] = p]
                  /\ pc' = [pc EXCEPT ![p] = IF b \in valid THEN "have" ELSE "rw"]
             ELSE pc' = [pc EXCEPT ![p] = "getsleep"] /\ UNCHANGED holder
          /\ arg' = [arg EXCEPT ![p] = b]
          /\ UNCHANGED <<bsector, valid, dirty, panicked>>
     \/ /\ Cached(want[p]) = {}
        /\ \E b \in Recycled :
             /\ arg' = [arg EXCEPT ![p] = b]
             /\ bsector' = [bsector EXCEPT ![b] = want[p]]
             /\ valid' = valid \ {b}
             /\ dirty' = dirty \ {b}
             /\ holder' = [holder EXCEPT ![b] = p]
        /\ pc' = [pc EXCEPT ![p] = "rw"]
        /\ UNCHANGED panicked
     \/ /\ Cached(want[p]) = {} /\ Recyclable = {}
        /\ panicked' = 1 /\ pc' = [pc EXCEPT ![p] = "panic"]
        /\ UNCHANGED <<arg, bsector, valid, dirty, holder>>
  /\ UNCHANGED <<disk, drive, intr, idequeue, bdata, lru, want>>

\* The holder changes the data and calls bwrite.
Bwrite(p, v) ==
  /\ pc[p] = "have"
  /\ bdata' = [bdata EXCEPT ![arg[p]] = v]
  /\ dirty' = dirty \cup {arg[p]}
  /\ pc' = [pc EXCEPT ![p] = "rw"]
  /\ UNCHANGED <<disk, drive, intr, idequeue, bsector, valid, holder, arg, panicked, lru, want>>

\* The holder changes the data and calls log_write, which only pins the
\* buffer: "b->flags |= B_DIRTY; // XXX prevent eviction".
LogWrite(p, v) ==
  /\ pc[p] = "have" /\ Cardinality(dirty \cup {arg[p]}) <= MaxPins
  /\ bdata' = [bdata EXCEPT ![arg[p]] = v]
  /\ dirty' = dirty \cup {arg[p]}
  /\ UNCHANGED <<disk, drive, intr, idequeue, bsector, valid, holder, pc, arg, panicked, lru, want>>

\* The list with b moved to the front.
MovedFront(b) ==
  {[i \in 1 .. NBUF |-> IF i = 1 THEN b ELSE IF i <= k THEN lru[i - 1] ELSE lru[i]] :
     k \in {j \in 1 .. NBUF : lru[j] = b}}

\* brelse: most recently used, free, and its sleepers awake.
Brelse(p) ==
  /\ pc[p] = "have"
  /\ lru' \in MovedFront(arg[p])
  /\ holder' = [holder EXCEPT ![arg[p]] = NoProc]
  /\ pc' = WakeBuf(arg[p], [pc EXCEPT ![p] = "out"])
  /\ arg' = [arg EXCEPT ![p] = NoBuf] /\ want' = [want EXCEPT ![p] = NoSector]
  /\ UNCHANGED <<disk, drive, intr, idequeue, bsector, bdata, valid, dirty, panicked>>

\* ide.c's steps as steps of this module.
BioIde ==
  /\ DriveDone \/ IdeIntr \/ \E p \in Procs : Iderw(p) \/ IderwResume(p)
  /\ UNCHANGED <<lru, want>>

BioNext ==
  \/ BioIde
  \/ \E p \in Procs :
       \/ Bget(p) \/ Brelse(p)
       \/ \E s \in Sectors : Bread(p, s)
       \/ \E v \in Vals : Bwrite(p, v) \/ LogWrite(p, v)
-----------------------------------------------------------------------------
Good == Sectors \ Faults
PCs == {"out", "get", "getsleep", "rw", "iosleep", "io", "have", "panic"}

\* Every variable has its type.
TypeOK ==
  /\ disk \in [Sectors -> Vals]
  /\ cmd \in {"none", "read", "write"} /\ csec \in Sectors \cup {NoSector}
  /\ cval \in Vals \cup {NoVal} /\ port \in Vals \cup {NoVal}
  /\ busy \in {0, 1} /\ intr \in {0, 1} /\ panicked \in {0, 1}
  /\ idequeue \in Seq(Bufs) 
  /\ \A i, j \in DOMAIN idequeue : idequeue[i] = idequeue[j] => i = j
  /\ bsector \in [Bufs -> Sectors \cup {NoSector}]
  /\ bdata \in [Bufs -> Vals \cup {NoVal}]
  /\ valid \subseteq Bufs /\ dirty \subseteq Bufs
  /\ holder \in [Bufs -> Procs \cup {NoProc}]
  /\ lru \in Orders
  /\ pc \in [Procs -> PCs]
  /\ arg \in [Procs -> Bufs \cup {NoBuf}] /\ want \in [Procs -> Sectors \cup {NoSector}]

\* A sector has one buffer: bget never gives two processes different copies
\* (bio.c:69-80 against 85-91, with reads of the same sector under way).
OneBufPerSector ==
  \A b, c \in Bufs : bsector[b] = bsector[c] /\ bsector[b] # NoSector => b = c

\* A valid buffer that is not B_DIRTY holds what is on the disk: ideintr
\* attributes every completion to the right buffer, and bwrite returns only
\* when the data is out (ide.c:108-119).
CleanIsOnDisk ==
  \A b \in valid \ dirty : bsector[b] \in Good => bdata[b] = disk[bsector[b]]

\* "First queued buffer is the active request" (ide.c:97): the drive works on
\* the head of the queue, or has finished with it and is about to say so.
FirstIsActive ==
  idequeue # <<>> =>
    /\ csec = bsector[idequeue[1]]
    /\ cmd = IF idequeue[1] \in dirty THEN "write" ELSE "read"
    /\ busy = 1 \/ intr = 1

\* Nobody sleeps on a buffer that nobody works on: a sleeper in iderw has its
\* buffer queued, one in bget waits for a holder (bio.c:77, ide.c:158).
NoForgottenSleeper ==
  \A p \in Procs :
    /\ pc[p] = "iosleep" => \E i \in DOMAIN idequeue : idequeue[i] = arg[p]
    /\ pc[p] = "getsleep" => holder[arg[p]] # NoProc

\* What a process sees of the sectors the drive can read: contents, owners,
\* and what each process has in front of it.
BufOf(s) == {b \in Bufs : bsector[b] = s}
Contents ==
  [s \in Good |-> IF BufOf(s) \cap valid = {} THEN disk[s]
                  ELSE bdata[CHOOSE b \in BufOf(s) \cap valid : TRUE]]
Owner ==
  [s \in Good |-> LET H == {b \in BufOf(s) : holder[b] # NoProc}
                  IN  IF H = {} THEN NoProc ELSE holder[CHOOSE b \in H : TRUE]]
InView ==
  [p \in Procs |-> IF pc[p] = "have" /\ bsector[arg[p]] \in Good THEN bdata[arg[p]] ELSE NoVal]

\* bio.c over ide.c implements BlockStore on these sectors.
Blocks == INSTANCE BlockStore WITH
  Sectors <- Good, blk <- Contents, owner <- Owner, view <- InView
ImplementsBlockStore == Blocks!Spec
=============================================================================
