-------------------------------- MODULE Log --------------------------------
(***************************************************************************)
(* The write-ahead log of log.c, with the part of the buffer cache it      *)
(* relies on (B_BUSY, B_DIRTY, eviction) and the disk under it.            *)
(*                                                                         *)
(* Processes run file-system operations: begin_op, any number of           *)
(* "bread; modify; log_write; brelse", end_op.  The last end_op commits.   *)
(* The machine may lose power at any step; it then reboots into initlog.   *)
(*                                                                         *)
(* log_write takes no lock (log.c:210-228), so it is split at every access *)
(* to log.lh that the -O0 build makes: scan, store sector[i], compare i    *)
(* with n, load n, store n + 1.                                            *)
(***************************************************************************)
EXTENDS Integers, FiniteSets

CONSTANTS
  Procs,        \* processes that run file-system operations
  Blocks,       \* disk sectors of the file system, the boot sector included
  BootBlock,    \* sector 0: what a zeroed log.lh.sector[i] names
  Values,       \* contents a sector can have
  NotCached,    \* cache[b] when no buffer holds sector b
  NoProc,       \* busy[b] when B_BUSY is clear
  MAXOPBLOCKS,  \* param.h: blocks begin_op reserves for one operation
  LOGSIZE,      \* param.h: length of logheader.sector
  NLOG,         \* superblock nlog: log sectors on disk, header included
  OPBLOCKS,     \* distinct blocks that one operation really writes
  OVERLAP       \* TRUE: log_write calls may overlap, as nothing prevents it

ASSUME LogAssumption ==
  /\ BootBlock \in Blocks
  /\ NotCached \notin Values
  /\ NoProc \notin Procs /\ IsFiniteSet(Procs)
  /\ MAXOPBLOCKS \in Nat \ {0}
  /\ LOGSIZE \in Nat /\ MAXOPBLOCKS <= LOGSIZE
  /\ NLOG \in Nat \ {0}
  /\ OPBLOCKS \in Nat
  /\ OVERLAP \in BOOLEAN

VARIABLES
  home,         \* disk: home location of every sector
  logblk,       \* disk: log data block i, at sector log.start + 1 + i
  hn, hsector,  \* disk: n and sector[] of the header block at log.start
  n, sector,    \* log.lh, the in-memory header
  outstanding,  \* log.outstanding
  committing,   \* log.committing
  phase,        \* where commit() or recover_from_log() is
  tail,         \* loop index of write_log() and install_trans()
  cache,        \* buffer contents, per sector
  dirty,        \* sectors whose buffer has B_DIRTY
  busy,         \* holder of B_BUSY, per sector
  pc,           \* where each process is
  blk, idx, reg,\* log_write's b->sector, i, and the register of n++
  wrote         \* sectors the process's current operation has modified

disk == <<home, logblk, hn, hsector>>
lh == <<n, sector>>
hdr == <<lh, outstanding, committing, phase, tail>>
bufs == <<cache, dirty, busy>>
locals == <<blk, idx, reg, wrote>>
vars == <<disk, hdr, bufs, pc, locals>>

Slots == 0 .. LOGSIZE - 1
Phases == {"rhead", "install", "idle", "wlog", "end"}
InLogWrite == {"scan", "store", "check", "load", "inc"}
InOp == {"op", "enter", "pin"} \cup InLogWrite
PCs == {"out", "sleep", "commit", "panic"} \cup InOp

ZeroSectors == [i \in Slots |-> BootBlock]

\* What bread(b) returns: the buffer's data if cached, else the sector.
Bread(b) == IF cache[b] = NotCached THEN home[b] ELSE cache[b]

Init ==
  /\ home \in [Blocks -> Values]
  /\ logblk \in [Slots -> Values]
  /\ hn = 0 /\ hsector = ZeroSectors
  /\ n = 0 /\ sector = ZeroSectors
  /\ outstanding = 0 /\ committing = 0
  /\ phase = "rhead" /\ tail = 0
  /\ cache = [b \in Blocks |-> NotCached]
  /\ dirty = {}
  /\ busy = [b \in Blocks |-> NoProc]
  /\ pc = [p \in Procs |-> "out"]
  /\ blk = [p \in Procs |-> BootBlock]
  /\ idx = [p \in Procs |-> 0]
  /\ reg = [p \in Procs |-> 0]
  /\ wrote = [p \in Procs |-> {}]

-----------------------------------------------------------------------------
(* begin_op, end_op.  Each runs its body under log.lock, hence atomically. *)

\* Mutant: the reservations of the operations in progress are not counted.
LogHasRoomNow == n + MAXOPBLOCKS <= LOGSIZE

LogHasRoom == n + (outstanding + 1) * MAXOPBLOCKS <= LOGSIZE

\* wakeup(&log): every sleeper re-enters the loop of begin_op.
WakeLog(pcs) == [p \in Procs |-> IF pcs[p] = "sleep" THEN "out" ELSE pcs[p]]

BeginOp(p) ==
  /\ phase = "idle" \/ committing = 1
  /\ pc[p] = "out"
  /\ IF committing = 1 \/ ~LogHasRoom
     THEN /\ pc' = [pc EXCEPT ![p] = "sleep"]
          /\ UNCHANGED outstanding
     ELSE /\ outstanding' = outstanding + 1
          /\ pc' = [pc EXCEPT ![p] = "op"]
  /\ UNCHANGED <<disk, lh, committing, phase, tail, bufs, locals>>

EndOp(p) ==
  /\ pc[p] = "op"
  /\ outstanding' = outstanding - 1
  /\ IF committing = 1
     THEN /\ pc' = [pc EXCEPT ![p] = "panic"]
          /\ UNCHANGED <<committing, phase, tail>>
     ELSE IF outstanding = 1
     THEN /\ committing' = 1
          /\ phase' = IF n > 0 THEN "wlog" ELSE "end"
          /\ tail' = 0
          /\ pc' = [pc EXCEPT ![p] = "commit"]
     ELSE /\ pc' = WakeLog([pc EXCEPT ![p] = "out"])
          /\ UNCHANGED <<committing, phase, tail>>
  /\ wrote' = [wrote EXCEPT ![p] = {}]
  /\ UNCHANGED <<disk, lh, bufs, blk, idx, reg>>

\* Mutant: no wakeup(&log) after the commit.
EndCommitSilent(p) ==
  /\ pc[p] = "commit" /\ phase = "end"
  /\ committing' = 0
  /\ phase' = "idle"
  /\ pc' = [pc EXCEPT ![p] = "out"]
  /\ UNCHANGED <<disk, lh, outstanding, tail, bufs, locals>>

\* The tail of end_op after commit() returns.
EndCommit(p) ==
  /\ pc[p] = "commit" /\ phase = "end"
  /\ committing' = 0
  /\ phase' = "idle"
  /\ pc' = WakeLog([pc EXCEPT ![p] = "out"])
  /\ UNCHANGED <<disk, lh, outstanding, tail, bufs, locals>>

-----------------------------------------------------------------------------
(* commit() and recover_from_log(), one disk write per step. *)

\* One iteration of write_log.
WriteLog ==
  /\ phase = "wlog" /\ tail < n
  /\ LET b == sector[tail]
     IN  /\ logblk' = [logblk EXCEPT ![tail] = Bread(b)]
         /\ cache' = [cache EXCEPT ![b] = Bread(b)]
  /\ tail' = tail + 1
  /\ UNCHANGED <<home, hn, hsector, lh, outstanding, committing, phase, dirty, busy,
                 pc, locals>>

\* The loops of write_head and read_head copy the first n entries; the rest
\* of the target is left as it was.
CopySectors(len, from, to) ==
  [i \in Slots |-> IF i < len THEN from[i] ELSE to[i]]

\* write_head in commit(): the commit point.
WriteHead ==
  /\ phase = "wlog" /\ tail = n
  /\ hn' = n /\ hsector' = CopySectors(n, sector, hsector)
  /\ phase' = "install" /\ tail' = 0
  /\ UNCHANGED <<home, logblk, lh, outstanding, committing, bufs, pc, locals>>

\* One iteration of install_trans; the finished bwrite clears B_DIRTY.
InstallTrans ==
  /\ phase = "install" /\ tail < n
  /\ LET b == sector[tail]
     IN  /\ home' = [home EXCEPT ![b] = logblk[tail]]
         /\ cache' = [cache EXCEPT ![b] = logblk[tail]]
         /\ dirty' = dirty \ {b}
  /\ tail' = tail + 1
  /\ UNCHANGED <<logblk, hn, hsector, lh, outstanding, committing, phase, busy,
                 pc, locals>>

\* Mutant: the last sector may be left uninstalled.
EraseHeadEarly ==
  /\ phase = "install" /\ tail >= n - 1
  /\ n' = 0 /\ hn' = 0
  /\ phase' = IF committing = 1 THEN "end" ELSE "idle"
  /\ UNCHANGED <<home, logblk, hsector, sector, outstanding, committing, tail,
                 bufs, pc, locals>>

\* log.lh.n = 0; write_head(), in commit() and in recover_from_log().
EraseHead ==
  /\ phase = "install" /\ tail = n
  /\ n' = 0 /\ hn' = 0
  /\ phase' = IF committing = 1 THEN "end" ELSE "idle"
  /\ UNCHANGED <<home, logblk, hsector, sector, outstanding, committing, tail,
                 bufs, pc, locals>>

\* initlog and read_head, at boot.
ReadHead ==
  /\ phase = "rhead"
  /\ n' = hn /\ sector' = CopySectors(hn, hsector, sector)
  /\ phase' = "install" /\ tail' = 0
  /\ UNCHANGED <<disk, outstanding, committing, bufs, pc, locals>>

-----------------------------------------------------------------------------
(* An update inside an operation, and log_write access by access.          *)

\* b = bread(...); modify b->data.  The buffer stays B_BUSY.
Modify(p, b, v) ==
  /\ pc[p] = "op" /\ busy[b] = NoProc
  /\ Cardinality(wrote[p] \cup {b}) <= OPBLOCKS
  /\ cache' = [cache EXCEPT ![b] = v]
  /\ busy' = [busy EXCEPT ![b] = p]
  /\ wrote' = [wrote EXCEPT ![p] = @ \cup {b}]
  /\ blk' = [blk EXCEPT ![p] = b]
  /\ pc' = [pc EXCEPT ![p] = "enter"]
  /\ UNCHANGED <<disk, hdr, dirty, idx, reg>>

\* The absorption loop over sector[0 .. n - 1] stops with i.
ScanStopsAt(b, i) ==
  /\ i = n \/ sector[i] = b
  /\ \A j \in 0 .. i - 1 : sector[j] # b

TooBig == n >= LOGSIZE \/ n >= NLOG - 1

LogWriteEnter(p) ==
  /\ pc[p] = "enter"
  /\ OVERLAP \/ \A q \in Procs : pc[q] \notin InLogWrite
  /\ pc' = [pc EXCEPT ![p] = IF TooBig \/ outstanding < 1 THEN "panic"
                                                         ELSE "scan"]
  /\ UNCHANGED <<disk, hdr, bufs, locals>>

LogWriteScan(p) ==
  /\ pc[p] = "scan"
  /\ \E i \in {k \in 0 .. n : ScanStopsAt(blk[p], k)} :
       idx' = [idx EXCEPT ![p] = i]
  /\ pc' = [pc EXCEPT ![p] = "store"]
  /\ UNCHANGED <<disk, hdr, bufs, blk, reg, wrote>>

\* A store or a count past sector[LOGSIZE - 1] would overwrite whatever
\* follows: the model stops the process there, as "panic".
LogWriteStore(p) ==
  /\ pc[p] = "store"
  /\ IF idx[p] < LOGSIZE
     THEN /\ sector' = [sector EXCEPT ![idx[p]] = blk[p]]
          /\ pc' = [pc EXCEPT ![p] = "check"]
     ELSE pc' = [pc EXCEPT ![p] = "panic"] /\ UNCHANGED sector
  /\ UNCHANGED <<disk, n, outstanding, committing, phase, tail, bufs, locals>>

\* Mutant: log.lh.n is never advanced for a new sector.
LogWriteCheckNone(p) ==
  /\ pc[p] = "check"
  /\ pc' = [pc EXCEPT ![p] = "pin"]
  /\ UNCHANGED <<disk, hdr, bufs, locals>>

LogWriteCheck(p) ==
  /\ pc[p] = "check"
  /\ pc' = [pc EXCEPT ![p] = IF idx[p] = n THEN "load" ELSE "pin"]
  /\ UNCHANGED <<disk, hdr, bufs, locals>>

LogWriteLoad(p) ==
  /\ pc[p] = "load"
  /\ reg' = [reg EXCEPT ![p] = n]
  /\ pc' = [pc EXCEPT ![p] = "inc"]
  /\ UNCHANGED <<disk, hdr, bufs, blk, idx, wrote>>

LogWriteInc(p) ==
  /\ pc[p] = "inc"
  /\ IF reg[p] < LOGSIZE
     THEN /\ n' = reg[p] + 1
          /\ pc' = [pc EXCEPT ![p] = "pin"]
     ELSE pc' = [pc EXCEPT ![p] = "panic"] /\ UNCHANGED n
  /\ UNCHANGED <<disk, sector, outstanding, committing, phase, tail, bufs, locals>>

\* b->flags |= B_DIRTY; then the caller's brelse(b).  log_write's locals die.
LogWritePin(p) ==
  /\ pc[p] = "pin"
  /\ dirty' = dirty \cup {blk[p]}
  /\ busy' = [busy EXCEPT ![blk[p]] = NoProc]
  /\ pc' = [pc EXCEPT ![p] = "op"]
  /\ blk' = [blk EXCEPT ![p] = BootBlock]
  /\ idx' = [idx EXCEPT ![p] = 0]
  /\ reg' = [reg EXCEPT ![p] = 0]
  /\ UNCHANGED <<disk, hdr, cache, wrote>>

-----------------------------------------------------------------------------
(* The rest of the kernel and the machine. *)

\* A read brings a sector into the cache (bread, brelse).
ReadIn(b) ==
  /\ phase \notin {"rhead", "install"} \/ committing = 1
  /\ cache[b] = NotCached
  /\ cache' = [cache EXCEPT ![b] = home[b]]
  /\ UNCHANGED <<disk, hdr, dirty, busy, pc, locals>>

\* Mutant: bget recycles a pinned buffer.
EvictPinned(b) ==
  /\ cache[b] # NotCached /\ busy[b] = NoProc
  /\ cache' = [cache EXCEPT ![b] = NotCached]
  /\ dirty' = dirty \ {b}
  /\ UNCHANGED <<disk, hdr, busy, pc, locals>>

\* bget recycles a buffer that is neither B_BUSY nor B_DIRTY.
Evict(b) ==
  /\ cache[b] # NotCached /\ busy[b] = NoProc /\ b \notin dirty
  /\ cache' = [cache EXCEPT ![b] = NotCached]
  /\ UNCHANGED <<disk, hdr, dirty, busy, pc, locals>>

\* Power failure: memory is lost, the disk stays.
Crash ==
  /\ phase # "rhead"
  /\ n' = 0 /\ sector' = ZeroSectors
  /\ outstanding' = 0 /\ committing' = 0
  /\ phase' = "rhead" /\ tail' = 0
  /\ cache' = [b \in Blocks |-> NotCached]
  /\ dirty' = {}
  /\ busy' = [b \in Blocks |-> NoProc]
  /\ pc' = [p \in Procs |-> "out"]
  /\ blk' = [p \in Procs |-> BootBlock]
  /\ idx' = [p \in Procs |-> 0]
  /\ reg' = [p \in Procs |-> 0]
  /\ wrote' = [p \in Procs |-> {}]
  /\ UNCHANGED disk

ProcStep(p) ==
  \/ BeginOp(p) \/ EndOp(p) \/ EndCommit(p)
  \/ \E b \in Blocks \ {BootBlock}, v \in Values : Modify(p, b, v)
  \/ LogWriteEnter(p) \/ LogWriteScan(p) \/ LogWriteStore(p)
  \/ LogWriteCheck(p) \/ LogWriteLoad(p) \/ LogWriteInc(p) \/ LogWritePin(p)

CommitStep == WriteLog \/ WriteHead \/ InstallTrans \/ EraseHead
CacheStep == \E b \in Blocks : ReadIn(b) \/ Evict(b)

Next ==
  \/ \E p \in Procs : ProcStep(p)
  \/ CommitStep
  \/ ReadHead
  \/ CacheStep
  \/ Crash

Spec == Init /\ [][Next]_vars

-----------------------------------------------------------------------------
(* Properties. *)

\* Every variable has its type.
TypeOK ==
  /\ home \in [Blocks -> Values]
  /\ logblk \in [Slots -> Values]
  /\ hn \in 0 .. LOGSIZE /\ hsector \in [Slots -> Blocks]
  /\ n \in 0 .. LOGSIZE /\ sector \in [Slots -> Blocks]
  /\ outstanding \in Int
  /\ committing \in {0, 1}
  /\ phase \in Phases
  /\ tail \in 0 .. LOGSIZE
  /\ cache \in [Blocks -> Values \cup {NotCached}]
  /\ dirty \in SUBSET Blocks
  /\ busy \in [Blocks -> Procs \cup {NoProc}]
  /\ pc \in [Procs -> PCs]
  /\ blk \in [Procs -> Blocks]
  /\ idx \in [Procs -> 0 .. LOGSIZE]
  /\ reg \in [Procs -> 0 .. LOGSIZE]
  /\ wrote \in [Procs -> SUBSET Blocks]

\* The disk that recover_from_log makes of home sectors hm, log blocks lb and
\* a header with cnt entries hs.
RecoverImage(hm, lb, cnt, hs) ==
  [b \in Blocks |->
     IF \E i \in 0 .. cnt - 1 : hs[i] = b
     THEN lb[CHOOSE i \in 0 .. cnt - 1 : hs[i] = b]
     ELSE hm[b]]

\* What a power failure at this very step leaves the users with.
Recovered == RecoverImage(home, logblk, hn, hsector)

Logged == {sector[i] : i \in 0 .. n - 1}
Active == {p \in Procs : pc[p] \in InOp}

\* What the disk holds after a crash changes in one step only, the header
\* write of commit(); at that step no operation is in progress, and every
\* logged sector changes to its buffer's contents at once ("the true point at
\* which the current transaction commits", log.c:97-99).  No step of
\* install_trans, of the erasure, of a recovery or of a recovery of an
\* interrupted recovery changes it, whatever the interleaving.
CommitIsAtomic ==
  [][Recovered' # Recovered =>
       /\ WriteHead
       /\ Active = {}
       /\ Recovered' = [b \in Blocks |-> IF b \in Logged THEN Bread(b)
                                          ELSE Recovered[b]]]_vars

\* When no operation and no commit is in progress, everything that
\* log_write recorded is on disk: no buffer is pinned, and every buffer
\* agrees with the disk ("commit()/write_log() will do the disk write",
\* log.c:203).
CommitWritesAll ==
  (phase = "idle" /\ outstanding = 0) =>
     dirty = {} /\ \A b \in Blocks : Bread(b) = Recovered[b]

\* A process asleep in begin_op always has a wakeup(&log) still to come.
NoLostWakeup ==
  (\E p \in Procs : pc[p] = "sleep") => committing = 1 \/ outstanding > 0

\* A panic of end_op or log_write, or a log count past the array, is never
\* reached: what begin_op reserves is enough for what operations write.
NoPanic == \A p \in Procs : pc[p] # "panic"

\* The running system reads the buffer, or the sector when there is none.
\* Before recovery is over nobody reads; what will be read is Recovered.
Current == IF phase \in {"rhead", "install"} /\ committing = 0
           THEN Recovered ELSE [b \in Blocks |-> Bread(b)]

Abstract == INSTANCE AtomicDisk
              WITH stable <- Recovered, current <- Current, active <- Active

\* log.c implements AtomicDisk, as long as calls of log_write do not overlap:
\* operations are durable all or nothing, and together with every operation
\* they overlapped ("there is never any reasoning required about whether a
\* commit might write an uncommitted system call's updates to disk",
\* log.c:12-14).
ImplementsAtomicDisk == Abstract!Spec

-----------------------------------------------------------------------------
(* The inductive invariant behind the properties above (LogProofs.tla). *)

\* Processes that log.outstanding counts.
Open == {p \in Procs : pc[p] \in InOp \cup {"panic"}}
Writing == {"enter", "pin", "panic"} \cup InLogWrite

\* log.outstanding counts the open operations; commit() and recovery run
\* only when there is none.
PhaseInv ==
  /\ outstanding = Cardinality(Open)
  /\ phase # "idle" => Open = {}
  /\ phase \in {"wlog", "end"} => committing = 1
  /\ phase \in {"rhead", "idle"} => committing = 0
  /\ phase \in {"wlog", "install"} => tail <= n
  /\ \A b \in Blocks : busy[b] \in Procs =>
       pc[busy[b]] \in Writing /\ blk[busy[b]] = b

\* The header is empty except from the commit point to the erasure, when it
\* equals log.lh; what write_log and install_trans have copied so far; entries
\* for the same sector hold the same contents.
ImageInv ==
  /\ phase \in {"idle", "wlog", "end"} => hn = 0
  /\ phase = "install" => hn = n /\ \A i \in 0 .. n - 1 : hsector[i] = sector[i]
  /\ phase = "wlog" => \A i \in 0 .. tail - 1 : logblk[i] = Bread(sector[i])
  /\ phase = "install" => \A i \in 0 .. tail - 1 : home[sector[i]] = logblk[i]
  /\ (phase = "install" /\ committing = 1) =>
       \A i \in 0 .. n - 1 : logblk[i] = Bread(sector[i])
  /\ \A i, j \in 0 .. hn - 1 : hsector[i] = hsector[j] => logblk[i] = logblk[j]

\* A buffer that bget may recycle agrees with its sector.
CleanInv ==
  \A b \in Blocks :
    b \in dirty \/ busy[b] \in Procs \/ cache[b] = NotCached \/ cache[b] = home[b]

\* Nobody sleeps on a log that has room and no operation to wait for.
WakeInv ==
  /\ phase \in {"end", "rhead"} \/ (phase = "idle" /\ outstanding = 0) => n = 0
  /\ phase = "rhead" \/ (phase = "install" /\ committing = 0) =>
       \A p \in Procs : pc[p] = "out"
  /\ NoLostWakeup

\* Without overlapping calls, log_write is atomic in effect: its index is
\* good until it is used, and every pinned sector is in log.lh, or was and is
\* installed.
OneWriter ==
  \A p, q \in Procs : pc[p] \in InLogWrite /\ pc[q] \in InLogWrite => p = q
IndexInv ==
  \A p \in Procs :
    /\ pc[p] = "store" => idx[p] <= n /\ (idx[p] = n \/ sector[idx[p]] = blk[p])
    /\ pc[p] = "check" => idx[p] <= n /\ idx[p] < LOGSIZE /\ sector[idx[p]] = blk[p]
    /\ pc[p] \in {"load", "inc"} => idx[p] = n /\ n < LOGSIZE /\ sector[n] = blk[p]
    /\ pc[p] = "inc" => reg[p] = n
    /\ pc[p] = "pin" => \E i \in 0 .. n - 1 : sector[i] = blk[p]
PinnedInv ==
  \A b \in dirty : \E i \in 0 .. n - 1 :
    sector[i] = b /\ (phase = "install" => i >= tail)
SerialInv == OneWriter /\ IndexInv /\ PinnedInv

Inv == TypeOK /\ PhaseInv /\ ImageInv /\ CleanInv /\ WakeInv /\ (~OVERLAP => SerialInv)
=============================================================================
