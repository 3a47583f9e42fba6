-------------------------------- MODULE Ide --------------------------------
(***************************************************************************)
(* ide.c and the drive behind it.  The drive runs one command at a time,   *)
(* keeps the sector of a finished read behind its data port, and raises an *)
(* edge-triggered interrupt that stays pending, once, until it is taken.   *)
(* idelock is held from acquire to release or sleep, so iderw up to its    *)
(* sleep, and ideintr, are one step each; idewait's spin is the guard      *)
(* busy = 0.  A sector of Faults makes the drive report an error.          *)
(***************************************************************************)
EXTENDS Integers, Sequences

CONSTANTS
  Procs, NoProc,   \* kernel threads of processes that use the block layer
  Bufs, NoBuf,     \* bcache.buf
  Sectors, NoSector,
  Faults,
  Vals, NoVal      \* contents of a sector; what nobody has put there

ASSUME IdeAssumption ==
  /\ NoProc \notin Procs /\ NoSector \notin Sectors
  /\ NoBuf \notin Bufs /\ NoVal \notin Vals
  /\ Faults \subseteq Sectors

VARIABLES
  disk,                            \* contents of the sectors
  cmd, csec, cval, busy, port,     \* the drive: command, data going out, BSY, data port
  intr,                            \* 1 while an interrupt is pending
  idequeue,
  bsector, bdata, valid, dirty,    \* struct buf; the sets of B_VALID and B_DIRTY
  holder,                          \* who set B_BUSY
  pc, arg,                         \* per process: where it is, the buf it works on
  panicked

drive == <<cmd, csec, cval, busy, port>>
bufs == <<bsector, bdata, valid, dirty, holder>>

\* The drive finishes its command (external: the IDE controller).
DriveDone ==
  /\ busy = 1
  /\ busy' = 0 /\ intr' = 1
  /\ port' = IF cmd = "read" /\ csec \notin Faults THEN disk[csec] ELSE NoVal
  /\ cval' = NoVal
  /\ disk' = IF cmd = "write" /\ csec \notin Faults
             THEN [disk EXCEPT ![csec] = cval] ELSE disk
  /\ UNCHANGED <<cmd, csec, idequeue, bufs, pc, arg, panicked>>

\* idestart(b), once idewait(0) has seen the drive ready.
idestart(b) ==
  /\ busy' = 1 /\ csec' = bsector[b]
  /\ IF b \in dirty THEN cmd' = "write" /\ cval' = bdata[b]
                    ELSE cmd' = "read" /\ cval' = NoVal
  /\ port' = NoVal

\* The drive is left alone; insl, when it ran, has emptied the data port.
driverest(read) ==
  port' = (IF read THEN NoVal ELSE port) /\ UNCHANGED <<cmd, csec, cval, busy>>

\* wakeup(b): sleepers in iderw and in bget share the channel.
WakeBuf(b, pcs) ==
  [p \in Procs |-> IF arg[p] = b /\ pcs[p] = "iosleep" THEN "io"
                   ELSE IF arg[p] = b /\ pcs[p] = "getsleep" THEN "get" ELSE pcs[p]]

\* iderw: queue the buf, start the drive if it is the first, sleep.
Iderw(p) ==
  /\ pc[p] = "rw"
  /\ LET b == arg[p]
     IN  IF holder[b] = NoProc \/ (b \in valid /\ b \notin dirty)
         THEN /\ panicked' = 1 /\ pc' = [pc EXCEPT ![p] = "panic"]
              /\ UNCHANGED <<drive, idequeue>>
         ELSE /\ idequeue' = Append(idequeue, b)
              /\ \/ idequeue = <<>> /\ busy = 0 /\ idestart(b)
                 \/ idequeue # <<>> /\ UNCHANGED drive
              /\ pc' = [pc EXCEPT ![p] = "iosleep"]
              /\ UNCHANGED panicked
  /\ UNCHANGED <<disk, intr, bufs, arg>>

\* iderw's loop after a wakeup: return, or sleep again.
IderwResume(p) ==
  /\ pc[p] = "io"
  /\ pc' = [pc EXCEPT ![p] = IF arg[p] \in valid /\ arg[p] \notin dirty
                             THEN "have" ELSE "iosleep"]
  /\ UNCHANGED <<disk, drive, intr, idequeue, bufs, arg, panicked>>

\* Mutants: the next request is not started; nobody is woken.
IntrIdle(b) ==
  /\ b \in dirty \/ busy = 0
  /\ idequeue' = Tail(idequeue)
  /\ bdata' = IF b \in dirty \/ csec \in Faults THEN bdata ELSE [bdata EXCEPT ![b] = port]
  /\ valid' = valid \cup {b} /\ dirty' = dirty \ {b}
  /\ pc' = WakeBuf(b, pc)
  /\ driverest(TRUE)
  /\ UNCHANGED <<bsector, holder>>
IntrSilent(b) ==
  /\ b \in dirty \/ busy = 0
  /\ idequeue' = Tail(idequeue)
  /\ bdata' = IF b \in dirty \/ csec \in Faults THEN bdata ELSE [bdata EXCEPT ![b] = port]
  /\ valid' = valid \cup {b} /\ dirty' = dirty \ {b}
  /\ IF idequeue' # <<>> THEN busy = 0 /\ idestart(idequeue'[1]) ELSE driverest(TRUE)
  /\ UNCHANGED <<bsector, holder, pc>>

\* ideintr with b at the head of the queue.  Whether idewait(1) sees an error
\* depends on the command the drive ran last.
IntrHead(b) ==
  /\ b \in dirty \/ busy = 0
  /\ idequeue' = Tail(idequeue)
  /\ bdata' = IF b \in dirty \/ csec \in Faults THEN bdata ELSE [bdata EXCEPT ![b] = port]
  /\ valid' = valid \cup {b} /\ dirty' = dirty \ {b}
  /\ pc' = WakeBuf(b, pc)
  /\ IF idequeue' # <<>> THEN busy = 0 /\ idestart(idequeue'[1]) ELSE driverest(b \notin dirty)
  /\ UNCHANGED <<bsector, holder>>

IdeIntr ==
  /\ intr = 1 /\ idequeue # <<>>
  /\ intr' = 0
  /\ IntrHead(idequeue[1])
  /\ UNCHANGED <<disk, arg, panicked>>
=============================================================================
