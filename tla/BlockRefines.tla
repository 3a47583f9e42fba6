---------------------------- MODULE BlockRefines ---------------------------
(***************************************************************************)
(* bio.c on ide.c (ExIde.tla) implements BlockStore when the kernel's      *)
(* block I/O and the direct read do not overlap: every step is one of      *)
(* BlockStore's or changes nothing that it shows.                          *)
(***************************************************************************)
EXTENDS ExIdeProofs

USE IdeAssumption, SMTT(30), Z3T(30), Zenon DEF PCs, IdeAssumption

\* What the mapped variables are, in terms of the buffers.
MapInv ==
  /\ Contents = [s \in Good |-> Contents[s]] /\ Owner = [s \in Good |-> Owner[s]]
  /\ \A b \in valid : bsector[b] \in Good => Contents[bsector[b]] = bdata[b]
  /\ \A s \in Good : (\A b \in dirty : bsector[b] # s) => Contents[s] = disk[s]
  /\ \A b \in Bufs : bsector[b] \in Good => Owner[bsector[b]] = holder[b]
  /\ \A s \in Good : (\A b \in Bufs : bsector[b] # s) => Owner[s] = NoProc

\* A sector's contents are its buffer's if that is valid, and otherwise the
\* disk's; its owner is its buffer's holder.
LEMMA Mapping == BlockInv => MapInv
<1>. SUFFICES ASSUME BlockInv PROVE MapInv
  OBVIOUS
<1>0. /\ valid \subseteq Bufs /\ dirty \subseteq valid
      /\ \A b, c \in Bufs : bsector[b] = bsector[c] /\ bsector[b] # NoSector => b = c
      /\ \A b \in valid \ dirty : bsector[b] \in Good => bdata[b] = disk[bsector[b]]
      /\ NoSector \notin Good
  BY DEF BlockInv, BufTypes, FlagInv, OneBufPerSector, CleanIsOnDisk, Good
<1>1. Contents = [s \in Good |-> Contents[s]] /\ Owner = [s \in Good |-> Owner[s]]
  BY DEF Contents, Owner
<1>2. ASSUME NEW b \in valid, bsector[b] \in Good PROVE Contents[bsector[b]] = bdata[b]
  <2>1. BufOf(bsector[b]) \cap valid = {b}
    BY <1>0, <1>2 DEF BufOf
  <2>2. (CHOOSE c \in BufOf(bsector[b]) \cap valid : TRUE) = b
    BY <2>1
  <2>. QED  BY <1>2, <2>1, <2>2 DEF Contents
<1>3. ASSUME NEW s \in Good, \A b \in dirty : bsector[b] # s PROVE Contents[s] = disk[s]
  <2>1. CASE BufOf(s) \cap valid = {}
    BY <2>1 DEF Contents
  <2>2. ASSUME NEW b \in BufOf(s) \cap valid PROVE Contents[s] = disk[s]
    BY <1>0, <1>2, <1>3, <2>2 DEF BufOf
  <2>. QED  BY <2>1, <2>2
<1>4. ASSUME NEW b \in Bufs, bsector[b] \in Good PROVE Owner[bsector[b]] = holder[b]
  <2>. DEFINE H == {c \in BufOf(bsector[b]) : holder[c] # NoProc}
  <2>1. Owner[bsector[b]] = IF H = {} THEN NoProc ELSE holder[CHOOSE c \in H : TRUE]
    BY <1>4 DEF Owner
  <2>2. H = IF holder[b] = NoProc THEN {} ELSE {b}
    BY <1>0, <1>4 DEF BufOf
  <2>3. H # {} => (CHOOSE c \in H : TRUE) = b
    BY <2>2
  <2>. HIDE DEF H
  <2>. QED  BY <2>1, <2>2, <2>3
<1>5. ASSUME NEW s \in Good, \A b \in Bufs : bsector[b] # s PROVE Owner[s] = NoProc
  BY <1>5 DEF Owner, BufOf
<1>. QED  BY <1>1, <1>2, <1>3, <1>4, <1>5 DEF MapInv

\* Contents do not change when no buffer's do, no written sector reaches the
\* disk but from its buffer, and no buffer but a clean one loses its sector.
LEMMA ContentsSame ==
  ASSUME MapInv, MapInv', \A s \in Good : Contents'[s] = Contents[s]
  PROVE  Contents' = Contents
BY DEF MapInv, Good

\* The same of owners.
LEMMA OwnerSame ==
  ASSUME MapInv, MapInv', \A s \in Good : Owner'[s] = Owner[s]
  PROVE  Owner' = Owner
BY DEF MapInv, Good

\* A step of the drive, of the interrupt or of a direct read is none of BlockStore.
LEMMA DriveDoneStutters ==
  ASSUME BlockInv, MapInv, MapInv', DriveDone
  PROVE  UNCHANGED Blocks!svars
<1>1. /\ idequeue # <<>> => csec = bsector[idequeue[1]] /\ (cmd = "write" => idequeue[1] \in dirty)
      /\ cmd = "write" => idequeue # <<>>
      /\ UNCHANGED <<bsector, bdata, valid, dirty, holder, pc, arg>>
      /\ \A s \in Good : (s = csec /\ cmd = "write") \/ disk'[s] = disk[s]
      /\ dirty \subseteq valid
  BY DEF DriveDone, BlockInv, DriveInv, FirstIsActive, FlagInv, BufTypes, bufs, Good
<1>2. ASSUME NEW s \in Good PROVE Contents'[s] = Contents[s]
  <2>1. ASSUME NEW b \in dirty, bsector[b] = s PROVE Contents'[s] = Contents[s]
    <3>1. Contents[s] = bdata[b]
      BY Zenon, <1>1, <2>1 DEF MapInv
    <3>2. Contents'[s] = bdata'[b]
      BY <1>1, <2>1 DEF MapInv, Good
    <3>. QED  BY <1>1, <3>1, <3>2
  <2>2. CASE \A b \in dirty : bsector[b] # s
    BY <1>1, <2>2 DEF MapInv, Good
  <2>. QED  BY <2>1, <2>2
<1>3. Contents' = Contents
  BY <1>2, ContentsSame
<1>4. Owner' = Owner /\ InView' = InView
  BY <1>1 DEF Owner, InView, BufOf, Good
<1>. QED  BY <1>3, <1>4 DEF Blocks!svars

\* So is ideintr: the buffer it fills has the contents its sector had.
LEMMA IdeIntrStutters ==
  ASSUME BlockInv, MapInv, MapInv', IdeIntr
  PROVE  UNCHANGED Blocks!svars
<1>. DEFINE b == idequeue[1]
<1>1. /\ b \in Bufs /\ b \in Queued
      /\ bdata' = IF b \in dirty \/ csec \in Faults THEN bdata ELSE [bdata EXCEPT ![b] = port]
      /\ valid' = valid \cup {b} /\ dirty' = dirty \ {b} /\ pc' = WakeBuf(b, pc)
      /\ UNCHANGED <<bsector, holder, disk, arg>>
      /\ dirty \subseteq valid /\ valid \subseteq Bufs
      /\ csec = bsector[b] /\ (csec \in Good /\ b \notin dirty => port = disk[csec])
  BY HeadQueued DEF IdeIntr, IntrHead, BlockInv, DriveInv, FirstIsActive, FlagInv, BufTypes
<1>2. bdata \in [Bufs -> Vals \cup {NoVal}] /\ \A c \in Bufs : c # b => bdata'[c] = bdata[c]
  BY <1>1 DEF BlockInv, BufTypes
<1>3. \A c \in Bufs : bsector[c] = bsector[b] /\ bsector[b] \in Good => c = b
  BY <1>1 DEF BlockInv, OneBufPerSector, Good
<1>. HIDE DEF b
<1>4. ASSUME NEW s \in Good PROVE Contents'[s] = Contents[s]
  <2>1. CASE s = bsector[b]
    <3>1. Contents'[s] = bdata'[b]
      BY <1>1, <2>1 DEF MapInv, Good
    <3>2. CASE b \in dirty
      BY <1>1, <2>1, <3>1, <3>2 DEF MapInv
    <3>3. CASE b \notin dirty
      <4>1. Contents[s] = disk[s]
        BY <1>1, <1>3, <2>1, <3>3 DEF MapInv
      <4>2. bdata'[b] = disk[s]
        BY <1>1, <1>2, <2>1, <3>3 DEF Good
      <4>. QED  BY <3>1, <4>1, <4>2
    <3>. QED  BY <3>2, <3>3
  <2>2. ASSUME NEW c \in dirty, bsector[c] = s, s # bsector[b] PROVE Contents'[s] = Contents[s]
    <3>1. Contents[s] = bdata[c]
      BY <1>1, <2>2 DEF MapInv
    <3>2. Contents'[s] = bdata'[c]
      BY <1>1, <2>2 DEF MapInv, Good
    <3>. QED  BY <1>1, <1>2, <2>2, <3>1, <3>2
  <2>3. CASE \A c \in dirty : bsector[c] # s
    BY <1>1, <2>1, <2>3 DEF MapInv, Good
  <2>. QED  BY <2>1, <2>2, <2>3
<1>5. Contents' = Contents
  BY <1>4, ContentsSame
<1>6. Owner' = Owner
  BY <1>1 DEF Owner, BufOf, Good
<1>7. InView' = InView
  <2>1. ASSUME NEW p \in Procs
        PROVE  /\ pc'[p] = "have" <=> pc[p] = "have"
               /\ pc[p] = "have" => arg[p] # b /\ arg[p] \in Bufs
    BY <1>1 DEF BlockInv, HoldInv, Holding, QueueInv, WakeBuf
  <2>. QED  BY <1>1, <1>2, <2>1 DEF InView, Good
<1>. QED  BY <1>5, <1>6, <1>7 DEF Blocks!svars

\* A step that leaves buffers and disk alone changes nothing but what is in
\* front of a process.
LEMMA QuietStep ==
  ASSUME UNCHANGED <<disk, bsector, bdata, valid, holder>>
  PROVE  Contents' = Contents /\ Owner' = Owner
BY DEF Contents, Owner, BufOf, Good

\* Whoever is at "have" holds a valid buffer, and has something in front.
LEMMA HaveBuf ==
  ASSUME BlockInv, MapInv, NEW p \in Procs, pc[p] = "have"
  PROVE  /\ arg[p] \in Bufs /\ holder[arg[p]] = p /\ arg[p] \in valid /\ p # NoProc
         /\ bsector[arg[p]] \in Good =>
              /\ Owner[bsector[arg[p]]] = p
              /\ Contents[bsector[arg[p]]] = bdata[arg[p]]
              /\ bdata[arg[p]] \in Vals
<1>1. arg[p] \in Bufs /\ holder[arg[p]] = p /\ arg[p] \in valid /\ p # NoProc
  BY DEF BlockInv, HoldInv, Holding, FlagInv
<1>2. bsector[arg[p]] \in Good => bdata[arg[p]] \in Vals
  BY <1>1 DEF BlockInv, FlagInv, CleanIsOnDisk, DriveTypes, Good
<1>. QED  BY <1>1, <1>2 DEF MapInv

\* iderw returns to a caller of bread, or to one of bwrite: Return.
LEMMA ResumeReturns ==
  ASSUME BlockInv, MapInv, NEW p \in Procs, IderwResume(p)
  PROVE  \/ UNCHANGED Blocks!svars
         \/ \E s \in Good : Blocks!Return(p, s)
<1>1. /\ pc[p] = "io" /\ pc' = [pc EXCEPT ![p] = "have"] /\ pc \in [Procs -> PCs]
      /\ arg[p] \in Bufs /\ holder[arg[p]] = p /\ arg[p] \in valid
      /\ UNCHANGED <<disk, bsector, bdata, valid, holder, arg>>
  BY Zenon DEF IderwResume, BlockInv, HoldInv, Holding, FlagInv, BufTypes, bufs
<1>2. Contents' = Contents /\ Owner' = Owner
  BY <1>1, QuietStep
<1>3. CASE bsector[arg[p]] \in Good
  <2>1. InView' = [InView EXCEPT ![p] = bdata[arg[p]]]
    BY Zenon, <1>1, <1>3 DEF InView, Good
  <2>2. Owner[bsector[arg[p]]] = p /\ Contents[bsector[arg[p]]] = bdata[arg[p]]
    BY <1>1, <1>3 DEF MapInv
  <2>3. Blocks!Return(p, bsector[arg[p]])
    BY <1>2, <2>1, <2>2 DEF Blocks!Return
  <2>. QED  BY <1>3, <2>3
<1>4. CASE bsector[arg[p]] \notin Good
  <2>1. InView' = InView
    BY <1>1, <1>4 DEF InView, Good
  <2>. QED  BY <1>2, <2>1 DEF Blocks!svars
<1>. QED  BY <1>3, <1>4

\* The holder's changes are writes: it keeps the buffer in front of it
\* (log_write) or waits for the disk (bwrite).
LEMMA WriteWrites ==
  ASSUME BlockInv, MapInv, MapInv', NEW p \in Procs, NEW v \in Vals,
         Bwrite(p, v) \/ LogWrite(p, v)
  PROVE  \/ UNCHANGED Blocks!svars
         \/ \E s \in Good : Blocks!Write(p, s, v)
<1>. DEFINE b == arg[p]  s == bsector[arg[p]]
<1>1. /\ b \in Bufs /\ holder[b] = p /\ b \in valid /\ pc[p] = "have"
      /\ s \in Good => Owner[s] = p /\ bdata[b] \in Vals
  BY HaveBuf DEF Bwrite, LogWrite
<1>2. /\ bdata' = [bdata EXCEPT ![b] = v] /\ dirty' = dirty \cup {b}
      /\ pc' = [pc EXCEPT ![p] = "rw"] \/ pc' = pc
      /\ UNCHANGED <<disk, bsector, valid, holder, arg>>
      /\ bdata \in [Bufs -> Vals \cup {NoVal}] /\ pc \in [Procs -> PCs]
      /\ valid \subseteq Bufs /\ dirty \subseteq valid
  BY DEF Bwrite, LogWrite, BlockInv, FlagInv, BufTypes
<1>3. Owner' = Owner
  BY <1>2 DEF Owner, BufOf, Good
<1>4. \A c \in Bufs : bsector[c] = s /\ s \in Good => c = b
  BY <1>1 DEF BlockInv, OneBufPerSector, Good
<1>5. \A q \in Procs \ {p} : pc[q] = "have" => arg[q] # b /\ arg[q] \in Bufs
  BY <1>1 DEF BlockInv, HoldInv, Holding
<1>6. arg[p] = b /\ bsector[b] = s
  OBVIOUS
<1>. HIDE DEF b, s
<1>7. ASSUME NEW t \in Good, t # s PROVE Contents'[t] = Contents[t]
  <2>1. ASSUME NEW c \in dirty, bsector[c] = t PROVE Contents'[t] = Contents[t]
    <3>1. Contents[t] = bdata[c] /\ c # b
      BY Zenon, <1>2, <1>6, <1>7, <2>1 DEF MapInv
    <3>2. Contents'[t] = bdata'[c]
      BY <1>2, <2>1 DEF MapInv, Good
    <3>. QED  BY <1>2, <2>1, <3>1, <3>2
  <2>2. CASE \A c \in dirty : bsector[c] # t
    <3>1. Contents[t] = disk[t]
      BY <2>2 DEF MapInv
    <3>2. \A c \in dirty' : bsector'[c] # t
      BY <1>2, <1>6, <1>7, <2>2
    <3>3. Contents'[t] = disk'[t]
      BY <3>2 DEF MapInv, Good
    <3>. QED  BY <1>2, <3>1, <3>3
  <2>. QED  BY <2>1, <2>2
<1>8. CASE s \in Good
  <2>1. Contents'[s] = v
    BY <1>1, <1>2, <1>6, <1>8 DEF MapInv, Good
  <2>2. Contents' = [Contents EXCEPT ![s] = v]
    BY <1>7, <1>8, <2>1 DEF MapInv, Good
  <2>3. InView' \in {[InView EXCEPT ![p] = v], [InView EXCEPT ![p] = NoVal]}
    <3>1. CASE pc' = pc
      <4>1. \A q \in Procs \ {p} : pc[q] = "have" => bdata'[arg[q]] = bdata[arg[q]]
        BY <1>2, <1>5
      <4>2. pc[p] = "have" /\ bsector[arg[p]] \in Good /\ bdata'[arg[p]] = v
        BY <1>1, <1>2, <1>6, <1>8
      <4>3. UNCHANGED <<pc, arg, bsector>>
        BY <1>2, <3>1
      <4>4. InView' = [InView EXCEPT ![p] = v]
        BY Zenon, <4>1, <4>2, <4>3 DEF InView, Good
      <4>. QED  BY <4>4
    <3>2. CASE pc' = [pc EXCEPT ![p] = "rw"]
      <4>1. InView' = [InView EXCEPT ![p] = NoVal]
        BY Zenon, <1>1, <1>2, <1>5, <1>6, <1>8, <3>2 DEF InView, Good
      <4>. QED  BY <4>1
    <3>. QED  BY <1>2, <3>1, <3>2
  <2>4. InView[p] # NoVal
    BY <1>1, <1>6, <1>8 DEF InView
  <2>5. Blocks!Write(p, s, v)
    BY <1>1, <1>3, <1>8, <2>2, <2>3, <2>4 DEF Blocks!Write
  <2>. QED  BY <1>8, <2>5
<1>9. CASE s \notin Good
  <2>1. Contents' = Contents
    BY <1>7, <1>9, ContentsSame
  <2>2. InView' = InView
    BY <1>1, <1>2, <1>5, <1>6, <1>9 DEF InView, Good
  <2>. QED  BY <1>3, <2>1, <2>2 DEF Blocks!svars
<1>. QED  BY <1>8, <1>9

\* brelse gives the sector back.
LEMMA BrelseGives ==
  ASSUME BlockInv, MapInv, MapInv', NEW p \in Procs, Brelse(p)
  PROVE  \/ UNCHANGED Blocks!svars
         \/ \E s \in Good : Blocks!Give(p, s)
<1>. DEFINE b == arg[p]  s == bsector[arg[p]]
<1>1. /\ b \in Bufs /\ holder[b] = p /\ pc[p] = "have"
      /\ s \in Good => Owner[s] = p /\ bdata[b] \in Vals
  BY HaveBuf DEF Brelse
<1>2. /\ holder' = [holder EXCEPT ![b] = NoProc] /\ holder \in [Bufs -> Procs \cup {NoProc}]
      /\ UNCHANGED <<disk, bsector, bdata, valid, dirty>>
  BY DEF Brelse, BlockInv, BufTypes
<1>0. /\ pc' = WakeBuf(b, [pc EXCEPT ![p] = "out"]) /\ pc \in [Procs -> PCs]
      /\ arg' = [arg EXCEPT ![p] = NoBuf] /\ arg \in [Procs -> Bufs \cup {NoBuf}]
  BY DEF Brelse, BlockInv, BufTypes
<1>3. Contents' = Contents
  BY <1>2 DEF Contents, BufOf, Good
<1>4. \A c \in Bufs : bsector[c] = s /\ s \in Good => c = b
  BY <1>1 DEF BlockInv, OneBufPerSector, Good
<1>5. /\ pc'[p] # "have"
      /\ \A q \in Procs \ {p} : (pc'[q] = "have" <=> pc[q] = "have") /\ arg'[q] = arg[q]
  BY <1>0 DEF WakeBuf
<1>6. bsector[b] = s /\ arg[p] = b
  OBVIOUS
<1>. HIDE DEF b, s
<1>7. ASSUME NEW t \in Good, t # s PROVE Owner'[t] = Owner[t]
  <2>1. ASSUME NEW c \in Bufs, bsector[c] = t PROVE Owner'[t] = Owner[t]
    <3>1. Owner[t] = holder[c] /\ c # b
      BY <1>6, <1>7, <2>1 DEF MapInv
    <3>2. Owner'[t] = holder'[c]
      BY <1>2, <2>1 DEF MapInv, Good
    <3>. QED  BY <1>2, <3>1, <3>2
  <2>2. CASE \A c \in Bufs : bsector[c] # t
    <3>1. Owner[t] = NoProc
      BY <2>2 DEF MapInv
    <3>2. Owner'[t] = NoProc
      BY <1>2, <2>2 DEF MapInv, Good
    <3>. QED  BY <3>1, <3>2
  <2>. QED  BY <2>1, <2>2
<1>8. CASE s \in Good
  <2>1. Owner'[s] = NoProc
    BY <1>1, <1>2, <1>6, <1>8 DEF MapInv, Good
  <2>2. Owner' = [Owner EXCEPT ![s] = NoProc]
    BY <1>7, <1>8, <2>1 DEF MapInv, Good
  <2>3. InView' = [InView EXCEPT ![p] = NoVal]
    BY Zenon, <1>2, <1>5 DEF InView, Good
  <2>4. InView[p] # NoVal
    BY <1>1, <1>6, <1>8 DEF InView
  <2>5. Blocks!Give(p, s)
    BY <1>1, <1>3, <1>8, <2>2, <2>3, <2>4 DEF Blocks!Give
  <2>. QED  BY <1>8, <2>5
<1>9. CASE s \notin Good
  <2>1. Owner' = Owner
    BY <1>7, <1>9, OwnerSame
  <2>2. InView' = InView
    BY <1>2, <1>5, <1>6, <1>9 DEF InView, Good
  <2>. QED  BY <1>3, <2>1, <2>2 DEF Blocks!svars
<1>. QED  BY <1>8, <1>9

\* bget takes the sector, with the contents in front of the caller if its
\* buffer is valid.  A recycled buffer was clean: its sector's contents are on
\* the disk.
LEMMA BgetTakes ==
  ASSUME BlockInv, MapInv, MapInv', NEW p \in Procs, Bget(p)
  PROVE  \/ UNCHANGED Blocks!svars
         \/ \E s \in Good : Blocks!Take(p, s)
<1>. DEFINE s == want[p]
<1>1. /\ pc[p] = "get" /\ p # NoProc /\ UNCHANGED <<disk, bdata>>
      /\ holder \in [Bufs -> Procs \cup {NoProc}] /\ arg \in [Procs -> Bufs \cup {NoBuf}]
      /\ pc \in [Procs -> PCs] /\ bsector \in [Bufs -> Sectors \cup {NoSector}]
      /\ s \in Sectors /\ InView[p] = NoVal
  BY DEF Bget, BlockInv, HoldInv, BufTypes, InView
<1>2. \A b \in Bufs : holder[b] # p
  BY <1>1 DEF BlockInv, HoldInv, Holding
<1>3. ASSUME NEW t \in Good PROVE Owner[t] # p
  BY <1>1, <1>2 DEF MapInv
<1>4. ASSUME NEW b \in Cached(s), holder[b] = NoProc,
             holder' = [holder EXCEPT ![b] = p],
             pc' = [pc EXCEPT ![p] = IF b \in valid THEN "have" ELSE "rw"],
             arg' = [arg EXCEPT ![p] = b],
             UNCHANGED <<bsector, valid, dirty>>
      PROVE  UNCHANGED Blocks!svars \/ \E t \in Good : Blocks!Take(p, t)
  <2>. HIDE DEF s
  <2>1. b \in Bufs /\ bsector[b] = s
    BY <1>4 DEF Cached
  <2>2. Contents' = Contents
    BY <1>1, <1>4 DEF Contents, BufOf, Good
  <2>3. ASSUME NEW t \in Good, t # s PROVE Owner'[t] = Owner[t]
    <3>1. ASSUME NEW c \in Bufs, bsector[c] = t PROVE Owner'[t] = Owner[t]
      <4>1. Owner[t] = holder[c] /\ c # b
        BY Zenon, <2>1, <2>3, <3>1 DEF MapInv
      <4>2. Owner'[t] = holder'[c]
        BY <1>4, <3>1 DEF MapInv, Good
      <4>. QED  BY <1>1, <1>4, <4>1, <4>2
    <3>2. CASE \A c \in Bufs : bsector[c] # t
      <4>1. Owner[t] = NoProc
        BY <3>2 DEF MapInv
      <4>2. Owner'[t] = NoProc
        BY <1>4, <3>2 DEF MapInv, Good
      <4>. QED  BY <4>1, <4>2
    <3>. QED  BY <3>1, <3>2
  <2>4. CASE s \in Good
    <3>1. Owner[s] = NoProc
      BY <1>4, <2>1, <2>4 DEF MapInv
    <3>2. Owner'[s] = p
      BY <1>1, <1>4, <2>1, <2>4 DEF MapInv, Good
    <3>3. Owner' = [Owner EXCEPT ![s] = p]
      BY <2>3, <2>4, <3>2 DEF MapInv, Good
    <3>4. CASE b \in valid
      <4>1. InView' = [InView EXCEPT ![p] = bdata[b]]
        BY Zenon, <1>1, <1>4, <2>1, <2>4, <3>4 DEF InView, Good
      <4>2. Contents[s] = bdata[b]
        BY <2>1, <2>4, <3>4 DEF MapInv
      <4>. QED  BY Zenon, <1>3, <2>2, <2>4, <3>1, <3>3, <4>1, <4>2 DEF Blocks!Take
    <3>5. CASE b \notin valid
      <4>1. InView' = InView
        BY <1>1, <1>4, <3>5 DEF InView, Good
      <4>. QED  BY Zenon, <1>3, <2>2, <2>4, <3>1, <3>3, <4>1 DEF Blocks!Take
    <3>. QED  BY <3>4, <3>5
  <2>5. CASE s \notin Good
    <3>1. Owner' = Owner
      BY <2>3, <2>5, OwnerSame
    <3>2. InView' = InView
      BY <1>1, <1>4, <2>1, <2>5 DEF InView, Good
    <3>. QED  BY <2>2, <3>1, <3>2 DEF Blocks!svars
  <2>. QED  BY <2>4, <2>5
<1>5. ASSUME NEW b \in Cached(s), pc' = [pc EXCEPT ![p] = "getsleep"],
             arg' = [arg EXCEPT ![p] = b], UNCHANGED <<holder, bsector, valid>>
      PROVE  UNCHANGED Blocks!svars
  <2>1. Contents' = Contents /\ Owner' = Owner
    BY <1>1, <1>5, QuietStep
  <2>2. InView' = InView
    BY <1>1, <1>5 DEF InView, Good
  <2>. QED  BY <2>1, <2>2 DEF Blocks!svars
<1>6. ASSUME Cached(s) = {}, NEW b \in Recycled,
             arg' = [arg EXCEPT ![p] = b],
             bsector' = [bsector EXCEPT ![b] = s],
             valid' = valid \ {b}, dirty' = dirty \ {b},
             holder' = [holder EXCEPT ![b] = p],
             pc' = [pc EXCEPT ![p] = "rw"]
      PROVE  UNCHANGED Blocks!svars \/ \E t \in Good : Blocks!Take(p, t)
  <2>. HIDE DEF s
  <2>1. /\ b \in Bufs /\ holder[b] = NoProc /\ b \notin dirty
        /\ valid \subseteq Bufs /\ dirty \subseteq valid
    BY RecycledFree DEF BlockInv, FlagInv, BufTypes
  <2>2. \A c \in Bufs : bsector[c] # s
    BY <1>6 DEF Cached
  <2>3. ASSUME NEW t \in Good PROVE Contents'[t] = Contents[t]
    <3>1. ASSUME NEW c \in dirty, bsector[c] = t PROVE Contents'[t] = Contents[t]
      <4>1. Contents[t] = bdata[c]
        BY Zenon, <2>1, <3>1 DEF MapInv
      <4>2. c # b /\ c \in valid' /\ bsector'[c] = t
        BY <1>1, <1>6, <2>1, <3>1
      <4>3. Contents'[t] = bdata'[c]
        BY <4>2 DEF MapInv, Good
      <4>. QED  BY <1>1, <4>1, <4>3
    <3>2. CASE \A c \in dirty : bsector[c] # t
      <4>1. Contents[t] = disk[t]
        BY <3>2 DEF MapInv
      <4>2. \A c \in dirty' : bsector'[c] # t
        BY <1>1, <1>6, <2>1, <3>2
      <4>3. Contents'[t] = disk'[t]
        BY <4>2 DEF MapInv, Good
      <4>. QED  BY <1>1, <4>1, <4>3
    <3>. QED  BY <3>1, <3>2
  <2>4. Contents' = Contents
    BY <2>3, ContentsSame
  <2>5. ASSUME NEW t \in Good, t # s PROVE Owner'[t] = Owner[t]
    <3>1. ASSUME NEW c \in Bufs, c # b, bsector[c] = t PROVE Owner'[t] = Owner[t]
      <4>1. Owner[t] = holder[c]
        BY Zenon, <3>1 DEF MapInv
      <4>2. bsector'[c] = t /\ holder'[c] = holder[c]
        BY <1>1, <1>6, <2>1, <3>1
      <4>3. Owner'[t] = holder'[c]
        BY <4>2 DEF MapInv, Good
      <4>. QED  BY <4>1, <4>2, <4>3
    <3>2. CASE \A c \in Bufs \ {b} : bsector[c] # t
      <4>1. Owner[t] = NoProc
        <5>1. CASE bsector[b] = t
          BY Zenon, <2>1, <5>1 DEF MapInv
        <5>2. CASE bsector[b] # t
          BY <3>2, <5>2 DEF MapInv
        <5>. QED  BY <5>1, <5>2
      <4>2. \A c \in Bufs : bsector'[c] # t
        BY <1>1, <1>6, <2>1, <2>5, <3>2
      <4>3. Owner'[t] = NoProc
        BY <4>2 DEF MapInv, Good
      <4>. QED  BY <4>1, <4>3
    <3>. QED  BY <3>1, <3>2
  <2>6. InView' = InView
    <3>1. ASSUME NEW q \in Procs, q # p, pc[q] = "have" PROVE arg[q] \in Bufs /\ arg[q] # b
      BY <2>1, <3>1 DEF BlockInv, HoldInv, Holding
    <3>. QED  BY <1>1, <1>6, <2>1, <3>1 DEF InView, Good
  <2>7. CASE s \in Good
    <3>1. Owner[s] = NoProc
      BY <2>2, <2>7 DEF MapInv
    <3>2. bsector'[b] = s /\ holder'[b] = p
      BY <1>1, <1>6, <2>1
    <3>3. Owner'[s] = p
      BY <2>1, <2>7, <3>2 DEF MapInv, Good
    <3>4. Owner' = [Owner EXCEPT ![s] = p]
      BY <2>5, <2>7, <3>3 DEF MapInv, Good
    <3>. QED  BY Zenon, <1>3, <2>4, <2>6, <2>7, <3>1, <3>4 DEF Blocks!Take
  <2>8. CASE s \notin Good
    <3>1. Owner' = Owner
      BY <2>5, <2>8, OwnerSame
    <3>. QED  BY <2>4, <2>6, <3>1 DEF Blocks!svars
  <2>. QED  BY <2>7, <2>8
<1>7. ASSUME pc' = [pc EXCEPT ![p] = "panic"], UNCHANGED <<arg, bsector, valid, dirty, holder>>
      PROVE  UNCHANGED Blocks!svars
  <2>1. Contents' = Contents /\ Owner' = Owner
    BY <1>1, <1>7, QuietStep
  <2>2. InView' = InView
    BY <1>1, <1>7 DEF InView, Good
  <2>. QED  BY <2>1, <2>2 DEF Blocks!svars
<1>. QED  BY <1>4, <1>5, <1>6, <1>7 DEF Bget

\* bio.c over ide.c keeps what it promises its callers, direct reads included:
\* a sector belongs to one process at a time, and bread returns what was last
\* written to it.
THEOREM BioImplementsBlockStore == ASSUME ~SHARED PROVE Spec => ImplementsBlockStore
<1>1. Init => Blocks!Init
  <2>. SUFFICES ASSUME Init PROVE Blocks!Init
    OBVIOUS
  <2>1. Contents \in [Good -> Vals]
    BY DEF Init, BioInit, Contents, Good
  <2>2. Owner = [s \in Good |-> NoProc]
    <3>1. \A s \in Good : {b \in BufOf(s) : holder[b] # NoProc} = {}
      BY DEF Init, BioInit, BufOf
    <3>. QED  BY <3>1 DEF Owner
  <2>3. InView = [p \in Procs |-> NoVal]
    BY DEF Init, BioInit, InView
  <2>. QED  BY <2>1, <2>2, <2>3 DEF Blocks!Init
<1>2. BlockInv' => MapInv'
  BY Mapping, PTL
<1>3. BlockInv /\ BlockInv' /\ [Next]_vars => [Blocks!Next]_Blocks!svars
  <2>. SUFFICES ASSUME BlockInv, BlockInv', [Next]_vars, Blocks!svars' # Blocks!svars
                PROVE  Blocks!Next
    OBVIOUS
  <2>0. MapInv /\ MapInv'
    BY <1>2, Mapping
  <2>1. \E p \in Procs, s \in Good :
           \/ Blocks!Take(p, s) \/ Blocks!Return(p, s) \/ Blocks!Give(p, s)
           \/ \E v \in Vals : Blocks!Write(p, s, v)
    <3>1. CASE DriveDone \/ IdeIntr
      BY <2>0, <3>1, DriveDoneStutters, IdeIntrStutters
    <3>2. ASSUME NEW p \in Procs, Iderw(p) PROVE FALSE
      <4>1. UNCHANGED <<disk, bsector, bdata, valid, holder, arg>>
        BY <3>2 DEF Iderw, bufs
      <4>2. pc[p] = "rw" /\ pc' \in {[pc EXCEPT ![p] = "panic"], [pc EXCEPT ![p] = "iosleep"]}
        BY <3>2 DEF Iderw
      <4>3. InView' = InView
        BY <4>1, <4>2 DEF InView, BlockInv, BufTypes, Good
      <4>. QED  BY <4>1, <4>3, QuietStep DEF Blocks!svars
    <3>3. ASSUME NEW p \in Procs, IderwResume(p) PROVE \E s \in Good : Blocks!Return(p, s)
      BY <2>0, <3>3, ResumeReturns
    <3>4. ASSUME NEW p \in Procs, Bget(p) PROVE \E s \in Good : Blocks!Take(p, s)
      BY <2>0, <3>4, BgetTakes
    <3>5. ASSUME NEW p \in Procs, Brelse(p) PROVE \E s \in Good : Blocks!Give(p, s)
      BY <2>0, <3>5, BrelseGives
    <3>6. ASSUME NEW p \in Procs, NEW s \in Sectors, Bread(p, s) PROVE FALSE
      <4>1. UNCHANGED <<disk, bsector, bdata, valid, holder, arg>>
        BY <3>6 DEF Bread, cache, bufs
      <4>2. InView' = InView
        BY <3>6, <4>1 DEF Bread, InView, BlockInv, BufTypes, Good
      <4>. QED  BY <4>1, <4>2, QuietStep DEF Blocks!svars
    <3>7. ASSUME NEW p \in Procs, NEW v \in Vals, Bwrite(p, v) \/ LogWrite(p, v)
          PROVE  \E s \in Good : Blocks!Write(p, s, v)
      BY <2>0, <3>7, WriteWrites
    <3>8. CASE ExFileRead \/ ExReadSector \/ ExIdeIntr(1) \/ UNCHANGED vars
      <4>1. UNCHANGED <<disk, bsector, bdata, valid, holder, pc, arg>>
        BY <3>8 DEF ExFileRead, ExReadSector, ExIdeIntr, vars, bvars, bufs
      <4>2. InView' = InView
        BY Zenon, <4>1 DEF InView, Good
      <4>. QED  BY <4>1, <4>2, QuietStep DEF Blocks!svars
    <3>. QED  BY <3>1, <3>2, <3>3, <3>4, <3>5, <3>6, <3>7, <3>8 DEF Next, Kernel, BioNext, BioIde
  <2>. QED  BY <2>1 DEF Blocks!Next
<1>. QED  BY <1>1, <1>3, BlockInductive, PTL DEF Spec, ImplementsBlockStore, Blocks!Spec
=============================================================================
