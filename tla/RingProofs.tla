----------------------------- MODULE RingProofs -----------------------------
(***************************************************************************)
(* Proofs about the two rings whose free-running unsigned indices wrap:    *)
(* the pipe's (Pipe.tla) and the console's (Console.tla), for any number   *)
(* of readers and writers, any ring and any width of the indices.          *)
(***************************************************************************)
EXTENDS Pipe, Console, TLAPS

USE SMTT(30), Z3T(30), Zenon

(***************************************************************************)
(* Counters that wrap at W: the distance (a - b) % W from b up to a, and   *)
(* how it changes when one of the two moves.                               *)
(***************************************************************************)

\* A number less than W away from the range wraps at most once.
LEMMA WrapOnce ==
  ASSUME NEW W \in Nat \ {0}, NEW x \in Int, -W <= x, x < 2 * W
  PROVE  x % W = IF x < 0 THEN x + W ELSE IF x < W THEN x ELSE x - W
<1>1. CASE x < 0
  <2>1. x + W \in 0 .. W - 1 /\ ((x + W) - W) = x
    BY <1>1
  <2>2. ((x + W) - W) % W = x + W
    BY <2>1
  <2> QED
    BY <1>1, <2>1, <2>2
<1>2. CASE 0 <= x /\ x < W
  BY <1>2
<1>3. CASE W <= x
  <2>1. x - W \in 0 .. W - 1 /\ ((x - W) + W) = x
    BY <1>3
  <2>2. ((x - W) + W) % W = x - W
    BY <2>1
  <2> QED
    BY <1>3, <2>1, <2>2
<1> QED
  BY <1>1, <1>2, <1>3

\* A distance is a value of the type, and 0 only between equal counters.
LEMMA Distance ==
  ASSUME NEW W \in Nat \ {0}, NEW a \in 0 .. W - 1, NEW b \in 0 .. W - 1
  PROVE  /\ (a - b) % W \in 0 .. W - 1
         /\ (a - b) % W = IF b <= a THEN a - b ELSE a - b + W
         /\ (a - b) % W = 0 <=> a = b
<1> DEFINE x == a - b
<1>1. x \in Int /\ -W <= x /\ x < 2 * W /\ (x < 0 <=> ~(b <= a)) /\ x < W
  OBVIOUS
<1>2. x % W = IF x < 0 THEN x + W ELSE IF x < W THEN x ELSE x - W
  <2> HIDE DEF x
  <2> QED BY Zenon, <1>1, WrapOnce
<1>3. (a - b) % W = IF b <= a THEN a - b ELSE a - b + W
  BY <1>1, <1>2
<1> QED
  BY <1>3

\* A counter that moves up stays a value of the type.
LEMMA Up ==
  ASSUME NEW W \in Nat \ {0}, NEW a \in 0 .. W - 1, NEW k \in 0 .. W
  PROVE  /\ (a + k) % W \in 0 .. W - 1
         /\ (a + k) % W = IF a + k < W THEN a + k ELSE a + k - W
<1> DEFINE x == a + k
<1>1. x \in Int /\ -W <= x /\ x < 2 * W /\ ~(x < 0)
  OBVIOUS
<1>2. x % W = IF x < 0 THEN x + W ELSE IF x < W THEN x ELSE x - W
  <2> HIDE DEF x
  <2> QED BY Zenon, <1>1, WrapOnce
<1>3. (a + k) % W = IF a + k < W THEN a + k ELSE a + k - W
  BY <1>1, <1>2
<1> QED
  BY <1>3

\* The upper counter moves up by k.
LEMMA UpperMoves ==
  ASSUME NEW W \in Nat \ {0}, NEW a \in 0 .. W - 1, NEW b \in 0 .. W - 1,
         NEW k \in 0 .. W, ((a - b) % W) + k < W
  PROVE  (((a + k) % W) - b) % W = ((a - b) % W) + k
<1> DEFINE c == (a + k) % W
<1>1. c \in 0 .. W - 1 /\ c = IF a + k < W THEN a + k ELSE a + k - W
  BY Zenon, Up
<1> HIDE DEF c
<1>2. (c - b) % W = IF b <= c THEN c - b ELSE c - b + W
  BY <1>1, Distance
<1>3. (a - b) % W = IF b <= a THEN a - b ELSE a - b + W
  BY Distance
<1>4. (c - b) % W = ((a - b) % W) + k
  BY <1>1, <1>2, <1>3
<1> QED
  BY <1>4 DEF c

\* The lower counter moves up by k.
LEMMA LowerMoves ==
  ASSUME NEW W \in Nat \ {0}, NEW a \in 0 .. W - 1, NEW b \in 0 .. W - 1,
         NEW k \in 0 .. W, k <= (a - b) % W
  PROVE  (a - ((b + k) % W)) % W = ((a - b) % W) - k
<1> DEFINE c == (b + k) % W
<1>1. c \in 0 .. W - 1 /\ c = IF b + k < W THEN b + k ELSE b + k - W
  BY Zenon, Up
<1> HIDE DEF c
<1>2. (a - c) % W = IF c <= a THEN a - c ELSE a - c + W
  BY <1>1, Distance
<1>3. (a - b) % W = IF b <= a THEN a - b ELSE a - b + W
  BY Distance
<1>4. (a - c) % W = ((a - b) % W) - k
  BY <1>1, <1>2, <1>3
<1> QED
  BY <1>4 DEF c

\* The upper counter moves back by one.
LEMMA UpperBack ==
  ASSUME NEW W \in Nat \ {0}, NEW a \in 0 .. W - 1, NEW b \in 0 .. W - 1, a # b
  PROVE  /\ (a - 1) % W \in 0 .. W - 1
         /\ (((a - 1) % W) - b) % W = ((a - b) % W) - 1
<1> DEFINE c == (a - 1) % W
<1>1. c \in 0 .. W - 1 /\ c = IF 1 <= a THEN a - 1 ELSE a - 1 + W
  <2>1. CASE W = 1
    BY <2>1
  <2>2. CASE W # 1
    BY <2>2, Distance
  <2> QED
    BY <2>1, <2>2
<1>3. (a - b) % W = IF b <= a THEN a - b ELSE a - b + W
  BY Distance
<1> HIDE DEF c
<1>2. (c - b) % W = IF b <= c THEN c - b ELSE c - b + W
  BY <1>1, Distance
<1>4. (c - b) % W = ((a - b) % W) - 1
  BY <1>1, <1>2, <1>3
<1> QED
  BY <1>1, <1>4 DEF c

\* The distance leads from b to a.
LEMMA Reaches ==
  ASSUME NEW W \in Nat \ {0}, NEW a \in 0 .. W - 1, NEW b \in 0 .. W - 1
  PROVE  (b + ((a - b) % W)) % W = a
<1> DEFINE d == (a - b) % W
<1>1. d \in 0 .. W /\ d = IF b <= a THEN a - b ELSE a - b + W
  BY Distance
<1> HIDE DEF d
<1>2. (b + d) % W = IF b + d < W THEN b + d ELSE b + d - W
  BY Zenon, <1>1, Up
<1>3. (b + d) % W = a
  BY <1>1, <1>2
<1> QED
  BY <1>3 DEF d

\* Three counters in order: the distances add up.
LEMMA Between ==
  ASSUME NEW W \in Nat \ {0}, NEW a \in 0 .. W - 1, NEW b \in 0 .. W - 1,
         NEW c \in 0 .. W - 1, (b - c) % W <= (a - c) % W
  PROVE  (a - b) % W = ((a - c) % W) - ((b - c) % W)
<1>1. (a - b) % W = IF b <= a THEN a - b ELSE a - b + W
  BY Distance
<1>2. (a - c) % W = IF c <= a THEN a - c ELSE a - c + W
  BY Distance
<1>3. (b - c) % W = IF c <= b THEN b - c ELSE b - c + W
  BY Distance
<1> QED
  BY <1>1, <1>2, <1>3

-----------------------------------------------------------------------------
(***************************************************************************)
(* The pipe.  The safety of the counters and the absence of lost wakeups   *)
(* are proved together: a writer may sleep only because the counters say   *)
(* the ring is full.                                                       *)
(***************************************************************************)

\* An end is open while somebody holds it, whoever is in a call holds theirs, and
\* the page goes only with both ends.
EndsHeld ==
  /\ \A p \in ref : (p \in Readers => readopen = 1) /\ (p \in Writers => writeopen = 1)
  /\ \A p \in Procs : pc[p] # "out" => p \in ref
  /\ freed = 1 => readopen = 0 /\ writeopen = 0

PipeInv ==
  /\ TypeOK /\ EndsHeld
  /\ CountBounded /\ WriterSleepsFull /\ ReaderSleepsEmpty

-----------------------------------------------------------------------------
(* The counters *)

\* The number of bytes in the ring is less than WRAP.
LEMMA CountType ==
  ASSUME TypeOK
  PROVE  Count \in 0 .. WRAP - 1 /\ (Count = 0 <=> nread = nwrite)
<1>1. WRAP \in Nat \ {0} /\ nwrite \in 0 .. WRAP - 1 /\ nread \in 0 .. WRAP - 1
  BY PipeAssumption DEF TypeOK
<1>2. /\ (nwrite - nread) % WRAP \in 0 .. WRAP - 1
      /\ (nwrite - nread) % WRAP = 0 <=> nwrite = nread
  BY <1>1, Distance
<1> QED
  BY <1>2 DEF Count

\* Writing k bytes that fit adds k to the count.
LEMMA CountUp ==
  ASSUME TypeOK, NEW k \in Nat, Count + k <= PIPESIZE,
         nwrite' = (nwrite + k) % WRAP, nread' = nread
  PROVE  nwrite' \in 0 .. WRAP - 1 /\ Count' = Count + k
<1>1. k \in 0 .. WRAP /\ Count + k < WRAP /\ WRAP \in Nat \ {0}
  BY PipeAssumption, CountType
<1>2. (((nwrite + k) % WRAP) - nread) % WRAP = Count + k
  BY Zenon, <1>1, UpperMoves DEF TypeOK, Count
<1>3. (nwrite + k) % WRAP \in 0 .. WRAP - 1
  BY <1>1, Up DEF TypeOK
<1>4. Count' = (nwrite' - nread') % WRAP
  BY DEF Count
<1> QED
  BY <1>2, <1>3, <1>4

\* Reading k bytes that are there takes k from the count.
LEMMA CountDown ==
  ASSUME TypeOK, NEW k \in Nat, k <= Count,
         nread' = (nread + k) % WRAP, nwrite' = nwrite
  PROVE  nread' \in 0 .. WRAP - 1 /\ Count' = Count - k
<1> DEFINE b == (nread + k) % WRAP
<1>1. k \in 0 .. WRAP /\ WRAP \in Nat \ {0}
  BY PipeAssumption, CountType
<1>2. (nwrite - b) % WRAP = Count - k
  <2>1. /\ nread \in 0 .. WRAP - 1 /\ nwrite \in 0 .. WRAP - 1
        /\ Count = (nwrite - nread) % WRAP /\ k <= (nwrite - nread) % WRAP
    BY DEF TypeOK, Count
  <2>2. (nwrite - b) % WRAP = ((nwrite - nread) % WRAP) - k
    BY <1>1, <2>1, LowerMoves
  <2> QED
    BY <2>1, <2>2
<1>3. b \in 0 .. WRAP - 1
  BY <1>1, Up DEF TypeOK
<1>4. nread' = b /\ nwrite' = nwrite
  OBVIOUS
<1> HIDE DEF b
<1>5. Count' = (nwrite - b) % WRAP
  BY <1>4 DEF Count
<1> QED
  BY <1>2, <1>3, <1>4, <1>5

\* What is left of a call after k of its bytes.
LEMMA RestOf ==
  ASSUME NEW s \in Seq(Bytes), NEW k \in 0 .. Len(s)
  PROVE  /\ SubSeq(s, k + 1, Len(s)) \in Seq(Bytes)
         /\ k = Len(s) => SubSeq(s, k + 1, Len(s)) = <<>>
OBVIOUS

-----------------------------------------------------------------------------
(* The steps *)

\* What a write of k bytes does to the counters: k is what fits, and bytes are
\* left only if the ring is full then.
LEMMA WriteCounts ==
  ASSUME PipeInv, NEW p \in Writers, NEW k, k = Lesser(Len(rest[p]), Room),
         nwrite' = (nwrite + k) % WRAP, nread' = nread
  PROVE  /\ nwrite' \in 0 .. WRAP - 1
         /\ Count' \in Count .. PIPESIZE
         /\ SubSeq(rest[p], k + 1, Len(rest[p])) \in Seq(Bytes)
         /\ SubSeq(rest[p], k + 1, Len(rest[p])) # <<>> => Count' = PIPESIZE
<1>1. /\ rest[p] \in Seq(Bytes) /\ Len(rest[p]) \in Nat
      /\ Count \in Nat /\ Count <= PIPESIZE /\ PIPESIZE \in Nat
  BY PipeAssumption, CountType DEF PipeInv, TypeOK, CountBounded
<1>2. /\ k \in Nat /\ k \in 0 .. Len(rest[p]) /\ Count + k <= PIPESIZE
      /\ k = Len(rest[p]) \/ Count + k = PIPESIZE
  BY <1>1 DEF Room, Lesser
<1>3. nwrite' \in 0 .. WRAP - 1 /\ Count' = Count + k
  BY <1>2, CountUp DEF PipeInv
<1>4. /\ SubSeq(rest[p], k + 1, Len(rest[p])) \in Seq(Bytes)
      /\ k = Len(rest[p]) => SubSeq(rest[p], k + 1, Len(rest[p])) = <<>>
  BY <1>1, <1>2, RestOf
<1>5. Count' \in Count .. PIPESIZE
  BY <1>1, <1>2, <1>3
<1> QED
  BY <1>2, <1>3, <1>4, <1>5

\* pipewrite.
LEMMA PipeWriteStep ==
  ASSUME PipeInv, NEW p \in Writers, PipeWrite(p)
  PROVE  PipeInv'
<1> DEFINE k == Lesser(Len(rest[p]), Room)
           left == SubSeq(rest[p], k + 1, Len(rest[p]))
<1>1. /\ nwrite' \in 0 .. WRAP - 1 /\ Count' \in Count .. PIPESIZE
      /\ left \in Seq(Bytes) /\ (left # <<>> => Count' = PIPESIZE)
  BY WriteCounts DEF PipeWrite, Fill
<1>2. Count \in Nat /\ Count <= PIPESIZE /\ PIPESIZE \in Nat
  BY PipeAssumption, CountType DEF PipeInv, CountBounded
<1>3. /\ pc[p] = "call" /\ p \in Procs /\ p \notin Readers
      /\ UNCHANGED <<nread, readopen, writeopen, freed, ref, killed, want>>
  BY PipeAssumption DEF PipeWrite, Procs, ends
<1>4. \/ /\ left = <<>>
         /\ rest' = [rest EXCEPT ![p] = <<>>]
         /\ pc' = Wake([pc EXCEPT ![p] = "out"], Readers)
      \/ /\ left # <<>> /\ (readopen = 0 \/ killed[p] = 1)
         /\ rest' = [rest EXCEPT ![p] = <<>>]
         /\ pc' = [pc EXCEPT ![p] = "out"]
      \/ /\ left # <<>> /\ readopen = 1 /\ killed[p] = 0
         /\ rest' = [rest EXCEPT ![p] = left]
         /\ pc' = Wake([pc EXCEPT ![p] = "sleep"], Readers)
  BY Zenon DEF PipeWrite
<1> HIDE DEF k, left
<1>a. /\ rest' \in [Writers -> Seq(Bytes)]
      /\ Count = PIPESIZE => Count' = PIPESIZE
      /\ Writers \subseteq Procs /\ Readers \subseteq Procs
  <2>1. <<>> \in Seq(Bytes) /\ rest \in [Writers -> Seq(Bytes)]
    BY DEF PipeInv, TypeOK
  <2>2. rest' \in [Writers -> Seq(Bytes)]
    BY Zenon, <1>1, <1>4, <2>1
  <2>3. Count = PIPESIZE => Count' = PIPESIZE
    BY <1>1, <1>2
  <2> QED
    BY <2>2, <2>3 DEF Procs
<1>5. CASE /\ left = <<>>
           /\ pc' = Wake([pc EXCEPT ![p] = "out"], Readers)
  <2>1. /\ pc' \in [Procs -> {"out", "call", "sleep"}]
        /\ \A q \in Procs : /\ pc'[q] = "sleep" => pc[q] = "sleep" /\ q \notin Readers
                            /\ pc'[q] # "out" => pc[q] # "out"
    BY <1>3, <1>5 DEF PipeInv, TypeOK, Wake
  <2>2. TypeOK'
    BY <1>1, <1>3, <1>a, <2>1 DEF PipeInv, TypeOK
  <2>3. EndsHeld'
    BY <1>3, <2>1 DEF PipeInv, EndsHeld
  <2>4. CountBounded'
    BY <1>1, <1>2 DEF PipeInv, CountBounded
  <2>5. WriterSleepsFull'
    BY <1>3, <1>a, <2>1 DEF PipeInv, WriterSleepsFull
  <2>6. ReaderSleepsEmpty'
    BY <1>3, <1>a, <2>1 DEF PipeInv, ReaderSleepsEmpty
  <2> QED
    BY <2>2, <2>3, <2>4, <2>5, <2>6, Zenon DEF PipeInv
<1>6. CASE /\ left # <<>> /\ (readopen = 0 \/ killed[p] = 1)
           /\ pc' = [pc EXCEPT ![p] = "out"]
  <2>1. /\ pc' \in [Procs -> {"out", "call", "sleep"}]
        /\ \A q \in Procs : /\ pc'[q] = "sleep" => pc[q] = "sleep"
                            /\ pc'[q] # "out" => pc[q] # "out"
    BY Zenon, <1>6 DEF PipeInv, TypeOK
  <2>2. TypeOK'
    BY <1>1, <1>3, <1>a, <2>1 DEF PipeInv, TypeOK
  <2>3. EndsHeld'
    BY <1>3, <2>1 DEF PipeInv, EndsHeld
  <2>4. CountBounded'
    BY <1>1, <1>2 DEF PipeInv, CountBounded
  <2>5. WriterSleepsFull'
    BY <1>3, <1>a, <2>1 DEF PipeInv, WriterSleepsFull
  <2>6. ReaderSleepsEmpty'
    BY <1>3, <1>6, <1>a, <2>1 DEF PipeInv, ReaderSleepsEmpty, EndsHeld
  <2> QED
    BY <2>2, <2>3, <2>4, <2>5, <2>6, Zenon DEF PipeInv
<1>7. CASE /\ left # <<>> /\ readopen = 1 /\ killed[p] = 0
           /\ pc' = Wake([pc EXCEPT ![p] = "sleep"], Readers)
  <2>1. /\ pc' \in [Procs -> {"out", "call", "sleep"}]
        /\ \A q \in Procs : /\ pc'[q] = "sleep" => q = p \/ (pc[q] = "sleep" /\ q \notin Readers)
                            /\ pc'[q] # "out" => pc[q] # "out"
    BY <1>3, <1>7 DEF PipeInv, TypeOK, Wake
  <2>2. TypeOK'
    BY <1>1, <1>3, <1>a, <2>1 DEF PipeInv, TypeOK
  <2>3. EndsHeld'
    BY <1>3, <2>1 DEF PipeInv, EndsHeld
  <2>4. CountBounded'
    BY <1>1, <1>2 DEF PipeInv, CountBounded
  <2>5. WriterSleepsFull'
    BY <1>3, <1>a, <2>1, <1>1, <1>7 DEF PipeInv, WriterSleepsFull
  <2>6. ReaderSleepsEmpty'
    BY <1>3, <1>a, <2>1 DEF PipeInv, ReaderSleepsEmpty
  <2> QED
    BY <2>2, <2>3, <2>4, <2>5, <2>6, Zenon DEF PipeInv
<1> QED
  BY <1>4, <1>5, <1>6, <1>7, Zenon

\* piperead: nothing to read yet, and the process sleeps or returns.
LEMMA PipeReadEmptyStep ==
  ASSUME PipeInv, NEW p \in Readers, pc[p] = "call",
         nread = nwrite, writeopen = 1, UNCHANGED <<ring, ends, killed, rest>>,
         pc' = [pc EXCEPT ![p] = IF killed[p] = 1 THEN "out" ELSE "sleep"],
         want' = [want EXCEPT ![p] = IF killed[p] = 1 THEN 0 ELSE @]
  PROVE  PipeInv'
<1>1. /\ p \in Procs /\ p \notin Writers /\ Writers \subseteq Procs /\ Readers \subseteq Procs
      /\ Count = 0
  BY PipeAssumption, CountType DEF PipeInv, Procs
<1>2. /\ UNCHANGED <<nread, nwrite, readopen, writeopen, freed, ref>>
      /\ Count' = Count
  BY DEF ring, ends, Count
<1>3. /\ pc' \in [Procs -> {"out", "call", "sleep"}]
      /\ \A q \in Procs : /\ pc'[q] = "sleep" => q = p \/ pc[q] = "sleep"
                          /\ pc'[q] # "out" => pc[q] # "out"
  BY <1>1 DEF PipeInv, TypeOK
<1>4. TypeOK'
  BY <1>2, <1>3 DEF PipeInv, TypeOK
<1>5. EndsHeld'
  BY <1>2, <1>3 DEF PipeInv, EndsHeld
<1>6. CountBounded'
  BY <1>2 DEF PipeInv, CountBounded
<1>7. WriterSleepsFull'
  BY <1>1, <1>2, <1>3 DEF PipeInv, WriterSleepsFull
<1>8. ReaderSleepsEmpty'
  BY <1>1, <1>2, <1>3 DEF PipeInv, ReaderSleepsEmpty
<1> QED
  BY <1>4, <1>5, <1>6, <1>7, <1>8, Zenon DEF PipeInv

\* piperead: as much as is wanted and there is copied, and the writers woken.
LEMMA PipeReadTakeStep ==
  ASSUME PipeInv, NEW p \in Readers, pc[p] = "call", NEW k, k = Lesser(want[p], Count),
         nread' = (nread + k) % WRAP, UNCHANGED <<nwrite, ends, killed, rest>>,
         pc' = Wake([pc EXCEPT ![p] = "out"], Writers),
         want' = [want EXCEPT ![p] = 0]
  PROVE  PipeInv'
<1>1. /\ p \in Procs /\ Writers \subseteq Procs /\ Readers \subseteq Procs
      /\ Count \in Nat /\ want[p] \in Nat /\ PIPESIZE \in Nat
  BY PipeAssumption, CountType DEF PipeInv, TypeOK, Procs
<1>2. k \in Nat /\ k <= Count
  BY <1>1 DEF Lesser
<1>3. /\ UNCHANGED <<nwrite, readopen, writeopen, freed, ref>>
      /\ nread' \in 0 .. WRAP - 1 /\ Count' = Count - k
  BY <1>2, CountDown DEF PipeInv, ends
<1>4. /\ pc' \in [Procs -> {"out", "call", "sleep"}]
      /\ \A q \in Procs : /\ pc'[q] = "sleep" => pc[q] = "sleep" /\ q \notin Writers
                          /\ pc'[q] # "out" => pc[q] # "out"
  BY <1>1 DEF PipeInv, TypeOK, Wake
<1>5. Count' \in Nat /\ (Count = 0 => Count' = 0) /\ (Count <= PIPESIZE => Count' <= PIPESIZE)
  BY <1>1, <1>2, <1>3
<1>6. TypeOK'
  BY Zenon, <1>1, <1>3, <1>4 DEF PipeInv, TypeOK
<1>7. EndsHeld'
  BY Zenon, <1>3, <1>4 DEF PipeInv, EndsHeld
<1>8. CountBounded'
  BY <1>5 DEF PipeInv, CountBounded
<1>9. WriterSleepsFull'
  BY Zenon, <1>1, <1>4 DEF PipeInv, WriterSleepsFull
<1>10. ReaderSleepsEmpty'
  BY Zenon, <1>1, <1>3, <1>4, <1>5 DEF PipeInv, ReaderSleepsEmpty
<1> QED
  BY <1>6, <1>7, <1>8, <1>9, <1>10, Zenon DEF PipeInv

\* A call begins: its process holds its end open.
LEMMA CallStep ==
  ASSUME PipeInv, NEW p \in ref, pc[p] = "out",
         pc' = [pc EXCEPT ![p] = "call"], UNCHANGED <<ring, ends, killed>>,
         rest' \in [Writers -> Seq(Bytes)], want' \in [Readers -> Nat]
  PROVE  PipeInv'
<1>1. p \in Procs /\ Writers \subseteq Procs /\ Readers \subseteq Procs
  BY DEF PipeInv, TypeOK, Procs
<1>2. /\ UNCHANGED <<nread, nwrite, readopen, writeopen, freed, ref>>
      /\ Count' = Count
  BY DEF ring, ends, Count
<1>3. /\ pc' \in [Procs -> {"out", "call", "sleep"}]
      /\ \A q \in Procs : /\ pc'[q] = "sleep" => pc[q] = "sleep"
                          /\ pc'[q] # "out" => q = p \/ pc[q] # "out"
  BY <1>1 DEF PipeInv, TypeOK
<1>4. TypeOK'
  BY <1>2, <1>3 DEF PipeInv, TypeOK
<1>5. EndsHeld'
  BY <1>2, <1>3 DEF PipeInv, EndsHeld
<1>6. CountBounded'
  BY <1>2 DEF PipeInv, CountBounded
<1>7. WriterSleepsFull'
  BY <1>1, <1>2, <1>3 DEF PipeInv, WriterSleepsFull
<1>8. ReaderSleepsEmpty'
  BY <1>1, <1>2, <1>3 DEF PipeInv, ReaderSleepsEmpty
<1> QED
  BY <1>4, <1>5, <1>6, <1>7, <1>8, Zenon DEF PipeInv

\* A process is killed, and woken if it sleeps.
LEMMA KillStep ==
  ASSUME PipeInv, NEW p \in Procs, Kill(p)
  PROVE  PipeInv'
<1>1. Writers \subseteq Procs /\ Readers \subseteq Procs
  BY DEF Procs
<1>2. /\ UNCHANGED <<nread, nwrite, readopen, writeopen, freed, ref, rest, want>>
      /\ Count' = Count
  BY DEF Kill, ring, ends, Count
<1>3. /\ pc' \in [Procs -> {"out", "call", "sleep"}]
      /\ \A q \in Procs : /\ pc'[q] = "sleep" => pc[q] = "sleep"
                          /\ pc'[q] # "out" => pc[q] # "out"
  BY DEF Kill, Wake, PipeInv, TypeOK
<1>4. /\ killed' \in [Procs -> {0, 1}]
      /\ \A q \in Procs : killed[q] = 1 => killed'[q] = 1
  BY DEF Kill, PipeInv, TypeOK
<1>5. TypeOK'
  BY <1>2, <1>3, <1>4 DEF PipeInv, TypeOK
<1>6. EndsHeld'
  BY <1>2, <1>3 DEF PipeInv, EndsHeld
<1>7. CountBounded'
  BY <1>2 DEF PipeInv, CountBounded
<1>8. WriterSleepsFull'
  BY <1>1, <1>2, <1>3 DEF PipeInv, WriterSleepsFull
<1>9. ReaderSleepsEmpty'
  BY <1>1, <1>2, <1>3, <1>4 DEF PipeInv, ReaderSleepsEmpty
<1> QED
  BY <1>5, <1>6, <1>7, <1>8, <1>9, Zenon DEF PipeInv


\* An end is closed: it is held no more by this process, and the processes on the
\* other side are woken when nobody holds it.
LEMMA CloseStep ==
  ASSUME PipeInv, NEW p \in Procs, Close(p)
  PROVE  PipeInv'
<1> DEFINE last == (p \in Readers /\ ref' \cap Readers = {}) \/ (p \in Writers /\ ref' \cap Writers = {})
<1>1. /\ Writers \subseteq Procs /\ Readers \subseteq Procs /\ Readers \cap Writers = {}
      /\ p \in Readers \/ p \in Writers
  BY PipeAssumption DEF Procs
<1>2. /\ UNCHANGED <<nread, nwrite, killed, rest, want>> /\ Count' = Count
  BY DEF Close, ring, Count
<1>3. /\ p \in ref /\ ref' = ref \ {p} /\ pc[p] = "out"
      /\ readopen' = IF last /\ p \in Readers THEN 0 ELSE readopen
      /\ writeopen' = IF last /\ p \in Writers THEN 0 ELSE writeopen
      /\ freed' = IF readopen' = 0 /\ writeopen' = 0 THEN 1 ELSE freed
      /\ pc' = IF ~last THEN pc ELSE Wake(pc, IF p \in Readers THEN Writers ELSE Readers)
  BY Zenon DEF Close
<1>4. /\ pc' \in [Procs -> {"out", "call", "sleep"}]
      /\ \A q \in Procs : /\ pc'[q] = "sleep" => pc[q] = "sleep"
                          /\ pc'[q] # "out" => pc[q] # "out"
  BY <1>3 DEF Wake, PipeInv, TypeOK
<1>5. readopen' \in {0, 1} /\ writeopen' \in {0, 1} /\ freed' \in {0, 1} /\ ref' \subseteq Procs
  BY <1>3 DEF PipeInv, TypeOK
<1>6. TypeOK'
  BY <1>2, <1>4, <1>5 DEF PipeInv, TypeOK
<1>7. EndsHeld'
  <2>1. ASSUME NEW q \in ref', q \in Readers PROVE readopen' = 1
    BY <1>1, <1>3, <2>1 DEF PipeInv, EndsHeld
  <2>2. ASSUME NEW q \in ref', q \in Writers PROVE writeopen' = 1
    BY <1>1, <1>3, <2>2 DEF PipeInv, EndsHeld
  <2>3. ASSUME NEW q \in Procs, pc'[q] # "out" PROVE q \in ref'
    BY <1>3, <1>4, <2>3 DEF PipeInv, EndsHeld
  <2>4. freed' = 1 => readopen' = 0 /\ writeopen' = 0
    BY <1>3 DEF PipeInv, EndsHeld, TypeOK
  <2> QED
    BY <2>1, <2>2, <2>3, <2>4 DEF EndsHeld
<1>8. CountBounded'
  BY <1>2 DEF PipeInv, CountBounded
<1>9. WriterSleepsFull'
  <2>1. ASSUME NEW q \in Writers, pc'[q] = "sleep" PROVE ~(last /\ p \in Readers)
    BY <1>1, <1>3, <2>1 DEF Wake, PipeInv, TypeOK
  <2> QED
    BY <1>1, <1>2, <1>3, <1>4, <2>1 DEF PipeInv, WriterSleepsFull
<1>10. ReaderSleepsEmpty'
  <2>1. ASSUME NEW q \in Readers, pc'[q] = "sleep" PROVE ~(last /\ p \in Writers)
    BY <1>1, <1>3, <2>1 DEF Wake, PipeInv, TypeOK
  <2> QED
    BY <1>1, <1>2, <1>3, <1>4, <2>1 DEF PipeInv, ReaderSleepsEmpty
<1> QED
  BY <1>6, <1>7, <1>8, <1>9, <1>10, Zenon DEF PipeInv

-----------------------------------------------------------------------------
(* The results *)

\* The invariant holds of a new pipe and is preserved by every step.
THEOREM PipeInvariant == Spec => []PipeInv
<1>1. Init => PipeInv
  <2> SUFFICES ASSUME Init PROVE PipeInv
    OBVIOUS
  <2>1. TypeOK
    BY PipeAssumption DEF Init, TypeOK, Procs
  <2>2. Count = 0
    BY <2>1, CountType DEF Init
  <2> QED
    BY <2>1, <2>2, PipeAssumption
       DEF Init, PipeInv, EndsHeld, CountBounded, WriterSleepsFull, ReaderSleepsEmpty, Procs
<1>2. PipeInv /\ [Next]_vars => PipeInv'
  <2> SUFFICES ASSUME PipeInv, [Next]_vars PROVE PipeInv'
    OBVIOUS
  <2>1. ASSUME NEW p \in Writers, PipeWrite(p) PROVE PipeInv'
    BY <2>1, PipeWriteStep
  <2>2. ASSUME NEW p \in Writers, NEW s \in Calls, CallWrite(p, s) PROVE PipeInv'
    <3>1. s \in Seq(Bytes)
      BY DEF Calls
    <3>2. rest' \in [Writers -> Seq(Bytes)] /\ want' \in [Readers -> Nat]
      BY <2>2, <3>1 DEF CallWrite, PipeInv, TypeOK
    <3> QED
      BY Zenon, <2>2, <3>2, CallStep DEF CallWrite
  <2>3. ASSUME NEW p \in Readers, PipeRead(p) PROVE PipeInv'
    <3>1. CASE nread = nwrite /\ writeopen = 1
      BY <2>3, <3>1, PipeReadEmptyStep DEF PipeRead, ring
    <3>2. CASE nread # nwrite \/ writeopen = 0
      <4>1. PICK k : k = Lesser(want[p], Count)
        OBVIOUS
      <4>2. /\ pc[p] = "call" /\ nread' = (nread + k) % WRAP
            /\ UNCHANGED <<nwrite, ends, killed, rest>>
            /\ pc' = Wake([pc EXCEPT ![p] = "out"], Writers)
            /\ want' = [want EXCEPT ![p] = 0]
        BY <2>3, <3>2, <4>1 DEF PipeRead, PipeInv, TypeOK
      <4> QED
        BY Zenon, <4>1, <4>2, PipeReadTakeStep
    <3> QED
      BY <3>1, <3>2 DEF PipeInv, TypeOK
  <2>4. ASSUME NEW p \in Readers, NEW n \in 1 .. MaxN, CallRead(p, n) PROVE PipeInv'
    <3>1. rest' \in [Writers -> Seq(Bytes)] /\ want' \in [Readers -> Nat]
      BY <2>4, PipeAssumption DEF CallRead, PipeInv, TypeOK
    <3> QED
      BY Zenon, <2>4, <3>1, CallStep DEF CallRead
  <2>5. ASSUME NEW p \in Procs, Close(p) \/ Kill(p) PROVE PipeInv'
    BY <2>5, CloseStep, KillStep
  <2>6. CASE UNCHANGED vars
    BY <2>6 DEF vars, ring, ends, PipeInv, TypeOK, EndsHeld, CountBounded, Count,
                WriterSleepsFull, ReaderSleepsEmpty
  <2> QED
    BY <2>1, <2>2, <2>3, <2>4, <2>5, <2>6 DEF Next
<1> QED
  BY <1>1, <1>2, PTL DEF Spec

\* A pipe is safe for any number of readers and writers (pipewrite, piperead,
\* pipeclose): the counters never drift apart by more than the ring, the page is
\* not freed under a process inside a call, and nobody sleeps on whom a wakeup
\* was due, a killed writer's readers excepted.
THEOREM PipeSafety == Spec => []PipeSafe
<1>1. PipeInv => NoUseAfterFree
  BY DEF PipeInv, EndsHeld, NoUseAfterFree, TypeOK, Procs
<1>2. PipeInv => PipeSafe
  BY <1>1 DEF PipeInv, PipeSafe
<1> QED
  BY <1>2, PipeInvariant, PTL

-----------------------------------------------------------------------------
(***************************************************************************)
(* The console.  What is proved is how the distances from r to w and from  *)
(* r to e move; that a sleeping reader has nothing to read follows from    *)
(* how a read stops.                                                       *)
(***************************************************************************)

\* The types that this needs, and the invariant.
IndexTyped ==
  /\ r \in 0 .. IWRAP - 1 /\ w \in 0 .. IWRAP - 1 /\ e \in 0 .. IWRAP - 1
  /\ rpc \in [ConReaders -> {"out", "run", "asleep"}]
  /\ rleft \in [ConReaders -> Nat]

IndexInv ==
  /\ IndexTyped
  /\ IndexOrder
  /\ FullIsCommitted
  /\ SleeperHasNothing

\* The width and the size of the ring, as the lemmas want them.
LEMMA Width ==
  /\ IWRAP \in Nat \ {0} /\ INPUT_BUF \in Nat \ {0} /\ INPUT_BUF < IWRAP
BY ConsoleAssumption

\* The distances, and what the invariant says of them.
LEMMA Distances ==
  ASSUME IndexInv
  PROVE  /\ Sub(w, r) \in Nat /\ Sub(e, r) \in Nat
         /\ Sub(w, r) <= Sub(e, r) /\ Sub(e, r) <= INPUT_BUF
         /\ Sub(w, r) = 0 <=> r = w
         /\ Sub(e, w) = Sub(e, r) - Sub(w, r)
         /\ Sub(e, w) = 0 <=> e = w
<1>1. r \in 0 .. IWRAP - 1 /\ w \in 0 .. IWRAP - 1 /\ e \in 0 .. IWRAP - 1
  BY DEF IndexInv, IndexTyped
<1>2. Sub(w, r) \in Nat /\ (Sub(w, r) = 0 <=> r = w)
  BY <1>1, Width, Distance DEF Sub
<1>3. Sub(e, r) \in Nat
  BY <1>1, Width, Distance DEF Sub
<1>4. Sub(e, w) = 0 <=> e = w
  BY <1>1, Width, Distance DEF Sub
<1>5. Sub(w, r) <= Sub(e, r) /\ Sub(e, r) <= INPUT_BUF
  BY DEF IndexInv, IndexOrder
<1>6. Sub(e, w) = Sub(e, r) - Sub(w, r)
  BY <1>1, <1>5, Width, Between DEF Sub
<1> QED
  BY <1>2, <1>3, <1>4, <1>5, <1>6

-----------------------------------------------------------------------------
(* How an index moves *)

\* An index above b moves up by k, within the ring.
LEMMA MoveUp ==
  ASSUME NEW a \in 0 .. IWRAP - 1, NEW b \in 0 .. IWRAP - 1, NEW k \in Nat,
         Sub(a, b) + k <= INPUT_BUF
  PROVE  Add(a, k) \in 0 .. IWRAP - 1 /\ Sub(Add(a, k), b) = Sub(a, b) + k
<1>1. Sub(a, b) \in 0 .. IWRAP - 1
  BY Width, Distance DEF Sub
<1>2. k \in 0 .. IWRAP /\ ((a - b) % IWRAP) + k < IWRAP
  BY <1>1, Width DEF Sub
<1>3. (a + k) % IWRAP \in 0 .. IWRAP - 1
  BY <1>2, Width, Up
<1>4. (((a + k) % IWRAP) - b) % IWRAP = ((a - b) % IWRAP) + k
  BY <1>2, Width, UpperMoves
<1> QED
  BY <1>3, <1>4 DEF Sub, Add

\* An index below a moves up by k, no further than a.
LEMMA MoveLow ==
  ASSUME NEW a \in 0 .. IWRAP - 1, NEW b \in 0 .. IWRAP - 1, NEW k \in Nat,
         k <= Sub(a, b)
  PROVE  Add(b, k) \in 0 .. IWRAP - 1 /\ Sub(a, Add(b, k)) = Sub(a, b) - k
<1>1. Sub(a, b) \in 0 .. IWRAP - 1
  BY Width, Distance DEF Sub
<1>2. k \in 0 .. IWRAP /\ k <= (a - b) % IWRAP
  BY <1>1, Width DEF Sub
<1>3. (b + k) % IWRAP \in 0 .. IWRAP - 1
  BY <1>2, Width, Up
<1>4. (a - ((b + k) % IWRAP)) % IWRAP = ((a - b) % IWRAP) - k
  BY <1>2, Width, LowerMoves
<1> QED
  BY <1>3, <1>4 DEF Sub, Add

-----------------------------------------------------------------------------
(* The steps *)

\* The initial state satisfies the invariant.
LEMMA IndexStarts == ConsoleInit => IndexInv
<1> SUFFICES ASSUME ConsoleInit PROVE IndexInv
  OBVIOUS
<1>1. IndexTyped
  BY Width DEF ConsoleInit, IndexTyped
<1>2. Sub(0, 0) = 0
  <2>1. 0 \in 0 .. IWRAP - 1
    BY Width
  <2> QED
    BY <2>1, Width, Distance DEF Sub
<1>3. Sub(w, r) = 0 /\ Sub(e, r) = 0
  BY <1>2 DEF ConsoleInit
<1>4. IndexOrder /\ FullIsCommitted
  BY <1>3, Width DEF IndexOrder, FullIsCommitted
<1>5. SleeperHasNothing
  BY DEF ConsoleInit, SleeperHasNothing
<1> QED
  BY <1>1, <1>4, <1>5 DEF IndexInv

\* C('U') moves e back, no further than w.
LEMMA KillLineKeeps ==
  ASSUME IndexInv, KillLine
  PROVE  IndexInv'
<1>1. r \in 0 .. IWRAP - 1 /\ w \in 0 .. IWRAP - 1 /\ r' = r /\ w' = w
      /\ rpc' = rpc /\ rleft' = rleft
  BY DEF IndexInv, IndexTyped, KillLine, readVars
<1>2. PICK m \in 0 .. Sub(e, w) : e' = Add(w, m)
  BY DEF KillLine
<1>3. m \in Nat /\ Sub(w, r) + m <= Sub(e, r) /\ Sub(w, r) + m <= INPUT_BUF
  BY <1>2, Distances, Width
<1>4. e' \in 0 .. IWRAP - 1 /\ Sub(e', r) = Sub(w, r) + m
  BY <1>1, <1>2, <1>3, MoveUp
<1>5. IndexTyped'
  BY <1>1, <1>4 DEF IndexInv, IndexTyped
<1>6. IndexOrder'
  BY <1>1, <1>3, <1>4, Distances DEF IndexOrder, Sub
<1>7. FullIsCommitted'
  <2>1. Sub(e', r) = INPUT_BUF => Sub(e, r) = INPUT_BUF
    BY <1>3, <1>4, Distances, Width
  <2>2. Sub(e, r)' = Sub(e', r)
    BY <1>1 DEF Sub
  <2> QED
    BY <1>1, <2>1, <2>2 DEF IndexInv, FullIsCommitted
<1>8. SleeperHasNothing'
  BY <1>1 DEF IndexInv, SleeperHasNothing
<1> QED
  BY <1>5, <1>6, <1>7, <1>8 DEF IndexInv

\* A backspace moves e back by one if it is above w.
LEMMA BackspaceKeeps ==
  ASSUME IndexInv, Backspace
  PROVE  IndexInv'
<1>1. /\ r \in 0 .. IWRAP - 1 /\ w \in 0 .. IWRAP - 1 /\ e \in 0 .. IWRAP - 1
      /\ r' = r /\ w' = w /\ rpc' = rpc /\ rleft' = rleft
  BY DEF IndexInv, IndexTyped, Backspace, readVars
<1>2. CASE e # w
  <2>1. e' = Sub(e, 1) /\ e # r
    <3>1. e = r => Sub(e, r) = 0
      BY <1>1, Width, Distance DEF Sub
    <3>2. Sub(e, w) # 0
      BY <1>2, Distances
    <3>3. e # r
      BY <3>1, <3>2, Distances
    <3> QED
      BY <1>2, <3>3 DEF Backspace
  <2>2. e' \in 0 .. IWRAP - 1 /\ Sub(e', r) = Sub(e, r) - 1
    BY <1>1, <2>1, Width, UpperBack DEF Sub
  <2>3. Sub(w, r) <= Sub(e, r) - 1
    BY <1>2, Distances, Distance, <1>1, Width DEF Sub
  <2>4. IndexTyped'
    BY <1>1, <2>2 DEF IndexInv, IndexTyped
  <2>5. Sub(e, r)' = Sub(e', r) /\ Sub(w, r)' = Sub(w, r)
    BY <1>1 DEF Sub
  <2>6. IndexOrder' /\ FullIsCommitted'
    BY <2>2, <2>3, <2>5, Distances, Width DEF IndexOrder, FullIsCommitted
  <2>7. SleeperHasNothing'
    BY <1>1 DEF IndexInv, SleeperHasNothing
  <2> QED
    BY <2>4, <2>6, <2>7 DEF IndexInv
<1>3. CASE e = w
  <2>1. e' = e
    BY <1>3 DEF Backspace
  <2> QED
    BY <1>1, <2>1
    DEF IndexInv, IndexTyped, IndexOrder, FullIsCommitted, SleeperHasNothing, Sub
<1> QED
  BY <1>2, <1>3

\* A character is stored; the one that fills the ring commits it.
LEMMA StoreKeeps ==
  ASSUME IndexInv, NEW c \in Typed, Store(c)
  PROVE  IndexInv'
<1>1. /\ r \in 0 .. IWRAP - 1 /\ w \in 0 .. IWRAP - 1 /\ e \in 0 .. IWRAP - 1
      /\ r' = r /\ e' = Add(e, 1) /\ rleft' = rleft
      /\ Sub(e, r) < INPUT_BUF
  BY DEF IndexInv, IndexTyped, Store, HasRoom
<1>2. e' \in 0 .. IWRAP - 1 /\ Sub(e', r) = Sub(e, r) + 1
  <2>1. 1 \in Nat /\ Sub(e, r) + 1 <= INPUT_BUF
    BY <1>1, Distances, Width
  <2> QED
    BY <1>1, <2>1, MoveUp
<1>3. Sub(e, r)' = Sub(e', r) /\ Sub(e', r) <= INPUT_BUF /\ Sub(e', r) # 0
  BY <1>1, <1>2, Distances, Width DEF Sub
<1>4. CASE w' = e' /\ WakeReaders
  <2>1. Sub(w, r)' = Sub(e', r)
    BY <1>1, <1>4 DEF Sub
  <2>2. IndexTyped'
    BY <1>1, <1>2, <1>4 DEF IndexInv, IndexTyped, WakeReaders
  <2>3. IndexOrder'
    BY <1>2, <1>3, <2>1, Distances DEF IndexOrder
  <2>4. r' # w'
    <3>1. Sub(r, r) = 0
      BY <1>1, Width, Distance DEF Sub
    <3> QED
      BY <1>1, <1>3, <1>4, <3>1
  <2>5. SleeperHasNothing'
    BY <1>4 DEF WakeReaders, SleeperHasNothing
  <2> QED
    BY <2>2, <2>3, <2>4, <2>5 DEF IndexInv, FullIsCommitted
<1>5. CASE Add(e, 1) # Add(r, INPUT_BUF) /\ w' = w /\ rpc' = rpc
  <2>1. Sub(w, r)' = Sub(w, r)
    BY <1>1, <1>5 DEF Sub
  <2>2. IndexTyped'
    BY <1>1, <1>2, <1>5 DEF IndexInv, IndexTyped
  <2>3. IndexOrder'
    BY <1>2, <1>3, <2>1, Distances, Width DEF IndexOrder
  <2>4. Sub(e', r) # INPUT_BUF
    <3>1. Add(r, Sub(e', r)) = e'
      BY <1>1, <1>2, Width, Reaches DEF Add, Sub
    <3> QED
      BY <1>1, <1>5, <3>1
  <2>5. SleeperHasNothing'
    BY <1>1, <1>5 DEF IndexInv, SleeperHasNothing
  <2> QED
    BY <1>3, <2>2, <2>3, <2>4, <2>5 DEF IndexInv, FullIsCommitted
<1> QED
  BY <1>1, <1>4, <1>5 DEF Store, Commits

\* A reader takes characters from below w; it sleeps only at w.
LEMMA ReadKeeps ==
  ASSUME IndexInv, NEW p \in ConReaders, NEW k \in 0 .. Sub(w, r), ReadSome(p, k)
  PROVE  IndexInv'
<1> DEFINE n == rleft[p] - k
           eot == AtEot(rleft[p], k)
           j == k + (IF eot THEN EatsEot(n, target[p]) ELSE 0)
<1>1. /\ r \in 0 .. IWRAP - 1 /\ w \in 0 .. IWRAP - 1 /\ e \in 0 .. IWRAP - 1
      /\ w' = w /\ e' = e /\ rpc \in [ConReaders -> {"out", "run", "asleep"}]
      /\ rleft \in [ConReaders -> Nat] /\ k \in Nat
  BY Distances DEF IndexInv, IndexTyped, ReadSome
<1>2. j \in Nat /\ k <= j /\ j <= Sub(w, r) /\ j <= Sub(e, r)
  <2>1. eot => k < Sub(w, r)
    BY DEF AtEot
  <2>2. EatsEot(n, target[p]) \in {0, 1}
    BY DEF EatsEot
  <2> HIDE DEF eot, n
  <2> QED
    BY <1>1, <2>1, <2>2, Distances
<1>3. r' = Add(r, j)
  BY DEF ReadSome
<1>4. ~eot => j = k
  <2> HIDE DEF eot, n
  <2> QED
    BY <1>1
<1> HIDE DEF j
<1>5. r' \in 0 .. IWRAP - 1 /\ Sub(w, r') = Sub(w, r) - j /\ Sub(e, r') = Sub(e, r) - j
  BY <1>1, <1>2, <1>3, MoveLow
<1>6. Sub(w, r)' = Sub(w, r) - j /\ Sub(e, r)' = Sub(e, r) - j
  BY <1>1, <1>5 DEF Sub
<1>7. j = 0 => r' = r
  <2>1. (r + 0) % IWRAP = r
    BY <1>1, Width
  <2> QED
    BY <1>3, <2>1 DEF Add
<1>8. IndexOrder'
  BY <1>2, <1>6, Distances, Width DEF IndexOrder
<1>9. FullIsCommitted'
  <2>1. Sub(e, r)' = INPUT_BUF => j = 0 /\ Sub(e, r) = INPUT_BUF
    BY <1>2, <1>6, Distances, Width
  <2> QED
    BY <1>1, <1>7, <2>1 DEF IndexInv, FullIsCommitted
<1>10. CASE rpc' = [rpc EXCEPT ![p] = "out"] /\ rleft' = [rleft EXCEPT ![p] = 0]
  <2>1. IndexTyped'
    BY <1>1, <1>5, <1>10 DEF IndexTyped
  <2>2. ASSUME NEW q \in ConReaders, rpc'[q] = "asleep" PROVE r' = w'
    <3>1. r = w
      BY <1>1, <1>10, <2>2 DEF IndexInv, SleeperHasNothing
    <3>2. j = 0
      BY <1>2, <3>1, Distances
    <3> QED
      BY <1>1, <1>7, <3>1, <3>2
  <2>3. SleeperHasNothing'
    BY <2>2 DEF SleeperHasNothing
  <2> QED
    BY <1>8, <1>9, <2>1, <2>3 DEF IndexInv
<1>11. CASE /\ n # 0 /\ ~AtLine(k) /\ ~eot
            /\ rpc' = [rpc EXCEPT ![p] = "asleep"] /\ rleft' = [rleft EXCEPT ![p] = n]
  <2>1. k <= rleft[p] /\ n \in Nat
    BY <1>1 DEF ReadSome
  <2>2. IndexTyped'
    <3> HIDE DEF n
    <3> QED
      BY <1>1, <1>5, <1>11, <2>1 DEF IndexTyped
  <2>3. k # rleft[p]
    BY <1>1, <1>11
  <2>4. k = Sub(w, r)
    BY <1>11, <2>3 DEF ReadSome, Takes
  <2>5. j = Sub(w, r)
    BY <1>4, <1>11, <2>4
  <2>6. r' = w'
    BY <1>1, <1>3, <2>5, Reaches, Width DEF Add, Sub
  <2>7. SleeperHasNothing'
    BY <2>6 DEF SleeperHasNothing
  <2> QED
    BY <1>8, <1>9, <2>2, <2>7 DEF IndexInv
<1> HIDE DEF n, eot
<1>12. \/ rpc' = [rpc EXCEPT ![p] = "out"] /\ rleft' = [rleft EXCEPT ![p] = 0]
       \/ /\ n # 0 /\ ~AtLine(k) /\ ~eot
          /\ rpc' = [rpc EXCEPT ![p] = "asleep"] /\ rleft' = [rleft EXCEPT ![p] = n]
  BY Zenon DEF ReadSome, n, eot
<1> QED
  BY <1>10, <1>11, <1>12

\* A call and a kill move no index, and put nobody to sleep.
LEMMA OthersKeep ==
  ASSUME IndexInv, UNCHANGED ringVars, NEW p \in ConReaders, NEW n \in Nat,
         rpc' = [rpc EXCEPT ![p] = "run"],
         rleft' = rleft \/ rleft' = [rleft EXCEPT ![p] = n]
  PROVE  IndexInv'
<1>1. IndexTyped'
  BY DEF IndexInv, IndexTyped, ringVars
<1>2. IndexOrder' /\ FullIsCommitted'
  BY DEF IndexInv, IndexOrder, FullIsCommitted, ringVars, Sub
<1>3. SleeperHasNothing'
  BY DEF IndexInv, IndexTyped, SleeperHasNothing, ringVars
<1> QED
  BY <1>1, <1>2, <1>3 DEF IndexInv

\* Every step keeps the invariant.
LEMMA IndexStays == IndexInv /\ [ConsoleNext]_consVars => IndexInv'
<1> SUFFICES ASSUME IndexInv, [ConsoleNext]_consVars PROVE IndexInv'
  OBVIOUS
<1>1. ASSUME NEW c \in Typed, ConsoleIntr(c) PROVE IndexInv'
  <2>1. CASE KillLine
    BY <2>1, KillLineKeeps
  <2>2. CASE Backspace
    BY <2>2, BackspaceKeeps
  <2>3. CASE Store(c)
    BY <2>3, StoreKeeps
  <2>4. CASE UNCHANGED consVars
    BY <2>4 DEF IndexInv, IndexTyped, IndexOrder, FullIsCommitted,
                SleeperHasNothing, Sub, consVars, ringVars, readVars
  <2> QED
    BY <1>1, <2>1, <2>2, <2>3, <2>4 DEF ConsoleIntr, Drop
<1>2. ASSUME NEW p \in ConReaders, NEW n \in 0 .. MAXREAD, ReadCall(p, n) PROVE IndexInv'
  <2>1. n \in Nat
    BY ConsoleAssumption
  <2> QED
    BY Zenon, <1>2, <2>1, OthersKeep DEF ReadCall
<1>3. ASSUME NEW p \in ConReaders, Read(p) PROVE IndexInv'
  <2>1. PICK k \in 0 .. Sub(w, r) : ReadSome(p, k)
    BY <1>3 DEF Read
  <2> QED
    BY <2>1, ReadKeeps
<1>4. ASSUME NEW p \in ConReaders, KillReader(p) PROVE IndexInv'
  <2>1. UNCHANGED ringVars /\ rpc' = [rpc EXCEPT ![p] = "run"] /\ rleft' = rleft
    BY <1>4 DEF KillReader
  <2>2. 0 \in Nat
    OBVIOUS
  <2> QED
    BY Zenon, <2>1, <2>2, OthersKeep
<1>5. CASE UNCHANGED consVars
  BY <1>5 DEF IndexInv, IndexTyped, IndexOrder, FullIsCommitted,
              SleeperHasNothing, Sub, consVars, ringVars, readVars
<1> QED
  BY <1>1, <1>2, <1>3, <1>4, <1>5 DEF ConsoleNext

-----------------------------------------------------------------------------
(* The other types *)

\* What is in the ring, and what a call has left to do.
RestTyped ==
  /\ buf \in [0 .. INPUT_BUF - 1 -> Chars \cup {"nul"}]
  /\ rleft \in [ConReaders -> 0 .. MAXREAD] /\ target \in [ConReaders -> 0 .. MAXREAD]
  /\ rkilled \in [ConReaders -> BOOLEAN]

\* Every step keeps these types.
LEMMA TypesStay ==
  ASSUME IndexInv, RestTyped, [ConsoleNext]_consVars
  PROVE  RestTyped'
<1> USE DEF RestTyped
<1>1. ASSUME NEW c \in Typed, ConsoleIntr(c) PROVE RestTyped'
  <2>1. CASE c \notin {"^U", "^H"} /\ Store(c)
    <3>1. PICK ch \in Chars : buf' = [buf EXCEPT ![e % INPUT_BUF] = ch]
      BY Zenon, <2>1 DEF Store, Typed, Chars, CR, NL, EOT
    <3> QED
      BY Zenon, <2>1, <3>1 DEF Store
  <2>2. CASE UNCHANGED <<buf, rleft, target, rkilled>>
    BY <2>2
  <2> QED
    BY <1>1, <2>1, <2>2
    DEF ConsoleIntr, KillLine, Backspace, Drop, consVars, ringVars, readVars
<1>2. ASSUME NEW p \in ConReaders, NEW n \in 0 .. MAXREAD, ReadCall(p, n) PROVE RestTyped'
  BY <1>2 DEF ReadCall, ringVars
<1>3. ASSUME NEW p \in ConReaders, Read(p) PROVE RestTyped'
  <2>1. PICK k \in 0 .. Sub(w, r) : ReadSome(p, k)
    BY <1>3 DEF Read
  <2>2. k \in Nat /\ k <= rleft[p]
    BY <2>1, Distances DEF ReadSome
  <2>3. rleft[p] - k \in 0 .. MAXREAD /\ 0 \in 0 .. MAXREAD
    BY <2>2, ConsoleAssumption
  <2>4. /\ buf' = buf /\ rkilled' = rkilled
        /\ rleft' = [rleft EXCEPT ![p] = 0] \/ rleft' = [rleft EXCEPT ![p] = rleft[p] - k]
        /\ target' = [target EXCEPT ![p] = 0] \/ target' = target
    BY <2>1, Zenon DEF ReadSome
  <2> QED
    BY Zenon, <2>3, <2>4
<1>4. ASSUME NEW p \in ConReaders, KillReader(p) PROVE RestTyped'
  BY <1>4 DEF KillReader, ringVars
<1>5. CASE UNCHANGED consVars
  BY <1>5 DEF consVars, ringVars, readVars
<1> QED
  BY <1>1, <1>2, <1>3, <1>4, <1>5 DEF ConsoleNext

-----------------------------------------------------------------------------
(* The theorem *)

\* The console's ring is safe for any number of readers: consoleintr and
\* consoleread keep r, w and e in order around it and at most INPUT_BUF apart,
\* wherever the unsigned indices wrap; a full ring can be read, so that typing
\* cannot lock up; and no reader sleeps while there is something to read.
THEOREM ConsoleSafety == ConsoleSpec => []RingSafe
<1>1. ConsoleInit => RestTyped
  BY Width, ConsoleAssumption DEF ConsoleInit, RestTyped
<1>2. IndexInv /\ RestTyped => RingSafe
  BY DEF IndexInv, IndexTyped, RestTyped, RingSafe, ConsoleTypeOK
<1> QED
  BY <1>1, <1>2, IndexStarts, IndexStays, TypesStay, PTL DEF ConsoleSpec
=============================================================================
