-------------------------------- MODULE Pipe --------------------------------
(***************************************************************************)
(* pipe.c: a ring of PIPESIZE bytes with free-running uint counters, under *)
(* p->lock.  What runs between taking the lock and giving it up, in        *)
(* release or in sleep, is one step; a sleeper woken on its channel runs   *)
(* its loop again.  Every process holds one end open by a reference to     *)
(* the struct file of that end; the last fileclose calls pipeclose.        *)
(***************************************************************************)
EXTENDS Integers, Sequences

CONSTANTS
  Readers, Writers,  \* processes that hold the read and the write end
  Bytes,
  PIPESIZE,
  WRAP,              \* the counters are taken modulo WRAP: 2^32 in the code
  MaxN               \* bound on the n of a call

ASSUME PipeAssumption ==
  /\ Readers \cap Writers = {}
  /\ PIPESIZE \in Nat \ {0}
  /\ WRAP \in Nat /\ WRAP > PIPESIZE /\ WRAP % PIPESIZE = 0
  /\ MaxN \in Nat

VARIABLES
  data, nread, nwrite, readopen, writeopen,  \* struct pipe
  freed,   \* 1 once pipeclose has given the page to kfree
  ref,     \* processes that hold their end open
  pc,      \* "out", "call" (about to take the lock) or "sleep"
  killed,
  rest,    \* per writer: bytes of the call not yet written
  want,    \* per reader: n of the call
  got      \* per reader: what the last call copied to addr

ring == <<data, nread, nwrite>>
ends == <<readopen, writeopen, freed, ref>>
vars == <<ring, ends, pc, killed, rest, want, got>>

Procs == Readers \cup Writers
Cells == 0 .. PIPESIZE - 1
Calls == UNION {[1 .. k -> Bytes] : k \in 1 .. MaxN}

Init ==  \* pipealloc
  /\ data \in [Cells -> Bytes]
  /\ nread = 0 /\ nwrite = 0
  /\ readopen = 1 /\ writeopen = 1
  /\ freed = 0
  /\ ref = Procs
  /\ pc = [p \in Procs |-> "out"]
  /\ killed = [p \in Procs |-> 0]
  /\ rest = [w \in Writers |-> <<>>]
  /\ want = [r \in Readers |-> 0]
  /\ got = [r \in Readers |-> <<>>]

Count == (nwrite - nread) % WRAP            \* bytes in the ring
\* Bytes that fit before nwrite == nread + PIPESIZE.
Room == PIPESIZE - Count
\* The i-th byte to be read.
Cell(i) == data[((nread + i) % WRAP) % PIPESIZE]

\* Where a loop stops that ends at n or when it can copy no more than m.
Lesser(n, m) == IF n <= m THEN n ELSE m

\* wakeup of the processes of S.
Wake(pcs, S) == [p \in Procs |-> IF p \in S /\ pcs[p] = "sleep" THEN "call" ELSE pcs[p]]

-----------------------------------------------------------------------------
CallWrite(w, s) ==
  /\ w \in ref /\ pc[w] = "out" /\ killed[w] = 0
  /\ rest' = [rest EXCEPT ![w] = s]
  /\ pc' = [pc EXCEPT ![w] = "call"]
  /\ UNCHANGED <<ring, ends, killed, want, got>>

\* Mutant: data[++nwrite % PIPESIZE].
FillPre(k, s) ==
  /\ data' = [j \in Cells |->
       LET i == CHOOSE i \in 0 .. PIPESIZE - 1 : ((nwrite + i + 1) % WRAP) % PIPESIZE = j
       IN  IF i < k THEN s[i + 1] ELSE data[j]]
  /\ nwrite' = (nwrite + k) % WRAP

\* data[nwrite++ % PIPESIZE] = addr[i], for the first k bytes of s.
Fill(k, s) ==
  /\ data' = [j \in Cells |->
       LET i == CHOOSE i \in 0 .. PIPESIZE - 1 : ((nwrite + i) % WRAP) % PIPESIZE = j
       IN  IF i < k THEN s[i + 1] ELSE data[j]]
  /\ nwrite' = (nwrite + k) % WRAP

\* Mutant: no wakeup(&p->nread) after the last byte.
PipeWriteSilent(w) ==
  /\ pc[w] = "call"
  /\ LET k == Lesser(Len(rest[w]), Room)
         left == SubSeq(rest[w], k + 1, Len(rest[w]))
     IN  /\ Fill(k, rest[w])
         /\ \/ /\ left = <<>> \/ readopen = 0 \/ killed[w] = 1
               /\ rest' = [rest EXCEPT ![w] = <<>>]
               /\ pc' = [pc EXCEPT ![w] = "out"]
            \/ /\ left # <<>> /\ readopen = 1 /\ killed[w] = 0
               /\ rest' = [rest EXCEPT ![w] = left]
               /\ pc' = Wake([pc EXCEPT ![w] = "sleep"], Readers)
  /\ UNCHANGED <<nread, ends, killed, want, got>>

\* pipewrite, from acquire to release or sleep.
PipeWrite(w) ==
  /\ pc[w] = "call"
  /\ LET k == Lesser(Len(rest[w]), Room)
         left == SubSeq(rest[w], k + 1, Len(rest[w]))
     IN  /\ Fill(k, rest[w])
         /\ \/ /\ left = <<>>
               /\ rest' = [rest EXCEPT ![w] = <<>>]
               /\ pc' = Wake([pc EXCEPT ![w] = "out"], Readers)
            \/ /\ left # <<>> /\ (readopen = 0 \/ killed[w] = 1)
               /\ rest' = [rest EXCEPT ![w] = <<>>]
               /\ pc' = [pc EXCEPT ![w] = "out"]
            \/ /\ left # <<>> /\ readopen = 1 /\ killed[w] = 0
               /\ rest' = [rest EXCEPT ![w] = left]
               /\ pc' = Wake([pc EXCEPT ![w] = "sleep"], Readers)
  /\ UNCHANGED <<nread, ends, killed, want, got>>

CallRead(r, n) ==
  /\ r \in ref /\ pc[r] = "out" /\ killed[r] = 0
  /\ want' = [want EXCEPT ![r] = n]
  /\ got' = [got EXCEPT ![r] = <<>>]
  /\ pc' = [pc EXCEPT ![r] = "call"]
  /\ UNCHANGED <<ring, ends, killed, rest>>

\* piperead, from acquire to release or sleep.
PipeRead(r) ==
  /\ pc[r] = "call"
  /\ \/ /\ nread = nwrite /\ writeopen = 1
        /\ pc' = [pc EXCEPT ![r] = IF killed[r] = 1 THEN "out" ELSE "sleep"]
        /\ want' = [want EXCEPT ![r] = IF killed[r] = 1 THEN 0 ELSE @]
        /\ UNCHANGED <<nread, got>>
     \/ /\ nread # nwrite \/ writeopen = 0
        /\ LET k == Lesser(want[r], Count)
           IN  /\ got' = [got EXCEPT ![r] = [i \in 1 .. k |-> Cell(i - 1)]]
               /\ nread' = (nread + k) % WRAP
        /\ pc' = Wake([pc EXCEPT ![r] = "out"], Writers)
        /\ want' = [want EXCEPT ![r] = 0]
  /\ UNCHANGED <<data, nwrite, ends, killed, rest>>

\* fileclose of p's end; the last reference calls pipeclose.
Close(p) ==
  /\ p \in ref /\ pc[p] = "out"
  /\ ref' = ref \ {p}
  /\ LET last == (p \in Readers /\ ref' \cap Readers = {})
                   \/ (p \in Writers /\ ref' \cap Writers = {})
     IN  /\ readopen' = IF last /\ p \in Readers THEN 0 ELSE readopen
         /\ writeopen' = IF last /\ p \in Writers THEN 0 ELSE writeopen
         /\ freed' = IF readopen' = 0 /\ writeopen' = 0 THEN 1 ELSE freed
         /\ pc' = IF ~last THEN pc
                  ELSE Wake(pc, IF p \in Readers THEN Writers ELSE Readers)
  /\ UNCHANGED <<ring, killed, rest, want, got>>

\* kill() of a process: it leaves its sleep, and exits when its call returns.
Kill(p) ==
  /\ p \in ref /\ killed[p] = 0
  /\ killed' = [killed EXCEPT ![p] = 1]
  /\ pc' = Wake(pc, {p})
  /\ UNCHANGED <<ring, ends, rest, want, got>>

Next ==
  \/ \E w \in Writers : PipeWrite(w) \/ \E s \in Calls : CallWrite(w, s)
  \/ \E r \in Readers : PipeRead(r) \/ \E n \in 1 .. MaxN : CallRead(r, n)
  \/ \E p \in Procs : Close(p) \/ Kill(p)

Spec == Init /\ [][Next]_vars

-----------------------------------------------------------------------------
(* Properties. *)

\* Every variable of the protocol keeps its type.
TypeOK ==
  /\ nread \in 0 .. WRAP - 1 /\ nwrite \in 0 .. WRAP - 1
  /\ readopen \in {0, 1} /\ writeopen \in {0, 1} /\ freed \in {0, 1}
  /\ ref \subseteq Procs
  /\ pc \in [Procs -> {"out", "call", "sleep"}]
  /\ killed \in [Procs -> {0, 1}]
  /\ rest \in [Writers -> Seq(Bytes)]
  /\ want \in [Readers -> Nat]

\* The counters never drift apart by more than the ring, through every
\* wrap-around of the uint.
CountBounded == Count <= PIPESIZE

\* The page is not given back while a process is inside pipewrite or piperead.
NoUseAfterFree == freed = 1 => \A p \in Procs : pc[p] = "out"

\* No wakeup is lost.  A writer sleeps only on a full ring that somebody can
\* still read.
WriterSleepsFull ==
  \A w \in Writers : pc[w] = "sleep" => Count = PIPESIZE /\ readopen = 1

\* A reader sleeps only on an empty ring that somebody can still fill.  The
\* one exception in the code: a killed writer that finds the ring full
\* returns without a wakeup of the readers (pipe.c:84-87).
ReaderSleepsEmpty ==
  \A r \in Readers : pc[r] = "sleep" =>
    writeopen = 1 /\ (Count = 0 \/ \E w \in Writers : killed[w] = 1)

\* The pipe is safe between any two steps: bounded, not used after it is freed,
\* and nobody asleep whom a wakeup has passed by.
PipeSafe ==
  TypeOK /\ CountBounded /\ NoUseAfterFree /\ WriterSleepsFull /\ ReaderSleepsEmpty

Stream == INSTANCE PipeStream
            WITH q <- [i \in 1 .. Count |-> Cell(i - 1)]

\* pipe.c implements a bounded byte stream: bytes come out once, in order and
\* unchanged, across wrap-around, partial writes and several readers.
ImplementsStream == Stream!Spec
=============================================================================
