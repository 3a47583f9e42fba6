------------------------------ MODULE Umalloc -------------------------------
(***************************************************************************)
(* The user library's allocator, umalloc.c: a circular list of free blocks *)
(* ordered by address, in the style of Kernighan and Ritchie.              *)
(*                                                                         *)
(* An address counts headers.  The static header base is at address 0; the *)
(* heap starts above it.  A call is one step: a process has one thread.    *)
(* The program may also move the break itself, so that what morecore gets  *)
(* need not adjoin what it got before.  Headers that are no block's any    *)
(* more, and the ptr of a block in use, are dead: they are set to Null, 0. *)
(***************************************************************************)
EXTENDS Integers, FiniteSetsExt, Functions

CONSTANTS
  HDR,       \* sizeof(Header), in bytes
  NALLOC,    \* the least number of headers that morecore asks for
  HEAPSTART, \* where the break is when the program starts
  HEAPMAX,   \* bound: sbrk fails above this
  Requests   \* arguments of malloc, in bytes

ASSUME UmallocAssumption ==
  /\ {HDR, NALLOC} \subseteq Nat \ {0}
  /\ HEAPSTART \in Nat /\ HEAPSTART > 1 /\ HEAPMAX \in Nat
  /\ Requests \subseteq Nat

Addrs == 0 .. HEAPMAX
base == 0
Null == -1

VARIABLES
  heap,   \* the headers: [ptr, size], functions of the address, and freep
  brk,    \* the break
  given,  \* addresses that sbrk gave to morecore
  live    \* blocks the program holds: header address and bytes asked for

mallocVars == <<heap, brk, given, live>>

UmallocInit ==
  /\ heap = [ptr |-> [a \in Addrs |-> Null], size |-> [a \in Addrs |-> 0], freep |-> Null]
  /\ brk = HEAPSTART
  /\ given = {} /\ live = {}

-----------------------------------------------------------------------------

\* The i-th block from freep on.
Walk(h) ==
  LET at[i \in 0 .. HEAPMAX] == IF i = 0 THEN h.freep ELSE h.ptr[at[i - 1]] IN at

\* The first block of the walk whose number is in I.
FirstOf(h, I) == Walk(h)[Min(I)]

\* free's p: the block after which bp belongs.  Either bp is between p and its
\* successor, or p is the last block and bp is above it or below the first.
After(h, p, bp) ==
  \/ p < bp /\ bp < h.ptr[p]
  \/ p >= h.ptr[p] /\ (bp > p \/ bp < h.ptr[p])

\* The headers in D are dead.
Tidy(h, D) ==
  [h EXCEPT !.ptr = [a \in Addrs |-> IF a \in D THEN Null ELSE @[a]],
            !.size = [a \in Addrs |-> IF a \in D THEN 0 ELSE @[a]]]

\* Mutant: only the block above is joined.
FreeUpper(h, bp) ==
  LET p == FirstOf(h, {i \in 0 .. HEAPMAX : After(h, Walk(h)[i], bp)})
      q == h.ptr[p]
      up == bp + h.size[bp] = q
  IN Tidy([ptr |-> [h.ptr EXCEPT ![bp] = IF up THEN h.ptr[q] ELSE q, ![p] = bp],
           size |-> [h.size EXCEPT ![bp] = IF up THEN @ + h.size[q] ELSE @],
           freep |-> p], IF up THEN {q} ELSE {})

\* free(): bp is joined to the block above it, and to the one below.
Free(h, bp) ==
  LET p == FirstOf(h, {i \in 0 .. HEAPMAX : After(h, Walk(h)[i], bp)})
      q == h.ptr[p]
      up == bp + h.size[bp] = q
      bsize == IF up THEN h.size[bp] + h.size[q] ELSE h.size[bp]
      bptr == IF up THEN h.ptr[q] ELSE q
      low == p + h.size[p] = bp
  IN Tidy([ptr |-> [h.ptr EXCEPT ![bp] = bptr, ![p] = IF low THEN bptr ELSE bp],
           size |-> [h.size EXCEPT ![bp] = bsize, ![p] = IF low THEN @ + bsize ELSE @],
           freep |-> p],
          (IF up THEN {q} ELSE {}) \cup (IF low THEN {bp} ELSE {}))

nunits(n) == (n + HDR - 1) \div HDR + 1

\* The list, made at the first call.
Started(h) ==
  IF h.freep # Null THEN h
  ELSE [h EXCEPT !.freep = base, !.ptr[base] = base, !.size[base] = 0]

HeapBlocks(h) == {Walk(h)[i] : i \in 1 .. HEAPMAX}

Fits(h, n) == \E p \in HeapBlocks(h) : h.size[p] >= n

\* The first block of the walk that fits, or its tail; <<block, headers>>.
Take(h, n) ==
  LET i == Min({j \in 1 .. HEAPMAX : h.size[Walk(h)[j]] >= n})
      p == Walk(h)[i]
      prevp == Walk(h)[i - 1]
      t == p + h.size[p] - n
  IN IF h.size[p] = n
     THEN <<p, [h EXCEPT !.ptr[prevp] = h.ptr[p], !.ptr[p] = Null, !.freep = prevp]>>
     ELSE <<t, [h EXCEPT !.size[p] = @ - n, !.size[t] = n, !.freep = prevp]>>

Hand(h, n) ==
  LET r == Take(h, nunits(n)) IN
  /\ heap' = r[2]
  /\ live' = live \cup {<<r[1], n>>}

\* malloc(n), when a block fits
Malloc(n) ==
  LET h == Started(heap) IN
  /\ Fits(h, nunits(n))
  /\ Hand(h, n)
  /\ UNCHANGED <<brk, given>>

\* malloc(n), when none does: morecore's chunk is freed into the list.
MallocMore(n) ==
  LET h == Started(heap)
      nu == IF nunits(n) < NALLOC THEN NALLOC ELSE nunits(n)
  IN /\ ~Fits(h, nunits(n))
     /\ brk + nu <= HEAPMAX
     /\ Hand(Free([h EXCEPT !.size[brk] = nu], brk), n)
     /\ brk' = brk + nu
     /\ given' = given \cup (brk .. brk + nu - 1)

\* malloc(n), when sbrk fails
MallocFails(n) ==
  /\ ~Fits(Started(heap), nunits(n))
  /\ heap' = Started(heap)
  /\ UNCHANGED <<brk, given, live>>

FreeCall(b) ==
  /\ heap' = Free(heap, b[1])
  /\ live' = live \ {b}
  /\ UNCHANGED <<brk, given>>

\* The program calls sbrk itself.
UserSbrk ==
  /\ brk < HEAPMAX
  /\ brk' = brk + 1
  /\ UNCHANGED <<heap, given, live>>

UmallocNext ==
  \/ \E n \in Requests : Malloc(n) \/ MallocMore(n) \/ MallocFails(n)
  \/ \E b \in live : FreeCall(b)
  \/ UserSbrk

-----------------------------------------------------------------------------
(* Properties *)

Listed == IF heap.freep = Null THEN {} ELSE HeapBlocks(heap) \ {base}
BlockCells(a) == a .. a + heap.size[a] - 1
InUse == {b[1] : b \in live}

\* Nothing is lost and nothing is handed out twice: the blocks the program
\* holds and the blocks on the free list are disjoint, and are together what
\* sbrk gave.
Tiled ==
  /\ UNION {BlockCells(a) : a \in Listed \cup InUse} = given
  /\ \A a, b \in Listed \cup InUse : a # b => BlockCells(a) \cap BlockCells(b) = {}
  /\ Listed \cap InUse = {} /\ Cardinality(InUse) = Cardinality(live)

\* What malloc returns has room, after its header, for the bytes asked for.
BigEnough == \A b \in live : (heap.size[b[1]] - 1) * HDR >= b[2]

\* The free list goes round through base in the order of the addresses, and no
\* two blocks of it touch: free joins a block with both its neighbours.
ListOrdered ==
  heap.freep # Null =>
    \A p \in Listed \cup {base} :
      LET q == heap.ptr[p] IN
      /\ q \in Listed \cup {base}
      /\ q = Min({x \in Listed : x > p} \cup (IF \E x \in Listed : x > p THEN {} ELSE {base}))
      /\ q # base => p + heap.size[p] # q

\* malloc asks for more, or fails, only if no stretch of free memory is long
\* enough, however it came to be free.
FindsRoom ==
  \A a \in given, n \in Requests :
    a .. a + nunits(n) - 1 \subseteq given \ UNION {BlockCells(b) : b \in InUse} =>
      Fits(Started(heap), nunits(n))

\* The heap is sound: tiled by blocks that are large enough, the free ones in
\* order and joined, so that room is found when there is room.
HeapSound == Tiled /\ BigEnough /\ ListOrdered /\ FindsRoom
=============================================================================
