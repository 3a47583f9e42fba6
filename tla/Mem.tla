--------------------------------- MODULE Mem --------------------------------
(***************************************************************************)
(* Physical pages and address spaces: kalloc.c, vm.c, and the calls that   *)
(* make, grow and free them (fork, sbrk, exec, wait, pipe).                *)
(*                                                                         *)
(* kalloc and kfree are atomic (kmem.lock); a call is cut before each      *)
(* kalloc, so that the last page may go to another process in between.     *)
(* Pages are interchangeable: kalloc returns the least free one, and a     *)
(* page may be free more than once, as the list would hold it twice.       *)
(* Sizes are counted in units of which PGSIZE make a page.                 *)
(***************************************************************************)
EXTENDS Integers, FiniteSetsExt, Functions

CONSTANTS
  Procs, InitProc,
  NPAGES,      \* physical pages
  PGSIZE,      \* units of a page
  NPTENTRIES,  \* pages one page table maps
  NVA,         \* user pages below KERNBASE
  Images,      \* sizes, in pages, of what exec loads: program, guard and stack
  Deltas       \* arguments of sbrk

ASSUME MemAssumption ==
  /\ InitProc \in Procs
  /\ {NPAGES, PGSIZE, NPTENTRIES, NVA} \cup Images \subseteq Nat \ {0}
  /\ Deltas \subseteq Int

VARIABLES
  free,    \* how often each page is on kmem.freelist
  img,     \* per process: pgdir, its kernel table (kpt), user tables (pt), ptes (0: absent)
  kstack, sz, state,
  pipe,    \* the page of a pipe, 0 if there is none
  pc, op, child, new, mem, at, goal
           \* per process: its call, the slot fork fills, the image and the page
           \* in hand, the next user page and the new size

calls == <<pc, op, child, new, mem, at, goal>>
vars == <<free, img, kstack, sz, state, pipe, calls>>

Pages == 1 .. NPAGES
VAs == 0 .. NVA - 1
PDX(va) == va \div NPTENTRIES
KERNBASE == NVA * PGSIZE
PGROUNDUP(n) == (n + PGSIZE - 1) \div PGSIZE

NoImage == [pgdir |-> 0, kpt |-> 0, pt |-> [d \in 0 .. PDX(NVA - 1) |-> 0], pte |-> [v \in VAs |-> 0]]

Init ==  \* userinit: init has one page
  /\ free = [g \in Pages |-> IF g <= 5 THEN 0 ELSE 1]
  /\ img = [p \in Procs |-> IF p # InitProc THEN NoImage
                            ELSE [NoImage EXCEPT !.pgdir = 2, !.kpt = 3, !.pt[0] = 4, !.pte[0] = 5]]
  /\ kstack = [p \in Procs |-> IF p = InitProc THEN 1 ELSE 0]
  /\ sz = [p \in Procs |-> IF p = InitProc THEN PGSIZE ELSE 0]
  /\ state = [p \in Procs |-> IF p = InitProc THEN "live" ELSE "unused"]
  /\ pipe = 0
  /\ pc = [p \in Procs |-> "user"] /\ op = [p \in Procs |-> ""]
  /\ child = [p \in Procs |-> InitProc]
  /\ new = [p \in Procs |-> NoImage] /\ mem = [p \in Procs |-> 0]
  /\ at = [p \in Procs |-> 0] /\ goal = [p \in Procs |-> 0]

-----------------------------------------------------------------------------
(* Pages and page tables.                                                  *)

FreePages == {g \in Pages : free[g] > 0}
NextPage == Min(FreePages)
kalloc == [free EXCEPT ![NextPage] = @ - 1]
\* kfree, once for each index of s that holds a page.
kfree(f, s) ==
  [g \in Pages |-> f[g] + Cardinality({x \in DOMAIN s : s[x] = g})]

\* Mutant: the address is rounded down.
DeallocatedDown(im, oldsz, newsz) == {v \in VAs : v >= newsz \div PGSIZE /\ v * PGSIZE < oldsz}
\* The addresses deallocuvm's loop visits.  A missing table skips a table's
\* worth of pages from where the loop stands.
Deallocated(im, oldsz, newsz) ==
  LET visit[v \in 0 .. NVA + NPTENTRIES] ==
        IF v >= NVA \/ v * PGSIZE >= oldsz THEN {}
        ELSE IF im.pt[PDX(v)] = 0 THEN visit[v + NPTENTRIES]
        ELSE {v} \cup visit[v + 1]
  IN  visit[PGROUNDUP(newsz)]
deallocuvm(im, oldsz, newsz) ==
  [im EXCEPT !.pte = [v \in VAs |-> IF v \in Deallocated(im, oldsz, newsz) THEN 0 ELSE @[v]]]
\* The free pages after deallocuvm.
Unmapped(f, im, oldsz, newsz) ==
  kfree(f, [v \in Deallocated(im, oldsz, newsz) |-> im.pte[v]])

\* Mutant: only the user part is freed.
FreevmUser(f, im) == kfree(kfree(Unmapped(f, im, KERNBASE, 0), im.pt), <<im.pgdir>>)
\* freevm: user pages, page tables and directory.
freevm(f, im) == kfree(kfree(Unmapped(f, im, KERNBASE, 0), im.pt), <<im.pgdir, im.kpt>>)

-----------------------------------------------------------------------------
(* Calls.                                                                  *)

Goto(p, where) == pc' = [pc EXCEPT ![p] = where]
Done(p) ==
  /\ Goto(p, "user") /\ op' = [op EXCEPT ![p] = ""] /\ child' = [child EXCEPT ![p] = InitProc]
  /\ new' = [new EXCEPT ![p] = NoImage] /\ mem' = [mem EXCEPT ![p] = 0]
  /\ at' = [at EXCEPT ![p] = 0] /\ goal' = [goal EXCEPT ![p] = 0]
Panic(p) == Goto(p, "panic") /\ UNCHANGED <<free, img, kstack, sz, state, op, child, new, mem, at, goal>>

\* A process runs while its first page is mapped; without it, it faults.
Runs(p) == pc[p] = "user" /\ state[p] = "live" /\ img[p].pte[0] # 0

Begin(p, o, where, va, size) ==
  /\ Runs(p)
  /\ Goto(p, where) /\ op' = [op EXCEPT ![p] = o]
  /\ at' = [at EXCEPT ![p] = va] /\ goal' = [goal EXCEPT ![p] = size]
  /\ UNCHANGED <<free, img, kstack, sz, pipe, new, mem>>

\* sys_sbrk, growing: growproc, and allocuvm up to its loop.
SbrkGrow(p, n) ==
  /\ n > 0 /\ sz[p] + n < KERNBASE
  /\ Begin(p, "sbrk", "page", PGROUNDUP(sz[p]), sz[p] + n)
  /\ UNCHANGED <<state, child>>

\* sys_sbrk, shrinking.  A new size of 0 is taken for deallocuvm's failure.
SbrkShrink(p, n) ==
  LET newsz == sz[p] + n
  IN  /\ Runs(p) /\ n < 0 /\ newsz >= 0
      /\ img' = [img EXCEPT ![p] = deallocuvm(@, sz[p], newsz)]
      /\ free' = Unmapped(free, img[p], sz[p], newsz)
      /\ sz' = IF newsz = 0 THEN sz ELSE [sz EXCEPT ![p] = newsz]
      /\ UNCHANGED <<kstack, state, pipe, calls>>

\* fork: allocproc takes a slot.
Fork(p, q) ==
  /\ state[q] = "unused"
  /\ Begin(p, "fork", "kstack", 0, sz[p])
  /\ state' = [state EXCEPT ![q] = "embryo"]
  /\ child' = [child EXCEPT ![p] = q]

Exec(p, k) ==
  /\ k * PGSIZE < KERNBASE
  /\ Begin(p, "exec", "pgdir", 0, k * PGSIZE)
  /\ UNCHANGED <<state, child>>

\* The call fails, and leaves f free; fork gives up its slot and kernel stack.
Fail(p, f) ==
  LET q == child[p]
  IN  /\ IF op[p] = "fork"
         THEN /\ free' = kfree(f, <<kstack[q]>>)
              /\ kstack' = [kstack EXCEPT ![q] = 0]
              /\ state' = [state EXCEPT ![q] = "unused"]
         ELSE free' = f /\ UNCHANGED <<kstack, state>>
      /\ Done(p)

AllocKstack(p) ==
  /\ pc[p] = "kstack"
  /\ IF FreePages = {} THEN Fail(p, free)
     ELSE /\ kstack' = [kstack EXCEPT ![child[p]] = NextPage]
          /\ free' = kalloc /\ Goto(p, "pgdir")
          /\ UNCHANGED <<state, op, child, new, mem, at, goal>>
  /\ UNCHANGED <<img, sz, pipe>>

\* setupkvm: the directory, then the kernel's tables (one stands for all).
\* When mappages fails, setupkvm returns 0 and drops what it has.
SetupKvm(p) ==
  /\ pc[p] = "pgdir"
  /\ IF FreePages = {} THEN Fail(p, free) /\ UNCHANGED <<img, sz>>
     ELSE /\ new' = [new EXCEPT ![p].pgdir = NextPage]
          /\ free' = kalloc /\ Goto(p, "kmap")
          /\ UNCHANGED <<img, kstack, sz, state, op, child, mem, at, goal>>
  /\ UNCHANGED pipe
SetupKmap(p) ==
  /\ pc[p] = "kmap"
  /\ IF FreePages = {} THEN Fail(p, free) /\ UNCHANGED <<img, sz>>
     ELSE /\ new' = [new EXCEPT ![p].kpt = NextPage]
          /\ free' = kalloc /\ Goto(p, "page")
          /\ UNCHANGED <<img, kstack, sz, state, op, child, mem, at, goal>>
  /\ UNCHANGED pipe

More(p) == at[p] * PGSIZE < goal[p]

\* The loops of allocuvm and copyuvm: a page for the next address, or failure.
AllocPage(p) ==
  /\ pc[p] = "page" /\ More(p)
  /\ IF op[p] = "fork" /\ img[p].pte[at[p]] = 0 THEN Panic(p)
     ELSE IF FreePages # {}
     THEN /\ mem' = [mem EXCEPT ![p] = NextPage] /\ free' = kalloc /\ Goto(p, "map")
          /\ UNCHANGED <<img, kstack, sz, state, op, child, new, at, goal>>
     ELSE IF op[p] = "sbrk"
     THEN /\ img' = [img EXCEPT ![p] = deallocuvm(@, goal[p], sz[p])]
          /\ Fail(p, Unmapped(free, img[p], goal[p], sz[p])) /\ UNCHANGED sz
     ELSE Fail(p, freevm(free, new[p])) /\ UNCHANGED <<img, sz>>
  /\ UNCHANGED pipe

\* mappages.  allocuvm does not look at its result; copyuvm does, and then
\* frees the new image but not the page in hand.
MapPage(p) ==
  LET va == at[p]
      old == IF op[p] = "sbrk" THEN img[p] ELSE new[p]
      hasTable == old.pt[PDX(va)] # 0
      mapped == [old EXCEPT !.pt[PDX(va)] = IF hasTable THEN @ ELSE NextPage,
                            !.pte[va] = mem[p]]
      failed == ~hasTable /\ FreePages = {}
      next == IF failed THEN old ELSE mapped
  IN  /\ pc[p] = "map"
      /\ IF old.pte[va] # 0 THEN Panic(p)
         ELSE IF failed /\ op[p] = "fork"
         THEN Fail(p, freevm(free, new[p])) /\ UNCHANGED <<img, sz>>
         ELSE /\ IF op[p] = "sbrk" THEN img' = [img EXCEPT ![p] = next] /\ UNCHANGED new
                 ELSE new' = [new EXCEPT ![p] = next] /\ UNCHANGED img
              /\ free' = IF hasTable \/ failed THEN free ELSE kalloc
              /\ mem' = [mem EXCEPT ![p] = 0] /\ at' = [at EXCEPT ![p] = va + 1]
              /\ Goto(p, "page")
              /\ UNCHANGED <<kstack, sz, state, op, child, goal>>
      /\ UNCHANGED pipe

\* exec commits to the new image.  With a page missing from it, loaduvm,
\* clearpteu or copyout meets an absent entry: nothing is said of what follows.
ExecDone(p) ==
  /\ pc[p] = "page" /\ ~More(p) /\ op[p] = "exec"
  /\ IF \E v \in VAs : v * PGSIZE < goal[p] /\ new[p].pte[v] = 0 THEN Panic(p)
     ELSE /\ img' = [img EXCEPT ![p] = new[p]] /\ sz' = [sz EXCEPT ![p] = goal[p]]
          /\ free' = freevm(free, img[p])
          /\ Done(p)
          /\ UNCHANGED <<kstack, state>>
  /\ UNCHANGED pipe

SbrkDone(p) ==
  /\ pc[p] = "page" /\ ~More(p) /\ op[p] = "sbrk"
  /\ sz' = [sz EXCEPT ![p] = goal[p]]
  /\ Done(p)
  /\ UNCHANGED <<free, img, kstack, state, pipe>>

ForkDone(p) ==
  LET q == child[p]
  IN  /\ pc[p] = "page" /\ ~More(p) /\ op[p] = "fork"
      /\ img' = [img EXCEPT ![q] = new[p]] /\ sz' = [sz EXCEPT ![q] = sz[p]]
      /\ state' = [state EXCEPT ![q] = "live"]
      /\ Done(p)
      /\ UNCHANGED <<free, kstack, pipe>>

\* Mutant: exit frees the address space that wait frees again.
ExitFrees(p) ==
  /\ pc[p] = "user" /\ state[p] = "live" /\ p # InitProc
  /\ state' = [state EXCEPT ![p] = "zombie"]
  /\ free' = freevm(free, img[p])
  /\ UNCHANGED <<img, kstack, sz, pipe, calls>>
\* exit, called or forced by a fault, leaves the memory to wait.
Exit(p) ==
  /\ pc[p] = "user" /\ state[p] = "live" /\ p # InitProc
  /\ state' = [state EXCEPT ![p] = "zombie"]
  /\ UNCHANGED <<free, img, kstack, sz, pipe, calls>>
\* init may not exit: its fault ends in panic("init exiting").
InitFaults ==
  /\ pc[InitProc] = "user" /\ ~Runs(InitProc)
  /\ Panic(InitProc) /\ UNCHANGED pipe

\* wait frees a zombie's kernel stack and memory.
Wait(q) ==
  /\ Runs(InitProc) /\ state[q] = "zombie"
  /\ free' = kfree(freevm(free, img[q]), <<kstack[q]>>)
  /\ kstack' = [kstack EXCEPT ![q] = 0] /\ img' = [img EXCEPT ![q] = NoImage]
  /\ sz' = [sz EXCEPT ![q] = 0] /\ state' = [state EXCEPT ![q] = "unused"]
  /\ UNCHANGED <<pipe, calls>>

PipeAlloc ==
  /\ pipe = 0 /\ FreePages # {}
  /\ pipe' = NextPage /\ free' = kalloc
  /\ UNCHANGED <<img, kstack, sz, state, calls>>
PipeClose ==
  /\ pipe # 0
  /\ pipe' = 0 /\ free' = kfree(free, <<pipe>>)
  /\ UNCHANGED <<img, kstack, sz, state, calls>>

\* panic() spins for ever, and freezes the other CPU.
Running == \A p \in Procs : pc[p] # "panic"
Halted == ~Running /\ UNCHANGED vars

Step(p) ==
  \/ \E n \in Deltas : SbrkGrow(p, n) \/ SbrkShrink(p, n)
  \/ \E q \in Procs : Fork(p, q)
  \/ \E k \in Images : Exec(p, k)
  \/ AllocKstack(p) \/ SetupKvm(p) \/ SetupKmap(p) \/ AllocPage(p) \/ MapPage(p)
  \/ ExecDone(p) \/ SbrkDone(p) \/ ForkDone(p)
  \/ Exit(p) \/ Wait(p)

Next ==
  \/ Running /\ ((\E p \in Procs : Step(p)) \/ InitFaults \/ PipeAlloc \/ PipeClose)
  \/ Halted

Spec == Init /\ [][Next]_vars

-----------------------------------------------------------------------------
(* Properties.                                                             *)

\* Every variable has its type.
MemTypeOK ==
  LET PageOr0 == 0 .. NPAGES
      Image == [pgdir : PageOr0, kpt : PageOr0, pt : [0 .. PDX(NVA - 1) -> PageOr0], pte : [VAs -> PageOr0]]
  IN  /\ free \in [Pages -> Nat]
      /\ \A p \in Procs : img[p] \in Image /\ new[p] \in Image
      /\ {kstack, mem} \subseteq [Procs -> PageOr0] /\ pipe \in PageOr0
      /\ {sz, goal} \subseteq [Procs -> 0 .. KERNBASE - 1]
      /\ state \in [Procs -> {"unused", "embryo", "live", "zombie"}]
      /\ at \in [Procs -> 0 .. NVA]

\* The pages an image holds, and in how many places.
PagesOf(im) == ({im.pgdir, im.kpt} \cup Range(im.pt) \cup Range(im.pte)) \ {0}
PlacesOf(im) ==
  Cardinality({d \in DOMAIN im.pt : im.pt[d] # 0}) + Cardinality({v \in VAs : im.pte[v] # 0})
  + (IF im.pgdir = 0 THEN 0 ELSE 1) + (IF im.kpt = 0 THEN 0 ELSE 1)
\* The same of everything: processes, the images fork and exec are making,
\* kernel stacks, pages in hand and the pipe.
Held ==
  (UNION {PagesOf(img[p]) \cup PagesOf(new[p]) \cup {kstack[p], mem[p]} : p \in Procs}
     \cup {pipe}) \ {0}
Places ==
  MapThenSumSet(LAMBDA p : PlacesOf(img[p]) + PlacesOf(new[p]), Procs)
  + Cardinality({p \in Procs : kstack[p] # 0}) + Cardinality({p \in Procs : mem[p] # 0})
  + (IF pipe = 0 THEN 0 ELSE 1)

\* A page has one use at most: no two mappings, tables, stacks or pipes share
\* one, none of them is on the free list, and none is freed twice, on any of
\* the paths on which an allocation fails.
OneUse ==
  /\ Cardinality(Held) = Places
  /\ \A g \in Pages : free[g] <= IF g \in Held THEN 0 ELSE 1

\* A call loses pages only if it met an empty free list: with memory to spare,
\* fork, exec, sbrk, exit and wait give back all they took.
Lost == Pages \ (Held \cup FreePages)
LostOnlyWhenFull == [][FreePages # {} => Lost' = Lost]_vars

\* As long as no page has been lost, a process that can run has exactly the
\* pages below its size: a failed sbrk has taken back what it mapped, and
\* copyuvm's "pte should exist" and "page not present" are out of reach.
SizeIsMapped ==
  Lost = {} => \A p \in Procs : Runs(p) =>
    \A v \in VAs : img[p].pte[v] # 0 <=> v * PGSIZE < sz[p]

\* The pages are accounted for: typed, in one use at most, freed once.
PagesUsedOnce == MemTypeOK /\ OneUse
=============================================================================
