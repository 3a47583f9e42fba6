------------------------------- MODULE ExMem --------------------------------
(***************************************************************************)
(* The exokernel's memory calls (sysmem.c) on the free list they walk      *)
(* (kalloc.c): a process registers, asks for a frame, and has it added to  *)
(* its page table.  A free page holds the link to the next one; 0 is the   *)
(* null pointer.  The addresses of a process need one of the page tables   *)
(* Tables.                                                                 *)
(***************************************************************************)
EXTENDS Naturals, FiniteSets, Sequences

CONSTANTS
  NPAGE,       \* pages are 1 .. NPAGE
  ExProcs,     \* processes
  Tables,      \* entries of a page directory
  MaxFrames    \* bound: entries of the frame list

ASSUME ExMemAssumption == NPAGE \in Nat /\ MaxFrames \in Nat

Page == 1 .. NPAGE
Wild == NPAGE + 1      \* what a read through the null pointer gives

VARIABLES
  freelist,   \* kmem.freelist
  link,       \* per page: its first word, as a link
  frames,     \* the list from start: <<pid, frame>>
  type,       \* proc->type
  answer,     \* the frame ExGetFrame gave the process, or 0
  pde,        \* per process and table: the page that is the table, or 0
  mapped,     \* per process: the frames ExAddPage has mapped for it
  taken       \* the pages kalloc has given out

exVars == <<freelist, link, frames, type, answer, pde, mapped, taken>>

ExInit ==
  /\ freelist = 1
  /\ link = [p \in Page |-> IF p = NPAGE THEN 0 ELSE p + 1]
  /\ frames = <<>>
  /\ type = [p \in ExProcs |-> 0]
  /\ answer = [p \in ExProcs |-> 0]
  /\ pde = [p \in ExProcs |-> [t \in Tables |-> 0]]
  /\ mapped = [p \in ExProcs |-> {}]
  /\ taken = {}

\* The pages a walk from h along l meets, in order.
Met(l, h) ==
  LET walk[n \in 0 .. NPAGE] ==
        IF n = 0 THEN IF h \in Page THEN {h} ELSE {}
        ELSE walk[n - 1] \cup ({l[q] : q \in walk[n - 1]} \cap Page)
  IN walk[NPAGE]

\* allocadd finds frame in the free list.
Finds(l, frame) == frame # 0 /\ frame \in Met(l, freelist)

\* Mutant: the frame is linked to the head.
OverwrittenHead(l, frame) == [l EXCEPT ![frame] = freelist]

\* "*freelist = *freelist->next": the frame gets the link of its successor.
Overwritten(l, frame) ==
  [l EXCEPT ![frame] = IF l[frame] \in Page THEN l[l[frame]] ELSE Wild]

ExRegister(p) ==
  /\ type' = [type EXCEPT ![p] = 1]
  /\ UNCHANGED <<freelist, link, frames, answer, pde, mapped, taken>>

\* The head of the list, if there are n frames.
ExGetFrame(p, n) ==
  /\ answer' = [answer EXCEPT ![p] = IF Cardinality(Met(link, freelist)) >= n THEN freelist ELSE 0]
  /\ UNCHANGED <<freelist, link, frames, type, pde, mapped, taken>>

\* allocadd finds nothing: ExAddPage returns 0.
ExAddNothing(p) ==
  /\ ~Finds(link, answer[p])
  /\ answer' = [answer EXCEPT ![p] = 0]
  /\ UNCHANGED <<freelist, link, frames, type, pde, mapped, taken>>

\* allocadd, then the table is there and takes the frame.
ExAddPage(p, t) ==
  /\ Finds(link, answer[p]) /\ pde[p][t] # 0 /\ Len(frames) < MaxFrames
  /\ link' = Overwritten(link, answer[p])
  /\ frames' = Append(frames, <<p, answer[p]>>)
  /\ mapped' = [mapped EXCEPT ![p] = @ \cup {answer[p]}]
  /\ answer' = [answer EXCEPT ![p] = 0]
  /\ UNCHANGED <<freelist, type, pde, taken>>

\* The same with getpgtab making the table: the head of the list, given to
\* allocadd in its turn and then zeroed.
ExAddTable(p, t) ==
  LET l == Overwritten(Overwritten(link, answer[p]), freelist) IN
  /\ Finds(link, answer[p]) /\ pde[p][t] = 0 /\ Len(frames) + 1 < MaxFrames
  /\ link' = [l EXCEPT ![freelist] = 0]
  /\ frames' = frames \o <<<<p, answer[p]>>, <<p, freelist>>>>
  /\ pde' = [pde EXCEPT ![p][t] = freelist]
  /\ mapped' = [mapped EXCEPT ![p] = @ \cup {answer[p]}]
  /\ answer' = [answer EXCEPT ![p] = 0]
  /\ UNCHANGED <<freelist, type, taken>>

\* Any other use of memory; a wild link is not followed further.
KallocAny ==
  /\ freelist \in Page
  /\ freelist' = link[freelist]
  /\ taken' = taken \cup {freelist}
  /\ UNCHANGED <<link, frames, type, answer, pde, mapped>>

ExMemNext ==
  \/ \E p \in ExProcs :
       \/ ExRegister(p) \/ ExAddNothing(p)
       \/ \E n \in 1 .. 2 : ExGetFrame(p, n)
       \/ \E t \in Tables : ExAddPage(p, t) \/ ExAddTable(p, t)
  \/ KallocAny

ExMemSpec == ExInit /\ [][ExMemNext]_exVars

\* Whatever the calls do to the links, a page kalloc has given out is not met in
\* the free list again, and each frame mapped is in the frame list under the
\* process it was mapped for.
TakenOnce ==
  /\ taken \cap Met(link, freelist) = {}
  /\ \A p \in ExProcs, f \in Page :
       f \in mapped[p] => \E k \in 1 .. Len(frames) : frames[k] = <<p, f>>

\* A frame that ExAddPage has mapped has left the free list ("the frame is
\* still in the free list and needs to be removed", sysmem.c).
FrameRemoved ==
  \A p \in ExProcs : mapped[p] \cap Met(link, freelist) = {}
=============================================================================
