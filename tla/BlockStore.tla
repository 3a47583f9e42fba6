----------------------------- MODULE BlockStore -----------------------------
(***************************************************************************)
(* What bio.c promises its callers (bio.c:8-14): between bread and brelse  *)
(* a sector belongs to one process, bread returns what was last written to *)
(* it by anybody, and writing needs the sector.                            *)
(***************************************************************************)
CONSTANTS Procs, NoProc, Sectors, Vals, NoVal

VARIABLES
  blk,    \* contents, as processes see them
  owner,  \* the process each sector belongs to
  view    \* what each process has in front of it, or NoVal

svars == <<blk, owner, view>>

Init ==
  /\ blk \in [Sectors -> Vals]
  /\ owner = [s \in Sectors |-> NoProc]
  /\ view = [p \in Procs |-> NoVal]

Take(p, s) ==
  /\ owner[s] = NoProc
  /\ \A t \in Sectors : owner[t] # p
  /\ owner' = [owner EXCEPT ![s] = p]
  /\ view' \in {view, [view EXCEPT ![p] = blk[s]]}
  /\ UNCHANGED blk

Return(p, s) ==
  /\ owner[s] = p
  /\ view' = [view EXCEPT ![p] = blk[s]]
  /\ UNCHANGED <<blk, owner>>

Write(p, s, v) ==
  /\ owner[s] = p /\ view[p] # NoVal
  /\ blk' = [blk EXCEPT ![s] = v]
  /\ view' \in {[view EXCEPT ![p] = v], [view EXCEPT ![p] = NoVal]}
  /\ UNCHANGED owner

Give(p, s) ==
  /\ owner[s] = p /\ view[p] # NoVal
  /\ owner' = [owner EXCEPT ![s] = NoProc]
  /\ view' = [view EXCEPT ![p] = NoVal]
  /\ UNCHANGED blk

\* A call that changes nothing is a stuttering step.
Next ==
  /\ svars' # svars
  /\ \E p \in Procs, s \in Sectors :
       Take(p, s) \/ Return(p, s) \/ Give(p, s) \/ \E v \in Vals : Write(p, s, v)

Spec == Init /\ [][Next]_svars
=============================================================================
