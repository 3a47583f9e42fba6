----------------------------- MODULE AtomicDisk -----------------------------
(***************************************************************************)
(* What log.c promises its callers: a disk whose updates, made inside      *)
(* operations, become durable together, only when no operation is in       *)
(* progress, and all or nothing when the machine loses power.              *)
(***************************************************************************)
CONSTANTS Procs, Blocks, Values

VARIABLES
  stable,   \* contents that survive a power failure
  current,  \* contents the running system reads
  active    \* processes between begin_op and end_op

vars == <<stable, current, active>>

Init ==
  /\ stable \in [Blocks -> Values]
  /\ current = stable
  /\ active = {}

Begin(p) == p \notin active /\ active' = active \cup {p} /\ UNCHANGED <<stable, current>>

Write(p, b, v) ==
  /\ p \in active
  /\ current' = [current EXCEPT ![b] = v]
  /\ UNCHANGED <<stable, active>>

End(p) == p \in active /\ active' = active \ {p} /\ UNCHANGED <<stable, current>>

Commit == active = {} /\ stable' = current /\ UNCHANGED <<current, active>>

PowerFail == current' = stable /\ active' = {} /\ UNCHANGED stable

Next ==
  \/ \E p \in Procs : Begin(p) \/ End(p)
  \/ \E p \in Procs, b \in Blocks, v \in Values : Write(p, b, v)
  \/ Commit
  \/ PowerFail

Spec == Init /\ [][Next]_vars
=============================================================================
