-------------------------------- MODULE MCFs --------------------------------
(* Instances of Fs for TLC. *)
EXTENDS Fs

CONSTANTS n1, n2

MCNames == {n1, n2}
MCPaths == {<<>>, <<n1>>, <<n1, n2>>, <<DotDot>>}

\* The bound: open descriptors and path calls under way are at most two.
Fds == {e \in Procs \X FDs : ofile[e[1]][e[2]] # 0}
InPathCall == {p \in Procs : pc[p] # "user"}
Load == Cardinality(Fds) + Cardinality(InPathCall)

MCNext ==
  \/ /\ Running
     /\ \E p \in Procs :
          \/ Load < 2 /\ PathCall(p)
          \/ FdCall(p) /\ Load' <= 2
          \/ InCall(p) \/ InitForks(p)
  \/ Halted
MCSpec == Init /\ [][MCNext]_vars

Symm == Permutations(Procs)
=============================================================================
