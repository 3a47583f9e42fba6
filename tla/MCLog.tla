------------------------------- MODULE MCLog -------------------------------
(***************************************************************************)
(* Log.tla on small instances.                                             *)
(***************************************************************************)
EXTENDS Log, TLC

Symm == Permutations(Procs) \cup Permutations(Values)
          \cup Permutations(Blocks \ {BootBlock})
=============================================================================
