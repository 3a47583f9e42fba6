------------------------------ MODULE MCExIde ------------------------------
(***************************************************************************)
(* bio.c, ide.c and ex_ide.c on a small instance: a file of one sector.     *)
(***************************************************************************)
EXTENDS ExIde, TLC

CONSTANT s1

MCFile == <<s1>>

Symm == Permutations(Procs) \cup Permutations(Bufs) \cup Permutations(Vals)
=============================================================================
