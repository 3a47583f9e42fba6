-------------------------------- MODULE MCMem -------------------------------
(* Instances of Mem for TLC. *)
EXTENDS Mem

MCDeltas == {-5, -1, 1, 7}

(* Pages are interchangeable.  Where each has one use, a state is determined *)
(* up to their names by the places that are filled and the numbers of free   *)
(* and lost pages; a state where one has two is kept apart by OneUse.        *)
Filled(f) == {x \in DOMAIN f : f[x] # 0}
Shape(im) == <<im.pgdir # 0, im.kpt # 0, Filled(im.pt), Filled(im.pte)>>
View ==
  <<OneUse, Cardinality(FreePages), Cardinality(Lost), pipe # 0, Filled(kstack), Filled(mem),
    [p \in Procs |-> <<Shape(img[p]), Shape(new[p])>>], sz, state, pc, op, child, at, goal>>
=============================================================================
