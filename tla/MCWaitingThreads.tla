------------------------- MODULE MCWaitingThreads -------------------------
(* Instance for TLC: the first two threads wait for the third on a         *)
(* resource they share, the second and the third on one of their own for   *)
(* one or both of the others; each kills the lighter ones.                 *)
EXTENDS WaitingThreadsCheck, TLC

OwnOrShared(t) == CASE t = 1 -> {1} [] t = 2 -> {1, 2} [] t = 3 -> {3}
WeightsTried == {<<1, 0, 2>>}
Symmetric == Permutations(Resources)
=============================================================================
