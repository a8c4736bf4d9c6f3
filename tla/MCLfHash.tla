------------------------------ MODULE MCLfHash ------------------------------
(* LfHash for TLC. *)
EXTENDS LfHash, TLC

(* Both keys belong to bucket 1 once the array has two slots. *)
HashOf == [k \in Keys |-> 1]

(* Two inserts fill the array beyond its first size; the key that is       *)
(* searched for comes and goes.                                            *)
CallsMade == ({"insert", "delete"} \X Keys) \cup {<<"search", 2>>}

Symmetric == Permutations(Threads) \cup Permutations(Nodes)
=============================================================================
