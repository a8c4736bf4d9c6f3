----------------------------- MODULE MCLfAlloc -----------------------------
(* LfAlloc for TLC. *)
EXTENDS LfAlloc, TLC

CONSTANT SearchBound   \* longest array of addresses the search is tried on

SortedArrays(n) ==
    {s \in [1 .. n -> 1 .. 2 * n] : \A i, j \in 1 .. n : i < j => s[i] <= s[j]}

(* The search of _lf_pinbox_real_free finds an address in a sorted array   *)
(* exactly when it is there, repeated addresses included.                  *)
ASSUME SearchIsMembership ==
    \A n \in 1 .. SearchBound : \A s \in SortedArrays(n) : \A x \in 0 .. 2 * n + 1 :
        PtrSearch(s, x) <=> \E i \in 1 .. n : s[i] = x

Symmetric == Permutations(Threads) \cup Permutations(Nodes)
=============================================================================
