------------------------------- MODULE Lists -------------------------------
(***************************************************************************)
(* Linked lists as sequences: what is left of a list when elements are     *)
(* taken out of it.  It is a recursive function and not SelectSeq because  *)
(* the proofs are about it.                                                *)
(***************************************************************************)
EXTENDS Integers, Sequences

(* The elements of s that are in T, in their order. *)
Only(s, T) ==
    LET kept[n \in 0 .. Len(s)] ==
          IF n = 0 THEN <<>>
          ELSE IF s[n] \in T THEN Append(kept[n - 1], s[n]) ELSE kept[n - 1]
    IN  kept[Len(s)]
=============================================================================
