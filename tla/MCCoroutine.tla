---------------------------- MODULE MCCoroutine ----------------------------
(* Coroutine for TLC.  The coroutines are interchangeable; the null        *)
(* pointer is a model value.                                               *)
EXTENDS Coroutine, TLC

Symm == Permutations(Coros) \cup Permutations(Threads)
=============================================================================
