----------------------------- MODULE ContStack -----------------------------
(***************************************************************************)
(* What the coroutine library promises: every thread executes the top of a *)
(* stack of coroutines whose bottom is the thread's own root, cont() puts  *)
(* a coroutine that is on no stack on top, and yield() or the end of run() *)
(* takes the top off and goes on with the one below.                       *)
(***************************************************************************)
EXTENDS Naturals, Sequences, SequencesExt

CONSTANTS Threads, Coros

VARIABLE stk

StackInit == stk = [t \in Threads |-> <<>>]

Enter(t) == stk[t] = <<>> /\ stk' = [stk EXCEPT ![t] = <<t>>]

Resume(t, c) ==
    /\ stk[t] # <<>>
    /\ \A u \in Threads : c \notin ToSet(stk[u])
    /\ stk' = [stk EXCEPT ![t] = Append(@, c)]

Return(t) == Len(stk[t]) > 1 /\ stk' = [stk EXCEPT ![t] = Front(@)]

StackNext == \E t \in Threads :
    Enter(t) \/ Return(t) \/ \E c \in Coros : Resume(t, c)

StackSpec == StackInit /\ [][StackNext]_stk
=============================================================================
