----------------------------- MODULE ObjectPool -----------------------------
(***************************************************************************)
(* What the pinning allocator of mysys promises its users: an object is    *)
(* handed to one thread at a time, an object given back rests until nobody *)
(* may be looking at it, and only then is it handed out again.             *)
(***************************************************************************)
CONSTANTS Threads, Nodes

VARIABLES
    available,  \* objects that can be handed out
    held,       \* held[t]: objects t got and has not given back
    retired     \* objects given back that may still be in somebody's sight

poolVars == <<available, held, retired>>

Init ==
    /\ available = Nodes
    /\ held = [t \in Threads |-> {}]
    /\ retired = {}

(* lf_alloc_new *)
New(t) == \E n \in available :
    /\ available' = available \ {n}
    /\ held' = [held EXCEPT ![t] = @ \cup {n}]
    /\ UNCHANGED retired

(* lf_alloc_free *)
Free(t) == \E n \in held[t] :
    /\ held' = [held EXCEPT ![t] = @ \ {n}]
    /\ retired' = retired \cup {n}
    /\ UNCHANGED available

(* A scan of the pins found these objects unpinned. *)
Reclaim == \E some \in SUBSET retired :
    /\ available' = available \cup some
    /\ retired' = retired \ some
    /\ UNCHANGED held

Next == Reclaim \/ \E t \in Threads : New(t) \/ Free(t)

Spec == Init /\ [][Next]_poolVars
=============================================================================
