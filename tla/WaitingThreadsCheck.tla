------------------------ MODULE WaitingThreadsCheck ------------------------
(* WaitingThreads with a history of the deadlocks found, and what is       *)
(* checked of them.                                                        *)
EXTENDS WaitingThreads

VARIABLE
    resolved        \* those who have found a deadlock in their present wait
                    \* and had another thread killed for it

checkVars == <<vars, resolved>>

CheckInit == Init /\ resolved = {}

CheckNext ==
    /\ Next
    /\ resolved' = {t \in Threads : /\ waiting_for'[t] # Nobody
                                    /\ t \in resolved \/ (pc[t] = "kill" /\ pc'[t] # "kill")}

CheckSpec == CheckInit /\ [][CheckNext]_checkVars

-----------------------------------------------------------------------------
(* A standing wait of one thread for another. *)
WaitsFor(t, u) == u \in loc[t].declared /\ u \in ToSet(owners[waiting_for[t]])

(* Sets of threads that wait for each other, their searches over and not   *)
(* one of them killed.                                                     *)
Deadlocks ==
    {S \in SUBSET {t \in Threads : waiting_for[t] # Nobody /\ ~killed[t]} :
        S # {} /\ \A t \in S : \E u \in S : WaitsFor(t, u)}

(* A deadlock of declared waits has been noticed, by the thread that       *)
(* closed it or by one that searched again, whatever the others did during *)
(* the search: either one of its members has been killed, or one of them   *)
(* has found a deadlock and had somebody killed for it.  The second is for *)
(* a declaration that closes two cycles at once: deadlock_search reports   *)
(* the first it meets, and if the victim is not in the other, "the thread  *)
(* that has created the cycle" leaves that one to the long search or the   *)
(* timeout of a member.  It takes four threads.  The search is cut off at  *)
(* its depth: this is for cycles of up to deadlock_search_depth_short + 1  *)
(* threads.                                                                *)
NoSilentCycle == \A S \in Deadlocks : S \cap resolved # {}
=============================================================================
