--------------------------- MODULE ThrUnlockRace ---------------------------
(***************************************************************************)
(* thr_multi_unlock() tests data->type, and thr_unlock() reads it again,   *)
(* before thr_unlock() takes lock->mutex.  ThrLock makes the test and the  *)
(* critical section one action; here another thread may come in between.   *)
(***************************************************************************)
EXTENDS MCThrLock

VARIABLES
    tested,   \* owners past the test and before the mutex
    loose     \* instances taken out of a list they were no longer in

raceVars == <<vars, tested, loose>>

Linked(d) == d \in Active(LockOf[d]) \cup Queued(LockOf[d])

UnlockTest(o) ==
    /\ phase[o] = "unlocking" /\ pos[o] <= Len(plan[o])
    /\ o \notin tested /\ type[Cur(o)] # TL_UNLOCK
    /\ tested' = tested \cup {o}
    /\ UNCHANGED <<vars, loose>>

(* thr_unlock gets the mutex and the instance is still in a list. *)
UnlockLate(o) ==
    /\ o \in tested /\ Linked(Cur(o))
    /\ \E cs \in BOOLEAN :
          Install(LockOf[Cur(o)], thr_unlock(View(LockOf[Cur(o)]), Cur(o), cs), {})
    /\ pos' = [pos EXCEPT ![o] = @ + 1]
    /\ tested' = tested \ {o}
    /\ UNCHANGED <<req, plan, phase, abort, loose>>

(* It is in none any more: *data->prev and a tail pointer are written all  *)
(* the same.  What the lists are after that is not modelled.               *)
UnlockLoose(o) ==
    /\ o \in tested /\ ~Linked(Cur(o))
    /\ loose' = loose \cup {Cur(o)}
    /\ UNCHANGED <<vars, tested>>

(* An owner that has made the test does nothing else before the mutex. *)
RaceNext ==
    /\ loose = {}
    /\ \/ /\ Next
          /\ \A o \in tested : pos'[o] = pos[o]
          /\ UNCHANGED <<tested, loose>>
       \/ \E o \in Owners : UnlockTest(o) \/ UnlockLate(o) \/ UnlockLoose(o)

RaceSpec == Init /\ tested = {} /\ loose = {} /\ [][RaceNext]_raceVars

(* "remove from lock-list" in thr_unlock(): the instance is in a list when *)
(* thr_unlock() takes it out, also when thr_abort_locks(), whose comment   *)
(* is "Removed from list", has emptied the queues meanwhile.               *)
UnlinksOnce == loose = {}
=============================================================================
