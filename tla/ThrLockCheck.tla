---------------------------- MODULE ThrLockCheck ----------------------------
(***************************************************************************)
(* What check_locks(), the consistency check of mysys/thr_lock.c that is   *)
(* compiled with EXTRA_DEBUG, says of the locks that are active and the    *)
(* ones that wait, as far as the code keeps it.                            *)
(***************************************************************************)
EXTENDS MCThrLock

VARIABLE forced     \* history: a caller has forced a type on a lock

(* TL_WRITE_ONLY, or another type by way of it, gets where thr_lock()      *)
(* would not have granted it: TL_WRITE_ONLY was asked for,                 *)
(* thr_abort_locks() upgrades a write that is not alone, or the downgrade  *)
(* is not to the type that was asked for.                                  *)
Forces(l) == \E d \in ToSet(lists'[l].write) :
    \/ /\ type'[d] = TL_WRITE_ONLY
       /\ req'[d] = TL_WRITE_ONLY \/ Len(lists'[l].write) > 1
    \/ type[d] = TL_WRITE_ONLY /\ type'[d] \notin {TL_WRITE_ONLY, req[d]}

checkVars == <<vars, forced>>

(* Behaviours end with the first type that is forced.                      *)
CheckNext ==
    \/ ~forced /\ Next /\ forced' = \E l \in Locks : Forces(l)
    \/ forced /\ UNCHANGED checkVars

CheckSpec == Init /\ forced = FALSE /\ [][CheckNext]_checkVars

(* Locks of different owners that are active together are compatible, for  *)
(* all pairs of them and not only for the list heads that check_locks()    *)
(* looks at: no reader beside a write above TL_WRITE_DELAYED, no           *)
(* TL_READ_NO_INSERT beside a concurrent insert, two writes only if both   *)
(* are TL_WRITE_ALLOW_WRITE or, where several are allowed, both concurrent *)
(* inserts.  A TL_WRITE_ONLY lock may still have old readers beside it.    *)
(* check_locks() also forbids TL_READ_NO_INSERT beside                     *)
(* TL_WRITE_ALLOW_WRITE, and so does the comment in thr_lock() on when a   *)
(* read lock is allowed; thr_lock() grants that pair, so it is not part of *)
(* this.  It holds until a type is forced on the lock.                     *)
Compatible == ~forced => \A l \in Locks : \A w \in ToSet(lists[l].write) :
    /\ \A r \in ToSet(lists[l].read) : OwnerOf[r] # OwnerOf[w] =>
          /\ type[w] \in {TL_WRITE_ONLY} \cup 0 .. TL_WRITE_DELAYED
          /\ type[w] = TL_WRITE_CONCURRENT_INSERT => type[r] # TL_READ_NO_INSERT
    /\ \A x \in ToSet(lists[l].write) : OwnerOf[x] # OwnerOf[w] =>
          /\ type[x] = type[w]
          /\ \/ type[w] = TL_WRITE_ALLOW_WRITE
             \/ type[w] = TL_WRITE_CONCURRENT_INSERT /\ AllowMultipleInsert

(* No read request goes on waiting for a write that it could run beside,   *)
(* whoever unlocked, was killed, timed out or was aborted: the condition   *)
(* of check_locks() on waiting readers.  It holds until a type is forced   *)
(* on the lock.  The two conditions on waiting writes that could run       *)
(* beside the active locks are not kept by the code and not part of this.  *)
ReadersNotStranded == ~forced => \A l \in Locks :
    LET q == lists[l] IN
    q.write # <<>> /\ q.read_wait # <<>> =>
        \/ type[Head(q.write)] > TL_WRITE_DELAYED
        \/ type[Head(q.read_wait)] = TL_READ_NO_INSERT
=============================================================================
