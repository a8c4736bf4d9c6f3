------------------------------ MODULE ThrLock ------------------------------
(***************************************************************************)
(* The table lock manager of mysys/thr_lock.c: owners (statements and open *)
(* cursors of threads) take and release locks on THR_LOCKs through         *)
(* thr_multi_lock() and thr_multi_unlock(), wait in wait_for_lock(), are   *)
(* killed, time out or are aborted by others, and delayed inserts upgrade  *)
(* and reschedule their locks.                                             *)
(*                                                                         *)
(* A function of thr_lock.c holds lock->mutex from its first test to its   *)
(* last and gives it up only in pthread_cond_wait, so each critical        *)
(* section is one action; between two of them (two locks of one            *)
(* thr_multi_lock, the wait and the wake-up, the two halves of             *)
(* thr_reschedule_write_lock) every other owner may act.                   *)
(***************************************************************************)
EXTENDS ThrLockQueues, Functions

CONSTANTS
    Owners,       \* THR_LOCK_OWNERs
    Locks,        \* THR_LOCKs, as the numbers that order their addresses
    LockOf,       \* data->lock
    ThreadOf,     \* owner->info, the thread of each owner
    MayRequest,   \* the lock types each data is used with
    UpgradeTo,    \* the type a delayed insert upgrades to
    MaxKilled,    \* bound: how many threads are marked killed at once
    Abortable     \* locks whose waiters other connections abort

ASSUME ThrLockAssumption ==
    /\ Locks \subseteq Nat
    /\ \A l, m \in Locks : l < m => m - l > TL_WRITE_ONLY   \* sizeof(THR_LOCK)
    /\ \A l \in Locks : l > TL_WRITE_ONLY
    /\ LockOf \in [Data -> Locks]
    /\ OwnerOf \in [Data -> Owners]
    /\ DOMAIN ThreadOf = Owners
    /\ MayRequest \in [Data -> SUBSET RequestTypes]
    /\ UpgradeTo \in {TL_WRITE_LOW_PRIORITY, TL_WRITE}
    /\ MaxKilled \in Nat
    /\ Abortable \subseteq Locks

VARIABLES
    lists,    \* the lists and counters of each lock
    type,     \* data->type
    cond,     \* data->cond # 0
    req,      \* the type each data was last requested with
    plan,     \* the sorted array of thr_multi_lock, per owner
    pos,      \* the position in it
    phase,    \* what each owner is doing
    awake,    \* owners in wait_for_lock whose condition was signalled
    abort     \* threads with thread_var->abort set

vars == <<lists, type, cond, req, plan, pos, phase, awake, abort>>

Phases == {"idle", "locking", "waiting", "held", "upgrading", "rescheduled",
           "unlocking"}

NoLists == [read |-> <<>>, read_wait |-> <<>>, write |-> <<>>, write_wait |-> <<>>,
            write_lock_count |-> 0, read_no_write_count |-> 0]

(* thr_lock_init, thr_lock_data_init *)
Init ==
    /\ lists = [l \in Locks |-> NoLists]
    /\ type = [d \in Data |-> TL_UNLOCK]
    /\ cond = [d \in Data |-> FALSE]
    /\ req = [d \in Data |-> TL_UNLOCK]
    /\ plan = [o \in Owners |-> <<>>]
    /\ pos = [o \in Owners |-> 1]
    /\ phase = [o \in Owners |-> "idle"]
    /\ awake = {}
    /\ abort = {}

-----------------------------------------------------------------------------
View(l) ==
    [read |-> lists[l].read, read_wait |-> lists[l].read_wait,
     write |-> lists[l].write, write_wait |-> lists[l].write_wait,
     write_lock_count |-> lists[l].write_lock_count,
     read_no_write_count |-> lists[l].read_no_write_count,
     type |-> type, cond |-> cond, signalled |-> {}]

Waiting(o) == phase[o] \in {"waiting", "upgrading"}

(* Write the view back; the signals reach the owners that wait, and gone   *)
(* owners stop waiting.                                                    *)
Install(l, v, gone) ==
    /\ lists' = [lists EXCEPT ![l] =
                    [read |-> v.read, read_wait |-> v.read_wait,
                     write |-> v.write, write_wait |-> v.write_wait,
                     write_lock_count |-> v.write_lock_count,
                     read_no_write_count |-> v.read_no_write_count]]
    /\ type' = v.type
    /\ cond' = v.cond
    /\ awake' = (awake \cup {o \in Owners :
                    /\ Waiting(o)
                    /\ \E d \in v.signalled : ThreadOf[OwnerOf[d]] = ThreadOf[o]}) \ gone

Cur(o) == plan[o][pos[o]]

(* data->owner->info->n_cursors: the thread has a cursor open, which holds *)
(* its locks, so the wait has a timeout.                                   *)
CanDeadlock(o) == \E p \in Owners \ {o} :
    ThreadOf[p] = ThreadOf[o] /\ phase[p] = "held"

(* A thread executes one owner's calls at a time. *)
ThreadFree(o) == \A p \in Owners :
    ThreadOf[p] = ThreadOf[o] => phase[p] \in {"idle", "held"}

-----------------------------------------------------------------------------
(* Variant: sorted by type only. *)
LOCK_CMP_type_only(a, b, rq) == rq[a] > rq[b]

(* The types are subtracted from the addresses, which are further apart    *)
(* than the types: by lock, and for one lock the higher type first.        *)
LOCK_CMP(a, b, rq) == LockOf[a] - rq[a] < LockOf[b] - rq[b]

sort_locks(ds, rq) ==
    {s \in SetToSeqs(ds) : \A i, j \in 1 .. Len(s) : i < j => ~LOCK_CMP(s[j], s[i], rq)}

(* thr_multi_lock begins: an owner asks for some of its locks at once. *)
StartMultiLock(o) ==
    /\ phase[o] = "idle" /\ ThreadFree(o)
    /\ \E ds \in SUBSET {d \in Data : OwnerOf[d] = o} :
       \E rq \in [ds -> UNION {MayRequest[d] : d \in ds}] :
       \E s \in sort_locks(ds, rq) :
          /\ ds # {} /\ \A d \in ds : rq[d] \in MayRequest[d]
          /\ req' = [d \in Data |-> IF d \in ds THEN rq[d] ELSE req[d]]
          /\ plan' = [plan EXCEPT ![o] = s]
    /\ pos' = [pos EXCEPT ![o] = 1]
    /\ phase' = [phase EXCEPT ![o] = "locking"]
    /\ UNCHANGED <<lists, type, cond, awake, abort>>

(* The array is locked up to and including position n: go on with the      *)
(* next, or return to the caller.                                          *)
Advance(o, n) ==
    /\ pos' = [pos EXCEPT ![o] = IF n = Len(plan[o]) THEN 1 ELSE n + 1]
    /\ phase' = [phase EXCEPT ![o] = IF n = Len(plan[o]) THEN "held" ELSE "locking"]
    /\ UNCHANGED <<req, plan>>

(* Variant: the locks taken before the failure are kept. *)
FailKeepLocks(o, n) ==
    /\ plan' = [plan EXCEPT ![o] = <<>>]
    /\ pos' = [pos EXCEPT ![o] = 1]
    /\ phase' = [phase EXCEPT ![o] = "unlocking"]
    /\ UNCHANGED req

(* thr_multi_lock fails at position n: unlock the ones before it. *)
Fail(o, n) ==
    /\ plan' = [plan EXCEPT ![o] = SubSeq(@, 1, n - 1)]
    /\ pos' = [pos EXCEPT ![o] = 1]
    /\ phase' = [phase EXCEPT ![o] = "unlocking"]
    /\ UNCHANGED req

(* Variant: the wake-up is forgotten. *)
GiveUpSilently(v, d, cs) == [Unlink(v, d) EXCEPT !.type[d] = TL_UNLOCK]

(* wait_for_lock gives up on d: unlink it and let others by. *)
GiveUp(v, d, cs) ==
    wake_up_waiters([Unlink(v, d) EXCEPT !.type[d] = TL_UNLOCK], cs)

(* wait_for_lock(wait, data, 0) up to the wait; a thread that has been     *)
(* killed does not wait.                                                   *)
BeginWait(o, d, v, list, cs) ==
    LET w == [v EXCEPT ![list] = Append(@, d), !.cond[d] = TRUE] IN
    \/ /\ ThreadOf[o] \notin abort
       /\ Install(LockOf[d], w, {})
       /\ phase' = [phase EXCEPT ![o] = "waiting"]
       /\ UNCHANGED <<req, plan, pos>>
    \/ /\ ThreadOf[o] \in abort
       /\ Install(LockOf[d], GiveUp(w, d, cs), {})
       /\ Fail(o, pos[o])

(* The trivial deadlock: the first active lock belongs to the same thread. *)
CursorDeadlock(v, o) ==
    LET active == IF v.read # <<>> THEN v.read ELSE v.write
    IN  active # <<>> /\ ThreadOf[OwnerOf[Head(active)]] = ThreadOf[o]

(* Not granted: report the deadlock, which leaves data->type as requested, *)
(* or wait.                                                                *)
Blocked(o, d, v, list, cs) ==
    \/ /\ CursorDeadlock(v, o)
       /\ Install(LockOf[d], v, {})
       /\ Fail(o, pos[o])
    \/ ~CursorDeadlock(v, o) /\ BeginWait(o, d, v, list, cs)

(* thr_lock() for a read lock. *)
LockRead(o, d, lt, cs) ==
    LET l == LockOf[d]
        v == [View(l) EXCEPT !.type[d] = lt, !.cond[d] = FALSE] IN
    \/ /\ ReadGranted(v, o, lt)
       /\ Install(l, AddRead(v, d), {})
       /\ Advance(o, pos[o])
    \/ /\ Refused(v, o, lt)
       /\ Install(l, [v EXCEPT !.type[d] = TL_UNLOCK], {})
       /\ Fail(o, pos[o])
    \/ /\ ~ReadGranted(v, o, lt) /\ ~Refused(v, o, lt)
       /\ Blocked(o, d, v, "read_wait", cs)

(* thr_lock() for a write lock; cs is what check_status() would answer. *)
LockWrite(o, d, lt, cs) ==
    LET l == LockOf[d]
        e == EffectiveType(View(l), lt, cs)
        v == [View(l) EXCEPT !.type[d] = e, !.cond[d] = FALSE] IN
    \/ /\ Refused(v, o, lt)
       /\ Install(l, [v EXCEPT !.type[d] = TL_UNLOCK], {})
       /\ Fail(o, pos[o])
    \/ /\ ~Refused(v, o, lt) /\ DelayedQueued(v, lt)
       /\ Install(l, [v EXCEPT !.write_wait = Append(@, d), !.cond[d] = TRUE], {})
       /\ Advance(o, pos[o])
    \/ /\ ~Refused(v, o, lt) /\ ~DelayedQueued(v, lt) /\ WriteGranted(v, o, e)
       /\ Install(l, AddWrite(v, d), {})
       /\ Advance(o, pos[o])
    \/ /\ ~Refused(v, o, lt) /\ ~DelayedQueued(v, lt) /\ ~WriteGranted(v, o, e)
       /\ Blocked(o, d, v, "write_wait", cs)

ThrLockCall(o) ==
    /\ phase[o] = "locking"
    /\ \E cs \in BOOLEAN :
         IF IsRead(req[Cur(o)]) THEN LockRead(o, Cur(o), req[Cur(o)], cs)
                                ELSE LockWrite(o, Cur(o), req[Cur(o)], cs)
    /\ UNCHANGED abort

(* wait_for_lock returns after the wait in thr_lock(). *)
WaitGranted(o) ==
    /\ phase[o] = "waiting" /\ o \in awake /\ ~cond[Cur(o)]
    /\ type[Cur(o)] # TL_UNLOCK
    /\ Advance(o, pos[o])
    /\ awake' = awake \ {o}
    /\ UNCHANGED <<lists, type, cond, abort>>

(* The wait was ended by thr_abort_locks or thr_abort_locks_for_thread. *)
WaitAborted(o) ==
    /\ phase[o] = "waiting" /\ o \in awake /\ ~cond[Cur(o)]
    /\ type[Cur(o)] = TL_UNLOCK
    /\ Fail(o, pos[o])
    /\ awake' = awake \ {o}
    /\ UNCHANGED <<lists, type, cond, abort>>

(* Variant: a timeout or kill is reported although the lock was granted. *)
WaitGivenUpThoughGranted(o) ==
    /\ phase[o] = "waiting"
    /\ CanDeadlock(o) \/ (o \in awake /\ ThreadOf[o] \in abort)
    /\ \/ /\ cond[Cur(o)]
          /\ \E cs \in BOOLEAN :
                Install(LockOf[Cur(o)], GiveUp(View(LockOf[Cur(o)]), Cur(o), cs), {o})
       \/ ~cond[Cur(o)] /\ awake' = awake \ {o} /\ UNCHANGED <<lists, type, cond>>
    /\ Fail(o, pos[o])
    /\ UNCHANGED abort

(* The thread was killed, or the wait timed out, and the lock has not been *)
(* granted.                                                                *)
WaitGivenUp(o) ==
    /\ phase[o] = "waiting" /\ cond[Cur(o)]
    /\ CanDeadlock(o) \/ (o \in awake /\ ThreadOf[o] \in abort)
    /\ \E cs \in BOOLEAN :
          Install(LockOf[Cur(o)], GiveUp(View(LockOf[Cur(o)]), Cur(o), cs), {o})
    /\ Fail(o, pos[o])
    /\ UNCHANGED abort

(* A wake-up that changes nothing for this wait: the thread's condition    *)
(* was signalled for another of its locks, or a kill hit a delayed insert. *)
WaitAgain(o) ==
    /\ Waiting(o) /\ o \in awake /\ cond[Cur(o)]
    /\ phase[o] = "upgrading" \/ ThreadOf[o] \notin abort
    /\ awake' = awake \ {o}
    /\ UNCHANGED <<lists, type, cond, req, plan, pos, phase, abort>>

-----------------------------------------------------------------------------
(* thr_unlock *)
thr_unlock(v, d, cs) ==
    wake_up_waiters([Unlink(v, d) EXCEPT
        !.type[d] = TL_UNLOCK,
        !.read_no_write_count =
            IF v.type[d] = TL_READ_NO_INSERT THEN @ - 1 ELSE @], cs)

StartMultiUnlock(o) ==
    /\ phase[o] = "held" /\ ThreadFree(o)
    /\ pos' = [pos EXCEPT ![o] = 1]
    /\ phase' = [phase EXCEPT ![o] = "unlocking"]
    /\ UNCHANGED <<lists, type, cond, req, plan, awake, abort>>

(* One round of thr_multi_unlock's loop; a lock that was aborted has type  *)
(* TL_UNLOCK and is skipped.                                               *)
UnlockNext(o) ==
    /\ phase[o] = "unlocking" /\ pos[o] <= Len(plan[o])
    /\ \/ /\ type[Cur(o)] # TL_UNLOCK
          /\ \E cs \in BOOLEAN :
                Install(LockOf[Cur(o)], thr_unlock(View(LockOf[Cur(o)]), Cur(o), cs), {})
       \/ type[Cur(o)] = TL_UNLOCK /\ UNCHANGED <<lists, type, cond, awake>>
    /\ pos' = [pos EXCEPT ![o] = @ + 1]
    /\ UNCHANGED <<req, plan, phase, abort>>

(* The statement ends; the server clears the kill flag with it. *)
MultiUnlockDone(o) ==
    /\ phase[o] = "unlocking" /\ pos[o] > Len(plan[o])
    /\ plan' = [plan EXCEPT ![o] = <<>>]
    /\ pos' = [pos EXCEPT ![o] = 1]
    /\ phase' = [phase EXCEPT ![o] = "idle"]
    /\ abort' = abort \ {ThreadOf[o]}
    /\ req' = [d \in Data |-> IF OwnerOf[d] = o THEN TL_UNLOCK ELSE req[d]]
    /\ UNCHANGED <<lists, type, cond, awake>>

-----------------------------------------------------------------------------
(* Delayed inserts.  d was locked with TL_WRITE_DELAYED. *)

ToFront(v, d) == [Unlink(v, d) EXCEPT !.write_wait = <<d>> \o @]

(* thr_upgrade_write_delay_lock after its first test: keep the lock, or    *)
(* wait for it at the front of the queue (or where it is still queued).    *)
UpgradeDelayed(o, d) ==
    LET v == [View(LockOf[d]) EXCEPT !.type[d] = UpgradeTo] IN
    \/ /\ ~cond[d] /\ v.read = <<>>
       /\ Install(LockOf[d], v, {})
       /\ phase' = [phase EXCEPT ![o] = "held"]
    \/ /\ ~cond[d] /\ v.read # <<>>
       /\ Install(LockOf[d], [ToFront(v, d) EXCEPT !.cond[d] = TRUE], {})
       /\ phase' = [phase EXCEPT ![o] = "upgrading"]
    \/ /\ cond[d]
       /\ Install(LockOf[d], v, {})
       /\ phase' = [phase EXCEPT ![o] = "upgrading"]

DelayedData(o) == {d \in ToSet(plan[o]) : req[d] = TL_WRITE_DELAYED}

(* thr_upgrade_write_delay_lock; when the lock was aborted or is already a *)
(* write lock it only reports so.                                          *)
thr_upgrade_write_delay_lock(o) ==
    /\ phase[o] = "held" /\ ThreadFree(o)
    /\ \E d \in DelayedData(o) :
          /\ type[d] # TL_UNLOCK /\ type[d] < TL_WRITE_LOW_PRIORITY
          /\ pos' = [pos EXCEPT ![o] = CHOOSE i \in 1 .. Len(plan[o]) : plan[o][i] = d]
          /\ UpgradeDelayed(o, d)
    /\ UNCHANGED <<req, plan, abort>>

(* wait_for_lock(.., 1) returns; a kill does not end this wait.  With an   *)
(* open cursor it may time out.                                            *)
UpgradeWaitEnds(o) ==
    /\ phase[o] = "upgrading"
    /\ \/ /\ o \in awake /\ ~cond[Cur(o)]
          /\ awake' = awake \ {o}
          /\ UNCHANGED <<lists, type, cond>>
       \/ /\ cond[Cur(o)] /\ CanDeadlock(o)
          /\ \E cs \in BOOLEAN :
                Install(LockOf[Cur(o)], GiveUp(View(LockOf[Cur(o)]), Cur(o), cs), {o})
    /\ phase' = [phase EXCEPT ![o] = "held"]
    /\ UNCHANGED <<req, plan, pos, abort>>

(* thr_reschedule_write_lock, first half: an upgraded delayed insert steps *)
(* back to the front of the queue and lets the waiting readers in.         *)
thr_reschedule_write_lock(o) ==
    /\ phase[o] = "held" /\ ThreadFree(o)
    /\ \E d \in DelayedData(o) :
         LET v == [View(LockOf[d]) EXCEPT !.type[d] = TL_WRITE_DELAYED] IN
         /\ type[d] = UpgradeTo /\ ~cond[d]
         /\ v.read_wait # <<>>
         /\ pos' = [pos EXCEPT ![o] = CHOOSE i \in 1 .. Len(plan[o]) : plan[o][i] = d]
         /\ Install(LockOf[d],
                free_all_read_locks([ToFront(v, d) EXCEPT !.cond[d] = TRUE], FALSE), {})
    /\ phase' = [phase EXCEPT ![o] = "rescheduled"]
    /\ UNCHANGED <<req, plan, abort>>

(* Second half, in thr_upgrade_write_delay_lock with the mutex taken       *)
(* again.                                                                  *)
RescheduleUpgrade(o) ==
    /\ phase[o] = "rescheduled"
    /\ \/ /\ type[Cur(o)] # TL_UNLOCK
          /\ UpgradeDelayed(o, Cur(o))
       \/ /\ type[Cur(o)] = TL_UNLOCK
          /\ phase' = [phase EXCEPT ![o] = "held"]
          /\ UNCHANGED <<lists, type, cond, awake>>
    /\ UNCHANGED <<req, plan, pos, abort>>

-----------------------------------------------------------------------------
(* Variant: the aborted waiters are left in their queues. *)
AbortAllKeepQueues(v) ==
    LET ds == ToSet(v.read_wait) \cup ToSet(v.write_wait)
    IN  Release([v EXCEPT
            !.type = [d \in Data |-> IF d \in ds THEN TL_UNLOCK ELSE @[d]]], ds)

(* Every waiter is marked killed and woken. *)
AbortAll(v) ==
    LET ds == ToSet(v.read_wait) \cup ToSet(v.write_wait)
    IN  Release([v EXCEPT !.read_wait = <<>>, !.write_wait = <<>>,
                    !.type = [d \in Data |-> IF d \in ds THEN TL_UNLOCK ELSE @[d]]], ds)

(* With upgrade_lock the first active write, whoever has it and whatever   *)
(* its type and company, becomes TL_WRITE_ONLY.                            *)
thr_abort_locks(l, upgrade_lock) ==
    LET v == AbortAll(View(l)) IN
    /\ Install(l, IF upgrade_lock /\ v.write # <<>>
                  THEN [v EXCEPT !.type[Head(v.write)] = TL_WRITE_ONLY] ELSE v, {})
    /\ UNCHANGED <<req, plan, pos, phase, abort>>

(* thr_abort_locks_for_thread; it wakes waiters even when it found none of *)
(* the thread's.  With empty queues it changes nothing.                    *)
thr_abort_locks_for_thread(l, t) ==
    LET v    == View(l)
        mine == {d \in ToSet(v.read_wait) \cup ToSet(v.write_wait) :
                    ThreadOf[OwnerOf[d]] = t}
        rest(list) == Only(list, Data \ mine)
    IN
    /\ v.read_wait # <<>> \/ v.write_wait # <<>>
    /\ \E cs \in BOOLEAN :
         Install(l, wake_up_waiters(
            Release([v EXCEPT !.read_wait = rest(@), !.write_wait = rest(@),
               !.type = [d \in Data |-> IF d \in mine THEN TL_UNLOCK ELSE @[d]]],
               mine), cs), {})
    /\ UNCHANGED <<req, plan, pos, phase, abort>>

(* thr_downgrade_write_lock: the owner of a TL_WRITE_ONLY lock, the only   *)
(* one its assertions admit, gives it any lower write type.                *)
thr_downgrade_write_lock(o) ==
    /\ phase[o] = "held" /\ ThreadFree(o)
    /\ \E d \in ToSet(plan[o]), new \in WriteTypes \ {TL_WRITE_ONLY} :
          /\ type[d] = TL_WRITE_ONLY
          /\ type' = [type EXCEPT ![d] = new]
    /\ UNCHANGED <<lists, cond, req, plan, pos, phase, awake, abort>>

(* The server kills a statement that is taking locks: thread_var->abort is *)
(* set and the condition the thread waits on is signalled (external).      *)
Kill(o) ==
    /\ phase[o] \in {"locking", "waiting", "upgrading"}
    /\ ThreadOf[o] \notin abort /\ Cardinality(abort) < MaxKilled
    /\ abort' = abort \cup {ThreadOf[o]}
    /\ awake' = IF Waiting(o) THEN awake \cup {o} ELSE awake
    /\ UNCHANGED <<lists, type, cond, req, plan, pos, phase>>

OwnerStep(o) ==
    \/ ThrLockCall(o) \/ WaitGranted(o) \/ WaitAborted(o) \/ WaitGivenUp(o)
    \/ WaitAgain(o) \/ UnlockNext(o) \/ MultiUnlockDone(o)
    \/ UpgradeWaitEnds(o) \/ RescheduleUpgrade(o)

Next ==
    \/ \E o \in Owners :
          \/ StartMultiLock(o) \/ OwnerStep(o) \/ StartMultiUnlock(o)
          \/ thr_upgrade_write_delay_lock(o) \/ thr_reschedule_write_lock(o)
          \/ thr_downgrade_write_lock(o) \/ Kill(o)
    \/ \E l \in Abortable :
          \/ \E upgrade_lock \in BOOLEAN : thr_abort_locks(l, upgrade_lock)
          \/ \E t \in Range(ThreadOf) : thr_abort_locks_for_thread(l, t)

Spec == Init /\ [][Next]_vars

(* o is inside a call and not asleep: OwnerStep(o) is enabled. *)
Runnable(o) ==
    \/ phase[o] \in {"locking", "rescheduled", "unlocking"}
    \/ Waiting(o) /\ o \in awake

(* A thread that can run does, and a statement that has its locks ends.    *)
(* The first is weak fairness of OwnerStep(o) without its timeouts.        *)
FairSpec == Spec /\ \A o \in Owners :
    /\ []<>~Runnable(o) \/ []<><<OwnerStep(o)>>_vars
    /\ WF_vars(StartMultiUnlock(o))

-----------------------------------------------------------------------------
Lists(l) == <<lists[l].read, lists[l].read_wait, lists[l].write, lists[l].write_wait>>
Active(l) == ToSet(lists[l].read) \cup ToSet(lists[l].write)
Queued(l) == ToSet(lists[l].read_wait) \cup ToSet(lists[l].write_wait)

TypeOK ==
    /\ \A l \in Locks :
          /\ \A i \in 1 .. 4 : Lists(l)[i] \in Seq({d \in Data : LockOf[d] = l})
          /\ lists[l].write_lock_count \in 0 .. MaxWriteLockCount + 1
          /\ lists[l].read_no_write_count \in 0 .. Cardinality(Data)
    /\ type \in [Data -> RequestTypes \cup {TL_UNLOCK}]
    /\ cond \in [Data -> BOOLEAN]
    /\ phase \in [Owners -> Phases]
    /\ \A o \in Owners : plan[o] \in Seq(Data) /\ pos[o] \in 1 .. Len(plan[o]) + 1
    /\ awake \subseteq {o \in Owners : Waiting(o)}
    /\ abort \subseteq Range(ThreadOf)

(* What check_lock() and thr_unlock() rely on: a lock instance is in one   *)
(* list at most, and its type and cond tell which one, so that thr_unlock  *)
(* repairs the tail of the right list; read_no_write_count is the number   *)
(* of active TL_READ_NO_INSERT locks.                                      *)
ListsAgree == TypeOK /\ \A l \in Locks :
    LET q == lists[l] IN
    /\ IsInjective(q.read \o q.read_wait \o q.write \o q.write_wait)
    /\ \A d \in ToSet(q.read) \cup ToSet(q.read_wait) : type[d] \in ReadTypes
    /\ \A d \in ToSet(q.write) \cup ToSet(q.write_wait) : type[d] \in WriteTypes
    /\ \A d \in Active(l) : ~cond[d]
    /\ \A d \in Queued(l) : cond[d]
    /\ q.read_no_write_count =
          Cardinality({d \in ToSet(q.read) : type[d] = TL_READ_NO_INSERT})

(* A caller that was told THR_LOCK_SUCCESS has its locks until it unlocks  *)
(* them, except the ones another thread aborted (type TL_UNLOCK) and a     *)
(* delayed insert still queued; and a lock in a list belongs to an owner   *)
(* that will release it or is waiting for it, so that none is leaked by a  *)
(* failure, kill, timeout or abort.                                        *)
HoldersHold ==
    /\ \A o \in Owners : phase[o] = "held" => \A d \in ToSet(plan[o]) :
          \/ type[d] = TL_UNLOCK \/ d \in Active(LockOf[d])
          \/ req[d] = TL_WRITE_DELAYED /\ d \in Queued(LockOf[d])
    /\ \A l \in Locks : \A d \in Active(l) \cup Queued(l) :
          LET o == OwnerOf[d] IN
          /\ phase[o] # "idle"
          /\ phase[o] = "unlocking" => d \in ToSet(SubSeq(plan[o], pos[o], Len(plan[o])))
          /\ phase[o] # "unlocking" => d \in ToSet(plan[o])

(* Nobody waits for a lock that is free, and no reader for one that no     *)
(* writer has or waits for, whoever unlocked, stepped back, was killed,    *)
(* timed out or was aborted: every path that can empty the active lists    *)
(* starts the waiters (the conditions of check_locks() without an active   *)
(* write).                                                                 *)
FreeLockServes == \A l \in Locks :
    LET q == lists[l] IN
    /\ q.write = <<>> /\ q.read = <<>> => Queued(l) = {}
    /\ q.write = <<>> /\ q.write_wait = <<>> => q.read_wait = <<>>

(* The signal is never lost: once data->cond is cleared, by a grant or an  *)
(* abort, the waiting thread has been woken.                               *)
GrantedIsWoken == \A o \in Owners : Waiting(o) /\ ~cond[Cur(o)] => o \in awake

(* Queues are served in order: a lock is never given to a waiting request  *)
(* while one of the same type that was queued before it goes on waiting,   *)
(* and the requests that go on waiting keep their order.                   *)
QueuesInOrder ==
    [][\A l \in Locks, k \in {"read_wait", "write_wait"} :
         LET old == lists[l][k]
             new == lists'[l][k] IN
         \A i, j \in 1 .. Len(old) : i < j /\ old[i] \in ToSet(new) =>
            /\ type[old[i]] = type[old[j]] => old[j] \notin Active(l)'
            /\ \A m \in 1 .. Len(new) : new[m] = old[j] =>
                  old[i] \in {new[n] : n \in 1 .. m}]_vars

(* "TL_WRITE_ONLY. In this case there are no waiters" (the note at         *)
(* thr_downgrade_write_lock, which wakes nobody), for a lock that          *)
(* thr_abort_locks() made TL_WRITE_ONLY: it aborts the waiters, and        *)
(* newcomers are turned away.  Only a delayed insert can wait beside it,   *)
(* one that was active with it and stepped back to let readers in.  A lock *)
(* requested as TL_WRITE_ONLY may have waiters of every kind.              *)
UpgradedHasNoWaiters == \A l \in Locks :
    \A d \in ToSet(lists[l].write) :
        type[d] = TL_WRITE_ONLY /\ req[d] # TL_WRITE_ONLY =>
            \A q \in Queued(l) : req[q] = TL_WRITE_DELAYED

(* A call of thr_multi_lock returns: locks taken in address order cannot   *)
(* deadlock, every release wakes whom it must, and max_write_lock_count,   *)
(* where it is configured (it starts as ~0), keeps writers from shutting   *)
(* out readers for good.                                                   *)
LockingEnds == \A o \in Owners :
    phase[o] \in {"locking", "waiting"} ~> phase[o] \in {"held", "idle"}
=============================================================================
