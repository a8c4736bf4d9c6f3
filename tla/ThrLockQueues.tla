--------------------------- MODULE ThrLockQueues ---------------------------
(***************************************************************************)
(* One THR_LOCK of mysys/thr_lock.c: its four lists and what thr_lock(),   *)
(* thr_unlock() and wake_up_waiters() do to them while they hold           *)
(* lock->mutex.  Every operator here is a function of a view v:            *)
(*                                                                         *)
(*   read, read_wait, write, write_wait   the lists, heads first           *)
(*   write_lock_count                     writes granted in a row          *)
(*   read_no_write_count                  active TL_READ_NO_INSERT locks   *)
(*   type, cond                           data->type, data->cond # 0       *)
(*   signalled                            the data whose cond was signalled*)
(***************************************************************************)
EXTENDS ThrLockTypes, Lists, SequencesExt, FiniteSets

CONSTANTS
    Data,                   \* the lock instances (THR_LOCK_DATA)
    OwnerOf,                \* data->owner of each
    MaxWriteLockCount,      \* max_write_lock_count
    HasCheckStatus,         \* whether lock->check_status is set
    AllowMultipleInsert,    \* lock->allow_multiple_concurrent_insert
    UpgradedInsert          \* thr_upgraded_concurrent_insert_lock

ASSUME QueueAssumption ==
    /\ IsFiniteSet(Data)
    /\ MaxWriteLockCount \in Nat
    /\ HasCheckStatus \in BOOLEAN
    /\ AllowMultipleInsert \in BOOLEAN
    /\ UpgradedInsert \in {TL_WRITE_LOW_PRIORITY, TL_WRITE}

(* The type of the first lock of a list, and TL_UNLOCK for the null head.  *)
HeadType(v, list) == IF list = <<>> THEN TL_UNLOCK ELSE v.type[Head(list)]

HasType(v, list, types) == \E d \in ToSet(list) : v.type[d] \in types

(* Take d out of whichever list it is in, as its prev pointer does. *)
Unlink(v, d) ==
    LET out(list) == Only(list, Data \ {d})
    IN  [v EXCEPT !.read = out(@), !.read_wait = out(@),
                  !.write = out(@), !.write_wait = out(@)]

(* Variant: the cond is cleared and not signalled. *)
ReleaseNoSignal(v, ds) == [v EXCEPT !.cond = [d \in Data |-> @[d] /\ d \notin ds]]

(* data->cond = 0 and pthread_cond_signal(cond) for the data in set ds. *)
Release(v, ds) ==
    [v EXCEPT !.cond = [d \in Data |-> @[d] /\ d \notin ds],
              !.signalled = @ \cup ds]

(* Append d to the active list of its kind. *)
AddRead(v, d) ==
    [v EXCEPT !.read = Append(@, d),
              !.read_no_write_count =
                  IF v.type[d] = TL_READ_NO_INSERT THEN @ + 1 ELSE @]

AddWrite(v, d) == [v EXCEPT !.write = Append(@, d)]

-----------------------------------------------------------------------------
(* Variant: the locks that stay behind are counted as active. *)
free_all_read_locks_count_all(v, using_concurrent_insert) ==
    LET stays == {d \in Data : using_concurrent_insert /\ v.type[d] = TL_READ_NO_INSERT}
        freed == Only(v.read_wait, Data \ stays)
        kept  == Only(v.read_wait, stays)
    IN  Release([v EXCEPT
            !.read = @ \o freed,
            !.read_wait = kept,
            !.read_no_write_count = @ + Cardinality(
                {d \in ToSet(v.read_wait) : v.type[d] = TL_READ_NO_INSERT}),
            !.write_lock_count = IF kept = <<>> THEN 0 ELSE @], ToSet(freed))

(* free_all_read_locks: give the lock to all waiting readers, except the   *)
(* TL_READ_NO_INSERT ones when a concurrent insert was just started.       *)
free_all_read_locks(v, using_concurrent_insert) ==
    LET stays == {d \in Data : using_concurrent_insert /\ v.type[d] = TL_READ_NO_INSERT}
        freed == Only(v.read_wait, Data \ stays)
        kept  == Only(v.read_wait, stays)
    IN  Release([v EXCEPT
            !.read = @ \o freed,
            !.read_wait = kept,
            !.read_no_write_count = @ + Cardinality(
                {d \in ToSet(freed) : v.type[d] = TL_READ_NO_INSERT}),
            !.write_lock_count = IF kept = <<>> THEN 0 ELSE @], ToSet(freed))

FreeReaders(v, using_concurrent_insert) ==
    IF v.read_wait = <<>> THEN v ELSE free_all_read_locks(v, using_concurrent_insert)

(* The waiting writes that are started together: the first, or all the     *)
(* TL_WRITE_ALLOW_WRITE ones at the front of the queue.                    *)
WriteBatch(v) ==
    LET front == {n \in 1 .. Len(v.write_wait) :
                    \A i \in 1 .. n : v.type[v.write_wait[i]] = TL_WRITE_ALLOW_WRITE}
    IN  IF HeadType(v, v.write_wait) = TL_WRITE_ALLOW_WRITE
        THEN Cardinality(front) ELSE 1

(* Variant: the newest write of the queue is started. *)
StartNewestWrite(v) ==
    Release([v EXCEPT !.write = Append(@, Last(v.write_wait)),
                      !.write_wait = Front(@)], {Last(v.write_wait)})

(* Move the batch to the write list. *)
StartWrites(v) ==
    LET n == WriteBatch(v)
        batch == SubSeq(v.write_wait, 1, n)
    IN  Release([v EXCEPT !.write = @ \o batch,
                          !.write_wait = SubSeq(@, n + 1, Len(@))], ToSet(batch))

(* check_status() said no: the insert at the head of the queue (or just    *)
(* taken from it) becomes an ordinary write.                               *)
UpgradeInsert(v, d, cs) ==
    IF v.type[d] = TL_WRITE_CONCURRENT_INSERT /\ cs
    THEN [v EXCEPT !.type[d] = TL_WRITE] ELSE v

(* The writer at the head of the queue may go when the lock is free. *)
WriteGoesFirst(v) ==
    /\ v.write_wait # <<>>
    /\ \/ HeadType(v, v.write_wait) # TL_WRITE_LOW_PRIORITY
       \/ v.read_wait = <<>>
       \/ HeadType(v, v.read_wait) < TL_READ_HIGH_PRIORITY

(* wake_up_waiters when no lock is active. *)
WakeFree(v, cs) ==
    LET head    == Head(v.write_wait)
        tooMany == v.write_lock_count > MaxWriteLockCount
        counted == [v EXCEPT !.write_lock_count = IF tooMany THEN 0 ELSE @ + 1]
        started == UpgradeInsert(StartWrites(counted), head, cs)
    IN  IF ~WriteGoesFirst(v) THEN FreeReaders(v, FALSE)
        ELSE IF tooMany /\ v.read_wait # <<>> THEN free_all_read_locks(counted, FALSE)
        ELSE IF started.type[head] >= TL_WRITE_LOW_PRIORITY THEN started
        ELSE FreeReaders(started, started.type[head] \in InsertTypes)

(* Variant: NO_INSERT readers do not hold up the insert types. *)
WriteBesideAnyRead(v, lt) == lt <= TL_WRITE_DELAYED

(* A write of type lt may start beside the active read locks. *)
WriteBesideReads(v, lt) ==
    /\ lt <= TL_WRITE_DELAYED
    /\ lt \notin InsertTypes \/ v.read_no_write_count = 0

(* wake_up_waiters when only read locks are active. *)
WakeReading(v, cs) ==
    LET head == Head(v.write_wait)
    IN  IF v.write_wait = <<>> THEN FreeReaders(v, FALSE)
        ELSE IF ~WriteBesideReads(v, v.type[head]) THEN v
        ELSE IF v.type[head] = TL_WRITE_CONCURRENT_INSERT /\ cs
             THEN FreeReaders(UpgradeInsert(v, head, cs), FALSE)
        ELSE FreeReaders(StartWrites(v), v.type[head] \in InsertTypes)

wake_up_waiters(v, cs) ==
    IF v.write # <<>> THEN v
    ELSE IF v.read = <<>> THEN WakeFree(v, cs) ELSE WakeReading(v, cs)

-----------------------------------------------------------------------------
(* Grant rules of thr_lock().  o is the requesting owner. *)

OwnsWrite(v, o) == v.write # <<>> /\ OwnerOf[Head(v.write)] = o

have_old_read_lock(v, o) == \E d \in ToSet(v.read) : OwnerOf[d] = o

(* A read request of type lt is granted at once. *)
ReadGranted(v, o, lt) ==
    \/ OwnsWrite(v, o)
    \/ /\ v.write # <<>>
       /\ HeadType(v, v.write) <= TL_WRITE_DELAYED
       /\ \/ lt <= TL_READ_HIGH_PRIORITY
          \/ HeadType(v, v.write) \notin {TL_WRITE_CONCURRENT_INSERT, TL_WRITE_ALLOW_READ}
    \/ /\ v.write = <<>>
       /\ \/ v.write_wait = <<>>
          \/ HeadType(v, v.write_wait) <= TL_WRITE_LOW_PRIORITY
          \/ lt = TL_READ_HIGH_PRIORITY
          \/ have_old_read_lock(v, o)

(* Variant: writes wait for a TL_WRITE_ONLY lock. *)
RefusedReadsOnly(v, o, lt) ==
    IsRead(lt) /\ HeadType(v, v.write) = TL_WRITE_ONLY /\ ~OwnsWrite(v, o)

(* A TL_WRITE_ONLY lock turns the request away. *)
Refused(v, o, lt) ==
    /\ v.write # <<>>
    /\ HeadType(v, v.write) = TL_WRITE_ONLY
    /\ lt = TL_WRITE_DELAYED \/ ~OwnsWrite(v, o)

(* A TL_WRITE_DELAYED request is queued and the call returns at once. *)
DelayedQueued(v, lt) ==
    /\ lt = TL_WRITE_DELAYED
    /\ v.write # <<>> \/ v.read # <<>>
    /\ v.write # <<>> => HeadType(v, v.write) # TL_WRITE_ALLOW_READ
    /\ ~HasType(v, v.write_wait, {TL_WRITE_ALLOW_READ})

(* data->type of a write request after the tests of check_status. *)
EffectiveType(v, lt, cs) ==
    IF /\ lt = TL_WRITE_CONCURRENT_INSERT
       /\ ~HasCheckStatus \/ (v.write = <<>> /\ v.write_wait = <<>> /\ cs)
    THEN UpgradedInsert ELSE lt

(* A write request of effective type lt is granted at once. *)
WriteGranted(v, o, lt) ==
    \/ OwnsWrite(v, o)
    \/ /\ v.write # <<>> /\ v.write_wait = <<>> /\ lt = HeadType(v, v.write)
       /\ lt = TL_WRITE_ALLOW_WRITE
            \/ (lt = TL_WRITE_CONCURRENT_INSERT /\ AllowMultipleInsert)
    \/ /\ v.write = <<>> /\ v.write_wait = <<>>
       /\ v.read = <<>> \/ WriteBesideReads(v, lt)
=============================================================================
