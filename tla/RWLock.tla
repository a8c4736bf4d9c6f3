------------------------------- MODULE RWLock -------------------------------
(***************************************************************************)
(* The readers/writer lock of mysys/thr_rwlock.c (my_rw_lock_t), built on  *)
(* one mutex and the two condition variables "readers" and "writers".      *)
(*                                                                         *)
(* Every function runs under rwp->lock from its first to its last          *)
(* statement and gives it up only inside pthread_cond_wait, so a function  *)
(* is one action when it does not wait, and otherwise one action up to the *)
(* wait and one per wake-up.  A condition variable is the set of threads   *)
(* blocked on it.  A thread that is inside rdlock or wrlock and in neither *)
(* set has been woken (or has woken spuriously, as POSIX allows) and is    *)
(* about to take the mutex and test its condition again; anyone else may   *)
(* take the mutex before it does.                                          *)
(***************************************************************************)
EXTENDS Integers, FiniteSets

CONSTANT Threads

ASSUME ThreadsAssumption == IsFiniteSet(Threads)

VARIABLES
    state,      \* rwp->state: -1 a writer holds, 0 free, n > 0 readers
    waiters,    \* rwp->waiters: writers inside my_rw_wrlock
    readers,    \* threads blocked on the condition rwp->readers
    writers,    \* threads blocked on the condition rwp->writers
    pc          \* where each thread is in its calls

vars == <<state, waiters, readers, writers, pc>>

PC == {"idle", "rdlock", "wrlock", "reading", "writing"}

(* The counters of my_rw_lock_t never leave the range the number of        *)
(* threads allows: no unlock drives state below -1, and each queued writer *)
(* is taken out of waiters when it gets the lock.                          *)
TypeOK ==
    /\ state \in -1 .. Cardinality(Threads)
    /\ waiters \in 0 .. Cardinality(Threads)
    /\ readers \subseteq Threads
    /\ writers \subseteq Threads
    /\ pc \in [Threads -> PC]

(* my_rwlock_init *)
Init ==
    /\ state = 0
    /\ waiters = 0
    /\ readers = {}
    /\ writers = {}
    /\ pc = [t \in Threads |-> "idle"]

-----------------------------------------------------------------------------
(* Variant: the test forgets the queued writers. *)
ReadBlockedIgnoringWriters == state < 0

(* The test at the head of both reader functions. *)
ReadBlocked == state < 0 \/ waiters # 0

(* The loop of my_rw_rdlock, entered or re-entered by t with the mutex. *)
RdLoop(t) ==
    \/ /\ ReadBlocked
       /\ readers' = readers \cup {t}
       /\ pc' = [pc EXCEPT ![t] = "rdlock"]
       /\ UNCHANGED <<state, waiters, writers>>
    \/ /\ ~ReadBlocked
       /\ state' = state + 1
       /\ pc' = [pc EXCEPT ![t] = "reading"]
       /\ UNCHANGED <<waiters, readers, writers>>

RdLock(t) == pc[t] = "idle" /\ RdLoop(t)

RdWake(t) == pc[t] = "rdlock" /\ t \notin readers /\ RdLoop(t)

(* my_rw_tryrdlock; the EBUSY return changes nothing. *)
TryRdLock(t) ==
    /\ pc[t] = "idle"
    /\ ~ReadBlocked
    /\ state' = state + 1
    /\ pc' = [pc EXCEPT ![t] = "reading"]
    /\ UNCHANGED <<waiters, readers, writers>>

(* Variant: waiters-- is forgotten. *)
WrLoopKeepWaiting(t, w) ==
    \/ /\ state # 0
       /\ waiters' = w
       /\ writers' = writers \cup {t}
       /\ pc' = [pc EXCEPT ![t] = "wrlock"]
       /\ UNCHANGED <<state, readers>>
    \/ /\ state = 0
       /\ state' = -1
       /\ waiters' = w
       /\ pc' = [pc EXCEPT ![t] = "writing"]
       /\ UNCHANGED <<readers, writers>>

(* The loop of my_rw_wrlock; w is the value of waiters on entry to it. *)
WrLoop(t, w) ==
    \/ /\ state # 0
       /\ waiters' = w
       /\ writers' = writers \cup {t}
       /\ pc' = [pc EXCEPT ![t] = "wrlock"]
       /\ UNCHANGED <<state, readers>>
    \/ /\ state = 0
       /\ state' = -1
       /\ waiters' = w - 1
       /\ pc' = [pc EXCEPT ![t] = "writing"]
       /\ UNCHANGED <<readers, writers>>

WrLock(t) == pc[t] = "idle" /\ WrLoop(t, waiters + 1)

(* Variant: a woken writer takes the lock without testing state again. *)
WrWakeNoRecheck(t) ==
    /\ pc[t] = "wrlock" /\ t \notin writers
    /\ state' = -1
    /\ waiters' = waiters - 1
    /\ pc' = [pc EXCEPT ![t] = "writing"]
    /\ UNCHANGED <<readers, writers>>

WrWake(t) == pc[t] = "wrlock" /\ t \notin writers /\ WrLoop(t, waiters)

(* my_rw_trywrlock; it does not announce itself in waiters. *)
TryWrLock(t) ==
    /\ pc[t] = "idle"
    /\ state = 0
    /\ state' = -1
    /\ pc' = [pc EXCEPT ![t] = "writing"]
    /\ UNCHANGED <<waiters, readers, writers>>

-----------------------------------------------------------------------------
(* pthread_cond_signal(&rwp->writers): one blocked thread, if any, wakes. *)
SignalWriters ==
    \/ writers = {} /\ UNCHANGED writers
    \/ \E w \in writers : writers' = writers \ {w}

(* Variant: the branch that wakes the readers is missing. *)
WriterUnlockOnlyWriters(t) ==
    /\ pc[t] = "writing" /\ state = -1
    /\ state' = 0
    /\ SignalWriters
    /\ pc' = [pc EXCEPT ![t] = "idle"]
    /\ UNCHANGED <<waiters, readers>>

(* my_rw_unlock when a writer releases (state == -1). *)
WriterUnlock(t) ==
    /\ pc[t] = "writing" /\ state = -1
    /\ state' = 0
    /\ \/ waiters # 0 /\ SignalWriters /\ UNCHANGED readers
       \/ waiters = 0 /\ readers' = {} /\ UNCHANGED writers
    /\ pc' = [pc EXCEPT ![t] = "idle"]
    /\ UNCHANGED waiters

(* Variant: --state is tested against the wrong value. *)
ReaderUnlockOffByOne(t) ==
    /\ pc[t] = "reading" /\ state # -1
    /\ state' = state - 1
    /\ \/ state = 2 /\ SignalWriters
       \/ state # 2 /\ UNCHANGED writers
    /\ pc' = [pc EXCEPT ![t] = "idle"]
    /\ UNCHANGED <<waiters, readers>>

(* my_rw_unlock when a reader releases. *)
ReaderUnlock(t) ==
    /\ pc[t] = "reading" /\ state # -1
    /\ state' = state - 1
    /\ \/ state = 1 /\ SignalWriters
       \/ state # 1 /\ UNCHANGED writers
    /\ pc' = [pc EXCEPT ![t] = "idle"]
    /\ UNCHANGED <<waiters, readers>>

(* A spurious return from pthread_cond_wait. *)
SpuriousWake(t) ==
    /\ t \in readers \cup writers
    /\ readers' = readers \ {t}
    /\ writers' = writers \ {t}
    /\ UNCHANGED <<state, waiters, pc>>

Next == \E t \in Threads :
    \/ RdLock(t) \/ RdWake(t) \/ TryRdLock(t)
    \/ WrLock(t) \/ WrWake(t) \/ TryWrLock(t)
    \/ ReaderUnlock(t) \/ WriterUnlock(t)
    \/ SpuriousWake(t)

Spec == Init /\ [][Next]_vars

(* A woken thread gets the mutex and a holder eventually unlocks; nobody   *)
(* is obliged to ask for the lock, and wake-ups are never spurious by      *)
(* obligation.                                                             *)
Fairness == \A t \in Threads :
    WF_vars(RdWake(t)) /\ WF_vars(WrWake(t))
      /\ WF_vars(ReaderUnlock(t)) /\ WF_vars(WriterUnlock(t))

FairSpec == Spec /\ Fairness

-----------------------------------------------------------------------------
At(p) == {t \in Threads : pc[t] = p}

(* Only a thread inside my_rw_rdlock sleeps on readers, and only one       *)
(* inside my_rw_wrlock on writers.                                         *)
BlockedInCall == readers \subseteq At("rdlock") /\ writers \subseteq At("wrlock")

(* The two integers count exactly what their declarations say             *)
(* (include/my_pthread.h: "-1:writer,0:free,>0:readers", "number of        *)
(* waiting writers"), so one writer at most holds the lock, and no writer  *)
(* together with a reader.                                                 *)
Exclusion ==
    /\ waiters = Cardinality(At("wrlock"))
    /\ \/ state = -1 /\ Cardinality(At("writing")) = 1 /\ At("reading") = {}
       \/ state = Cardinality(At("reading")) /\ At("writing") = {}

(* No lost wake-up: a thread sleeps only for a reason that still obtains,  *)
(* and whoever removes the reason has somebody awake to pass the lock on.  *)
(* A reader sleeps behind a writer that holds or queues; and when the lock *)
(* is free, one of the queued writers is awake to take it.                 *)
NoLostWakeup ==
    /\ readers # {} => (state = -1 \/ waiters # 0)
    /\ (state = 0 /\ writers # {}) => \E t \in At("wrlock") : t \notin writers

(* The inductive invariant: the counters, the wait sets and the threads'  *)
(* places agree, and no wake-up is lost.                                   *)
IInv == TypeOK /\ BlockedInCall /\ Exclusion /\ NoLostWakeup

(* A queued writer gets in front of later readers: once it waits, the     *)
(* holders drain and a writer has the lock.                                *)
WritersServed == (waiters # 0) ~> (state = -1)

(* A reader blocked in my_rw_rdlock gets the lock unless writers keep      *)
(* taking it for ever.                                                     *)
ReadersServed == \A t \in Threads :
    (pc[t] = "rdlock" ~> pc[t] = "reading") \/ []<>(state = -1)

(* The lock is a readers/writer lock with writer preference. *)
RW == INSTANCE ReadersWriter WITH
          readers <- At("reading"),
          writer  <- At("writing"),
          queued  <- At("wrlock")

(* Every step of my_rwlock is a step its callers are promised. *)
Implements == RW!AbsSpec
=============================================================================
