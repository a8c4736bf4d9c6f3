--------------------------- MODULE RWLock_proofs ---------------------------
(***************************************************************************)
(* Proofs about RWLock, for any finite set of threads.  The inductive      *)
(* invariant is RWLock!IInv: the mutual exclusion alone is not inductive,  *)
(* because an unlock decides what to do from the counters, which must      *)
(* agree with where the threads are.                                       *)
(***************************************************************************)
EXTENDS RWLock, FiniteSetTheorems, TLAPS

(* Where the threads are under a program counter f; At(p) is Where(pc, p). *)
Where(f, p) == {t \in Threads : f[t] = p}

(* No set of threads is larger than Threads, and only {} has size 0. *)
LEMMA WhereBounds ==
    ASSUME NEW f \in [Threads -> PC], NEW p \in PC
    PROVE  /\ IsFiniteSet(Where(f, p))
           /\ Cardinality(Where(f, p)) \in 0 .. Cardinality(Threads)
           /\ Cardinality(Threads) \in Nat
           /\ Cardinality(Where(f, p)) = 0 <=> Where(f, p) = {}
<1>1. Where(f, p) \in SUBSET Threads
  BY DEF Where
<1>2. /\ IsFiniteSet(Where(f, p))
      /\ Cardinality(Where(f, p)) <= Cardinality(Threads)
  BY <1>1, ThreadsAssumption, FS_Subset
<1>3. Cardinality(Where(f, p)) \in Nat /\ Cardinality(Threads) \in Nat
  BY <1>2, ThreadsAssumption, FS_CardinalityType
<1> QED
  BY <1>2, <1>3, FS_EmptySet

(* The counter conditions bound the counters: TypeOK's ranges follow from  *)
(* Exclusion.                                                              *)
LEMMA CountersInRange ==
    ASSUME pc \in [Threads -> PC], Exclusion
    PROVE  /\ state \in -1 .. Cardinality(Threads)
           /\ waiters \in 0 .. Cardinality(Threads)
<1>1. \A p \in {"wrlock", "reading", "writing"} :
         /\ At(p) = Where(pc, p)
         /\ Cardinality(Where(pc, p)) \in 0 .. Cardinality(Threads)
         /\ Cardinality(Threads) \in Nat
  BY WhereBounds DEF At, Where, PC
<1> QED
  BY <1>1 DEF Exclusion

(* The initial state satisfies the invariant. *)
LEMMA InitIInv == Init => IInv
<1> SUFFICES ASSUME Init PROVE IInv
  OBVIOUS
<1>1. At("rdlock") = {} /\ At("wrlock") = {} /\ At("reading") = {}
        /\ At("writing") = {}
  BY DEF Init, At
<1>2. Cardinality({}) = 0
  BY FS_EmptySet
<1>3. pc \in [Threads -> PC]
  BY DEF Init, PC
<1>4. Exclusion
  BY <1>1, <1>2 DEF Init, Exclusion
<1> QED
  BY <1>1, <1>3, <1>4, CountersInRange
     DEF Init, IInv, TypeOK, BlockedInCall, NoLostWakeup

(* The facts about one moving thread that every action needs. *)
LEMMA MoveFacts ==
    ASSUME IInv, NEW t \in Threads, NEW q \in PC,
           pc' = [pc EXCEPT ![t] = q]
    PROVE  /\ pc' \in [Threads -> PC]
           /\ \A r \in PC :
                /\ IsFiniteSet(At(r))
                /\ Cardinality(At(r)) \in Nat
                /\ Cardinality(At(r)) = 0 <=> At(r) = {}
                /\ At(r)' = IF r = q THEN At(r) \cup {t} ELSE At(r) \ {t}
                /\ Cardinality(At(r)') =
                     IF r = q /\ r # pc[t] THEN Cardinality(At(r)) + 1
                     ELSE IF r # q /\ r = pc[t] THEN Cardinality(At(r)) - 1
                     ELSE Cardinality(At(r))
                /\ Cardinality(At(r)') = 0 <=> At(r)' = {}
<1>1. pc \in [Threads -> PC]
  BY DEF IInv, TypeOK
<1>2. pc' \in [Threads -> PC]
  BY <1>1
<1>3. ASSUME NEW r \in PC
      PROVE  /\ IsFiniteSet(At(r))
             /\ Cardinality(At(r)) \in Nat
             /\ Cardinality(At(r)) = 0 <=> At(r) = {}
             /\ At(r)' = IF r = q THEN At(r) \cup {t} ELSE At(r) \ {t}
             /\ Cardinality(At(r)') =
                  IF r = q /\ r # pc[t] THEN Cardinality(At(r)) + 1
                  ELSE IF r # q /\ r = pc[t] THEN Cardinality(At(r)) - 1
                  ELSE Cardinality(At(r))
             /\ Cardinality(At(r)') = 0 <=> At(r)' = {}
  <2>1. At(r) = Where(pc, r) /\ At(r)' = Where(pc', r)
    BY DEF At, Where
  <2>2. /\ Cardinality(Where(pc, r)) = 0 <=> Where(pc, r) = {}
        /\ Cardinality(Where(pc', r)) = 0 <=> Where(pc', r) = {}
    BY <1>1, <1>2, WhereBounds
  <2>3. IsFiniteSet(At(r)) /\ Cardinality(At(r)) \in Nat
    BY <1>1, <2>1, WhereBounds
  <2>4. At(r)' = IF r = q THEN At(r) \cup {t} ELSE At(r) \ {t}
    BY <1>1 DEF At
  <2>5. t \in At(r) <=> r = pc[t]
    BY DEF At
  <2>6. /\ Cardinality(At(r) \cup {t}) =
             IF t \in At(r) THEN Cardinality(At(r)) ELSE Cardinality(At(r)) + 1
        /\ Cardinality(At(r) \ {t}) =
             IF t \in At(r) THEN Cardinality(At(r)) - 1 ELSE Cardinality(At(r))
    BY <2>3, FS_AddElement, FS_RemoveElement
  <2> QED
    BY <2>1, <2>2, <2>3, <2>4, <2>5, <2>6
<1> QED
  BY <1>2, <1>3

(* CountersInRange for the next state. *)
LEMMA CountersInRangeNext ==
    ASSUME pc' \in [Threads -> PC], Exclusion'
    PROVE  (state \in -1 .. Cardinality(Threads)
              /\ waiters \in 0 .. Cardinality(Threads))'
<1>1. \A p \in {"wrlock", "reading", "writing"} :
         /\ At(p)' = Where(pc', p)
         /\ Cardinality(Where(pc', p)) \in 0 .. Cardinality(Threads)
         /\ Cardinality(Threads) \in Nat
  BY WhereBounds DEF At, Where, PC
<1> QED
  BY <1>1 DEF Exclusion

(* waiters tells whether a writer is queued. *)
LEMMA WaitersCount ==
    ASSUME TypeOK, Exclusion
    PROVE  waiters = 0 <=> At("wrlock") = {}
<1>1. At("wrlock") = Where(pc, "wrlock")
  BY DEF At, Where
<1> QED
  BY <1>1, WhereBounds DEF TypeOK, Exclusion, PC

(* my_rw_rdlock, entered or re-entered by t, sleeps. *)
LEMMA RdSleepInv ==
    ASSUME IInv, NEW t \in Threads,
           pc[t] \in {"idle", "rdlock"}, ReadBlocked,
           readers' = readers \cup {t},
           pc' = [pc EXCEPT ![t] = "rdlock"],
           UNCHANGED <<state, waiters, writers>>
    PROVE  IInv'
<1>1. \A r \in {"wrlock", "reading", "writing"} :
         /\ Cardinality(At(r)) \in Nat
         /\ Cardinality(At(r)) = 0 <=> At(r) = {}
         /\ Cardinality(At(r)') =
              IF r = "rdlock" /\ r # pc[t] THEN Cardinality(At(r)) + 1
              ELSE IF r # "rdlock" /\ r = pc[t] THEN Cardinality(At(r)) - 1
              ELSE Cardinality(At(r))
         /\ Cardinality(At(r)') = 0 <=> At(r)' = {}
  BY MoveFacts DEF PC
<1>2. Exclusion'
  BY <1>1 DEF IInv, TypeOK, Exclusion, ReadBlocked
<1>3. BlockedInCall'
  BY DEF IInv, TypeOK, BlockedInCall, At
<1>4. NoLostWakeup'
  BY DEF IInv, TypeOK, NoLostWakeup, BlockedInCall, At, ReadBlocked
<1>5. /\ pc' \in [Threads -> PC]
      /\ readers' \subseteq Threads /\ writers' \subseteq Threads
  BY DEF IInv, TypeOK, PC
<1>6. TypeOK'
  BY <1>2, <1>5, CountersInRangeNext DEF TypeOK
<1> QED
  BY <1>2, <1>3, <1>4, <1>6 DEF IInv

(* my_rw_rdlock or my_rw_tryrdlock gives t the lock. *)
LEMMA RdGetInv ==
    ASSUME IInv, NEW t \in Threads,
           pc[t] \in {"idle", "rdlock"}, t \notin readers, ~ReadBlocked,
           state' = state + 1,
           pc' = [pc EXCEPT ![t] = "reading"],
           UNCHANGED <<waiters, readers, writers>>
    PROVE  IInv'
<1>1. \A r \in {"wrlock", "reading", "writing"} :
         /\ Cardinality(At(r)) \in Nat
         /\ Cardinality(At(r)) = 0 <=> At(r) = {}
         /\ Cardinality(At(r)') =
              IF r = "reading" /\ r # pc[t] THEN Cardinality(At(r)) + 1
              ELSE IF r # "reading" /\ r = pc[t] THEN Cardinality(At(r)) - 1
              ELSE Cardinality(At(r))
         /\ Cardinality(At(r)') = 0 <=> At(r)' = {}
  BY MoveFacts DEF PC
<1>2. Exclusion'
  BY <1>1 DEF IInv, TypeOK, Exclusion, ReadBlocked
<1>3. BlockedInCall'
  BY DEF IInv, TypeOK, BlockedInCall, At
<1>4. NoLostWakeup'
  BY DEF IInv, TypeOK, NoLostWakeup, BlockedInCall, At, ReadBlocked
<1>5. /\ pc' \in [Threads -> PC]
      /\ readers' \subseteq Threads /\ writers' \subseteq Threads
  BY DEF IInv, TypeOK, PC
<1>6. TypeOK'
  BY <1>2, <1>5, CountersInRangeNext DEF TypeOK
<1> QED
  BY <1>2, <1>3, <1>4, <1>6 DEF IInv

(* my_rw_wrlock, entered or re-entered by t, sleeps. *)
LEMMA WrSleepInv ==
    ASSUME IInv, NEW t \in Threads,
           pc[t] \in {"idle", "wrlock"}, state # 0,
           waiters' = IF pc[t] = "idle" THEN waiters + 1 ELSE waiters,
           writers' = writers \cup {t},
           pc' = [pc EXCEPT ![t] = "wrlock"],
           UNCHANGED <<state, readers>>
    PROVE  IInv'
<1>1. \A r \in {"wrlock", "reading", "writing"} :
         /\ Cardinality(At(r)) \in Nat
         /\ Cardinality(At(r)) = 0 <=> At(r) = {}
         /\ Cardinality(At(r)') =
              IF r = "wrlock" /\ r # pc[t] THEN Cardinality(At(r)) + 1
              ELSE IF r # "wrlock" /\ r = pc[t] THEN Cardinality(At(r)) - 1
              ELSE Cardinality(At(r))
         /\ Cardinality(At(r)') = 0 <=> At(r)' = {}
  BY MoveFacts DEF PC
<1>2. Exclusion'
  BY <1>1 DEF IInv, TypeOK, Exclusion
<1>3. BlockedInCall'
  BY DEF IInv, TypeOK, BlockedInCall, At
<1>4. NoLostWakeup'
  BY DEF IInv, TypeOK, NoLostWakeup, BlockedInCall, At
<1>5. /\ pc' \in [Threads -> PC]
      /\ readers' \subseteq Threads /\ writers' \subseteq Threads
  BY DEF IInv, TypeOK, PC
<1>6. TypeOK'
  BY <1>2, <1>5, CountersInRangeNext DEF TypeOK
<1> QED
  BY <1>2, <1>3, <1>4, <1>6 DEF IInv

(* my_rw_wrlock or my_rw_trywrlock gives t the lock. *)
LEMMA WrGetInv ==
    ASSUME IInv, NEW t \in Threads,
           pc[t] \in {"idle", "wrlock"}, t \notin writers, state = 0,
           state' = -1,
           waiters' = IF pc[t] = "idle" THEN waiters ELSE waiters - 1,
           pc' = [pc EXCEPT ![t] = "writing"],
           UNCHANGED <<readers, writers>>
    PROVE  IInv'
<1>1. \A r \in {"wrlock", "reading", "writing"} :
         /\ Cardinality(At(r)) \in Nat
         /\ Cardinality(At(r)) = 0 <=> At(r) = {}
         /\ Cardinality(At(r)') =
              IF r = "writing" /\ r # pc[t] THEN Cardinality(At(r)) + 1
              ELSE IF r # "writing" /\ r = pc[t] THEN Cardinality(At(r)) - 1
              ELSE Cardinality(At(r))
         /\ Cardinality(At(r)') = 0 <=> At(r)' = {}
  BY MoveFacts DEF PC
<1>2. Exclusion'
  BY <1>1 DEF IInv, TypeOK, Exclusion
<1>3. BlockedInCall'
  BY DEF IInv, TypeOK, BlockedInCall, At
<1>4. NoLostWakeup'
  BY DEF IInv, TypeOK, NoLostWakeup, BlockedInCall, At
<1>5. /\ pc' \in [Threads -> PC]
      /\ readers' \subseteq Threads /\ writers' \subseteq Threads
  BY DEF IInv, TypeOK, PC
<1>6. TypeOK'
  BY <1>2, <1>5, CountersInRangeNext DEF TypeOK
<1> QED
  BY <1>2, <1>3, <1>4, <1>6 DEF IInv

(* my_rw_unlock by the writer. *)
LEMMA WriterUnlockInv ==
    ASSUME IInv, NEW t \in Threads,
           WriterUnlock(t)
    PROVE  IInv'
<1>1. \A r \in {"wrlock", "reading", "writing"} :
         /\ Cardinality(At(r)) \in Nat
         /\ Cardinality(At(r)) = 0 <=> At(r) = {}
         /\ Cardinality(At(r)') =
              IF r = "idle" /\ r # pc[t] THEN Cardinality(At(r)) + 1
              ELSE IF r # "idle" /\ r = pc[t] THEN Cardinality(At(r)) - 1
              ELSE Cardinality(At(r))
         /\ Cardinality(At(r)') = 0 <=> At(r)' = {}
  BY MoveFacts DEF PC, WriterUnlock
<1>2. Exclusion'
  BY <1>1 DEF IInv, TypeOK, Exclusion, WriterUnlock, SignalWriters
<1>3. BlockedInCall'
  BY DEF IInv, TypeOK, BlockedInCall, At, WriterUnlock, SignalWriters
<1>4. NoLostWakeup'
  BY WaitersCount DEF IInv, TypeOK, NoLostWakeup, BlockedInCall, At, WriterUnlock, SignalWriters
<1>5. /\ pc' \in [Threads -> PC]
      /\ readers' \subseteq Threads /\ writers' \subseteq Threads
  BY DEF IInv, TypeOK, PC, WriterUnlock, SignalWriters
<1>6. TypeOK'
  BY <1>2, <1>5, CountersInRangeNext DEF TypeOK
<1> QED
  BY <1>2, <1>3, <1>4, <1>6 DEF IInv

(* my_rw_unlock by a reader. *)
LEMMA ReaderUnlockInv ==
    ASSUME IInv, NEW t \in Threads,
           ReaderUnlock(t)
    PROVE  IInv'
<1>1. \A r \in {"wrlock", "reading", "writing"} :
         /\ Cardinality(At(r)) \in Nat
         /\ Cardinality(At(r)) = 0 <=> At(r) = {}
         /\ Cardinality(At(r)') =
              IF r = "idle" /\ r # pc[t] THEN Cardinality(At(r)) + 1
              ELSE IF r # "idle" /\ r = pc[t] THEN Cardinality(At(r)) - 1
              ELSE Cardinality(At(r))
         /\ Cardinality(At(r)') = 0 <=> At(r)' = {}
  BY MoveFacts DEF PC, ReaderUnlock
<1>2. Exclusion'
  BY <1>1 DEF IInv, TypeOK, Exclusion, ReaderUnlock, SignalWriters
<1>3. BlockedInCall'
  BY DEF IInv, TypeOK, BlockedInCall, At, ReaderUnlock, SignalWriters
<1>4. NoLostWakeup'
  BY WaitersCount DEF IInv, TypeOK, NoLostWakeup, BlockedInCall, At, ReaderUnlock, SignalWriters
<1>5. /\ pc' \in [Threads -> PC]
      /\ readers' \subseteq Threads /\ writers' \subseteq Threads
  BY DEF IInv, TypeOK, PC, ReaderUnlock, SignalWriters
<1>6. TypeOK'
  BY <1>2, <1>5, CountersInRangeNext DEF TypeOK
<1> QED
  BY <1>2, <1>3, <1>4, <1>6 DEF IInv

(* A spurious wake-up. *)
LEMMA SpuriousWakeInv ==
    ASSUME IInv, NEW t \in Threads, SpuriousWake(t)
    PROVE  IInv'
<1>1. \A p : At(p)' = At(p)
  BY DEF SpuriousWake, At
<1>2. Exclusion' /\ BlockedInCall' /\ TypeOK'
  BY <1>1 DEF IInv, TypeOK, Exclusion, BlockedInCall, SpuriousWake
<1>3. NoLostWakeup'
  BY <1>1 DEF IInv, NoLostWakeup, BlockedInCall, SpuriousWake
<1> QED
  BY <1>2, <1>3 DEF IInv

(* Every step preserves the invariant. *)
LEMMA NextIInv == IInv /\ [Next]_vars => IInv'
<1> SUFFICES ASSUME IInv, [Next]_vars PROVE IInv'
  OBVIOUS
<1>1. CASE UNCHANGED vars
  BY <1>1 DEF vars, IInv, TypeOK, BlockedInCall, Exclusion, NoLostWakeup, At
<1>2. ASSUME NEW t \in Threads, RdLock(t) \/ RdWake(t) \/ TryRdLock(t)
      PROVE  IInv'
  <2>1. pc[t] \in {"idle", "rdlock"} /\ t \notin readers
    BY <1>2 DEF RdLock, RdWake, TryRdLock, IInv, BlockedInCall, At
  <2> QED
    BY <1>2, <2>1, RdSleepInv, RdGetInv DEF RdLock, RdWake, TryRdLock, RdLoop
<1>3. ASSUME NEW t \in Threads, WrLock(t) \/ WrWake(t) \/ TryWrLock(t)
      PROVE  IInv'
  <2>1. pc[t] \in {"idle", "wrlock"} /\ t \notin writers
    BY <1>3 DEF WrLock, WrWake, TryWrLock, IInv, BlockedInCall, At
  <2>2. waiters \in Int
    BY DEF IInv, TypeOK
  <2>3. \/ /\ state # 0
           /\ waiters' = IF pc[t] = "idle" THEN waiters + 1 ELSE waiters
           /\ writers' = writers \cup {t}
           /\ pc' = [pc EXCEPT ![t] = "wrlock"]
           /\ UNCHANGED <<state, readers>>
        \/ /\ state = 0
           /\ state' = -1
           /\ waiters' = IF pc[t] = "idle" THEN waiters ELSE waiters - 1
           /\ pc' = [pc EXCEPT ![t] = "writing"]
           /\ UNCHANGED <<readers, writers>>
    BY <1>3, <2>2 DEF WrLock, WrWake, TryWrLock, WrLoop
  <2> QED
    BY <2>1, <2>3, WrSleepInv, WrGetInv
<1>4. ASSUME NEW t \in Threads,
             WriterUnlock(t) \/ ReaderUnlock(t) \/ SpuriousWake(t)
      PROVE  IInv'
  BY <1>4, WriterUnlockInv, ReaderUnlockInv, SpuriousWakeInv
<1> QED
  BY <1>1, <1>2, <1>3, <1>4 DEF Next

(* my_rwlock: for any number of threads, the counters agree with the       *)
(* threads' places and stay in range, and no wake-up is lost.              *)
THEOREM Invariant == Spec => []IInv
<1>1. Init => IInv
  BY InitIInv
<1>2. IInv /\ [Next]_vars => IInv'
  BY NextIInv
<1> QED
  BY <1>1, <1>2, PTL DEF Spec

(* The counters of my_rw_lock_t stay within the number of threads. *)
THEOREM TypeCorrect == Spec => []TypeOK
<1>1. IInv => TypeOK
  BY DEF IInv
<1> QED
  BY <1>1, Invariant, PTL

(* A writer holds the lock alone; readers share it only among themselves.  *)
THEOREM MutualExclusion == Spec => []Exclusion
<1>1. IInv => Exclusion
  BY DEF IInv
<1> QED
  BY <1>1, Invariant, PTL

(* my_rw_unlock's choice of whom to wake never strands a sleeping thread. *)
THEOREM WakeupsSuffice == Spec => []NoLostWakeup
<1>1. IInv => NoLostWakeup
  BY DEF IInv
<1> QED
  BY <1>1, Invariant, PTL
-----------------------------------------------------------------------------
(* state = 0 means what it says: nobody holds the lock. *)
LEMMA NobodyInside ==
    ASSUME TypeOK, Exclusion, state = 0
    PROVE  At("reading") = {} /\ At("writing") = {}
<1>1. At("reading") = Where(pc, "reading")
  BY DEF At, Where
<1>2. Cardinality(Where(pc, "reading")) = 0 <=> Where(pc, "reading") = {}
  BY WhereBounds DEF TypeOK, PC
<1> QED
  BY <1>1, <1>2 DEF Exclusion

(* Every step of my_rwlock is a step of ReadersWriter or leaves its        *)
(* variables alone.                                                        *)
LEMMA StepSimulation ==
    ASSUME IInv, [Next]_vars
    PROVE  [RW!AbsNext]_(RW!absVars)
<1> USE DEF RW!absVars, At
<1>0. pc \in [Threads -> PC]
  BY DEF IInv, TypeOK
<1>1. CASE UNCHANGED vars
  BY <1>1 DEF vars
<1>2. ASSUME NEW t \in Threads, RdLock(t) \/ RdWake(t) \/ TryRdLock(t)
      PROVE  RW!AcquireShared(t) \/ UNCHANGED RW!absVars
  <2>1. CASE pc' = [pc EXCEPT ![t] = "rdlock"] /\ pc[t] \in {"idle", "rdlock"}
    BY <1>0, <2>1
  <2>2. CASE /\ pc' = [pc EXCEPT ![t] = "reading"]
             /\ pc[t] \in {"idle", "rdlock"}
             /\ ~ReadBlocked
    <3>1. At("wrlock") = {}
      BY <2>2, WaitersCount DEF IInv, ReadBlocked
    <3>2. At("writing") = {}
      BY <2>2 DEF IInv, Exclusion, ReadBlocked
    <3> QED
      BY <1>0, <2>2, <3>1, <3>2 DEF RW!AcquireShared, RW!ShareOK
  <2> QED
    BY <1>2, <2>1, <2>2 DEF RdLock, RdWake, TryRdLock, RdLoop
<1>3. ASSUME NEW t \in Threads, WrLock(t) \/ WrWake(t) \/ TryWrLock(t)
      PROVE  RW!Announce(t) \/ RW!AcquireExclusive(t) \/ UNCHANGED RW!absVars
  <2>1. CASE pc' = [pc EXCEPT ![t] = "wrlock"] /\ pc[t] = "idle"
    BY <1>0, <2>1 DEF RW!Announce
  <2>2. CASE pc' = [pc EXCEPT ![t] = "wrlock"] /\ pc[t] = "wrlock"
    BY <1>0, <2>2
  <2>3. CASE /\ pc' = [pc EXCEPT ![t] = "writing"]
             /\ pc[t] \in {"idle", "wrlock"}
             /\ state = 0
    <3>1. At("reading") = {} /\ At("writing") = {}
      BY <2>3, NobodyInside DEF IInv
    <3> QED
      BY <1>0, <2>3, <3>1 DEF RW!AcquireExclusive
  <2> QED
    BY <1>3, <2>1, <2>2, <2>3 DEF WrLock, WrWake, TryWrLock, WrLoop
<1>4. ASSUME NEW t \in Threads, WriterUnlock(t) \/ ReaderUnlock(t)
      PROVE  RW!Release(t)
  BY <1>0, <1>4 DEF WriterUnlock, ReaderUnlock, RW!Release
<1>5. ASSUME NEW t \in Threads, SpuriousWake(t)
      PROVE  UNCHANGED RW!absVars
  BY <1>5 DEF SpuriousWake
<1> QED
  BY <1>1, <1>2, <1>3, <1>4, <1>5 DEF Next, RW!AbsNext

(* The lock implements the abstract readers/writer lock with writer       *)
(* preference, for any number of threads.                                  *)
THEOREM Refinement == Spec => Implements
<1>1. Init => RW!AbsInit
  BY DEF Init, RW!AbsInit, At
<1>2. IInv /\ [Next]_vars => [RW!AbsNext]_(RW!absVars)
  BY StepSimulation
<1> QED
  BY <1>1, <1>2, Invariant, PTL DEF Spec, Implements, RW!AbsSpec
=============================================================================
