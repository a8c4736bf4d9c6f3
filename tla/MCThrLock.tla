----------------------------- MODULE MCThrLock -----------------------------
(* ThrLock for TLC: constants for the runs. *)
EXTENDS ThrLock

CONSTANTS o1, o2, o3

(* Every owner is a thread of its own with one lock instance, named like   *)
(* it, on one lock.                                                        *)
OneEach  == [o \in Owners |-> o]
OneLock  == [d \in Data |-> 100]
AnyOwner == Permutations(Owners)

(* TL_READ_WITH_SHARED_LOCKS passes every test that TL_READ passes.        *)
TypesUsed == [d \in Data |-> RequestTypes \ {TL_WRITE_ONLY, TL_READ_WITH_SHARED_LOCKS}]

(* o1 is a statement that opens the table twice, once for writing, o2 an   *)
(* open cursor of the same connection, o3 a statement of another.          *)
CursorData   == {<<o1, 1>>, <<o1, 2>>, <<o2, 1>>, <<o3, 1>>}
CursorThread == [o \in Owners |-> IF o = o2 THEN o1 ELSE o]
CursorTypes  == [d \in CursorData |->
    CASE d = <<o1, 1>> -> {TL_READ_NO_INSERT}
      [] d = <<o1, 2>> -> {TL_WRITE_CONCURRENT_INSERT, TL_WRITE_ONLY}
      [] d = <<o2, 1>> -> {TL_READ, TL_WRITE_DELAYED}
      [] d = <<o3, 1>> -> {TL_READ_NO_INSERT, TL_WRITE_DELAYED, TL_WRITE}]

(* Two locks: o1 and o2 write both, o3 reads the first. *)
LiveData  == {<<o1, 100>>, <<o1, 200>>, <<o2, 100>>, <<o2, 200>>, <<o3, 100>>}
LiveTypes == [d \in LiveData |->
    IF d[1] = o3 THEN {TL_READ} ELSE {TL_WRITE}]

FirstOf  == [d \in Data |-> d[1]]
SecondOf == [d \in Data |-> d[2]]

(* The lock types of the run about thr_unlock() and thr_abort_locks(). *)
WithDelayed == [d \in Data |-> {TL_READ, TL_WRITE_DELAYED}]
=============================================================================
