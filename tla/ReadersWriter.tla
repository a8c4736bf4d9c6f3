--------------------------- MODULE ReadersWriter ---------------------------
(***************************************************************************)
(* What a readers/writer lock with writer preference promises its callers: *)
(* readers share, a writer is alone, and nobody becomes a reader while a   *)
(* writer has announced itself.  my_rwlock (mysys/thr_rwlock.c) is shown   *)
(* to implement this by RWLock.                                            *)
(***************************************************************************)
EXTENDS Naturals

CONSTANT Threads

VARIABLES readers,   \* the threads that hold the lock shared
          writer,    \* the set of threads that hold it exclusively
          queued     \* the writers that have asked and not yet got it

absVars == <<readers, writer, queued>>

AbsInit == readers = {} /\ writer = {} /\ queued = {}

ShareOK(t) == writer = {} /\ queued = {} /\ t \notin readers

AcquireShared(t) ==
    /\ ShareOK(t)
    /\ readers' = readers \cup {t}
    /\ UNCHANGED <<writer, queued>>

Announce(t) ==
    /\ t \notin queued \cup readers \cup writer
    /\ queued' = queued \cup {t}
    /\ UNCHANGED <<readers, writer>>

(* An announced writer, or one that asked without announcing itself (try). *)
AcquireExclusive(t) ==
    /\ readers = {} /\ writer = {}
    /\ writer' = {t}
    /\ queued' = queued \ {t}
    /\ UNCHANGED readers

Release(t) ==
    /\ t \in readers \cup writer
    /\ readers' = readers \ {t}
    /\ writer' = writer \ {t}
    /\ UNCHANGED queued

AbsNext == \E t \in Threads :
    AcquireShared(t) \/ Announce(t) \/ AcquireExclusive(t) \/ Release(t)

AbsSpec == AbsInit /\ [][AbsNext]_absVars
=============================================================================
