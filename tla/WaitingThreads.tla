-------------------------- MODULE WaitingThreads --------------------------
(***************************************************************************)
(* The wait-for graph of mysys/waiting_threads.c.  A thread declares each  *)
(* of its blockers with wt_thd_will_wait_for, which searches the graph for *)
(* a cycle through the new edge, then sleeps in wt_thd_cond_timedwait,     *)
(* which searches again with the long depth after the short timeout.  The  *)
(* search walks the graph with the resources on its path read-locked, and  *)
(* a cycle is broken by killing the member of least weight.                *)
(*                                                                         *)
(* The client is the one the header asks for and                           *)
(* unittest/mysys/waiting_threads-t.c is: a mutex for each thread guards   *)
(* the list of what it owns, one mutex goes with every condition.          *)
(*                                                                         *)
(* A section that runs under a resource's write lock is one step: it takes *)
(* no other resource's lock, and whoever could see it half done has to     *)
(* read-lock the same resource first.  So `readers' is all that is left of *)
(* the lock.  The hash and the pins are those of LfHash and LfAlloc: their *)
(* operations are atomic here, and an object that is pinned or in the hash *)
(* is not handed out again.                                                *)
(***************************************************************************)
EXTENDS Lists, FiniteSets, SequencesExt

CONSTANTS
    Threads,        \* every WT_THD
    Resources,      \* the memory of the WT_RESOURCE objects
    Ids,            \* resource ids
    WaitsOn(_),     \* the ids that a thread waits on
    Weights,        \* possible weights of all threads: functions on Threads
    DepthShort, DepthLong,  \* deadlock_search_depth_short and _long
    timeout_short, timeout_long,
    MaxWaits,       \* how many waits are begun in all
    Nobody          \* no thread, no resource

ASSUME WTAssumption ==
    /\ IsFiniteSet(Threads)
    /\ \A t \in Threads : WaitsOn(t) \subseteq Ids
    /\ Weights \subseteq [Threads -> Nat]
    /\ DepthShort \in Nat /\ DepthLong \in Nat /\ MaxWaits \in Nat
    /\ timeout_short \in Nat /\ timeout_long \in Nat
    /\ Nobody \notin Threads \cup Resources

VARIABLES
    rcid, state, owners, waiter_count, readers, \* of each WT_RESOURCE
    hash,           \* reshash: the object of each id
    waiting_for, killed, weight, my_resources,  \* of each WT_THD
    pin,            \* the object a thread has pinned
    lock,           \* the mutex of each thread: who has it
    mutex,          \* the mutex of the conditions: who has it
    pc, loc,        \* where a thread is, its local variables
    waits           \* waits begun so far

graph == <<rcid, state, owners, waiter_count, hash, waiting_for, my_resources>>
vars == <<graph, readers, killed, weight, pin, lock, mutex, pc, loc, waits>>

Idle == [blocker |-> Nobody, declared |-> {}, id |-> Nobody, base |-> 0, cursor |-> Nobody,
         stack |-> <<>>, last |-> Nobody, victim |-> Nobody, ret |-> "OK",
         long |-> FALSE, todo |-> {}, released |-> {}]

Init ==
    /\ rcid = [r \in Resources |-> Nobody]
    /\ state = [r \in Resources |-> "FREE"]
    /\ owners = [r \in Resources |-> <<>>]
    /\ waiter_count = [r \in Resources |-> 0]
    /\ readers = [r \in Resources |-> 0]
    /\ hash = [i \in Ids |-> Nobody]
    /\ waiting_for = [t \in Threads |-> Nobody]
    /\ killed = [t \in Threads |-> FALSE]
    /\ weight \in Weights
    /\ my_resources = [t \in Threads |-> {}]
    /\ pin = [t \in Threads |-> Nobody]
    /\ lock = [t \in Threads |-> Nobody]
    /\ mutex = Nobody
    /\ pc = [t \in Threads |-> "idle"]
    /\ loc = [t \in Threads |-> Idle]
    /\ waits = 0

Goto(t, p) == pc' = [pc EXCEPT ![t] = p]
Unlocked(rs, r) == IF r = Nobody THEN rs ELSE [rs EXCEPT ![r] = @ - 1]
WriteLockable(r) == readers[r] = 0

-----------------------------------------------------------------------------
(* The client begins a wait, or declares one more blocker of it, under the *)
(* blocker's mutex.  `declared' is what it has declared in this wait with  *)
(* no cycle found and has not been released since.  No thread owns what it *)
(* waits for: a wait is "for all owners to release" the resource.          *)
Declare(t) == \E b \in Threads \ ({t} \cup loc[t].declared), i \in WaitsOn(t) :
    /\ \/ pc[t] = "idle" /\ waits < MaxWaits /\ waits' = waits + 1
       \/ pc[t] = "declared" /\ i = loc[t].id /\ UNCHANGED waits
    /\ i \notin WaitsOn(b)
    /\ lock[b] = Nobody
    /\ lock' = [lock EXCEPT ![b] = t]
    /\ loc' = [loc EXCEPT ![t].blocker = b, ![t].id = i]
    /\ Goto(t, IF waiting_for[t] = Nobody THEN "search_hash" ELSE "register")
    /\ UNCHANGED <<graph, readers, killed, weight, pin, mutex>>

(* lf_hash_search for the first blocker: what it finds stays pinned. *)
SearchHash(t) ==
    /\ pc[t] = "search_hash"
    /\ LET r == hash[loc[t].id] IN
         /\ pin' = [pin EXCEPT ![t] = r]
         /\ Goto(t, IF r = Nobody THEN "insert" ELSE "register")
    /\ UNCHANGED <<graph, readers, killed, weight, lock, mutex, loc, waits>>

(* lf_hash_insert: no effect when another thread has been faster.  An      *)
(* object is available when it is neither in the hash nor pinned.          *)
Available == {r \in Resources : (\A i \in Ids : hash[i] # r) /\ (\A u \in Threads : pin[u] # r)}

Insert(t) ==
    /\ pc[t] = "insert"
    /\ IF hash[loc[t].id] # Nobody
       THEN UNCHANGED graph
       ELSE \E r \in Available :
              /\ hash' = [hash EXCEPT ![loc[t].id] = r]
              /\ rcid' = [rcid EXCEPT ![r] = loc[t].id]
              /\ state' = [state EXCEPT ![r] = "ACTIVE"]
              /\ owners' = [owners EXCEPT ![r] = <<>>]
              /\ waiter_count' = [waiter_count EXCEPT ![r] = 0]
              /\ UNCHANGED <<waiting_for, my_resources>>
    /\ Goto(t, "search_hash")
    /\ UNCHANGED <<readers, killed, weight, pin, lock, mutex, loc, waits>>

(* The object found has been freed meanwhile: search again. *)
RegisterRetry(t) ==
    /\ pc[t] = "register"
    /\ waiting_for[t] = Nobody
    /\ WriteLockable(pin[t])
    /\ state[pin[t]] # "ACTIVE"
    /\ pin' = [pin EXCEPT ![t] = Nobody]
    /\ Goto(t, "search_hash")
    /\ UNCHANGED <<graph, readers, killed, weight, lock, mutex, loc, waits>>

(* The new edge enters the graph; a search for a cycle through it begins   *)
(* at the blocker with depth 1.                                            *)
Register(t) ==
    LET first == waiting_for[t] = Nobody
        rc == IF first THEN pin[t] ELSE waiting_for[t]
        b == loc[t].blocker
    IN  /\ pc[t] = "register"
        /\ WriteLockable(rc)
        /\ state[rc] = "ACTIVE"
        /\ first \/ ~killed[t]
        /\ waiting_for' = [waiting_for EXCEPT ![t] = rc]
        /\ waiter_count' = [waiter_count EXCEPT ![rc] = IF first THEN @ + 1 ELSE @]
        /\ killed' = [killed EXCEPT ![t] = IF first THEN FALSE ELSE @]
        /\ pin' = [pin EXCEPT ![t] = Nobody]
        /\ IF b \in ToSet(owners[rc])
           THEN UNCHANGED <<owners, my_resources>>
           ELSE /\ my_resources' = [my_resources EXCEPT ![b] = @ \cup {rc}]
                /\ owners' = [owners EXCEPT ![rc] = Append(@, b)]
        /\ loc' = [loc EXCEPT ![t].base = 1, ![t].cursor = b]
        /\ Goto(t, "search")
        /\ UNCHANGED <<rcid, state, hash, readers, weight, lock, mutex, waits>>

-----------------------------------------------------------------------------
(* deadlock_search.  `stack' holds a frame for each call in its loop over  *)
(* the owners of the resource that its blocker waits for.                  *)
Depth(t) == loc[t].base + Len(loc[t].stack)
MaxDepth(t) == IF loc[t].base = 0 THEN DepthLong ELSE DepthShort
TooDeepByOne(t) == Depth(t) >= MaxDepth(t)
TooDeep(t) == Depth(t) > MaxDepth(t)

SearchTooDeep(t) ==
    /\ pc[t] = "search"
    /\ TooDeep(t)
    /\ loc' = [loc EXCEPT ![t].last = Nobody, ![t].ret = "DEPTH_EXCEEDED"]
    /\ Goto(t, "return")
    /\ UNCHANGED <<graph, readers, killed, weight, pin, lock, mutex, waits>>

(* What the blocker waits for is read and pinned; the blocker may not wait *)
(* at all.                                                                 *)
SearchPin(t) ==
    LET rc == waiting_for[loc[t].cursor]
    IN  /\ pc[t] = "search"
        /\ ~TooDeep(t)
        /\ pin' = [pin EXCEPT ![t] = rc]
        /\ loc' = [loc EXCEPT ![t].last = Nobody, ![t].ret = "OK"]
        /\ Goto(t, IF rc = Nobody THEN "return" ELSE "locked")
        /\ UNCHANGED <<graph, readers, killed, weight, lock, mutex, waits>>

(* After the read lock: not waiting on this resource any more, try again. *)
SearchRetry(t) ==
    /\ pc[t] = "locked"
    /\ state[pin[t]] # "ACTIVE" \/ waiting_for[loc[t].cursor] # pin[t]
    /\ pin' = [pin EXCEPT ![t] = Nobody]
    /\ Goto(t, "search")
    /\ UNCHANGED <<graph, readers, killed, weight, lock, mutex, loc, waits>>

(* The resource stays read-locked.  All owners are compared with the       *)
(* thread before the search goes to the first of them.                     *)
SearchOwners(t) ==
    LET rc == pin[t]
        l == loc[t]
    IN  /\ pc[t] = "locked"
        /\ state[rc] = "ACTIVE" /\ waiting_for[l.cursor] = rc
        /\ readers' = [readers EXCEPT ![rc] = @ + 1]
        /\ pin' = [pin EXCEPT ![t] = Nobody]
        /\ \/ /\ t \in ToSet(owners[rc])
              /\ loc' = [loc EXCEPT ![t].victim = t, ![t].ret = "DEADLOCK", ![t].last = rc]
              /\ Goto(t, "return")
           \/ /\ owners[rc] = <<>>
              /\ loc' = [loc EXCEPT ![t].ret = "OK", ![t].last = rc]
              /\ Goto(t, "return")
           \/ /\ owners[rc] # <<>> /\ t \notin ToSet(owners[rc])
              /\ loc' = [loc EXCEPT
                   ![t].stack = Append(@, [blocker |-> l.cursor, rc |-> rc, i |-> 1, ret |-> "OK"]),
                   ![t].cursor = owners[rc][1]]
              /\ Goto(t, "search")
        /\ UNCHANGED <<graph, killed, weight, lock, mutex, waits>>

(* change_victim: the locals and the read locks it leaves. *)
ChangeVictimUnlockLater(found, l, rs, t) ==
    IF weight[found] < weight[l.victim]
    THEN [l |-> [l EXCEPT !.victim = found],
          rs |-> IF l.victim = t THEN rs ELSE Unlocked(rs, waiting_for[l.victim])]
    ELSE [l |-> l, rs |-> rs]
change_victim(found, l, rs, t) ==
    IF weight[found] < weight[l.victim]
    THEN [l |-> [l EXCEPT !.victim = found, !.last = Nobody],
          rs |-> IF l.victim = t THEN rs ELSE Unlocked(rs, waiting_for[l.victim])]
    ELSE [l |-> l, rs |-> rs]

(* A call for an owner found no cycle: the frame goes on with the next one *)
(* or returns, leaving its resource locked for its caller to unlock.       *)
ReturnNone(t) ==
    LET l == loc[t]
        f == Last(l.stack)
        ret == IF l.ret = "DEPTH_EXCEEDED" THEN l.ret ELSE f.ret
    IN  /\ pc[t] = "return" /\ l.stack # <<>> /\ l.ret # "DEADLOCK"
        /\ readers' = Unlocked(readers, l.last)
        /\ IF f.i < Len(owners[f.rc])
           THEN /\ loc' = [loc EXCEPT ![t].stack = Append(Front(@),
                                                               [f EXCEPT !.i = @ + 1, !.ret = ret]),
                                      ![t].cursor = owners[f.rc][f.i + 1]]
                /\ Goto(t, "search")
           ELSE /\ loc' = [loc EXCEPT ![t].stack = Front(@), ![t].cursor = f.blocker,
                                      ![t].last = f.rc, ![t].ret = ret]
                /\ UNCHANGED pc
        /\ UNCHANGED <<graph, killed, weight, pin, lock, mutex, waits>>

(* A cycle was found: keep the lightest member's resource locked. *)
ReturnDeadlock(t) ==
    LET f == Last(loc[t].stack)
        v == change_victim(loc[t].cursor, loc[t], readers, t)
    IN  /\ pc[t] = "return" /\ loc[t].stack # <<>> /\ loc[t].ret = "DEADLOCK"
        /\ readers' = Unlocked(v.rs, v.l.last)
        /\ loc' = [loc EXCEPT ![t] = [v.l EXCEPT !.stack = Front(@), !.cursor = f.blocker,
                                                 !.last = f.rc]]
        /\ UNCHANGED <<graph, killed, weight, pin, lock, mutex, pc, waits>>

(* What wt_thd_will_wait_for, or wt_thd_cond_timedwait after its search    *)
(* from the thread itself, makes of the answer of deadlock(): the place it *)
(* goes to and its locals.  The second wait is there only with a long      *)
(* timeout longer than the short one.                                      *)
Answered(l, ret) ==
    CASE l.base = 1 /\ ret = "OK" ->
           <<"declared", [Idle EXCEPT !.declared = l.declared \cup {l.blocker}, !.id = l.id]>>
      [] l.base = 0 /\ ret = "OK" ->
           <<IF timeout_long > timeout_short THEN "test" ELSE "stop",
             [Idle EXCEPT !.declared = l.declared, !.id = l.id, !.long = TRUE, !.ret = "TIMEOUT"]>>
      [] ret = "FREE_TO_GO" -> <<"stop", [l EXCEPT !.ret = "OK"]>>
      [] ret = "DEADLOCK" -> <<"stop", [l EXCEPT !.ret = "DEADLOCK"]>>

(* Only a wait that goes on gives the blocker's mutex back at once. *)
AnsweredLock(l, ret) ==
    IF l.base = 1 /\ ret = "OK" THEN [lock EXCEPT ![l.blocker] = Nobody] ELSE lock

(* The end of deadlock(): the blocker is a candidate too when the search   *)
(* began at depth 1; nobody left to wait for at depth 0.                   *)
Deadlock(t) ==
    LET l == loc[t]
        v == IF l.ret = "DEADLOCK" /\ l.base = 1
             THEN change_victim(l.blocker, l, readers, t) ELSE [l |-> l, rs |-> readers]
        free == l.base = 0 /\ l.ret = "OK" /\ l.last # Nobody /\ owners[l.last] = <<>>
        ret == IF free THEN "FREE_TO_GO" ELSE IF l.ret = "DEADLOCK" THEN l.ret ELSE "OK"
        kill == ret = "DEADLOCK" /\ v.l.victim # t
        answered == Answered(v.l, ret)
    IN  /\ pc[t] = "return" /\ l.stack = <<>>
        /\ readers' = Unlocked(v.rs, v.l.last)
        /\ loc' = [loc EXCEPT ![t] = IF kill THEN [v.l EXCEPT !.last = Nobody] ELSE answered[2]]
        /\ lock' = IF kill THEN lock ELSE AnsweredLock(l, ret)
        /\ Goto(t, IF kill THEN "kill" ELSE answered[1])
        /\ UNCHANGED <<graph, killed, weight, pin, mutex, waits>>

(* Those asleep on the condition of a resource. *)
Woken(rc) == [u \in Threads |->
                IF pc[u] = "asleep" /\ waiting_for[u] = rc THEN "woken" ELSE pc[u]]

(* The victim learns of it; nobody takes the mutex of the condition. *)
Kill(t) ==
    LET v == loc[t].victim
    IN  /\ pc[t] = "kill"
        /\ killed' = [killed EXCEPT ![v] = TRUE]
        /\ readers' = Unlocked(readers, waiting_for[v])
        /\ pc' = [Woken(waiting_for[v]) EXCEPT ![t] = Answered(loc[t], "OK")[1]]
        /\ loc' = [loc EXCEPT ![t] = Answered(loc[t], "OK")[2]]
        /\ lock' = AnsweredLock(loc[t], "OK")
        /\ UNCHANGED <<graph, weight, pin, mutex, waits>>

-----------------------------------------------------------------------------
(* wt_thd_cond_timedwait, entered with the mutex of the condition.  Every  *)
(* blocker may have gone already.                                          *)
TimedWait(t) ==
    /\ pc[t] = "declared"
    /\ mutex = Nobody
    /\ mutex' = t
    /\ Goto(t, "check")
    /\ UNCHANGED <<graph, readers, killed, weight, pin, lock, loc, waits>>

CheckNothing(t) ==
    /\ pc[t] = "check"
    /\ WriteLockable(waiting_for[t])
    /\ loc' = [loc EXCEPT ![t].ret = "TIMEOUT"]
    /\ Goto(t, "test")
    /\ UNCHANGED <<graph, readers, killed, weight, pin, lock, mutex, waits>>

CheckOwners(t) ==
    /\ pc[t] = "check"
    /\ WriteLockable(waiting_for[t])
    /\ loc' = [loc EXCEPT ![t].ret = IF owners[waiting_for[t]] = <<>> THEN "OK" ELSE "TIMEOUT"]
    /\ Goto(t, "test")
    /\ UNCHANGED <<graph, readers, killed, weight, pin, lock, mutex, waits>>

(* The test of `killed' before either of the two waits. *)
TestKilled(t) ==
    /\ pc[t] = "test"
    /\ Goto(t, IF loc[t].ret = "TIMEOUT" /\ ~killed[t] THEN "block" ELSE "stop")
    /\ UNCHANGED <<graph, readers, killed, weight, pin, lock, mutex, loc, waits>>

(* pthread_cond_timedwait (external): gives up the mutex and sleeps, ends  *)
(* by a broadcast, for no reason, or by the timeout, with the mutex again. *)
Block(t) ==
    /\ pc[t] = "block"
    /\ mutex' = Nobody
    /\ Goto(t, "asleep")
    /\ UNCHANGED <<graph, readers, killed, weight, pin, lock, loc, waits>>

(* A timeout of the first wait leads to the long search, from the thread   *)
(* itself with depth 0.  A broadcast may come just after the timeout.      *)
Awake(t) == \E timeout \in BOOLEAN :
    LET again == timeout /\ ~killed[t] /\ ~loc[t].long
    IN  /\ pc[t] \in {"asleep", "woken"}
        /\ mutex = Nobody
        /\ mutex' = t
        /\ loc' = [loc EXCEPT ![t] = IF again THEN [@ EXCEPT !.base = 0, !.cursor = t]
                                     ELSE [@ EXCEPT !.ret = IF timeout THEN "TIMEOUT" ELSE "OK"]]
        /\ Goto(t, IF again THEN "search" ELSE "stop")
        /\ UNCHANGED <<graph, readers, killed, weight, pin, lock, waits>>

-----------------------------------------------------------------------------
(* unlock_lock_and_free_resource: with neither owners nor waiters the      *)
(* object is FREE, and leaves the hash once its lock is released.          *)
UnusedButWaitedFor(os, ws) == os = <<>>
Unused(os, ws) == os = <<>> /\ ws = 0
Freed(rc, os, ws) ==
    /\ owners' = [owners EXCEPT ![rc] = os]
    /\ waiter_count' = [waiter_count EXCEPT ![rc] = ws]
    /\ state' = [state EXCEPT ![rc] = IF Unused(os, ws) THEN "FREE" ELSE @]

(* lf_hash_delete, by the key. *)
Delete(t, p, q) ==
    /\ pc[t] = p
    /\ hash' = [hash EXCEPT ![loc[t].id] = Nobody]
    /\ Goto(t, q)
    /\ UNCHANGED <<rcid, state, owners, waiter_count, waiting_for, my_resources, readers,
                   killed, weight, pin, lock, mutex, loc, waits>>

(* stop_waiting; a thread killed since it declared its previous blocker    *)
(* declares no other.                                                      *)
StopWaiting(t) ==
    LET rc == waiting_for[t]
    IN  /\ \/ pc[t] = "stop"
           \/ pc[t] = "register" /\ rc # Nobody /\ killed[t]
        /\ WriteLockable(rc)
        /\ Freed(rc, owners[rc], waiter_count[rc] - 1)
        /\ waiting_for' = [waiting_for EXCEPT ![t] = Nobody]
        /\ loc' = [loc EXCEPT ![t].ret = IF killed[t] THEN "DEADLOCK" ELSE @]
        /\ Goto(t, IF Unused(owners[rc], waiter_count[rc] - 1) THEN "delete" ELSE "stopped")
        /\ UNCHANGED <<rcid, hash, my_resources, readers, killed, weight, pin, lock, mutex, waits>>

DeleteStopped(t) == Delete(t, "delete", "stopped")

(* Back in the client: whoever did not get what it waited for gives up all *)
(* that it owns.                                                           *)
Stopped(t) ==
    /\ pc[t] = "stopped"
    /\ lock' = [b \in Threads |-> IF lock[b] = t THEN Nobody ELSE lock[b]]
    /\ mutex' = IF mutex = t THEN Nobody ELSE mutex
    /\ loc' = [loc EXCEPT ![t] = Idle]
    /\ Goto(t, IF loc[t].ret = "OK" THEN "idle" ELSE "release")
    /\ UNCHANGED <<graph, readers, killed, weight, pin, waits>>

-----------------------------------------------------------------------------
(* wt_thd_release, of one resource or of all, with both mutexes. *)
ReleaseLock(t) ==
    /\ pc[t] = "release" \/ (pc[t] = "idle" /\ my_resources[t] # {})
    /\ lock[t] = Nobody
    /\ lock' = [lock EXCEPT ![t] = t]
    /\ Goto(t, "release_mutex")
    /\ UNCHANGED <<graph, readers, killed, weight, pin, mutex, loc, waits>>

ReleaseMutex(t) ==
    /\ pc[t] = "release_mutex"
    /\ mutex = Nobody
    /\ mutex' = t
    /\ \E rs \in {my_resources[t]} \cup {{r} : r \in my_resources[t]} :
         loc' = [loc EXCEPT ![t].todo = rs, ![t].released = {}]
    /\ Goto(t, "releasing")
    /\ UNCHANGED <<graph, readers, killed, weight, pin, lock, waits>>

(* One resource: the owner goes, and the last one wakes the waiters. *)
ReleaseOne(t) ==
    /\ pc[t] = "releasing"
    /\ \E rc \in loc[t].todo :
         LET os == Only(owners[rc], Threads \ {t})
         IN  /\ WriteLockable(rc)
             /\ Freed(rc, os, waiter_count[rc])
             /\ loc' = [u \in Threads |->
                          IF u = t
                          THEN [loc[t] EXCEPT !.todo = @ \ {rc}, !.released = @ \cup {rc},
                                              !.id = rcid[rc]]
                          ELSE IF waiting_for[u] = rc
                          THEN [loc[u] EXCEPT !.declared = @ \ {t}] ELSE loc[u]]
             /\ pc' = [u \in Threads |->
                         IF u = t
                         THEN IF Unused(os, waiter_count[rc]) THEN "release_delete" ELSE pc[t]
                         ELSE IF os = <<>> THEN Woken(rc)[u] ELSE pc[u]]
    /\ UNCHANGED <<rcid, hash, waiting_for, my_resources, readers, killed, weight, pin, lock,
                   mutex, waits>>

DeleteReleased(t) == Delete(t, "release_delete", "releasing")

Released(t) ==
    /\ pc[t] = "releasing" /\ loc[t].todo = {}
    /\ my_resources' = [my_resources EXCEPT ![t] = @ \ loc[t].released]
    /\ lock' = [lock EXCEPT ![t] = Nobody]
    /\ mutex' = Nobody
    /\ loc' = [loc EXCEPT ![t] = Idle]
    /\ Goto(t, "idle")
    /\ UNCHANGED <<rcid, state, owners, waiter_count, hash, waiting_for, readers, killed, weight,
                   pin, waits>>

(* Every wait is over and nothing is owned any more. *)
Terminating ==
    /\ waits = MaxWaits
    /\ \A t \in Threads : pc[t] = "idle" /\ my_resources[t] = {}
    /\ UNCHANGED vars

Next == Terminating \/ \E t \in Threads :
    \/ Declare(t) \/ SearchHash(t) \/ Insert(t) \/ RegisterRetry(t) \/ Register(t)
    \/ SearchTooDeep(t) \/ SearchPin(t) \/ SearchRetry(t) \/ SearchOwners(t)
    \/ ReturnNone(t) \/ ReturnDeadlock(t) \/ Deadlock(t) \/ Kill(t)
    \/ TimedWait(t) \/ CheckOwners(t) \/ TestKilled(t) \/ Block(t)
    \/ Awake(t) \/ StopWaiting(t) \/ DeleteStopped(t)
    \/ Stopped(t) \/ ReleaseLock(t) \/ ReleaseMutex(t) \/ ReleaseOne(t)
    \/ DeleteReleased(t) \/ Released(t)

Spec == Init /\ [][Next]_vars

-----------------------------------------------------------------------------
(* The types of the shared state. *)
TypeOK ==
    /\ rcid \in [Resources -> Ids \cup {Nobody}]
    /\ state \in [Resources -> {"ACTIVE", "FREE"}]
    /\ owners \in [Resources -> Seq(Threads)]
    /\ waiter_count \in [Resources -> 0..Cardinality(Threads)]
    /\ readers \in [Resources -> Nat]
    /\ hash \in [Ids -> Resources \cup {Nobody}]
    /\ waiting_for \in [Threads -> Resources \cup {Nobody}]
    /\ killed \in [Threads -> BOOLEAN]
    /\ my_resources \in [Threads -> SUBSET Resources]
    /\ pin \in [Threads -> Resources \cup {Nobody}]
    /\ lock \in [Threads -> Threads \cup {Nobody}]
    /\ mutex \in Threads \cup {Nobody}
    /\ waits \in 0..MaxWaits

Owned(t) == my_resources[t] \ loc[t].released
InUse(r) == state[r] = "ACTIVE" /\ hash[rcid[r]] = r

(* The two ends of every edge agree: the waiters of a resource are counted *)
(* by it, its owners, each listed once, have it among theirs, and whatever *)
(* a thread waits for or owns is ACTIVE and in the hash, as the comments   *)
(* "the element cannot go away anymore" and "nobody's trying to free the   *)
(* resource now" rely on.  A FREE object in the hash has one thread that   *)
(* is about to take it out.                                                *)
GraphConsistent ==
    /\ TypeOK
    /\ \A r \in Resources :
         /\ waiter_count[r] = Cardinality({t \in Threads : waiting_for[t] = r})
         /\ ToSet(owners[r]) = {t \in Threads : r \in Owned(t)}
         /\ IsInjective(owners[r])
    /\ \A t \in Threads : \A r \in Owned(t) \cup {waiting_for[t]} : r = Nobody \/ InUse(r)
    /\ \A i \in Ids : hash[i] # Nobody /\ state[hash[i]] = "FREE" =>
         Cardinality({t \in Threads : pc[t] \in {"delete", "release_delete"} /\ loc[t].id = i}) = 1

(* The resource that a search keeps locked for a victim other than itself, *)
(* and what r is locked for: a frame, the last return, the victim.         *)
KeptFor(t) ==
    LET l == loc[t]
    IN  IF pc[t] = "kill" \/ (pc[t] = "return" /\ l.ret = "DEADLOCK" /\ l.victim # t)
        THEN {waiting_for[l.victim]} ELSE {}
Slots(t, r) ==
    {i \in DOMAIN loc[t].stack : loc[t].stack[i].rc = r}
    \cup (IF pc[t] = "return" /\ loc[t].last = r THEN {0} ELSE {})
    \cup (IF r \in KeptFor(t) THEN {-1} ELSE {})
Holders(r) == UNION {{t} \X Slots(t, r) : t \in Threads}

(* deadlock_search leaves its resource locked for its caller: every read   *)
(* lock belongs to a frame, to the last return or to the victim, none      *)
(* stays behind when the search is over, and when the victim is killed it  *)
(* still waits, for a resource that the killer keeps locked, so that the   *)
(* broadcast reaches a live condition and the right wait.                  *)
SearchLocks ==
    /\ \A r \in Resources : readers[r] = Cardinality(Holders(r))
    /\ \A t \in Threads : Nobody \notin KeptFor(t)

(* A thread sleeps only while its resource has an owner: the last owner's  *)
(* broadcast falls neither between the check of the owners and the wait    *)
(* nor between the long search and the second wait.                        *)
SleepsForSomebody ==
    \A t \in Threads : pc[t] = "asleep" => owners[waiting_for[t]] # <<>>
=============================================================================
