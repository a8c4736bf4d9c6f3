# Verification of the concurrency core of gcc-lib-sources

The repository collects the libraries a control-system vendor builds with gcc:
a coroutine library, the MySQL C and C++ connectors, QxOrm, a serial port class
and a small SQL template library. This project models the parts of them that
are concurrent or stateful enough to be worth a model: TLA+ modules translated
from the source, TLC runs on small instances, and TLAPS proofs for instances of
every size. `PROJECT.json` maps every definition to the lines it stands for.

## Inventory

| part | state | operations | what is hard | what makes it correct |
|---|---|---|---|---|
| `mysys/thr_rwlock.c` readers/writer lock | `state`, `waiters`, two condition variables under one mutex | init, rdlock, wrlock, tryrdlock, trywrlock, unlock | wake-ups racing new arrivals, spurious wake-ups, one signal for two kinds of waiter | exclusion, no lost wake-up, writer preference, everybody is served |
| `mysys/thr_lock.c` table lock manager | four linked lists and two counters per table; type and cond per lock instance | thr_lock, thr_unlock, the multi-table calls, wait_for_lock, delayed-insert upgrade and reschedule, abort, downgrade | eleven lock types, kills, timeouts and aborts in the middle of a wait, a mutex given up between the steps of one call, starvation, deadlock over tables | list integrity, compatibility of what is active, nobody stranded, queues in order, locking ends |
| `coroutine/src/coroutine.cpp` stackful coroutines | status, caller, stack and saved stack pointer per coroutine; current coroutine per thread | construct, destroy, createStack, setStack, cont, yield, restart, end of run(), end of thread | coroutines that continue each other across threads, stacks freed while suspended | assertions hold, no shared stack, switches resume in the right place |
| `coroutine/src/backend`, `coroutinebuild*_p.h` | none of their own | stack switch in assembly, call wrappers | machine code, templates | (in the coroutine model: the saved stack pointer) |
| `mysys/lf_alloc-pin.c`, `lf_dynarray.c` allocator with pins | a stack of free objects, per thread pins and a purgatory, a versioned stack of unused pins | get_pins, put_pins, pin, unpin, lf_alloc_new, lf_alloc_free, the scan of all pins | ABA on both stacks, freeing what another thread has just pinned | no pinned object is reused, none is handed out twice or lost |
| `mysys/lf_hash.c` | one list in the order of reversed hash numbers, a slot per bucket | insert, delete, search, splitting of buckets | nodes that are unlinked, freed and reused under a reader, deletes that have to be finished by others | a set, linearizable; ordered list; no node used after it was freed |
| `mysys/waiting_threads.c` | wait-for graph over resources and threads, a lock per resource | will_wait_for, cond_timedwait, release | two threads closing a cycle at once, a search that walks a changing graph, kills and broadcasts racing a wait, resources freed and reused | a cycle does not go unnoticed, no lock of the search is left behind, nobody sleeps for nobody |
| `mysys/wqueue.c` | circular list of threads | add, unlink, release | last-pointer maintenance | all released exactly once |
| `mysys` key cache, IO cache, trees, hashes, bitmaps | caches and containers | the usual | buffer reuse in the key cache | containers mostly sequential |
| `libmysql/client.c`, `libmysql.c`, `net_serv.c` | connection status, server status, prepared statements, owner of the unbuffered result | query, store/use result, fetch, free, next result, stmt prepare/close, ping, close, reconnect | calls out of order, results discarded by somebody else, a connection lost in the middle of a result or a transaction, reconnect | the handle knows what is on the wire; no open transaction is lost in silence |
| `mysql-connector-c++-1.1.0` | wrappers of the C handles | JDBC-like calls | lifetimes | follows the C API |
| `qxorm/src/QxService` application server | queue of available workers, descriptor and transaction per worker, running flags | start, incomingConnection, worker loop, setAvailable, clearServices, client calls | flags read outside the mutex, a mutex held while waiting for threads that need it | no worker lost, a request served once, shutdown ends |
| `qxorm/src/QxDao` | sessions, a database connection per thread | open, commit, rollback | lifetimes | one connection per thread |
| rest of `qxorm`, `qextserialport`, `rdb-sql` | little | mapping templates, port I/O | - | - |
| yassl, zlib, regex, dbug, charset tables, `spec/` | - | third-party or generated | - | - |

Most parts are used alone. Those that interact: `waiting_threads.c` keeps its
resources in an `lf_hash`, which gets its nodes from `lf_alloc`; a layer is
modelled on what the one below is shown to promise. The table lock manager uses
mutexes and conditions directly, `client.c` sits on `net_serv.c` and `vio`,
Connector/C++ on the C API, and QxOrm on Qt's SQL drivers and sockets. Within a
part the interaction is shared state under a mutex (table locks, QxService),
shared words changed by compare-and-swap (lf_alloc, lf_hash), thread-local
pointers (coroutines) or packets (client).

## Modules and the code

### The readers/writer lock: `ReadersWriter`, `RWLock`, `RWLock_proofs`

`RWLock` has one variable per field of `my_rw_lock_t` (a condition variable is
the set of threads blocked on it) and the place of each thread. Every function
holds `rwp->lock` throughout except in `pthread_cond_wait`, so `RdLock`,
`WrLock`, the try functions and the two halves of `my_rw_unlock` are one action
each and a wake-up is another (`RdWake`, `WrWake`), after which the condition is
tested again. `SpuriousWake` is POSIX's. `ReadersWriter` is the lock its callers
are promised: readers share, a writer is alone, and no reader gets in while a
writer has announced itself. `RWLock` is shown to implement it under the mapping
from threads' places to the sets of holders and announced writers.

### Coroutines: `ContStack`, `Coroutine`, `MCCoroutine`, `Coroutine_proofs`

`Coroutine` has `_status`, `_caller`, the stack and where `_stackPointer` points
for each coroutine, and the thread-local current coroutine of each thread. The
root coroutine of thread t is written t. `callee` is a history variable: which
`cont()` frame the saved pointer of a suspended caller lies in. Calls on one
coroutine are serialised by the callers, as the class has no lock, so each call
up to its stack switch is one action. Calls the documentation calls invalid are
not made; the one exception with no check and no word in the documentation is
`restart()`, so the constant `RestartFrom` says in which statuses callers use it.
`ContStack` is the promise: each thread runs the top of a stack of coroutines
with its root at the bottom, and no coroutine is on two stacks.

### Table locks: `ThrLockTypes`, `Lists`, `ThrLockQueues`, `ThrLock`, `ThrLockCheck`, `ThrUnlockRace`, `ListFacts`, `ThrLock_proofs`

`ThrLockTypes` is the enumeration, as numbers because the code compares them.
`ThrLockQueues` holds the pure part: what `thr_lock`, `thr_unlock`,
`free_all_read_locks` and `wake_up_waiters` do to the lists of one lock. The
doubly linked lists are sequences: what the links add, that an instance's `type`
and `cond` determine the list whose tail `thr_unlock` must repair, is the
invariant `ListsAgree`. `ThrLock` adds owners, threads and time: a critical
section is one action, and between two of them (two tables of one
`thr_multi_lock`, a wait and its wake-up, the two halves of
`thr_reschedule_write_lock`) everybody else may act. All waits of a thread share
one condition variable, so a signal meant for one lock instance reaches the wait
for another. The answer of the storage engine's `check_status` is an arbitrary
Boolean. `MaxKilled` bounds how many threads are marked killed at once and
`Abortable` says which locks are aborted; a kill and the clearing of the kill flag at the end of the statement
belong to the server, which is not in the repository.

`ThrLock` makes one step of `thr_multi_unlock`'s test of `data->type` and the
critical section of `thr_unlock`. The code makes the test before it takes the
mutex; `ThrUnlockRace` splits the step and shows what can come in between.

Callers can force a type on a lock that `thr_lock` would not have granted:
`thr_abort_locks` with `upgrade_lock` makes the first active write `TL_WRITE_ONLY`,
whatever its type and whoever is active beside it, `thr_downgrade_write_lock` gives a
`TL_WRITE_ONLY` lock any lower write type, and `TL_WRITE_ONLY` can be requested. All
of that is in `ThrLock`. `ThrLockCheck` adds a history variable, `forced`, that says
when it has happened, for the two conditions of `check_locks` that hold until then.

### Lock-free memory: `ObjectPool`, `LfAlloc`, `LfAlloc_proofs`, `LfHash`

In both modules a step is one access to a word that another thread can write;
with gcc's atomics nothing else orders the threads. `LfAlloc` has the free stack
(`top`, `freeptr`), the pinbox (`topVer`, `link`, `pinsInArray`), and for each
element its pin and its purgatory. `freeptr` is one word in the object, used by
the free stack and by the purgatories alike, so that a thread with a stale
pointer reads whatever is there. A free scans the pins of all elements one at a
time, with the sorted array of addresses or, when the stack space for it is not
there, object by object. `ObjectPool` is the promise to the user: an object is
with one thread, available, or retired until a scan has found it unpinned.

`LfHash` stands on that promise: a freed node waits in a purgatory, the pins are
read one by one, upwards within a thread, and what was not seen can be handed
out. `lfind` is one action per access, with its two loops that pin and look
again; insert, delete, search, `initialize_bucket` and the doubling of the size
call it. Only hashes with `LF_HASH_UNIQUE` are modelled, as the one user in the source
makes them: without it `linsert` (lf_hash.c:163) puts a node before the one it found. `seen` is a history variable: whether the key of a call was in the hash
at some moment of the call, and whether it was out of it.

### Wait-for graph: `WaitingThreads`, `WaitingThreadsCheck`, `WaitingThreads_proofs`

Variables are the fields of `WT_RESOURCE` and `WT_THD`. `deadlock_search` is
recursive in the code; here it is a stack of frames, with one step for pinning
the resource of the next blocker, one for locking it and reading its owners, and
one for each return. What a thread does under a resource's write lock is one
step, so only the read locks of the searches are state. The client is the one
the header asks for and the unit test is: a mutex per thread around
`my_resources`, one mutex for the conditions. `Awake` is a broadcast, the
timeout or a spurious wake-up, whichever comes. `WaitingThreadsCheck` adds a history
variable, `resolved`: who has found a deadlock in its present wait and had another
thread killed for it.

### QxService: `QxService`, `QxService_proofs`

The pool's thread, the server it runs in its event loop, the workers and the
clients. `m_bIsRunning` of pool and workers is read outside the mutex as in the
code. `setAvailable` is two steps, its test of the flag and its locked section;
`clearServices` keeps the pool's mutex (`mutex`) from its beginning until the
last worker has ended.

### Client: `ClientProtocol`, `MCClientProtocol`, `ClientProtocol_proofs`

One `MYSQL` handle, a prepared statement, unbuffered results, and the packets on
their way to the client, each with the number of its command. A call is the
command (all of `cli_advanced_command`: the test for commands out of sync, the
write, the reconnection and the second write) and then one step per packet read,
and `Break` can come between any two: it drops what the server sent last, and
with the session its transaction. The server (external) answers a command with
the packets of `Responses`; every packet but an error carries the more-results
and in-transaction bits. `srvTrans` is what the server knows: a transaction is open.
`lost` is a history variable: the library lost a session while the handle's own
in-transaction bit was set, and no call has told of it since. So is `orphaned`:
`mysql_fetch_row` of a discarded result has set the status to READY over rows of
another one. What the calls after that read as what is not modelled: behaviours end
there.

## Runs

| run | instance | checks |
|---|---|---|
| `rwlock` | 4 threads, 1430 states | `TypeOK`, `Exclusion`, `NoLostWakeup`, `WritersServed`, `ReadersServed`, `Implements` |
| `coroutine` | 2 threads, 3 coroutines, 5321 states (symmetric) | `TypeOK`, `AssertionsHold`, `ChainsDisjoint`, `ResumesRight`, `StackLive`, `ImplementsStacks` |
| `thr_types` | 3 owners, one lock, 9 types, kills and aborts, until a type is forced, 1 472 000 states (symmetric) | `ListsAgree` (with the types), `HoldersHold`, `Compatible`, `ReadersNotStranded`, `GrantedIsWoken`, `QueuesInOrder` |
| `thr_cursor` | a statement with two instances, a cursor of the same thread, another statement, `TL_WRITE_ONLY` requested and forced; 1 134 000 states | `HoldersHold`, `FreeLockServes`, `UpgradedHasNoWaiters` |
| `thr_live` | two writers of two tables, a reader, kills; 153 000 states | `HoldersHold`, `LockingEnds` |
| `lf_alloc` | 3 threads, 2 objects, 2 sets of pins, 1 397 000 states (symmetric) | `OnePlace` (with the types), `PinsHaveOneOwner`, `PinnedIsNotFreed`, `ImplementsPool`; at start-up, that the binary search of the scan is membership, for sorted arrays of up to four addresses |
| `lf_hash` | 2 threads, 2 nodes, 2 keys, 2 buckets, 3 818 000 states (symmetric) | `ListOrdered`, `Linearizable`, `PinnedNotReused`, `RestIsClean` |
| `waiting_threads` | 3 threads, 3 resources, 3 waits, 1 558 000 states (symmetric in the resources) | `GraphConsistent`, `SearchLocks`, `NoSilentCycle`, `SleepsForSomebody` |
| `qx_pool` | 2 workers, 3 clients, 488 000 states | `NoWorkerLost`, `ServedOnce`, `ShutdownEnds` |
| `client` | 7 kinds of query, 6 commands, 3 network failures, 2 results, 247 000 states (symmetric) | `InSync` (with the types), `NoSilentLoss` |
| `coroutine_thread_exit` | 2 threads, 3 coroutines | violated: `ThreadExitClean` |
| `thr_unlock_race` | 3 owners, reads and delayed inserts, aborts | violated: `UnlinksOnce` |

`Implements`, `ImplementsStacks` and `ImplementsPool` are refinements: the
abstract specification is a property of the detailed one, under the mapping in
the `INSTANCE` beside it. `ImplementsPool` maps what is on the
free stack or not allocated yet to available, what a thread was given, or has just
taken off the stack, to held, and the rest, which lies in a purgatory or in the
hands of a scan, to retired.

What the runs of the later modules show, in a sentence each:

* `lf_alloc`: with any interleaving of two allocations, frees and changes of
  pins, an object is in exactly one place, the compare-and-swap on `top` never
  succeeds with a stale successor, and no scan lets go of an object another
  thread has pinned and verified. `PinsHaveOneOwner` needs the version in
  `pinstack_top_ver`: there nothing is pinned.
* `lf_hash`: every answer was true at some moment of its call, with nodes of the
  bucket inserted and deleted while it is being split; a node a thread may look
  at is not reused. The latter needs the scan to read a thread's pins upwards,
  because `lfind` moves a node from pin 0 to 1 to 2.
* `waiting_threads`: there is no cycle of waits whose members' searches are all
  over with none of its members killed and none having found a deadlock; and the
  search unlocks what it locked, though one frame locks and another unlocks.
* `qx_pool`: shutdown ends but for two races, `Jammed`. A worker that has tested
  the pool's flag in `setAvailable` waits for the mutex `clearServices` keeps while
  it waits for the worker; and a worker that has not begun to run when `stop()`
  clears its flag sets it again in `run()`. The property names both, and shows
  that there is no third. No text in the repository promises that shutdown ends.
* `client`: whatever is discarded or lost, the packet that comes next is
  one the handle is about to read and belongs to the last command, with one
  exception, the fetch from a discarded result described below; and a session in
  which the handle knows of an open transaction is not replaced without an error
  first. The
  in-transaction bit survives in the handle when `mysql_free_result`, which
  returns nothing, is the one to notice the loss.

### Bounds

* Four threads in `rwlock` are two of each kind: two readers and two writers can
  wait at once, so that a signal can pick the wrong one. The proofs lift this.
* Three coroutines and two threads give chains of four, coroutines handed from
  one thread to the other, and a third that is continued from either side.
* Three owners of one lock in `thr_types` are one holder and two waiters, one of
  which can be overtaken, stranded, killed or aborted. `TL_WRITE_ONLY` requests,
  and what comes after a type was forced on a lock, are left to `thr_cursor`, and
  `TL_READ_WITH_SHARED_LOCKS` is left out because
  it passes every test in the file that `TL_READ` passes.
* `MaxWriteLockCount` is 0 in the runs about waiting: the second write in a row
  then passes the limit, so both sides of the test and the reset occur. The code
  starts with the largest number there is (thr_lock.c:101) and leaves it to the
  server to configure a limit: that writers do not shut readers out
  (`LockingEnds`) is shown for a configured limit, and is not so without one.
* `MaxKilled` is 1: any thread can be killed, at any point of its calls, and again
  in its next statement, but not while another one is still dying.
* Addresses of locks are numbers further apart than the largest lock type, as
  they are in memory; `LOCK_CMP` subtracts types from addresses.
* `lf_alloc`: three threads on two sets of pins make one thread go without, so
  pins are taken over; two objects are enough for ABA on the free stack (pop both,
  push the first back). `MaxVersion` lets the pin stack be popped four times, two
  more than ABA takes; `Versions` is larger, as a wrap of all 65536 versions during
  one loop is the case the code accepts. A purgatory of size 2 gives frees
  that scan and frees that do not.
* `lf_hash`: both keys fall into bucket 1 after the split, so its dummy is
  inserted before nodes others are working on; two nodes for two threads make
  every reuse happen at once. One hash bit is enough for two buckets.
* `waiting_threads`: the first two threads can wait on one resource for the third,
  the second and third on their own for one or both of the others, so cycles of two
  and three through shared and separate resources occur, with the lightest thread
  in the middle. A short depth of two is enough for whoever closes a cycle
  of three; chains through owners that are no part of it go deeper and reach the
  limit, and with the long depth they are followed to the end. Three resources let one be freed and used again.
* `qx_pool`: two workers and three clients make one client wait for a worker, or
  be given up. One retry has both outcomes.
* `client`: the queries include multi-statements that end with an OK, with a
  result and with an error, and rows that break off; six commands with three
  failures allow a loss, a reconnection, a second loss and a command after it, while
  a result of the first session is still in the application's hands.
* Symmetry permutes owners, threads, coroutines, objects or results in the runs without liveness
  properties; nothing in the modules orders them.

### Fairness

`rwlock`: a thread that was woken gets the mutex and tests its condition again,
and a holder eventually unlocks (weak fairness of `RdWake`, `WrWake` and the
unlocks). Nobody is obliged to ask for the lock, no wake-up has to be spurious,
and `pthread_cond_signal` may pick any waiter. `ReadersServed` allows the one way
a reader may starve, writers that never stop. `thr_live`: an owner inside a call
goes on when it can (`Runnable` is when `OwnerStep` is enabled other than by a
timeout), and a statement that has its locks ends; nothing else. Nobody has to
be killed, and no timeout has to happen. `qx_pool`: the pool's thread and each
worker go on when they can (weak fairness of `PoolStep` and of each `WorkerStep`);
the reads and writes of a worker end, because the socket calls have a time limit.
Nobody has to connect or to quit. The lock-free modules and the client have safety
properties only: lock freedom promises progress to somebody, not to everybody.

### What the violations show

* `coroutine_thread_exit`: the comment on `qt_threadRootCoroutine` says that it
  assures deletion of the root coroutine on thread exit. The root is Running, and
  the destructor of a Running coroutine calls `qFatal`, so a thread that has used
  a coroutine ends the process when it ends.
* `thr_unlock_race`: a delayed insert may be queued while its owner is already
  unlocking. `data->type` is read before the mutex is taken; if `thr_abort_locks`
  empties the queue in between, `thr_unlock` unlinks an instance that is in no
  list and leaves `write.last` pointing into the wait queue.

Comments of `thr_lock.c` that the code does not follow, found while modelling and
not kept as runs, because each is a matter of priority or wording:

* thr_lock.c:47 says that locks are granted in the order of the requests. A waiting
  `TL_READ` is overtaken by a new one after the `TL_WRITE` it waited for is killed
  and a `TL_WRITE_LOW_PRIORITY` is next: `wake_up_waiters` starts nobody, but the
  test at 604 lets the newcomer in.
* thr_lock.c:572 and `check_locks` (294-296) exclude `TL_READ_NO_INSERT` beside
  another owner's `TL_WRITE_ALLOW_WRITE`; the test at 578-582 lets it in.
  `Compatible` says of `TL_READ_NO_INSERT` only what the code keeps, that there is
  no other owner's concurrent insert beside it.
* The note at `thr_downgrade_write_lock` (1248-1251), "In this case there are no
  waiters", holds of locks that `thr_abort_locks` upgraded (`UpgradedHasNoWaiters`),
  but for a delayed insert that stepped back. It does not hold of a lock requested as
  `TL_WRITE_ONLY`, behind which others queue before it is granted: after a downgrade
  to `TL_WRITE_ALLOW_READ` a reader among them could run and is not woken.
* thr_lock.h:78 says of `TL_WRITE_LOW_PRIORITY` that it has lower priority than
  reads; at 875-877 it starts before a waiting `TL_READ` when the lock becomes free.

Observations that the properties are worded around:

* `FreeLockServes` is the part of "nobody is stranded" that the code keeps
  whatever its callers do: nobody waits for a lock that is free, and no reader for
  one that no writer has or waits for. Beside an active write `ReadersNotStranded`
  is the condition of `check_locks` on waiting readers; it holds until a type is
  forced on the lock (see the note at `thr_downgrade_write_lock` above).
* The two conditions of `check_locks` on waiting writes (245-256, 278-286) are not
  kept by the code. When `max_write_lock_count` is passed, the
  readers are freed and a write that could run beside them (`TL_WRITE_ALLOW_READ`,
  say) stays in the queue; and a `TL_WRITE_ALLOW_WRITE` queued behind a `TL_WRITE`
  goes on waiting after that one is killed while another `TL_WRITE_ALLOW_WRITE`
  is active, because `wake_up_waiters` does nothing beside an active write.
* An owner that holds a write is granted further locks without a look at the others
  (thr_lock.c:578, 687). With `allow_multiple_concurrent_insert`, a second concurrent
  insert is granted beside a first one without a look at `read_no_write_count`, so an
  owner that holds an insert and its own `TL_READ_NO_INSERT` on the table gets another
  owner's insert beside that read; and the end of one of two writes of different types
  wakes nobody beside the other. `Compatible` and `ReadersNotStranded` are therefore
  checked for owners with one instance (`thr_types`), and are not theorems.
* lf_alloc-pin.c:28-30 says that a purgatory is scanned when it is full; line 265
  scans on every free but those that make its size a multiple of
  `LF_PURGATORY_SIZE`. The model does what the line does.
* `put_pins` spins until its purgatory is empty, and a thread that keeps a pin can
  keep it there; the comment at 216-219 leaves that to the callers.
  `lf_hash_search` leaves pin 2 set when it finds nothing, so a caller may hold a
  pin without knowing.
* A kill's broadcast can fall between a victim's test of `killed` and its wait
  (waiting_threads.c:1076, 1088): the victim then sleeps on to its timeout, so
  `NoSilentCycle` is about being killed, not about being awake. Two searches of one
  cycle whose members have equal weights may kill two of them.
* waiting_threads.c:657-666 expects "the thread that has created the cycle" to detect
  its deadlock. With four threads one declaration can close two cycles: 1 waits for 2,
  2 for 3 and 4, and 4 waits for 1 on the resource that 3 is about to wait on for 1.
  The search reports one of them, and if its victim is no member of the other, that one
  stands until the long search or the timeout of a member. `NoSilentCycle` therefore
  allows a cycle one of whose members has found a deadlock. With the three threads of
  the run nobody needs that: there a standing cycle always has a killed member.
* When no worker becomes available, QxServer.cpp:45 drops the connection and nobody
  closes the descriptor; the client ends by its own timeout. A descriptor 0 would
  mean none; it is not one of the model's.
* `mysql_fetch_row` looks at the connection's status only (client.c:3026), not at whose
  rows are pending. On a result that `mysql_stmt_close` discarded it takes a row of the
  query made since for its own; and when that row does not parse with its number of
  columns, or the new result has neither been stored nor used yet, it sets the status to
  READY (3040) with the rows still to come, so that the next command reads them as its
  answer. The comment at 3041-3043 expects "somebody started new query after
  mysql_stmt_close()" and keeps that one's `unbuffered_fetch_owner`, but not its status.
  The model makes these calls; `InSync` is claimed up to the one that leaves rows behind
  (`orphaned`), and that no owner points to a freed result is claimed of it as well.
  `mysql_store_result` sets the status to READY before it
  allocates (client.c:2933): if that fails the rows stay unread.
* An error packet has no status, so a transaction that a failing statement opened is
  unknown to the client, and so is one opened by the unread rest of a
  multi-statement. `lost` is computed from the handle's bit, so `NoSilentLoss` is about
  transactions the handle knows of; the others are lost in silence.
  `mysql_ping` compares a Boolean with `CR_SERVER_LOST` (libmysql.c:1056), so its
  retry is never made.

## Proofs

`RWLock_proofs`, for every finite set of threads. The inductive invariant is
`IInv == TypeOK /\ BlockedInCall /\ Exclusion /\ NoLostWakeup`. Exclusion alone is
not inductive: that an unlock leaves a state the next grant may trust needs
`state` and `waiters` to be the cardinalities of the sets of threads they count,
and that needs `BlockedInCall`, that only threads inside a call sleep. One lemma
per kind of step (going to sleep, getting the lock, the unlocks, a spurious
wake-up) preserves it; `MoveFacts` says how moving one thread changes the sets of
places and their cardinalities. Results: `TypeCorrect`, `MutualExclusion`,
`WakeupsSuffice`, and `Refinement`, that every behaviour of the code is one of
`ReadersWriter` (`StepSimulation` maps each action). Assumption: `Threads` finite.

`Coroutine_proofs`, for any non-empty set of threads and any set of coroutines.
The inductive invariant `CoroInv` is the conjunction of what the run checks:
the parts need each other. That `yieldHelper` resumes the right frame needs the
caller to be suspended in one `cont()` only (`OneCaller`), which needs the
assertion that a coroutine has a caller only while it runs, which `Cont` keeps
because nothing current is Stopped. `OneHome` is an existential: a function that
gives each coroutine in a chain the thread whose root the chain ends in; its
witness is updated at `Cont`. Hypothesis of every theorem: `Disciplined`, callers
do not call `restart()` on a running coroutine; without it the assertions fail.
Results: `CoroutineTypes`, `NoAssertionFails`, `OneCallerEach`, `SwitchesResumeRight`,
`NoStackFreedInUse`, `CallersAcyclic`, that a rank decreases along `_caller`,
so that returning always ends in a root, and `CallersAreStacks`, the refinement of
`ContStack`, for finite sets of threads and coroutines. The mapping of the refinement
follows `_caller` from the current coroutine by a recursive function; the proof carries a
function `stk` that gives each thread its coroutines, root first (`Stacks`, the
links of each and nobody on two), shows that the recursion finds it
(`ChainIsStack`, by `SetInduction`), and then how each call changes it.

`QxService_proofs`, for any finite set of workers and any clients. The invariant is
`QxInv == Flags /\ NoWorkerLost /\ PoolInv /\ WorkerInv /\ ServedOnce /\ ConnInv`.
`NoWorkerLost` is not inductive: that `setAvailable` does not queue a worker that
is queued already rests on what each place in the worker's loop and in
`incomingConnection` says about the descriptor, the queue and the running flags
(`PoolInv`, `WorkerInv`). `ServedOnce` needs in addition that a connection is in one
place, and that nothing of it has been executed until its worker is past
`executeServer` (`ConnInv`). Results: `WorkersKept`,
`RequestsServedOnce`. Assumption `QxAssumption`: workers are finite, the number of
retries is a natural number, and `None` is neither a worker nor a client.

`ClientProtocol_proofs`, for any kinds of query, any number of results, commands and
network failures. Reading an answer is an automaton with the states reply, simple,
fields, rows and done; the invariant `WireInv` says that the packets on the wire are
a run of it (`Leads`) from the state the handle and its current call are in
(`Phase`) to done. `StatusInv` ties the handle's status and the owner of the
unbuffered result to the call, `ResultInv` says that the result whose rows are pending
was not cancelled and that the owner is not freed. `LossInv` says that a loss nobody was told of is still in the
handle's in-transaction bit, and that there is no connection. A break cuts the run
short: it has to reach done, with the server's transaction bit, only while the
connection is up. All of these are `HandleInv`, and every call keeps it but one: `ClientInv`
is `HandleInv` as long as nothing is `orphaned`, and of the call that orphans rows
`OrphaningStep` shows that the types, the owner and `LossInv` are kept. Results:
`ClientInvariant`, `HandleInSync`, `LossesAreTold`. Assumption `ClientAssumption`: a response is a non-empty sequence,
an error or a broken result is its last part, and an error leaves the transaction
alone (an error packet carries no status, so the client could not know).

`ListFacts` is about sequences: taking out an element, joining, cutting and
filtering, the order a list keeps, and what the functions defined by recursion over a
list return; and about linked lists: `IsList(f, h, z, A)` says that the words `f`
lead from `h` through every member of `A` once and end in `z`, and lemmas say what a
push, a pop, a join and a write to a word outside the list do to it. Induction is stated there with a set of numbers in place of a predicate
(`SetInduction`, from the well-foundedness of the natural numbers), which the
provers can instantiate, so the few facts about recursive functions that the
proofs need are proved and not assumed.

`ThrLock_proofs`, for any finite set of lock instances and any locks, owners, threads
and requests. Its lower half is about one lock's view, the record the operators of
`ThrLockQueues` work on. `QInv(v)` says that the four lists are apart and without
repetition, that type and cond of every instance are those of its list, and that
`read_no_write_count` is the number of active `TL_READ_NO_INSERT`; a lemma for each
operator says that it keeps `QInv`, which instances it wakes (`Wakes`), which it
moves (`Carries`, `Requeues`) and that it starts nobody out of turn (`InTurn`). The
upper half is `LockInv`: the types of the state (`StateOK`), `QInv` of every lock's
view, and for each owner that its phase, array and position say exactly which
instances are in a list, and whether they wait (`OwnerInv`: `PlanOK`, `TakenOK`,
`LinkedOK`, `Woken`). `ListsAgree` alone is not inductive: that `thr_unlock` is
called only of instances that are in a list is a fact about owners, and that a
wait ends with its instance granted, aborted or taken out is one about both. A step
changes one lock and one owner, so most of the argument is that the others' parts
are kept (`OthersKeep`). Results: `TableLocks`, `ListsAlwaysAgree`, `GrantsAreHeld`,
`NoLostSignal`, and the action property `ServedInOrder`.
Assumptions `QueueAssumption` and `ThrLockAssumption`: instances are finite, locks
lie further apart in memory than the largest lock type, each instance has one owner
and each owner one thread. The proofs are about `ThrLock`, where the read of
`data->type` and the critical section of `thr_unlock` are one step; without that
`ListsAgree` does not hold (run `thr_unlock_race`).

`FreeLockServes` and `UpgradedHasNoWaiters` need a layer above that, `SettledInv`. It
says of every lock that `Serves` holds of its view: when it is free nobody waits for it, and when no write is
active or waiting no reader waits. That `wake_up_waiters` brings this about
is a lemma for each of its halves (`WakeFreeServes`, `WakeReadingServes`). It also says
that whoever waits beside a lock made `TL_WRITE_ONLY` by `thr_abort_locks` is a delayed insert (`Upgraded`), for which
`Refused` and the order of the tests in `thr_lock` matter. There is no hypothesis on the
callers: any number of instances per owner, `TL_WRITE_ONLY` requested, upgrades of any
write and downgrades to any type are included. Results: `FreeLocksServe`,
`DowngradeNeedNotWake`.

`WaitingThreads_proofs`, for any finite set of threads and any resources, ids,
weights, depths and numbers of waits. The inductive invariant `WTInv` has five parts.
`EdgesOK` is the two ends of the edges of one resource: `waiter_count` counts the
threads whose `waiting_for` it is, `owners` lists without repetition those whose
`my_resources` has it. `HashOK` is the life of a resource in the hash: a FREE object is
there only until the one thread that freed it has taken it out. `PlaceOK` says which
mutexes a thread has at a place. `SearchOK` is about a search: each frame's resource
is the one its blocker waits for, t is not among its owners, and the blocker of the next
frame is the owner the loop of this one is at (`FrameOK`), so that the frames are a path of
the graph as it is now and not as it was; they are the read locks of the search, and
what is read-locked has waiters and does not lose owners. `SleepOK`
carries the owner seen under the lock to the moment the thread is asleep. `SearchLocks`
is not inductive because the unlock of a return is of the resource of another
frame's blocker, which only `FrameOK` identifies; `SleepsForSomebody` needs
`SearchOK`, because a thread goes to sleep after a search that may have ended at its own
resource. The number of read locks is the cardinality of a set of pairs of a thread and
a slot of its stack (`Holders`), so that a push, a pop and a kill each change it by
one. Results: `WTInvariant`, `GraphIsConsistent`, `SearchLocksAccounted`,
`NobodySleepsForNobody`. Assumption `WTAssumption`: threads are finite, depths and
weights are natural numbers, `Nobody` is neither a thread nor a resource.

`LfAlloc_proofs`, for any finite sets of threads and objects and any sizes of the
pinbox and the purgatories. `LfInv` has two layers. `BoxInv` is about the pinbox:
the elements that nobody has are the linked list that starts at the index in
`pinstack_top_ver`, and when the version a thread read is still the version, the
successor it read is still the successor (`BoxThread`). A pop and a push both change the
version, so this is the ABA argument, and it rests on the version not coming
round: `VersionAssumption` bounds the calls of `get_pins` in a behaviour by the number of
versions. In the code, where there are 65536, one loop would have to be overtaken by
a multiple of 65536 pops and pushes. Above it, `NodeInv(at)` is about the
objects, for some function `at` that gives each object one place. The objects of a
place are the linked list that starts at the place's pointer (`PlacesOK`), so one
`freeptr` word is in one list. There is no version here: what protects the pop of
`_lf_alloc_new` is the pin. `Unchained` says that an object whose pin was checked is in no
chain on its way to the stack, and that its successor is the one read as long as it is on the
stack. That is kept because every scan notices the pin: `Noticed`, for each pair of a
thread that pins and a thread that scans, says that if the object is in the other's
purgatory or sweep, the scan has collected the pin or has not come to its element yet,
with the sorted array or without. `OnePlace` alone is not inductive: a write to
`freeptr` keeps the lists apart only because the object written is in the writer's
place, and that needs the pinning. `EveryStep` says of each action how the places move
(`Moved`): an object goes from the stack to a holder, from a holder to its purgatory, from there into
the hands of the scan, and from a chain to the stack; nothing else.
`PinnedIsNotFreed` and the refinement are read off it. Results: `LfInvariant`,
`EveryObjectHasOnePlace`, `PinsAreNotShared`, `PinnedObjectsRest`, and
`AllocatorIsAPool`, that every behaviour of the allocator is one of `ObjectPool`.
Assumptions: `SizeAssumption`, `FiniteAssumption`, `NullAssumption`,
`VersionAssumption`.

Only model-checked: `WritersServed`, `ReadersServed`, `LockingEnds` and
`ShutdownEnds` (liveness under fairness is beyond the prover); `Compatible` and
`ReadersNotStranded`, which hold of owners with one instance until a type is forced; and
two more. `NoSilentCycle`
is about the history of several searches, and is not a theorem for all constants: a
search is cut off at its depth. In the run's instance the depth is enough for every
cycle there is.
`LfHash` is checked only on its instance: that an answer was true at some moment of
its call needs the set of keys as a function of the marked list at every access of
`lfind`, an invariant of the size of the module, for which there is no proof yet.

## Not modelled

* Table locks: `thr_lock_merge_status` and the `get_status`, `copy_status`,
  `update_status` callbacks (data of a storage engine that is not in the
  repository), `thr_print_locks`, the test programs.
* Destruction of locks, allocators and hashes, and memory exhaustion, except where
  named above (`lf_alloc_new` may get no memory).
* `lf_dynarray.c`: its levels are allocated by compare-and-swap and then never
  change; in `LfAlloc` and `LfHash` it is an array.
* Wait-for graph: statistics. The run has three threads, the proofs any number.
* Lock-free hash: hashes without `LF_HASH_UNIQUE`.
* Client: execution of prepared statements and cursors, a second prepare on one
  statement, LOAD DATA LOCAL, the handshake, packet numbers and compression,
  autocommit off, failing allocations. Calls that fail at once without a change
  (a result asked for at the wrong time) are not actions.
* QxService: the content of requests, signals; `QxDao`'s sessions, which wrap Qt's.
* `wqueue.c`: a circular list changed under the callers' mutex. Key cache, IO cache
  and containers of `mysys`: I/O bound or sequential, used by the server rather than
  by the client library. Connector/C++: a wrapper of the C API with no state machine
  of its own. Mapping templates, `rdb-sql`, `qextserialport`: no protocol.
* Vendored and generated code: yassl, zlib, regex, dbug, character-set tables.

## Plan

1. Done: `RWLock`, `Coroutine`, `ThrLock` with their runs; proofs of the first two.
2. Done: `LfAlloc` with its refinement of `ObjectPool`, `LfHash`, `WaitingThreads`,
   `QxService`, `ClientProtocol`.
3. Done: proofs of `QxService` and `ClientProtocol`, of the types of `Coroutine`, and of
   every safety property of `ThrLock` that does not depend on its callers.
4. Done: proofs of `WaitingThreads` (`SleepsForSomebody`, `GraphConsistent`,
   `SearchLocks`), of every property of `LfAlloc`, its refinement of
   `ObjectPool` included, and of the refinement of `ContStack` by `Coroutine`.
5. Left: `LfHash`, from `PinnedNotReused` (an invariant like `Noticed`, with three pins
   and the order in which a node moves through them) to `ListOrdered` and
   `Linearizable`.
