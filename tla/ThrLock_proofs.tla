--------------------------- MODULE ThrLock_proofs ---------------------------
(***************************************************************************)
(* Proofs about the table lock manager of ThrLock.                         *)
(***************************************************************************)
EXTENDS ThrLock, ListFacts

Types == RequestTypes \cup {TL_UNLOCK}

(* What ThrLockQueues calls a view. *)
Views ==
    [read : Seq(Data), read_wait : Seq(Data), write : Seq(Data), write_wait : Seq(Data),
     write_lock_count : Nat, read_no_write_count : Int,
     type : [Data -> Types], cond : [Data -> BOOLEAN], signalled : SUBSET Data]

Act(v) == ToSet(v.read) \cup ToSet(v.write)
Que(v) == ToSet(v.read_wait) \cup ToSet(v.write_wait)
NoInsert(v) == {d \in ToSet(v.read) : v.type[d] = TL_READ_NO_INSERT}

(* The four lists share no element. *)
Apart(v) ==
    /\ IsInjective(v.read) /\ IsInjective(v.read_wait)
    /\ IsInjective(v.write) /\ IsInjective(v.write_wait)
    /\ Act(v) \cap Que(v) = {}
    /\ ToSet(v.read) \cap ToSet(v.write) = {}
    /\ ToSet(v.read_wait) \cap ToSet(v.write_wait) = {}

(* Type and cond tell which list an instance is in. *)
Tagged(v) ==
    /\ \A d \in ToSet(v.read) \cup ToSet(v.read_wait) : v.type[d] \in ReadTypes
    /\ \A d \in ToSet(v.write) \cup ToSet(v.write_wait) : v.type[d] \in WriteTypes
    /\ \A d \in Act(v) : ~v.cond[d]
    /\ \A d \in Que(v) : v.cond[d]

QInv(v) ==
    /\ v \in Views
    /\ Apart(v)
    /\ Tagged(v)
    /\ v.read_no_write_count = Cardinality(NoInsert(v))
    /\ v.write_lock_count \in 0 .. MaxWriteLockCount + 1

-----------------------------------------------------------------------------
(* The positions of the array whose locks o has or waits for. *)
Taken(o) == {i \in 1 .. Len(plan[o]) :
    \/ phase[o] = "locking" /\ i < pos[o]
    \/ phase[o] = "waiting" /\ i <= pos[o]
    \/ phase[o] \in {"held", "upgrading", "rescheduled"}
    \/ phase[o] = "unlocking" /\ i >= pos[o]}

Linked(d) == d \in Active(LockOf[d]) \cup Queued(LockOf[d])

(* The types an instance can have while it is in a list, by the type it    *)
(* was requested with.                                                     *)
Fits(rq, t) == t = rq \/ (rq \in WriteTypes /\ t \in WriteTypes)

PlanOK(o) ==
    /\ plan[o] \in Seq(Data) /\ IsInjective(plan[o])
    /\ pos[o] \in 1 .. Len(plan[o]) + 1
    /\ \A i \in 1 .. Len(plan[o]) :
          OwnerOf[plan[o][i]] = o /\ req[plan[o][i]] \in MayRequest[plan[o][i]]
    /\ phase[o] \in {"locking", "waiting", "upgrading", "rescheduled"} => pos[o] <= Len(plan[o])
    /\ phase[o] \in {"upgrading", "rescheduled"} => req[Cur(o)] = TL_WRITE_DELAYED

TakenOK(o) == \A i \in Taken(o) :
    LET d == plan[o][i] IN
    \/ type[d] = TL_UNLOCK
    \/ d \in Active(LockOf[d])
    \/ d \in Queued(LockOf[d]) /\ (req[d] = TL_WRITE_DELAYED \/ (phase[o] = "waiting" /\ i = pos[o]))

LinkedOK(d) == Linked(d) =>
    /\ \E i \in Taken(OwnerOf[d]) : plan[OwnerOf[d]][i] = d
    /\ Fits(req[d], type[d])

(* The signal has reached the owner (see GrantedIsWoken). *)
Woken(o) == Waiting(o) /\ ~cond[Cur(o)] => o \in awake

OwnerInv(o) ==
    /\ PlanOK(o) /\ TakenOK(o) /\ Woken(o)
    /\ \A d \in Data : OwnerOf[d] = o => LinkedOK(d)

ListRecords ==
    [read : Seq(Data), read_wait : Seq(Data), write : Seq(Data), write_wait : Seq(Data),
     write_lock_count : Nat, read_no_write_count : Int]

StateOK ==
    /\ lists \in [Locks -> ListRecords]
    /\ type \in [Data -> Types] /\ cond \in [Data -> BOOLEAN]
    /\ \A l \in Locks : \A d \in Active(l) \cup Queued(l) : LockOf[d] = l
    /\ req \in [Data -> Types]
    /\ phase \in [Owners -> Phases]
    /\ DOMAIN plan = Owners /\ DOMAIN pos = Owners
    /\ awake \subseteq {o \in Owners : Waiting(o)}
    /\ abort \subseteq Range(ThreadOf)

LockInv ==
    /\ StateOK
    /\ \A l \in Locks : QInv(View(l))
    /\ \A o \in Owners : OwnerInv(o)

-----------------------------------------------------------------------------
(* The fields of what the operators on views return.                       *)

(* Release clears the cond of the given instances and signals them.        *)
LEMMA ReleaseFields ==
    ASSUME NEW v \in Views, NEW ds \in SUBSET Data
    PROVE  LET w == Release(v, ds) IN
           /\ w \in Views
           /\ w.read = v.read /\ w.read_wait = v.read_wait
           /\ w.write = v.write /\ w.write_wait = v.write_wait
           /\ w.write_lock_count = v.write_lock_count
           /\ w.read_no_write_count = v.read_no_write_count
           /\ w.type = v.type
           /\ \A d \in Data : w.cond[d] <=> v.cond[d] /\ d \notin ds
           /\ w.signalled = v.signalled \cup ds
<1>1. [d \in Data |-> v.cond[d] /\ d \notin ds] \in [Data -> BOOLEAN]
  OBVIOUS
<1> QED
  BY <1>1 DEF Release, Views

(* Unlink takes an instance out of whichever list it is in, and does no    *)
(* more.                                                                   *)
LEMMA UnlinkFields ==
    ASSUME NEW v \in Views, NEW d \in Data
    PROVE  LET w == Unlink(v, d) IN
           /\ w \in Views
           /\ w.read = Only(v.read, Data \ {d}) /\ w.read_wait = Only(v.read_wait, Data \ {d})
           /\ w.write = Only(v.write, Data \ {d}) /\ w.write_wait = Only(v.write_wait, Data \ {d})
           /\ w.write_lock_count = v.write_lock_count
           /\ w.read_no_write_count = v.read_no_write_count
           /\ w.type = v.type /\ w.cond = v.cond /\ w.signalled = v.signalled
<1>1. \A s \in Seq(Data) : Only(s, Data \ {d}) \in Seq(Data)
  BY OnlyProperties
<1> QED
  BY <1>1 DEF Unlink, Views

(* The readers that free_all_read_locks keeps. *)
Stays(v, using) == {d \in Data : using /\ v.type[d] = TL_READ_NO_INSERT}

(* free_all_read_locks moves the waiting reads that may go to the end of   *)
(* the reads, and counts the TL_READ_NO_INSERT among them.                 *)
LEMMA FreeFields ==
    ASSUME NEW v \in Views, NEW using \in BOOLEAN
    PROVE  LET w == free_all_read_locks(v, using)
               freed == Only(v.read_wait, Data \ Stays(v, using))
               kept == Only(v.read_wait, Stays(v, using)) IN
           /\ w \in Views
           /\ w.read = v.read \o freed /\ w.read_wait = kept
           /\ w.write = v.write /\ w.write_wait = v.write_wait
           /\ w.write_lock_count = IF kept = <<>> THEN 0 ELSE v.write_lock_count
           /\ w.read_no_write_count = v.read_no_write_count
                + Cardinality({d \in ToSet(freed) : v.type[d] = TL_READ_NO_INSERT})
           /\ w.type = v.type
           /\ \A d \in Data : w.cond[d] <=> v.cond[d] /\ d \notin ToSet(freed)
           /\ w.signalled = v.signalled \cup ToSet(freed)
<1> DEFINE freed == Only(v.read_wait, Data \ Stays(v, using))
           kept == Only(v.read_wait, Stays(v, using))
           more == Cardinality({d \in ToSet(freed) : v.type[d] = TL_READ_NO_INSERT})
           joined == v.read \o freed
           count == IF kept = <<>> THEN 0 ELSE v.write_lock_count
           total == v.read_no_write_count + more
           u == [v EXCEPT !.read = joined, !.read_wait = kept,
                          !.read_no_write_count = total, !.write_lock_count = count]
<1>1. v.read_wait \in Seq(Data) /\ v.read \in Seq(Data) /\ v.write_lock_count \in Nat
      /\ v.read_no_write_count \in Int
  BY DEF Views
<1>2. freed \in Seq(Data) /\ kept \in Seq(Data) /\ ToSet(freed) \subseteq Data
  BY <1>1, OnlyProperties, EmptyList
<1>3. more \in Nat
  <2>1. IsFiniteSet({d \in ToSet(freed) : v.type[d] = TL_READ_NO_INSERT})
    BY <1>2, QueueAssumption, FS_Subset
  <2> QED
    BY <2>1, FS_CardinalityType
<1>4. joined \in Seq(Data) /\ count \in Nat /\ total \in Int
  BY <1>1, <1>2, <1>3, JoinProperties
<1>5. free_all_read_locks(v, using) = Release(u, ToSet(freed))
  BY DEF free_all_read_locks, Stays
<1> HIDE DEF freed, kept, more, joined, count, total
<1>6. /\ u \in Views
      /\ u.read = joined /\ u.read_wait = kept
      /\ u.write = v.write /\ u.write_wait = v.write_wait
      /\ u.write_lock_count = count /\ u.read_no_write_count = total
      /\ u.type = v.type /\ u.cond = v.cond /\ u.signalled = v.signalled
  BY <1>1, <1>2, <1>3, <1>4 DEF Views
<1> HIDE DEF u
<1>7. LET w == Release(u, ToSet(freed)) IN
           /\ w \in Views
           /\ w.read = joined /\ w.read_wait = kept
           /\ w.write = v.write /\ w.write_wait = v.write_wait
           /\ w.write_lock_count = count /\ w.read_no_write_count = total
           /\ w.type = v.type
           /\ \A d \in Data : w.cond[d] <=> v.cond[d] /\ d \notin ToSet(freed)
           /\ w.signalled = v.signalled \cup ToSet(freed)
  BY <1>2, <1>6, ReleaseFields
<1> QED
  BY <1>5, <1>7, Zenon DEF freed, kept, more, joined, count, total

(* The part of the queue that StartWrites takes. *)
LEMMA BatchSize ==
    ASSUME NEW v \in Views, v.write_wait # <<>>
    PROVE  /\ WriteBatch(v) \in 1 .. Len(v.write_wait)
           /\ WriteBatch(v) # 1 =>
                 \A i \in 1 .. WriteBatch(v) : v.type[v.write_wait[i]] = TL_WRITE_ALLOW_WRITE
<1> DEFINE s == v.write_wait
           P(i) == v.type[s[i]] = TL_WRITE_ALLOW_WRITE
           front == {n \in 1 .. Len(s) : \A i \in 1 .. n : P(i)}
           no == {n \in 1 .. Len(s) : ~P(n)}
<1>1. s \in Seq(Data) /\ Len(s) \in Nat /\ Len(s) >= 1 /\ Head(s) = s[1]
  BY EmptyList DEF Views
<1>2. WriteBatch(v) = IF P(1) THEN Cardinality(front) ELSE 1
  BY <1>1 DEF WriteBatch, HeadType
<1> HIDE DEF s, P
<1>3. CASE ~P(1)
  BY <1>1, <1>2, <1>3 DEF s
<1>4. CASE P(1)
  <2>1. \E m \in 1 .. Len(s) : front = 1 .. m
    <3>1. CASE no = {}
      <4>1. front = 1 .. Len(s)
        BY <1>1, <3>1
      <4> QED
        BY <1>1, <4>1
    <3>2. CASE no # {}
      <4>1. PICK x \in no : \A y \in no : x <= y
        <5>1. no \in SUBSET Nat
          BY <1>1
        <5> HIDE DEF no
        <5> QED
          BY <3>2, <5>1, LeastElement
      <4>2. x \in 2 .. Len(s)
        BY <1>1, <1>4, <4>1
      <4>3. \A i \in 1 .. (x - 1) : P(i)
        BY <1>1, <4>1, <4>2
      <4>4. front = 1 .. (x - 1)
        BY <1>1, <4>1, <4>2, <4>3
      <4> QED
        BY <1>1, <4>2, <4>4
    <3> QED
      BY <3>1, <3>2
  <2>2. PICK m \in 1 .. Len(s) : front = 1 .. m
    BY <2>1
  <2> HIDE DEF front
  <2>3. Cardinality(1 .. m) = m
    BY <1>1, FS_Interval
  <2>4. WriteBatch(v) = m /\ m \in 1 .. m
    BY <1>1, <1>2, <1>4, <2>2, <2>3
  <2>5. \A i \in 1 .. m : P(i)
    BY <2>2, <2>4 DEF front
  <2> QED
    BY <2>4, <2>5 DEF s, P
<1> QED
  BY <1>3, <1>4

(* StartWrites moves the first waiting writes to the end of the writes.    *)
LEMMA StartFields ==
    ASSUME NEW v \in Views, v.write_wait # <<>>, IsInjective(v.write_wait)
    PROVE  LET w == StartWrites(v)
               n == WriteBatch(v)
               batch == SubSeq(v.write_wait, 1, n) IN
           /\ w \in Views
           /\ w.read = v.read /\ w.read_wait = v.read_wait
           /\ w.write = v.write \o batch
           /\ w.write_wait = SubSeq(v.write_wait, n + 1, Len(v.write_wait))
           /\ w.write_lock_count = v.write_lock_count
           /\ w.read_no_write_count = v.read_no_write_count
           /\ w.type = v.type
           /\ \A d \in Data : w.cond[d] <=> v.cond[d] /\ d \notin ToSet(batch)
           /\ w.signalled = v.signalled \cup ToSet(batch)
<1> DEFINE n == WriteBatch(v)
           batch == SubSeq(v.write_wait, 1, n)
           rest == SubSeq(v.write_wait, n + 1, Len(v.write_wait))
           u == [v EXCEPT !.write = @ \o batch, !.write_wait = rest]
<1>1. v.write_wait \in Seq(Data) /\ v.write \in Seq(Data) /\ n \in 0 .. Len(v.write_wait)
  <2>1. n \in 1 .. Len(v.write_wait) /\ v.write_wait \in Seq(Data) /\ v.write \in Seq(Data)
    BY BatchSize DEF Views
  <2> QED
    BY <2>1
<1>2. StartWrites(v) = Release(u, ToSet(batch))
  BY DEF StartWrites
<1> HIDE DEF n
<1>3. batch \in Seq(Data) /\ rest \in Seq(Data)
  BY <1>1, CutProperties
<1> HIDE DEF batch, rest
<1>4. v.write \o batch \in Seq(Data) /\ ToSet(batch) \in SUBSET Data
  BY <1>1, <1>3, JoinProperties, EmptyList
<1>5. /\ u \in Views
      /\ u.read = v.read /\ u.read_wait = v.read_wait
      /\ u.write = v.write \o batch /\ u.write_wait = rest
      /\ u.write_lock_count = v.write_lock_count
      /\ u.read_no_write_count = v.read_no_write_count
      /\ u.type = v.type /\ u.cond = v.cond /\ u.signalled = v.signalled
  BY <1>3, <1>4 DEF Views
<1> HIDE DEF u
<1>6. LET w == Release(u, ToSet(batch)) IN
           /\ w \in Views
           /\ w.read = v.read /\ w.read_wait = v.read_wait
           /\ w.write = v.write \o batch
           /\ w.write_wait = rest
           /\ w.write_lock_count = v.write_lock_count
           /\ w.read_no_write_count = v.read_no_write_count
           /\ w.type = v.type
           /\ \A d \in Data : w.cond[d] <=> v.cond[d] /\ d \notin ToSet(batch)
           /\ w.signalled = v.signalled \cup ToSet(batch)
  BY <1>4, <1>5, ReleaseFields
<1> QED
  BY <1>2, <1>6, Zenon DEF n, batch, rest

(* A concurrent insert whose check_status fails becomes a TL_WRITE;        *)
(* nothing else changes.                                                   *)
LEMMA UpgradeFields ==
    ASSUME NEW v \in Views, NEW d \in Data, NEW cs \in BOOLEAN
    PROVE  LET w == UpgradeInsert(v, d, cs) IN
           /\ w \in Views
           /\ w.read = v.read /\ w.read_wait = v.read_wait
           /\ w.write = v.write /\ w.write_wait = v.write_wait
           /\ w.write_lock_count = v.write_lock_count
           /\ w.read_no_write_count = v.read_no_write_count
           /\ w.cond = v.cond /\ w.signalled = v.signalled
           /\ w.type = [v.type EXCEPT ![d] =
                           IF @ = TL_WRITE_CONCURRENT_INSERT /\ cs THEN TL_WRITE ELSE @]
<1>1. TL_WRITE \in Types
  BY DEF Types, RequestTypes, WriteTypes
<1>2. CASE v.type[d] = TL_WRITE_CONCURRENT_INSERT /\ cs
  BY <1>1, <1>2 DEF UpgradeInsert, Views
<1>3. CASE ~(v.type[d] = TL_WRITE_CONCURRENT_INSERT /\ cs)
  BY <1>3 DEF UpgradeInsert, Views
<1> QED
  BY <1>2, <1>3

-----------------------------------------------------------------------------
(* What waking waiters does to a view: waiting locks become active, in the *)
(* order of the queues among locks of one type, an insert may become an    *)
(* ordinary write, and the cond that is cleared is signalled.              *)

FairReads(v, w) == \A i, j \in 1 .. Len(v.read_wait) :
    i < j /\ v.type[v.read_wait[i]] = v.type[v.read_wait[j]]
          /\ v.read_wait[i] \in ToSet(w.read_wait) => v.read_wait[j] \in ToSet(w.read_wait)

FairWrites(v, w) == \A i, j \in 1 .. Len(v.write_wait) :
    i < j /\ v.write_wait[i] \in ToSet(w.write_wait) => v.write_wait[j] \in ToSet(w.write_wait)

OrderKept(v, w) ==
    /\ InOrder(w.read_wait, v.read_wait) /\ FairReads(v, w)
    /\ InOrder(w.write_wait, v.write_wait) /\ FairWrites(v, w)

Moves(v, w) ==
    /\ ToSet(v.read) \subseteq ToSet(w.read) /\ ToSet(v.write) \subseteq ToSet(w.write)
    /\ ToSet(w.read_wait) \subseteq ToSet(v.read_wait)
    /\ ToSet(w.write_wait) \subseteq ToSet(v.write_wait)
    /\ ToSet(w.read) \cup ToSet(w.read_wait) = ToSet(v.read) \cup ToSet(v.read_wait)
    /\ ToSet(w.write) \cup ToSet(w.write_wait) = ToSet(v.write) \cup ToSet(v.write_wait)
    /\ v.write_wait = <<>> => w.write = v.write

Retypes(v, w) == \A d \in Data :
    \/ w.type[d] = v.type[d]
    \/ /\ d \in ToSet(v.write) \cup ToSet(v.write_wait)
       /\ v.type[d] = TL_WRITE_CONCURRENT_INSERT /\ w.type[d] = TL_WRITE

Signals(v, w) ==
    /\ v.signalled \subseteq w.signalled
    /\ \A d \in Data :
          \/ w.cond[d] = v.cond[d]
          \/ d \in Que(v) /\ d \in Act(w) /\ d \in w.signalled /\ ~w.cond[d]

Wakes(v, w) ==
    /\ QInv(w) /\ Moves(v, w) /\ Retypes(v, w) /\ Signals(v, w) /\ OrderKept(v, w)

(* Waking nobody is a way of waking.                                       *)
LEMMA WakesReflexive ==
    ASSUME NEW v, QInv(v)
    PROVE  Wakes(v, v)
<1>1. Moves(v, v) /\ Retypes(v, v) /\ Signals(v, v)
  BY DEF Moves, Retypes, Signals
<1>2. OrderKept(v, v)
  <2>1. v.read_wait \in Seq(Data) /\ v.write_wait \in Seq(Data)
    BY DEF QInv, Views
  <2>2. \A i \in 1 .. Len(v.read_wait) : v.read_wait[i] \in ToSet(v.read_wait)
    BY <2>1 DEF ToSet
  <2>3. \A i \in 1 .. Len(v.write_wait) : v.write_wait[i] \in ToSet(v.write_wait)
    BY <2>1 DEF ToSet
  <2> QED
    BY <2>2, <2>3, InOrderReflexive DEF OrderKept, FairReads, FairWrites
<1> QED
  BY <1>1, <1>2 DEF Wakes

(* Two elements of a list that are still in what is left of it. *)
LEMMA StillInOrder ==
    ASSUME NEW s \in Seq(Data), NEW t \in Seq(Data), IsInjective(s), InOrder(t, s),
           NEW i \in 1 .. Len(s), NEW j \in 1 .. Len(s), i < j,
           s[i] \in ToSet(t), s[j] \in ToSet(t)
    PROVE  \E a, b \in 1 .. Len(t) : a < b /\ t[a] = s[i] /\ t[b] = s[j]
<1>1. PICK a \in 1 .. Len(t) : t[a] = s[i]
  BY DEF ToSet
<1>2. PICK b \in 1 .. Len(t) : t[b] = s[j]
  BY DEF ToSet
<1>3. \A x, y \in 1 .. Len(s) : s[x] = s[y] => x = y
  BY DEF IsInjective
<1>4. a # b
  BY <1>1, <1>2, <1>3
<1>5. ~(b < a)
  <2> SUFFICES ASSUME b < a PROVE FALSE
    OBVIOUS
  <2>1. PICK x \in 1 .. Len(s), y \in 1 .. Len(s) : x < y /\ t[b] = s[x] /\ t[a] = s[y]
    BY DEF InOrder
  <2>2. x = j /\ y = i
    BY <1>1, <1>2, <1>3, <2>1
  <2> QED
    BY <2>1, <2>2
<1>6. a < b
  BY <1>4, <1>5
<1> QED
  BY <1>1, <1>2, <1>6

(* Steps of waking one after the other. *)
LEMMA WakesTransitive ==
    ASSUME NEW v, NEW u, NEW w, QInv(v), Wakes(v, u), Wakes(u, w)
    PROVE  Wakes(v, w)
<1>1. v \in Views /\ u \in Views /\ w \in Views /\ Apart(v) /\ Apart(u) /\ Apart(w)
  BY DEF Wakes, QInv
<1>2. Moves(v, w)
  <2>1. v.write_wait = <<>> => w.write = v.write
    <3> SUFFICES ASSUME v.write_wait = <<>> PROVE w.write = v.write
      OBVIOUS
    <3>1. u.write = v.write /\ ToSet(u.write_wait) = {}
      BY EmptyList DEF Wakes, Moves
    <3>2. u.write_wait = <<>>
      BY <1>1, <3>1, EmptyList DEF Views
    <3> QED
      BY <3>1, <3>2 DEF Wakes, Moves
  <2> QED
    BY <2>1 DEF Wakes, Moves
<1>3. Retypes(v, w)
  BY DEF Wakes, Moves, Retypes
<1>4. Signals(v, w)
  <2>1. Act(u) \subseteq Act(w) /\ Que(u) \subseteq Que(v)
    BY DEF Wakes, Moves, Act, Que
  <2> QED
    BY <2>1 DEF Wakes, Signals
<1>5. /\ v.read_wait \in Seq(Data) /\ u.read_wait \in Seq(Data) /\ w.read_wait \in Seq(Data)
      /\ v.write_wait \in Seq(Data) /\ u.write_wait \in Seq(Data) /\ w.write_wait \in Seq(Data)
      /\ IsInjective(v.read_wait) /\ IsInjective(u.read_wait)
      /\ IsInjective(v.write_wait) /\ IsInjective(u.write_wait)
      /\ InOrder(u.read_wait, v.read_wait) /\ InOrder(w.read_wait, u.read_wait)
      /\ InOrder(u.write_wait, v.write_wait) /\ InOrder(w.write_wait, u.write_wait)
      /\ ToSet(w.read_wait) \subseteq ToSet(u.read_wait)
      /\ ToSet(w.write_wait) \subseteq ToSet(u.write_wait)
  BY <1>1 DEF Wakes, OrderKept, Views, Apart, Moves
<1>6. FairReads(v, w)
  <2> SUFFICES ASSUME NEW i \in 1 .. Len(v.read_wait), NEW j \in 1 .. Len(v.read_wait), i < j,
                      v.type[v.read_wait[i]] = v.type[v.read_wait[j]],
                      v.read_wait[i] \in ToSet(w.read_wait)
               PROVE  v.read_wait[j] \in ToSet(w.read_wait)
    BY DEF FairReads
  <2>1. v.read_wait[i] \in ToSet(u.read_wait)
    BY <1>5
  <2>2. v.read_wait[j] \in ToSet(u.read_wait)
    BY <2>1 DEF Wakes, OrderKept, FairReads
  <2>3. PICK a \in 1 .. Len(u.read_wait), b \in 1 .. Len(u.read_wait) :
           a < b /\ u.read_wait[a] = v.read_wait[i] /\ u.read_wait[b] = v.read_wait[j]
    BY <1>5, <2>1, <2>2, StillInOrder
  <2>4. \A k \in 1 .. Len(v.read_wait) : u.type[v.read_wait[k]] = v.type[v.read_wait[k]]
    <3> SUFFICES ASSUME NEW k \in 1 .. Len(v.read_wait)
                 PROVE  u.type[v.read_wait[k]] = v.type[v.read_wait[k]]
      OBVIOUS
    <3>1. v.read_wait[k] \in ToSet(v.read_wait) /\ v.read_wait[k] \in Data
      BY <1>5 DEF ToSet
    <3>2. v.read_wait[k] \notin ToSet(v.write) \cup ToSet(v.write_wait)
      BY <1>1, <3>1 DEF Apart, Act, Que
    <3> QED
      BY <3>1, <3>2 DEF Wakes, Retypes
  <2>5. u.type[u.read_wait[a]] = u.type[u.read_wait[b]]
    BY <2>3, <2>4
  <2>6. FairReads(u, w)
    BY DEF Wakes, OrderKept
  <2> QED
    BY <2>3, <2>5, <2>6 DEF FairReads
<1>7. FairWrites(v, w)
  <2> SUFFICES ASSUME NEW i \in 1 .. Len(v.write_wait), NEW j \in 1 .. Len(v.write_wait), i < j,
                      v.write_wait[i] \in ToSet(w.write_wait)
               PROVE  v.write_wait[j] \in ToSet(w.write_wait)
    BY DEF FairWrites
  <2>1. v.write_wait[i] \in ToSet(u.write_wait)
    BY <1>5
  <2>2. v.write_wait[j] \in ToSet(u.write_wait)
    BY <2>1 DEF Wakes, OrderKept, FairWrites
  <2>3. PICK a \in 1 .. Len(u.write_wait), b \in 1 .. Len(u.write_wait) :
           a < b /\ u.write_wait[a] = v.write_wait[i] /\ u.write_wait[b] = v.write_wait[j]
    <3>1. /\ v.write_wait \in Seq(Data) /\ u.write_wait \in Seq(Data)
          /\ IsInjective(v.write_wait) /\ InOrder(u.write_wait, v.write_wait)
      BY <1>5
    <3> QED
      BY <2>1, <2>2, <3>1, StillInOrder, Zenon
  <2>4. FairWrites(u, w)
    BY DEF Wakes, OrderKept
  <2> QED
    BY <2>3, <2>4 DEF FairWrites
<1>8. OrderKept(v, w)
  BY <1>5, <1>6, <1>7, InOrderTransitive DEF OrderKept
<1> QED
  BY <1>2, <1>3, <1>4, <1>8 DEF Wakes

(* A set of lock instances is finite. *)
LEMMA NoInsertFinite ==
    ASSUME NEW v \in Views
    PROVE  IsFiniteSet(NoInsert(v)) /\ Cardinality(NoInsert(v)) \in 0 .. Cardinality(Data)
<1>1. NoInsert(v) \subseteq Data
  BY EmptyList DEF NoInsert, Views
<1> QED
  BY <1>1, QueueAssumption, FS_Subset, FS_CardinalityType

(* Some of the waiting readers are let in. *)
LEMMA FreeWakes ==
    ASSUME NEW v, QInv(v), NEW using \in BOOLEAN
    PROVE  /\ Wakes(v, free_all_read_locks(v, using))
           /\ ToSet(free_all_read_locks(v, using).read_wait)
                = ToSet(v.read_wait) \cap Stays(v, using)
<1> DEFINE w == free_all_read_locks(v, using)
           T == Stays(v, using)
           freed == Only(v.read_wait, Data \ T)
           kept == Only(v.read_wait, T)
           more == {d \in ToSet(freed) : v.type[d] = TL_READ_NO_INSERT}
<1>1. /\ v \in Views /\ Apart(v) /\ Tagged(v)
      /\ v.read_no_write_count = Cardinality(NoInsert(v))
      /\ v.write_lock_count \in 0 .. MaxWriteLockCount + 1
  BY DEF QInv
<1>2. /\ v.read \in Seq(Data) /\ v.read_wait \in Seq(Data) /\ v.write \in Seq(Data)
      /\ v.write_wait \in Seq(Data)
      /\ IsInjective(v.read) /\ IsInjective(v.read_wait) /\ IsInjective(v.write)
      /\ IsInjective(v.write_wait)
  BY <1>1 DEF Views, Apart
<1>3. /\ w \in Views
      /\ w.read = v.read \o freed /\ w.read_wait = kept
      /\ w.write = v.write /\ w.write_wait = v.write_wait
      /\ w.write_lock_count = IF kept = <<>> THEN 0 ELSE v.write_lock_count
      /\ w.read_no_write_count = v.read_no_write_count + Cardinality(more)
      /\ w.type = v.type
      /\ \A d \in Data : w.cond[d] <=> v.cond[d] /\ d \notin ToSet(freed)
      /\ w.signalled = v.signalled \cup ToSet(freed)
  BY <1>1, FreeFields, Zenon
<1>4. /\ freed \in Seq(Data) /\ kept \in Seq(Data) /\ IsInjective(freed) /\ IsInjective(kept)
      /\ ToSet(freed) = ToSet(v.read_wait) \cap (Data \ T) /\ ToSet(kept) = ToSet(v.read_wait) \cap T
      /\ InOrder(kept, v.read_wait)
  BY <1>2, OnlyProperties
<1>5. ToSet(v.read_wait) \subseteq Data /\ ToSet(v.read) \subseteq Data
      /\ ToSet(v.write) \subseteq Data /\ ToSet(v.write_wait) \subseteq Data
  BY <1>2, EmptyList
<1> HIDE DEF w, freed, kept
<1>6. ToSet(v.read) \cap ToSet(freed) = {}
  BY <1>1, <1>4 DEF Apart, Act, Que
<1>7. ToSet(w.read) = ToSet(v.read) \cup ToSet(freed) /\ IsInjective(w.read)
  BY <1>2, <1>3, <1>4, <1>6, JoinProperties
<1>8. Apart(w)
  BY <1>1, <1>2, <1>3, <1>4, <1>5, <1>7 DEF Apart, Act, Que
<1>9. Tagged(w)
  <2>1. \A d \in Act(w) : ~w.cond[d]
    BY <1>1, <1>3, <1>4, <1>5, <1>7 DEF Tagged, Act, Que
  <2>2. \A d \in Que(w) : w.cond[d]
    <3> SUFFICES ASSUME NEW d \in Que(w) PROVE w.cond[d]
      OBVIOUS
    <3>1. d \in Que(v) /\ d \in Data /\ d \notin ToSet(freed)
      BY <1>1, <1>3, <1>4, <1>5 DEF Apart, Que
    <3> QED
      BY <1>1, <1>3, <3>1 DEF Tagged
  <2>3. \A d \in ToSet(w.read) \cup ToSet(w.read_wait) : w.type[d] \in ReadTypes
    BY <1>1, <1>3, <1>4, <1>7 DEF Tagged
  <2> QED
    BY <1>1, <1>3, <2>1, <2>2, <2>3 DEF Tagged
<1>10. w.read_no_write_count = Cardinality(NoInsert(w))
  <2>1. NoInsert(w) = NoInsert(v) \cup more /\ NoInsert(v) \cap more = {}
    BY <1>3, <1>6, <1>7 DEF NoInsert
  <2>2. IsFiniteSet(more)
    <3>1. more \subseteq Data
      BY <1>4, <1>5
    <3> QED
      BY <3>1, QueueAssumption, FS_Subset
  <2> HIDE DEF more
  <2>3. Cardinality(NoInsert(w)) = Cardinality(NoInsert(v)) + Cardinality(more) - Cardinality({})
    BY <1>1, <2>1, <2>2, NoInsertFinite, FS_Union
  <2>4. Cardinality({}) = 0 /\ Cardinality(NoInsert(v)) \in Nat /\ Cardinality(more) \in Nat
    BY <1>1, <2>2, NoInsertFinite, FS_EmptySet, FS_CardinalityType
  <2> QED
    BY <1>1, <1>3, <2>3, <2>4
<1>11. w.write_lock_count \in 0 .. MaxWriteLockCount + 1
  BY <1>1, <1>3, QueueAssumption
<1>12. Moves(v, w)
  BY <1>3, <1>4, <1>5, <1>7 DEF Moves
<1>13. Retypes(v, w)
  BY <1>3 DEF Retypes
<1>14. Signals(v, w)
  <2> SUFFICES ASSUME NEW d \in Data, w.cond[d] # v.cond[d]
               PROVE  d \in Que(v) /\ d \in Act(w) /\ d \in w.signalled /\ ~w.cond[d]
    BY <1>3 DEF Signals
  <2>1. w.cond[d] \in BOOLEAN /\ v.cond[d] \in BOOLEAN
    BY <1>1, <1>3 DEF Views
  <2>2. d \in ToSet(freed) /\ ~w.cond[d]
    BY <1>3, <2>1
  <2> QED
    BY <1>3, <1>4, <1>7, <2>2 DEF Act, Que
<1>15. OrderKept(v, w)
  <2>1. FairReads(v, w)
    <3> SUFFICES ASSUME NEW i \in 1 .. Len(v.read_wait), NEW j \in 1 .. Len(v.read_wait),
                        v.type[v.read_wait[i]] = v.type[v.read_wait[j]],
                        v.read_wait[i] \in ToSet(kept)
                 PROVE  v.read_wait[j] \in ToSet(kept)
      BY <1>3 DEF FairReads
    <3>1. v.read_wait[j] \in ToSet(v.read_wait) /\ v.read_wait[j] \in Data
      BY <1>2 DEF ToSet
    <3> QED
      BY <1>4, <3>1 DEF Stays
  <2>2. FairWrites(v, w)
    <3>1. \A j \in 1 .. Len(v.write_wait) : v.write_wait[j] \in ToSet(v.write_wait)
      BY <1>2 DEF ToSet
    <3> QED
      BY <1>3, <3>1 DEF FairWrites
  <2> QED
    BY <1>3, <1>4, <2>1, <2>2, InOrderReflexive DEF OrderKept
<1>16. Wakes(v, w)
  BY <1>3, <1>8, <1>9, <1>10, <1>11, <1>12, <1>13, <1>14, <1>15 DEF Wakes, QInv
<1> QED
  BY <1>3, <1>4, <1>16 DEF w

(* The batch at the front of the write queue is started. *)
LEMMA StartWakes ==
    ASSUME NEW v, QInv(v), v.write_wait # <<>>
    PROVE  Wakes(v, StartWrites(v))
<1> DEFINE w == StartWrites(v)
           n == WriteBatch(v)
           batch == SubSeq(v.write_wait, 1, n)
           rest == SubSeq(v.write_wait, n + 1, Len(v.write_wait))
<1>1. /\ v \in Views /\ Apart(v) /\ Tagged(v)
      /\ v.read_no_write_count = Cardinality(NoInsert(v))
      /\ v.write_lock_count \in 0 .. MaxWriteLockCount + 1
  BY DEF QInv
<1>2. /\ v.read \in Seq(Data) /\ v.read_wait \in Seq(Data) /\ v.write \in Seq(Data)
      /\ v.write_wait \in Seq(Data)
      /\ IsInjective(v.read) /\ IsInjective(v.read_wait) /\ IsInjective(v.write)
      /\ IsInjective(v.write_wait)
  BY <1>1 DEF Views, Apart
<1>3. /\ w \in Views
      /\ w.read = v.read /\ w.read_wait = v.read_wait
      /\ w.write = v.write \o batch /\ w.write_wait = rest
      /\ w.write_lock_count = v.write_lock_count
      /\ w.read_no_write_count = v.read_no_write_count
      /\ w.type = v.type
      /\ \A d \in Data : w.cond[d] <=> v.cond[d] /\ d \notin ToSet(batch)
      /\ w.signalled = v.signalled \cup ToSet(batch)
  BY <1>1, <1>2, StartFields, Zenon
<1>4. n \in 0 .. Len(v.write_wait) /\ Len(v.write_wait) \in Nat
  <2>1. n \in 1 .. Len(v.write_wait)
    BY <1>1, BatchSize
  <2> QED
    BY <1>2, <2>1
<1> HIDE DEF w, n
<1>5. /\ batch \in Seq(Data) /\ rest \in Seq(Data) /\ IsInjective(batch) /\ IsInjective(rest)
      /\ ToSet(v.write_wait) = ToSet(batch) \cup ToSet(rest) /\ ToSet(batch) \cap ToSet(rest) = {}
      /\ InOrder(rest, v.write_wait)
      /\ ToSet(rest) = {v.write_wait[i] : i \in (n + 1) .. Len(v.write_wait)}
  <2>1. PICK s : s = v.write_wait
    OBVIOUS
  <2>2. s \in Seq(Data) /\ IsInjective(s) /\ n \in 0 .. Len(s)
    BY <1>2, <1>4, <2>1, Zenon
  <2>3. LET b == SubSeq(s, 1, n)
            c == SubSeq(s, n + 1, Len(s))
        IN  /\ b \in Seq(Data) /\ c \in Seq(Data) /\ IsInjective(b) /\ IsInjective(c)
            /\ ToSet(s) = ToSet(b) \cup ToSet(c) /\ ToSet(b) \cap ToSet(c) = {}
            /\ InOrder(c, s)
            /\ ToSet(c) = {s[i] : i \in (n + 1) .. Len(s)}
    BY <2>2, CutProperties
  <2> QED
    BY <2>1, <2>3, Zenon
<1> HIDE DEF batch, rest
<1>6. ToSet(v.read_wait) \subseteq Data /\ ToSet(v.read) \subseteq Data
      /\ ToSet(v.write) \subseteq Data /\ ToSet(v.write_wait) \subseteq Data
  BY <1>2, EmptyList
<1>7. ToSet(v.write) \cap ToSet(batch) = {}
  BY <1>1, <1>5 DEF Apart, Act, Que
<1>8. ToSet(w.write) = ToSet(v.write) \cup ToSet(batch) /\ IsInjective(w.write)
  BY <1>2, <1>3, <1>5, <1>7, JoinProperties
<1>9. Apart(w)
  BY <1>1, <1>2, <1>3, <1>5, <1>8 DEF Apart, Act, Que
<1>10. Tagged(w)
  <2>1. \A d \in Act(w) : ~w.cond[d]
    BY <1>1, <1>3, <1>5, <1>6, <1>8 DEF Tagged, Act, Que
  <2>2. \A d \in Que(w) : w.cond[d]
    <3> SUFFICES ASSUME NEW d \in Que(w) PROVE w.cond[d]
      OBVIOUS
    <3>1. d \in Que(v) /\ d \in Data /\ d \notin ToSet(batch)
      BY <1>1, <1>3, <1>5, <1>6 DEF Apart, Que
    <3> QED
      BY <1>1, <1>3, <3>1 DEF Tagged
  <2>3. \A d \in ToSet(w.write) \cup ToSet(w.write_wait) : w.type[d] \in WriteTypes
    BY <1>1, <1>3, <1>5, <1>8 DEF Tagged
  <2> QED
    BY <1>1, <1>3, <2>1, <2>2, <2>3 DEF Tagged
<1>11. w.read_no_write_count = Cardinality(NoInsert(w))
  BY <1>1, <1>3 DEF NoInsert
<1>12. Moves(v, w)
  BY <1>3, <1>5, <1>6, <1>8 DEF Moves
<1>13. Retypes(v, w)
  BY <1>3 DEF Retypes
<1>14. Signals(v, w)
  <2> SUFFICES ASSUME NEW d \in Data, w.cond[d] # v.cond[d]
               PROVE  d \in Que(v) /\ d \in Act(w) /\ d \in w.signalled /\ ~w.cond[d]
    BY <1>3 DEF Signals
  <2>1. w.cond[d] \in BOOLEAN /\ v.cond[d] \in BOOLEAN
    BY <1>1, <1>3 DEF Views
  <2>2. d \in ToSet(batch) /\ ~w.cond[d]
    BY <1>3, <2>1
  <2> QED
    BY <1>3, <1>5, <1>8, <2>2 DEF Act, Que
<1>15. OrderKept(v, w)
  <2>1. FairReads(v, w)
    <3>1. \A j \in 1 .. Len(v.read_wait) : v.read_wait[j] \in ToSet(v.read_wait)
      BY <1>2 DEF ToSet
    <3> QED
      BY <1>3, <3>1 DEF FairReads
  <2>2. FairWrites(v, w)
    <3> SUFFICES ASSUME NEW i \in 1 .. Len(v.write_wait), NEW j \in 1 .. Len(v.write_wait),
                        i < j, v.write_wait[i] \in ToSet(rest)
                 PROVE  v.write_wait[j] \in ToSet(rest)
      BY <1>3 DEF FairWrites
    <3>1. PICK k \in (n + 1) .. Len(v.write_wait) : v.write_wait[i] = v.write_wait[k]
      BY <1>5
    <3>2. k = i
      <4>1. k \in 1 .. Len(v.write_wait)
        BY <1>4
      <4> QED
        BY <1>2, <3>1, <4>1 DEF IsInjective
    <3>3. j \in (n + 1) .. Len(v.write_wait)
      BY <1>4, <3>2
    <3> QED
      BY <1>5, <3>3
  <2> QED
    BY <1>3, <1>5, <2>1, <2>2, InOrderReflexive DEF OrderKept
<1>16. Wakes(v, w)
  BY <1>1, <1>3, <1>9, <1>10, <1>11, <1>12, <1>13, <1>14, <1>15 DEF Wakes, QInv
<1> QED
  BY <1>16 DEF w

(* A waiting or just started insert becomes an ordinary write. *)
LEMMA UpgradeWakes ==
    ASSUME NEW v, QInv(v), NEW cs \in BOOLEAN,
           NEW d \in ToSet(v.write) \cup ToSet(v.write_wait)
    PROVE  Wakes(v, UpgradeInsert(v, d, cs))
<1> DEFINE w == UpgradeInsert(v, d, cs)
<1>1. v \in Views /\ Apart(v) /\ Tagged(v) /\ d \in Data /\ v.type \in [Data -> Types]
  BY EmptyList DEF QInv, Views
<1>2. /\ w \in Views
      /\ w.read = v.read /\ w.read_wait = v.read_wait
      /\ w.write = v.write /\ w.write_wait = v.write_wait
      /\ w.write_lock_count = v.write_lock_count
      /\ w.read_no_write_count = v.read_no_write_count
      /\ w.cond = v.cond /\ w.signalled = v.signalled
      /\ w.type = [v.type EXCEPT ![d] =
                     IF @ = TL_WRITE_CONCURRENT_INSERT /\ cs THEN TL_WRITE ELSE @]
  BY <1>1, UpgradeFields
<1> HIDE DEF w
<1>3. \A e \in Data : e # d => w.type[e] = v.type[e]
  BY <1>1, <1>2
<1>4. w.type[d] = v.type[d] \/ (v.type[d] = TL_WRITE_CONCURRENT_INSERT /\ w.type[d] = TL_WRITE)
  BY <1>1, <1>2
<1>5. Retypes(v, w)
  BY <1>3, <1>4 DEF Retypes
<1>6. d \notin ToSet(v.read) \cup ToSet(v.read_wait)
  BY <1>1 DEF Apart, Act, Que
<1>7. ToSet(v.read) \cup ToSet(v.read_wait) \cup ToSet(v.write) \cup ToSet(v.write_wait) \subseteq Data
  BY <1>1, EmptyList DEF Views
<1>8. Tagged(w)
  <2>1. TL_WRITE \in WriteTypes
    BY DEF WriteTypes
  <2> QED
    BY <1>1, <1>2, <1>3, <1>4, <1>6, <1>7, <2>1 DEF Tagged, Act, Que
<1>9. NoInsert(w) = NoInsert(v)
  BY <1>2, <1>3, <1>6, <1>7 DEF NoInsert
<1>10. Apart(w)
  BY <1>1, <1>2 DEF Apart, Act, Que
<1>11. QInv(w)
  BY <1>2, <1>8, <1>9, <1>10 DEF QInv
<1>12. Moves(v, w) /\ Signals(v, w)
  BY <1>2 DEF Moves, Signals
<1>13. OrderKept(v, w)
  BY <1>2, WakesReflexive DEF Wakes, OrderKept, FairReads, FairWrites
<1> QED
  BY <1>5, <1>11, <1>12, <1>13 DEF w, Wakes

(* free_all_read_locks wakes readers, and keeps those that must stay       *)
(* waiting.                                                                *)
LEMMA FreeReadersWakes ==
    ASSUME NEW v, QInv(v), NEW using \in BOOLEAN
    PROVE  /\ Wakes(v, FreeReaders(v, using))
           /\ ToSet(FreeReaders(v, using).read_wait) = ToSet(v.read_wait) \cap Stays(v, using)
<1>1. CASE v.read_wait = <<>>
  BY <1>1, WakesReflexive, EmptyList DEF FreeReaders
<1>2. CASE v.read_wait # <<>>
  BY <1>2, FreeWakes DEF FreeReaders
<1> QED
  BY <1>1, <1>2

(* The view with the count of writes in a row brought up to date. *)
Counted(v) ==
    [v EXCEPT !.write_lock_count = IF v.write_lock_count > MaxWriteLockCount THEN 0 ELSE @ + 1]

(* Counting a write against max_write_lock_count wakes nobody.             *)
LEMMA CountWakes ==
    ASSUME NEW v, QInv(v)
    PROVE  /\ Wakes(v, Counted(v))
           /\ Counted(v).read = v.read /\ Counted(v).read_wait = v.read_wait
           /\ Counted(v).write = v.write /\ Counted(v).write_wait = v.write_wait
           /\ Counted(v).type = v.type
<1> DEFINE n == IF v.write_lock_count > MaxWriteLockCount THEN 0 ELSE v.write_lock_count + 1
           w == [v EXCEPT !.write_lock_count = n]
<1>1. v \in Views /\ Apart(v) /\ Tagged(v) /\ v.read_no_write_count = Cardinality(NoInsert(v))
  BY DEF QInv
<1>2. n \in 0 .. MaxWriteLockCount + 1 /\ n \in Nat
  BY QueueAssumption DEF QInv
<1> HIDE DEF n
<1>3. /\ w \in Views /\ w.write_lock_count = n
      /\ w.read = v.read /\ w.read_wait = v.read_wait
      /\ w.write = v.write /\ w.write_wait = v.write_wait
      /\ w.read_no_write_count = v.read_no_write_count
      /\ w.type = v.type /\ w.cond = v.cond /\ w.signalled = v.signalled
  BY <1>1, <1>2 DEF Views
<1>4. Counted(v) = w
  BY DEF Counted, n
<1> HIDE DEF w
<1>5. QInv(w)
  <2>1. Apart(w) /\ Tagged(w) /\ NoInsert(w) = NoInsert(v)
    BY <1>1, <1>3 DEF Apart, Tagged, NoInsert, Act, Que
  <2> QED
    BY <1>1, <1>2, <1>3, <2>1 DEF QInv
<1>6. Moves(v, w) /\ Signals(v, w) /\ Retypes(v, w)
  BY <1>3 DEF Moves, Signals, Retypes
<1>7. OrderKept(v, w)
  BY <1>3, WakesReflexive DEF Wakes, OrderKept, FairReads, FairWrites
<1> QED
  BY <1>3, <1>4, <1>5, <1>6, <1>7 DEF Wakes

(* The writes of a free lock are started: the head of the queue, perhaps   *)
(* turned into an ordinary write.                                          *)
Started(v, cs) == UpgradeInsert(StartWrites(Counted(v)), Head(v.write_wait), cs)

(* Starting the first waiting write, with its change of type, wakes it.    *)
LEMMA StartedWakes ==
    ASSUME NEW v, QInv(v), NEW cs \in BOOLEAN, v.write_wait # <<>>
    PROVE  Wakes(v, Started(v, cs)) /\ Head(v.write_wait) \in ToSet(v.write_wait)
<1> DEFINE c == Counted(v)
           s == StartWrites(c)
           h == Head(v.write_wait)
<1>1. Wakes(v, c) /\ QInv(c) /\ c.write_wait = v.write_wait
  BY CountWakes DEF Wakes
<1> HIDE DEF c
<1>2. Wakes(c, s) /\ QInv(s)
  BY <1>1, StartWakes DEF Wakes
<1> HIDE DEF s
<1>3. Wakes(v, s)
  BY <1>1, <1>2, WakesTransitive
<1>4. h \in ToSet(v.write_wait)
  BY EmptyList DEF QInv, Views
<1>5. h \in ToSet(s.write) \cup ToSet(s.write_wait)
  BY <1>3, <1>4 DEF Wakes, Moves
<1> HIDE DEF h
<1>6. Wakes(s, UpgradeInsert(s, h, cs))
  BY <1>2, <1>5, UpgradeWakes
<1>7. Wakes(v, UpgradeInsert(s, h, cs))
  BY <1>3, <1>6, WakesTransitive
<1> QED
  BY <1>4, <1>7 DEF Started, s, c, h

(* wake_up_waiters of a free lock only wakes.                              *)
LEMMA WakeFreeWakes ==
    ASSUME NEW v, QInv(v), NEW cs \in BOOLEAN
    PROVE  Wakes(v, WakeFree(v, cs))
<1> DEFINE using == Started(v, cs).type[Head(v.write_wait)] \in InsertTypes
<1>1. CASE ~WriteGoesFirst(v)
  <2>1. WakeFree(v, cs) = FreeReaders(v, FALSE)
    BY <1>1 DEF WakeFree
  <2> QED
    BY <2>1, FreeReadersWakes
<1>2. CASE WriteGoesFirst(v)
  <2>1. v.write_wait # <<>>
    BY <1>2 DEF WriteGoesFirst
  <2>2. WakeFree(v, cs) = free_all_read_locks(Counted(v), FALSE)
        \/ WakeFree(v, cs) = Started(v, cs) \/ WakeFree(v, cs) = FreeReaders(Started(v, cs), using)
    BY <1>2 DEF WakeFree, Counted, Started
  <2>3. using \in BOOLEAN
    OBVIOUS
  <2> HIDE DEF using
  <2>4. CASE WakeFree(v, cs) = free_all_read_locks(Counted(v), FALSE)
    <3>1. Wakes(v, Counted(v)) /\ QInv(Counted(v))
      BY CountWakes DEF Wakes
    <3> QED
      BY <2>4, <3>1, FreeWakes, WakesTransitive
  <2>5. Wakes(v, Started(v, cs)) /\ QInv(Started(v, cs))
    BY <2>1, StartedWakes DEF Wakes
  <2>6. CASE WakeFree(v, cs) = FreeReaders(Started(v, cs), using)
    BY <2>3, <2>5, <2>6, FreeReadersWakes, WakesTransitive
  <2> QED
    BY <2>2, <2>4, <2>5, <2>6
<1> QED
  BY <1>1, <1>2

(* wake_up_waiters of a lock that is being read only wakes.                *)
LEMMA WakeReadingWakes ==
    ASSUME NEW v, QInv(v), NEW cs \in BOOLEAN
    PROVE  Wakes(v, WakeReading(v, cs))
<1> DEFINE h == Head(v.write_wait)
           using == v.type[h] \in InsertTypes
<1>1. CASE v.write_wait = <<>>
  BY <1>1, FreeReadersWakes DEF WakeReading
<1>2. CASE v.write_wait # <<>>
  <2>1. \/ WakeReading(v, cs) = v
        \/ WakeReading(v, cs) = FreeReaders(UpgradeInsert(v, h, cs), FALSE)
        \/ WakeReading(v, cs) = FreeReaders(StartWrites(v), using)
    BY <1>2 DEF WakeReading
  <2>2. h \in ToSet(v.write) \cup ToSet(v.write_wait)
    BY <1>2, EmptyList DEF QInv, Views
  <2>3. using \in BOOLEAN
    OBVIOUS
  <2> HIDE DEF using, h
  <2>4. Wakes(v, UpgradeInsert(v, h, cs)) /\ QInv(UpgradeInsert(v, h, cs))
    BY <2>2, UpgradeWakes DEF Wakes
  <2>5. Wakes(v, StartWrites(v)) /\ QInv(StartWrites(v))
    BY <1>2, StartWakes DEF Wakes
  <2>6. CASE WakeReading(v, cs) = FreeReaders(UpgradeInsert(v, h, cs), FALSE)
    BY <2>4, <2>6, FreeReadersWakes, WakesTransitive
  <2>7. CASE WakeReading(v, cs) = FreeReaders(StartWrites(v), using)
    BY <2>3, <2>5, <2>7, FreeReadersWakes, WakesTransitive
  <2> QED
    BY <2>1, <2>6, <2>7, WakesReflexive
<1> QED
  BY <1>1, <1>2

(* wake_up_waiters keeps the lists in order and signals whom it wakes.     *)
LEMMA WakeUp ==
    ASSUME NEW v, QInv(v), NEW cs \in BOOLEAN
    PROVE  Wakes(v, wake_up_waiters(v, cs))
BY WakesReflexive, WakeFreeWakes, WakeReadingWakes DEF wake_up_waiters

-----------------------------------------------------------------------------
(* What an operation on a lock does to the instances it is not about (the  *)
(* ones that are not in X), and to the order of the queues.                *)

On(v) == Act(v) \cup Que(v)

Carried(v, w, d) ==
    /\ d \in Act(v) => d \in Act(w)
    /\ d \in Que(v) => d \in On(w) \/ w.type[d] = TL_UNLOCK
    /\ d \notin On(v) => d \notin On(w) /\ w.type[d] = v.type[d] /\ w.cond[d] = v.cond[d]
    /\ d \in On(w) => \/ w.type[d] = v.type[d]
                      \/ v.type[d] \in WriteTypes /\ w.type[d] \in WriteTypes
    /\ w.cond[d] = v.cond[d] \/ (~w.cond[d] /\ d \in w.signalled)

Carries(v, w, X) == QInv(w) /\ \A d \in Data \ X : Carried(v, w, d)

(* What is left of a queue is in the same order. *)
SameOrder(old, new) == \A i, j \in 1 .. Len(old) :
    i < j /\ old[i] \in ToSet(new) /\ old[j] \in ToSet(new) =>
        \E a, b \in 1 .. Len(new) : a < b /\ new[a] = old[i] /\ new[b] = old[j]

Requeues(v, w) ==
    /\ SameOrder(v.read_wait, w.read_wait) /\ SameOrder(v.write_wait, w.write_wait)
    /\ ToSet(v.read_wait) \cap On(w) \subseteq ToSet(w.read_wait)
    /\ ToSet(v.write_wait) \cap On(w) \subseteq ToSet(w.write_wait)

(* QueuesInOrder for one queue of a lock. *)
Served(old, new, active, tp) == \A i, j \in 1 .. Len(old) : i < j /\ old[i] \in ToSet(new) =>
    /\ tp[old[i]] = tp[old[j]] => old[j] \notin active
    /\ \A m \in 1 .. Len(new) : new[m] = old[j] => old[i] \in {new[n] : n \in 1 .. m}

InTurn(v, w) ==
    /\ Served(v.read_wait, w.read_wait, Act(w), v.type)
    /\ Served(v.write_wait, w.write_wait, Act(w), v.type)

(* The part of Served that is about the order. *)
LEMMA OrderServed ==
    ASSUME NEW old \in Seq(Data), NEW new \in Seq(Data), IsInjective(new), SameOrder(old, new),
           NEW i \in 1 .. Len(old), NEW j \in 1 .. Len(old), i < j, old[i] \in ToSet(new),
           NEW m \in 1 .. Len(new), new[m] = old[j]
    PROVE  old[i] \in {new[n] : n \in 1 .. m}
<1>1. old[j] \in ToSet(new)
  BY DEF ToSet
<1>2. PICK a \in 1 .. Len(new), b \in 1 .. Len(new) : a < b /\ new[a] = old[i] /\ new[b] = old[j]
  BY <1>1 DEF SameOrder
<1>3. b = m
  BY <1>2 DEF IsInjective
<1>4. a \in 1 .. m
  BY <1>2, <1>3
<1> QED
  BY <1>2, <1>4

(* What only adds to a queue or takes from it keeps the turns.             *)
LEMMA RequeuesInTurn ==
    ASSUME NEW v, NEW w, QInv(v), QInv(w), Requeues(v, w)
    PROVE  InTurn(v, w)
<1>1. /\ v.read_wait \in Seq(Data) /\ w.read_wait \in Seq(Data) /\ IsInjective(w.read_wait)
      /\ v.write_wait \in Seq(Data) /\ w.write_wait \in Seq(Data) /\ IsInjective(w.write_wait)
      /\ Act(w) \cap Que(w) = {}
  BY DEF QInv, Views, Apart
<1>2. Served(v.read_wait, w.read_wait, Act(w), v.type)
  <2>1. ASSUME NEW j \in 1 .. Len(v.read_wait) PROVE v.read_wait[j] \notin Act(w)
    <3>1. v.read_wait[j] \in ToSet(v.read_wait)
      BY <1>1 DEF ToSet
    <3> QED
      BY <1>1, <3>1 DEF Requeues, On, Que
  <2> QED
    BY <1>1, <2>1, OrderServed DEF Served, Requeues
<1>3. Served(v.write_wait, w.write_wait, Act(w), v.type)
  <2>1. ASSUME NEW j \in 1 .. Len(v.write_wait) PROVE v.write_wait[j] \notin Act(w)
    <3>1. v.write_wait[j] \in ToSet(v.write_wait)
      BY <1>1 DEF ToSet
    <3> QED
      BY <1>1, <3>1 DEF Requeues, On, Que
  <2> QED
    BY <1>1, <2>1, OrderServed DEF Served, Requeues
<1> QED
  BY <1>2, <1>3 DEF InTurn

(* Removing from a queue keeps its order. *)
LEMMA InOrderSame ==
    ASSUME NEW s \in Seq(Data), NEW t \in Seq(Data), IsInjective(s), InOrder(t, s)
    PROVE  SameOrder(s, t)
BY StillInOrder DEF SameOrder

(* Two steps that keep the order of a list keep it together, if what is    *)
(* left at the end was there in between.                                   *)
LEMMA SameOrderTransitive ==
    ASSUME NEW s \in Seq(Data), NEW t \in Seq(Data), NEW u \in Seq(Data),
           SameOrder(s, t), SameOrder(t, u), ToSet(u) \cap ToSet(s) \subseteq ToSet(t)
    PROVE  SameOrder(s, u)
<1> SUFFICES ASSUME NEW i \in 1 .. Len(s), NEW j \in 1 .. Len(s), i < j,
                    s[i] \in ToSet(u), s[j] \in ToSet(u)
             PROVE  \E a, b \in 1 .. Len(u) : a < b /\ u[a] = s[i] /\ u[b] = s[j]
  BY DEF SameOrder
<1>1. s[i] \in ToSet(t) /\ s[j] \in ToSet(t)
  <2>1. s[i] \in ToSet(s) /\ s[j] \in ToSet(s)
    BY DEF ToSet
  <2> QED
    BY <2>1
<1>2. PICK a \in 1 .. Len(t), b \in 1 .. Len(t) : a < b /\ t[a] = s[i] /\ t[b] = s[j]
  BY <1>1 DEF SameOrder
<1> QED
  BY <1>2 DEF SameOrder

(* An operation that edits the lists and then wakes waiters. *)
LEMMA EditThenWake ==
    ASSUME NEW v, NEW u, NEW w, NEW X, QInv(v), Carries(v, u, X), Wakes(u, w)
    PROVE  Carries(v, w, X)
<1>1. QInv(u) /\ QInv(w) /\ Moves(u, w) /\ Retypes(u, w) /\ Signals(u, w)
  BY DEF Carries, Wakes
<1> SUFFICES ASSUME NEW d \in Data \ X PROVE Carried(v, w, d)
  BY <1>1 DEF Carries
<1>2. Carried(v, u, d)
  BY DEF Carries
<1>3. Act(u) \subseteq Act(w) /\ On(w) = On(u) /\ Que(w) \subseteq Que(u)
  BY <1>1 DEF Moves, Act, Que, On
<1>4. /\ d \in Act(v) => d \in Act(w)
      /\ d \in On(u) => d \in On(w)
  BY <1>2, <1>3 DEF Carried
<1>5. d \notin On(u) => w.type[d] = u.type[d] /\ w.cond[d] = u.cond[d]
  BY <1>1 DEF Retypes, Signals, On, Act, Que
<1>6. d \in Que(v) => d \in On(w) \/ w.type[d] = TL_UNLOCK
  BY <1>2, <1>4, <1>5 DEF Carried
<1>7. d \notin On(v) => d \notin On(w) /\ w.type[d] = v.type[d] /\ w.cond[d] = v.cond[d]
  BY <1>2, <1>3, <1>5 DEF Carried
<1>8. d \in On(w) => \/ w.type[d] = v.type[d]
                     \/ v.type[d] \in WriteTypes /\ w.type[d] \in WriteTypes
  <2>1. w.type[d] = u.type[d]
        \/ (u.type[d] = TL_WRITE_CONCURRENT_INSERT /\ w.type[d] = TL_WRITE)
    BY <1>1 DEF Retypes
  <2>2. TL_WRITE_CONCURRENT_INSERT \in WriteTypes /\ TL_WRITE \in WriteTypes
    BY DEF WriteTypes
  <2> QED
    BY <1>2, <1>3, <2>1, <2>2 DEF Carried
<1>9. w.cond[d] = v.cond[d] \/ (~w.cond[d] /\ d \in w.signalled)
  BY <1>1, <1>2 DEF Signals, Carried
<1> QED
  BY <1>4, <1>6, <1>7, <1>8, <1>9 DEF Carried

(* Taking out of a queue and then waking from it keeps the turns.          *)
LEMMA RequeueThenWake ==
    ASSUME NEW v, NEW u, NEW w, QInv(v), QInv(u), Requeues(v, u), Wakes(u, w),
           \A d \in Que(v) \cap On(u) : u.type[d] = v.type[d]
    PROVE  InTurn(v, w)
<1>1. QInv(w) /\ Moves(u, w) /\ OrderKept(u, w)
  BY DEF Wakes
<1>2. /\ v.read_wait \in Seq(Data) /\ u.read_wait \in Seq(Data) /\ w.read_wait \in Seq(Data)
      /\ v.write_wait \in Seq(Data) /\ u.write_wait \in Seq(Data) /\ w.write_wait \in Seq(Data)
      /\ IsInjective(u.read_wait) /\ IsInjective(u.write_wait)
      /\ IsInjective(w.read_wait) /\ IsInjective(w.write_wait)
      /\ Act(w) \cap Que(w) = {} /\ Act(u) \cap Que(u) = {}
  BY <1>1 DEF QInv, Views, Apart
<1>3. /\ ToSet(w.read_wait) \subseteq ToSet(u.read_wait)
      /\ ToSet(w.write_wait) \subseteq ToSet(u.write_wait)
      /\ On(w) = On(u)
  BY <1>1 DEF Moves, On, Act, Que
<1>4. SameOrder(v.read_wait, w.read_wait) /\ SameOrder(v.write_wait, w.write_wait)
  BY <1>1, <1>2, <1>3, InOrderSame, SameOrderTransitive DEF OrderKept, Requeues
<1>5. ASSUME NEW i \in 1 .. Len(v.read_wait), NEW j \in 1 .. Len(v.read_wait), i < j,
             v.read_wait[i] \in ToSet(w.read_wait),
             v.type[v.read_wait[i]] = v.type[v.read_wait[j]]
      PROVE  v.read_wait[j] \notin Act(w)
  <2> SUFFICES ASSUME v.read_wait[j] \in Act(w) PROVE FALSE
    OBVIOUS
  <2>1. v.read_wait[i] \in ToSet(v.read_wait) /\ v.read_wait[j] \in ToSet(v.read_wait)
    BY <1>2 DEF ToSet
  <2>2. v.read_wait[i] \in ToSet(u.read_wait) /\ v.read_wait[j] \in ToSet(u.read_wait)
    BY <1>3, <1>5, <2>1 DEF Requeues, On, Act
  <2>3. PICK a \in 1 .. Len(u.read_wait), b \in 1 .. Len(u.read_wait) :
           a < b /\ u.read_wait[a] = v.read_wait[i] /\ u.read_wait[b] = v.read_wait[j]
    BY <1>5, <2>2 DEF Requeues, SameOrder
  <2>4. u.type[v.read_wait[i]] = u.type[v.read_wait[j]]
    <3>1. /\ v.read_wait[i] \in Que(v) \cap On(u) /\ v.read_wait[j] \in Que(v) \cap On(u)
      BY <2>1, <2>2 DEF Que, On
    <3> QED
      BY <1>5, <3>1
  <2>5. v.read_wait[j] \in ToSet(w.read_wait)
    BY <1>1, <1>5, <2>3, <2>4 DEF OrderKept, FairReads
  <2> QED
    BY <1>2, <2>5 DEF Que
<1>6. ASSUME NEW i \in 1 .. Len(v.write_wait), NEW j \in 1 .. Len(v.write_wait), i < j,
             v.write_wait[i] \in ToSet(w.write_wait)
      PROVE  v.write_wait[j] \notin Act(w)
  <2> SUFFICES ASSUME v.write_wait[j] \in Act(w) PROVE FALSE
    OBVIOUS
  <2>1. v.write_wait[i] \in ToSet(v.write_wait) /\ v.write_wait[j] \in ToSet(v.write_wait)
    BY <1>2 DEF ToSet
  <2>2. v.write_wait[i] \in ToSet(u.write_wait) /\ v.write_wait[j] \in ToSet(u.write_wait)
    BY <1>3, <1>6, <2>1 DEF Requeues, On, Act
  <2>3. PICK a \in 1 .. Len(u.write_wait), b \in 1 .. Len(u.write_wait) :
           a < b /\ u.write_wait[a] = v.write_wait[i] /\ u.write_wait[b] = v.write_wait[j]
    BY <1>6, <2>2 DEF Requeues, SameOrder
  <2>4. v.write_wait[j] \in ToSet(w.write_wait)
    BY <1>1, <1>6, <2>3 DEF OrderKept, FairWrites
  <2> QED
    BY <1>2, <2>4 DEF Que
<1> QED
  BY <1>2, <1>4, <1>5, <1>6, OrderServed DEF InTurn, Served

-----------------------------------------------------------------------------
(* The edits of the lists.                                                 *)

(* A list has its own order.                                               *)
LEMMA SameOrderReflexive ==
    ASSUME NEW s \in Seq(Data)
    PROVE  SameOrder(s, s)
BY DEF SameOrder

(* The lists are left alone. *)
LEMMA SameLists ==
    ASSUME NEW v, NEW w, QInv(v),
           w.read = v.read, w.read_wait = v.read_wait, w.write = v.write,
           w.write_wait = v.write_wait
    PROVE  /\ Requeues(v, w) /\ Act(w) = Act(v) /\ Que(w) = Que(v) /\ On(w) = On(v)
           /\ Apart(w)
<1>1. v.read_wait \in Seq(Data) /\ v.write_wait \in Seq(Data) /\ Apart(v)
  BY DEF QInv, Views
<1>2. Act(w) = Act(v) /\ Que(w) = Que(v) /\ On(w) = On(v)
  BY DEF Act, Que, On
<1>3. Apart(w)
  BY <1>1, <1>2 DEF Apart
<1>4. SameOrder(v.read_wait, w.read_wait) /\ SameOrder(v.write_wait, w.write_wait)
  BY <1>1, SameOrderReflexive
<1>5. /\ ToSet(v.read_wait) \subseteq ToSet(w.read_wait)
      /\ ToSet(v.write_wait) \subseteq ToSet(w.write_wait)
  OBVIOUS
<1>6. Requeues(v, w)
  BY <1>4, <1>5 DEF Requeues
<1> QED
  BY <1>2, <1>3, <1>6

(* Type and cond of an instance that is in no list. *)
Cleared(v, x, t) == [v EXCEPT !.type[x] = t, !.cond[x] = FALSE]

(* thr_lock's first assignments concern an instance that is in no list,    *)
(* and leave the lists.                                                    *)
LEMMA SetOff ==
    ASSUME NEW v, QInv(v), NEW x \in Data, x \notin On(v), NEW t \in Types
    PROVE  LET w == Cleared(v, x, t) IN
           /\ Carries(v, w, {x}) /\ Requeues(v, w)
           /\ w.read = v.read /\ w.read_wait = v.read_wait
           /\ w.write = v.write /\ w.write_wait = v.write_wait
           /\ w.type[x] = t /\ ~w.cond[x] /\ w.signalled = v.signalled
           /\ w.read_no_write_count = v.read_no_write_count
           /\ \A d \in Data \ {x} : w.type[d] = v.type[d] /\ w.cond[d] = v.cond[d]
<1> DEFINE w == Cleared(v, x, t)
<1>1. /\ v \in Views /\ v.type \in [Data -> Types] /\ v.cond \in [Data -> BOOLEAN]
      /\ Apart(v) /\ Tagged(v) /\ v.read_no_write_count = Cardinality(NoInsert(v))
      /\ v.write_lock_count \in 0 .. MaxWriteLockCount + 1
  BY DEF QInv, Views
<1>2. /\ w \in Views
      /\ w.read = v.read /\ w.read_wait = v.read_wait
      /\ w.write = v.write /\ w.write_wait = v.write_wait
      /\ w.write_lock_count = v.write_lock_count
      /\ w.read_no_write_count = v.read_no_write_count
      /\ w.type[x] = t /\ ~w.cond[x] /\ w.signalled = v.signalled
      /\ \A d \in Data \ {x} : w.type[d] = v.type[d] /\ w.cond[d] = v.cond[d]
  BY <1>1 DEF Views, Cleared
<1> HIDE DEF w
<1>3. Requeues(v, w) /\ Act(w) = Act(v) /\ Que(w) = Que(v) /\ On(w) = On(v) /\ Apart(w)
  BY <1>2, SameLists
<1>4. On(v) \subseteq Data \ {x}
  BY <1>1, EmptyList DEF Views, On, Act, Que
<1>5. Tagged(w)
  BY <1>1, <1>2, <1>3, <1>4 DEF Tagged, On, Act, Que
<1>6. NoInsert(w) = NoInsert(v)
  BY <1>2, <1>4 DEF NoInsert, On, Act
<1>7. QInv(w)
  BY <1>1, <1>2, <1>3, <1>5, <1>6 DEF QInv
<1>8. Carries(v, w, {x})
  BY <1>2, <1>3, <1>7 DEF Carries, Carried, On
<1> QED
  BY <1>2, <1>3, <1>8 DEF w

(* Cond and type of a lock that is given up or unlocked, which is taken    *)
(* out of its list.                                                        *)
Removed(v, x) == [Unlink(v, x) EXCEPT !.type[x] = TL_UNLOCK]

Unlocked(v, x) ==
    [Unlink(v, x) EXCEPT
        !.type[x] = TL_UNLOCK,
        !.read_no_write_count = IF v.type[x] = TL_READ_NO_INSERT THEN @ - 1 ELSE @]

(* The lists without x. *)
Without(v, w, x) ==
    /\ ToSet(w.read) = ToSet(v.read) \ {x} /\ ToSet(w.read_wait) = ToSet(v.read_wait) \ {x}
    /\ ToSet(w.write) = ToSet(v.write) \ {x} /\ ToSet(w.write_wait) = ToSet(v.write_wait) \ {x}

(* What Unlink leaves of the lists: the others, in their order.            *)
LEMMA UnlinkLists ==
    ASSUME NEW v, QInv(v), NEW x \in Data
    PROVE  LET w == Unlink(v, x) IN
           /\ w \in Views /\ Without(v, w, x) /\ Apart(w) /\ Requeues(v, w)
           /\ InOrder(w.write_wait, v.write_wait)
           /\ w.write_lock_count = v.write_lock_count
           /\ w.read_no_write_count = v.read_no_write_count
           /\ w.type = v.type /\ w.cond = v.cond /\ w.signalled = v.signalled
           /\ Act(w) = Act(v) \ {x} /\ Que(w) = Que(v) \ {x} /\ On(w) = On(v) \ {x}
<1> DEFINE w == Unlink(v, x)
<1>1. v \in Views /\ Apart(v)
  BY DEF QInv
<1>2. /\ v.read \in Seq(Data) /\ v.read_wait \in Seq(Data) /\ v.write \in Seq(Data)
      /\ v.write_wait \in Seq(Data)
      /\ IsInjective(v.read) /\ IsInjective(v.read_wait) /\ IsInjective(v.write)
      /\ IsInjective(v.write_wait)
  BY <1>1 DEF Views, Apart
<1>3. /\ w \in Views
      /\ w.read = Only(v.read, Data \ {x}) /\ w.read_wait = Only(v.read_wait, Data \ {x})
      /\ w.write = Only(v.write, Data \ {x}) /\ w.write_wait = Only(v.write_wait, Data \ {x})
      /\ w.write_lock_count = v.write_lock_count
      /\ w.read_no_write_count = v.read_no_write_count
      /\ w.type = v.type /\ w.cond = v.cond /\ w.signalled = v.signalled
  BY <1>1, UnlinkFields, Zenon
<1> HIDE DEF w
<1>4. ToSet(v.read) \subseteq Data /\ ToSet(v.read_wait) \subseteq Data
      /\ ToSet(v.write) \subseteq Data /\ ToSet(v.write_wait) \subseteq Data
  BY <1>2, EmptyList
<1>5. /\ IsInjective(w.read) /\ IsInjective(w.read_wait) /\ IsInjective(w.write)
      /\ IsInjective(w.write_wait)
      /\ InOrder(w.read_wait, v.read_wait) /\ InOrder(w.write_wait, v.write_wait)
      /\ w.read_wait \in Seq(Data) /\ w.write_wait \in Seq(Data)
  BY <1>2, <1>3, OnlyProperties
<1>6. /\ ToSet(w.read) = ToSet(v.read) \cap (Data \ {x})
      /\ ToSet(w.read_wait) = ToSet(v.read_wait) \cap (Data \ {x})
      /\ ToSet(w.write) = ToSet(v.write) \cap (Data \ {x})
      /\ ToSet(w.write_wait) = ToSet(v.write_wait) \cap (Data \ {x})
  <2>1. ASSUME NEW s \in Seq(Data)
        PROVE  ToSet(Only(s, Data \ {x})) = ToSet(s) \cap (Data \ {x})
    BY OnlyProperties
  <2> QED
    BY <1>2, <1>3, <2>1, Zenon
<1>7. Without(v, w, x)
  BY <1>4, <1>6 DEF Without
<1>8. Act(w) = Act(v) \ {x} /\ Que(w) = Que(v) \ {x} /\ On(w) = On(v) \ {x}
  BY <1>7 DEF Without, Act, Que, On
<1>9. Apart(w)
  BY <1>1, <1>5, <1>7, <1>8 DEF Apart, Without
<1>10. Requeues(v, w)
  <2>1. SameOrder(v.read_wait, w.read_wait) /\ SameOrder(v.write_wait, w.write_wait)
    BY <1>2, <1>5, InOrderSame
  <2> QED
    BY <1>7, <1>8, <2>1 DEF Requeues, Without
<1> QED
  BY <1>3, <1>5, <1>7, <1>8, <1>9, <1>10 DEF w

(* The first half of thr_unlock takes its instance out of its list and     *)
(* keeps the view well formed, the count of TL_READ_NO_INSERT included.    *)
LEMMA UnlockedOK ==
    ASSUME NEW v, QInv(v), NEW x \in Data,
           x \in Act(v) \/ (x \in Que(v) /\ v.type[x] # TL_READ_NO_INSERT)
    PROVE  LET w == Unlocked(v, x) IN
           /\ Carries(v, w, {x}) /\ Requeues(v, w) /\ Without(v, w, x)
           /\ On(w) = On(v) \ {x} /\ w.type[x] = TL_UNLOCK
           /\ \A d \in Data \ {x} : w.type[d] = v.type[d]
<1> DEFINE u == Unlink(v, x)
           n == IF v.type[x] = TL_READ_NO_INSERT THEN v.read_no_write_count - 1
                                                 ELSE v.read_no_write_count
           w == [u EXCEPT !.type[x] = TL_UNLOCK, !.read_no_write_count = n]
<1>1. /\ v \in Views /\ v.type \in [Data -> Types] /\ v.cond \in [Data -> BOOLEAN]
      /\ Apart(v) /\ Tagged(v) /\ v.read_no_write_count = Cardinality(NoInsert(v))
      /\ v.write_lock_count \in 0 .. MaxWriteLockCount + 1 /\ v.read_no_write_count \in Int
  BY DEF QInv, Views
<1>2. /\ u \in Views /\ Without(v, u, x) /\ Apart(u) /\ Requeues(v, u)
      /\ u.write_lock_count = v.write_lock_count
      /\ u.read_no_write_count = v.read_no_write_count
      /\ u.type = v.type /\ u.cond = v.cond /\ u.signalled = v.signalled
      /\ Act(u) = Act(v) \ {x} /\ Que(u) = Que(v) \ {x} /\ On(u) = On(v) \ {x}
  BY UnlinkLists, Zenon
<1>3. Unlocked(v, x) = w
  BY <1>2 DEF Unlocked
<1>4. n \in Int /\ TL_UNLOCK \in Types
  BY <1>1 DEF Types
<1> HIDE DEF u, n
<1>5. /\ w \in Views
      /\ w.read = u.read /\ w.read_wait = u.read_wait
      /\ w.write = u.write /\ w.write_wait = u.write_wait
      /\ w.write_lock_count = u.write_lock_count /\ w.read_no_write_count = n
      /\ w.type[x] = TL_UNLOCK /\ w.cond = u.cond /\ w.signalled = u.signalled
      /\ \A d \in Data \ {x} : w.type[d] = u.type[d]
  BY <1>2, <1>4 DEF Views
<1> HIDE DEF w
<1>6. /\ Requeues(v, w) /\ Without(v, w, x) /\ Apart(w)
      /\ Act(w) = Act(v) \ {x} /\ Que(w) = Que(v) \ {x} /\ On(w) = On(v) \ {x}
  BY <1>2, <1>5 DEF Requeues, Without, Apart, Act, Que, On
<1>7. On(v) \subseteq Data
  BY <1>1, EmptyList DEF Views, On, Act, Que
<1>8. Tagged(w)
  BY <1>1, <1>2, <1>5, <1>6, <1>7 DEF Tagged, Without, On, Act, Que
<1>9. w.read_no_write_count = Cardinality(NoInsert(w))
  <2>1. NoInsert(w) = NoInsert(v) \ {x}
    BY <1>2, <1>5, <1>6, <1>7 DEF NoInsert, Without, On, Act
  <2>2. CASE v.type[x] = TL_READ_NO_INSERT
    <3>1. x \in NoInsert(v)
      <4>1. TL_READ_NO_INSERT \notin WriteTypes
        BY DEF WriteTypes, TL_READ_NO_INSERT, TL_WRITE_ALLOW_WRITE, TL_WRITE_ALLOW_READ,
               TL_WRITE_CONCURRENT_INSERT, TL_WRITE_DELAYED, TL_WRITE_LOW_PRIORITY, TL_WRITE,
               TL_WRITE_ONLY
      <4> QED
        BY <1>1, <2>2, <4>1 DEF NoInsert, Act, Tagged
    <3>2. IsFiniteSet(NoInsert(v)) /\ Cardinality(NoInsert(v)) \in Nat
      BY <1>1, NoInsertFinite, FS_CardinalityType
    <3>3. Cardinality(NoInsert(v) \ {x}) = Cardinality(NoInsert(v)) - 1
      BY <3>1, <3>2, FS_RemoveElement
    <3> QED
      BY <1>1, <1>5, <2>1, <2>2, <3>3 DEF n
  <2>3. CASE v.type[x] # TL_READ_NO_INSERT
    <3>1. NoInsert(w) = NoInsert(v)
      BY <2>1, <2>3 DEF NoInsert
    <3> QED
      BY <1>1, <1>5, <2>3, <3>1 DEF n
  <2> QED
    BY <2>2, <2>3
<1>10. QInv(w)
  BY <1>1, <1>2, <1>5, <1>6, <1>8, <1>9 DEF QInv
<1>11. Carries(v, w, {x})
  BY <1>2, <1>5, <1>6, <1>10 DEF Carries, Carried, Without, On
<1> QED
  BY <1>2, <1>3, <1>5, <1>6, <1>11

(* Taking a waiting instance out after a timeout or a kill keeps the view  *)
(* well formed.                                                            *)
LEMMA RemovedOK ==
    ASSUME NEW v, QInv(v), NEW x \in Data, x \notin Act(v)
    PROVE  LET w == Removed(v, x) IN
           /\ Carries(v, w, {x}) /\ Requeues(v, w) /\ Without(v, w, x)
           /\ On(w) = On(v) \ {x} /\ w.type[x] = TL_UNLOCK
           /\ \A d \in Data \ {x} : w.type[d] = v.type[d]
<1> DEFINE u == Unlink(v, x)
           w == [u EXCEPT !.type[x] = TL_UNLOCK]
<1>1. /\ v \in Views /\ v.type \in [Data -> Types] /\ v.cond \in [Data -> BOOLEAN]
      /\ Apart(v) /\ Tagged(v) /\ v.read_no_write_count = Cardinality(NoInsert(v))
      /\ v.write_lock_count \in 0 .. MaxWriteLockCount + 1
  BY DEF QInv, Views
<1>2. /\ u \in Views /\ Without(v, u, x) /\ Apart(u) /\ Requeues(v, u)
      /\ u.write_lock_count = v.write_lock_count
      /\ u.read_no_write_count = v.read_no_write_count
      /\ u.type = v.type /\ u.cond = v.cond /\ u.signalled = v.signalled
      /\ Act(u) = Act(v) \ {x} /\ Que(u) = Que(v) \ {x} /\ On(u) = On(v) \ {x}
  BY UnlinkLists, Zenon
<1>3. Removed(v, x) = w
  BY DEF Removed
<1>4. TL_UNLOCK \in Types
  BY DEF Types
<1> HIDE DEF u
<1>5. /\ w \in Views
      /\ w.read = u.read /\ w.read_wait = u.read_wait
      /\ w.write = u.write /\ w.write_wait = u.write_wait
      /\ w.write_lock_count = u.write_lock_count
      /\ w.read_no_write_count = u.read_no_write_count
      /\ w.type[x] = TL_UNLOCK /\ w.cond = u.cond /\ w.signalled = u.signalled
      /\ \A d \in Data \ {x} : w.type[d] = u.type[d]
  BY <1>2, <1>4 DEF Views
<1> HIDE DEF w
<1>6. /\ Requeues(v, w) /\ Without(v, w, x) /\ Apart(w)
      /\ Act(w) = Act(v) \ {x} /\ Que(w) = Que(v) \ {x} /\ On(w) = On(v) \ {x}
  BY <1>2, <1>5 DEF Requeues, Without, Apart, Act, Que, On
<1>7. On(v) \subseteq Data
  BY <1>1, EmptyList DEF Views, On, Act, Que
<1>8. Tagged(w)
  BY <1>1, <1>2, <1>5, <1>6, <1>7 DEF Tagged, Without, On, Act, Que
<1>9. NoInsert(w) = NoInsert(v)
  BY <1>2, <1>5, <1>6, <1>7 DEF NoInsert, Without, On, Act
<1>10. QInv(w)
  BY <1>1, <1>2, <1>5, <1>6, <1>8, <1>9 DEF QInv
<1>11. Carries(v, w, {x})
  BY <1>2, <1>5, <1>6, <1>10 DEF Carries, Carried, Without, On
<1> QED
  BY <1>2, <1>3, <1>5, <1>6, <1>11

(* A new lock is granted: it goes to the end of an active list. *)
LEMMA AddReadOK ==
    ASSUME NEW v, QInv(v), NEW x \in Data, x \notin On(v), v.type[x] \in ReadTypes, ~v.cond[x]
    PROVE  LET w == AddRead(v, x) IN
           /\ Carries(v, w, {x}) /\ Requeues(v, w)
           /\ ToSet(w.read) = ToSet(v.read) \cup {x} /\ w.read_wait = v.read_wait
           /\ w.write = v.write /\ w.write_wait = v.write_wait
           /\ w.type = v.type /\ w.cond = v.cond /\ w.signalled = v.signalled
<1> DEFINE r == Append(v.read, x)
           n == IF v.type[x] = TL_READ_NO_INSERT THEN v.read_no_write_count + 1
                                                 ELSE v.read_no_write_count
           w == [v EXCEPT !.read = r, !.read_no_write_count = n]
<1>1. /\ v \in Views /\ v.read \in Seq(Data) /\ v.read_no_write_count \in Int
      /\ Apart(v) /\ Tagged(v) /\ v.read_no_write_count = Cardinality(NoInsert(v))
      /\ v.write_lock_count \in 0 .. MaxWriteLockCount + 1
      /\ v.read_wait \in Seq(Data) /\ v.write_wait \in Seq(Data)
  BY DEF QInv, Views
<1>2. r \in Seq(Data) /\ IsInjective(r) /\ ToSet(r) = ToSet(v.read) \cup {x}
  BY <1>1, PushProperties DEF Apart, On, Act
<1>3. n \in Int
  BY <1>1
<1>4. AddRead(v, x) = w
  BY DEF AddRead
<1> HIDE DEF r, n
<1>5. /\ w \in Views
      /\ w.read = r /\ w.read_wait = v.read_wait
      /\ w.write = v.write /\ w.write_wait = v.write_wait
      /\ w.write_lock_count = v.write_lock_count /\ w.read_no_write_count = n
      /\ w.type = v.type /\ w.cond = v.cond /\ w.signalled = v.signalled
  BY <1>1, <1>2, <1>3 DEF Views
<1> HIDE DEF w
<1>6. Act(w) = Act(v) \cup {x} /\ Que(w) = Que(v) /\ On(w) = On(v) \cup {x}
  BY <1>2, <1>5 DEF Act, Que, On
<1>7. Apart(w)
  BY <1>1, <1>2, <1>5, <1>6 DEF Apart, On, Act, Que
<1>8. Tagged(w)
  BY <1>1, <1>2, <1>5, <1>6 DEF Tagged
<1>9. w.read_no_write_count = Cardinality(NoInsert(w))
  <2>1. IsFiniteSet(NoInsert(v)) /\ Cardinality(NoInsert(v)) \in Nat
    BY <1>1, NoInsertFinite, FS_CardinalityType
  <2>2. CASE v.type[x] = TL_READ_NO_INSERT
    <3>1. NoInsert(w) = NoInsert(v) \cup {x} /\ x \notin NoInsert(v)
      BY <1>2, <1>5, <2>2 DEF NoInsert, On, Act
    <3>2. Cardinality(NoInsert(v) \cup {x}) = Cardinality(NoInsert(v)) + 1
      BY <2>1, <3>1, FS_AddElement
    <3> QED
      BY <1>1, <1>5, <2>2, <3>1, <3>2 DEF n
  <2>3. CASE v.type[x] # TL_READ_NO_INSERT
    <3>1. NoInsert(w) = NoInsert(v)
      BY <1>2, <1>5, <2>3 DEF NoInsert
    <3> QED
      BY <1>1, <1>5, <2>3, <3>1 DEF n
  <2> QED
    BY <2>2, <2>3
<1>10. QInv(w)
  BY <1>1, <1>5, <1>7, <1>8, <1>9 DEF QInv
<1>11. Carries(v, w, {x})
  BY <1>5, <1>6, <1>10 DEF Carries, Carried, On
<1>12. Requeues(v, w)
  BY <1>1, <1>5, SameOrderReflexive DEF Requeues
<1> QED
  BY <1>2, <1>4, <1>5, <1>11, <1>12

(* A write that is granted is added to the writes.                         *)
LEMMA AddWriteOK ==
    ASSUME NEW v, QInv(v), NEW x \in Data, x \notin On(v), v.type[x] \in WriteTypes, ~v.cond[x]
    PROVE  LET w == AddWrite(v, x) IN
           /\ Carries(v, w, {x}) /\ Requeues(v, w)
           /\ ToSet(w.write) = ToSet(v.write) \cup {x} /\ w.write_wait = v.write_wait
           /\ w.read = v.read /\ w.read_wait = v.read_wait
           /\ w.type = v.type /\ w.cond = v.cond /\ w.signalled = v.signalled
           /\ w.write = Append(v.write, x)
<1> DEFINE r == Append(v.write, x)
           w == [v EXCEPT !.write = r]
<1>1. /\ v \in Views /\ v.write \in Seq(Data)
      /\ Apart(v) /\ Tagged(v) /\ v.read_no_write_count = Cardinality(NoInsert(v))
      /\ v.write_lock_count \in 0 .. MaxWriteLockCount + 1
      /\ v.read_wait \in Seq(Data) /\ v.write_wait \in Seq(Data)
  BY DEF QInv, Views
<1>2. r \in Seq(Data) /\ IsInjective(r) /\ ToSet(r) = ToSet(v.write) \cup {x}
  BY <1>1, PushProperties DEF Apart, On, Act
<1>3. AddWrite(v, x) = w
  BY DEF AddWrite
<1> HIDE DEF r
<1>4. /\ w \in Views
      /\ w.read = v.read /\ w.read_wait = v.read_wait
      /\ w.write = r /\ w.write_wait = v.write_wait
      /\ w.write_lock_count = v.write_lock_count
      /\ w.read_no_write_count = v.read_no_write_count
      /\ w.type = v.type /\ w.cond = v.cond /\ w.signalled = v.signalled
  BY <1>1, <1>2 DEF Views
<1> HIDE DEF w
<1>5. Act(w) = Act(v) \cup {x} /\ Que(w) = Que(v) /\ On(w) = On(v) \cup {x}
  BY <1>2, <1>4 DEF Act, Que, On
<1>6. Apart(w)
  BY <1>1, <1>2, <1>4, <1>5 DEF Apart, On, Act, Que
<1>7. Tagged(w)
  BY <1>1, <1>2, <1>4, <1>5 DEF Tagged
<1>8. NoInsert(w) = NoInsert(v)
  BY <1>4 DEF NoInsert
<1>9. QInv(w)
  BY <1>1, <1>4, <1>6, <1>7, <1>8 DEF QInv
<1>10. Carries(v, w, {x})
  BY <1>4, <1>5, <1>9 DEF Carries, Carried, On
<1>11. Requeues(v, w)
  BY <1>1, <1>4, SameOrderReflexive DEF Requeues
<1> QED
  BY <1>2, <1>3, <1>4, <1>10, <1>11 DEF r

(* A request that is not granted goes to the end of a queue. *)
QueueRead(v, x) == [v EXCEPT !["read_wait"] = Append(@, x), !.cond[x] = TRUE]

(* A read that must wait is added to the end of its queue.                 *)
LEMMA QueueReadOK ==
    ASSUME NEW v, QInv(v), NEW x \in Data, x \notin On(v), v.type[x] \in ReadTypes
    PROVE  LET w == QueueRead(v, x) IN
           /\ Carries(v, w, {x}) /\ Requeues(v, w)
           /\ ToSet(w.read_wait) = ToSet(v.read_wait) \cup {x} /\ w.write_wait = v.write_wait
           /\ w.read = v.read /\ w.write = v.write
           /\ w.type = v.type /\ w.signalled = v.signalled
           /\ w.read_wait = Append(v.read_wait, x)
<1> DEFINE r == Append(v.read_wait, x)
           w == [v EXCEPT !["read_wait"] = r, !.cond[x] = TRUE]
<1>1. /\ v \in Views /\ v.read_wait \in Seq(Data) /\ v.write_wait \in Seq(Data)
      /\ Apart(v) /\ Tagged(v) /\ v.read_no_write_count = Cardinality(NoInsert(v))
      /\ v.write_lock_count \in 0 .. MaxWriteLockCount + 1 /\ v.cond \in [Data -> BOOLEAN]
  BY DEF QInv, Views
<1>2. r \in Seq(Data) /\ IsInjective(r) /\ ToSet(r) = ToSet(v.read_wait) \cup {x}
  BY <1>1, PushProperties DEF Apart, On, Que
<1>3. SameOrder(v.read_wait, r)
  <2>1. \A i \in 1 .. Len(v.read_wait) : i \in 1 .. Len(r) /\ r[i] = v.read_wait[i]
    BY <1>1
  <2> HIDE DEF r, w
  <2> QED
    BY <2>1 DEF SameOrder
<1> HIDE DEF r
<1>4. /\ w \in Views
      /\ w.read = v.read /\ w.write_wait = v.write_wait
      /\ w.write = v.write /\ w.read_wait = r
      /\ w.write_lock_count = v.write_lock_count
      /\ w.read_no_write_count = v.read_no_write_count
      /\ w.type = v.type /\ w.signalled = v.signalled
      /\ w.cond[x] = TRUE /\ \A d \in Data \ {x} : w.cond[d] = v.cond[d]
  BY <1>1, <1>2 DEF Views
<1> HIDE DEF w
<1>5. Act(w) = Act(v) /\ Que(w) = Que(v) \cup {x} /\ On(w) = On(v) \cup {x}
  BY <1>2, <1>4 DEF Act, Que, On
<1>6. Apart(w)
  BY <1>1, <1>2, <1>4, <1>5 DEF Apart, On, Act, Que
<1>7. On(v) \subseteq Data \ {x}
  BY <1>1, EmptyList DEF Views, On, Act, Que
<1>8. Tagged(w)
  BY <1>1, <1>2, <1>4, <1>5, <1>7 DEF Tagged, On
<1>9. NoInsert(w) = NoInsert(v)
  BY <1>4 DEF NoInsert
<1>10. QInv(w)
  BY <1>1, <1>4, <1>6, <1>8, <1>9 DEF QInv
<1>11. Carries(v, w, {x})
  BY <1>4, <1>5, <1>10 DEF Carries, Carried, On
<1>12. Requeues(v, w)
  BY <1>1, <1>2, <1>3, <1>4, SameOrderReflexive DEF Requeues
<1> QED
  BY <1>2, <1>4, <1>11, <1>12 DEF w, r, QueueRead

QueueWrite(v, x) == [v EXCEPT !["write_wait"] = Append(@, x), !.cond[x] = TRUE]

(* A write that must wait is added to the end of its queue.                *)
LEMMA QueueWriteOK ==
    ASSUME NEW v, QInv(v), NEW x \in Data, x \notin On(v), v.type[x] \in WriteTypes
    PROVE  LET w == QueueWrite(v, x) IN
           /\ Carries(v, w, {x}) /\ Requeues(v, w)
           /\ ToSet(w.write_wait) = ToSet(v.write_wait) \cup {x} /\ w.read_wait = v.read_wait
           /\ w.read = v.read /\ w.write = v.write
           /\ w.type = v.type /\ w.signalled = v.signalled
           /\ w.write_wait = Append(v.write_wait, x)
<1> DEFINE r == Append(v.write_wait, x)
           w == [v EXCEPT !["write_wait"] = r, !.cond[x] = TRUE]
<1>1. /\ v \in Views /\ v.read_wait \in Seq(Data) /\ v.write_wait \in Seq(Data)
      /\ Apart(v) /\ Tagged(v) /\ v.read_no_write_count = Cardinality(NoInsert(v))
      /\ v.write_lock_count \in 0 .. MaxWriteLockCount + 1 /\ v.cond \in [Data -> BOOLEAN]
  BY DEF QInv, Views
<1>2. r \in Seq(Data) /\ IsInjective(r) /\ ToSet(r) = ToSet(v.write_wait) \cup {x}
  BY <1>1, PushProperties DEF Apart, On, Que
<1>3. SameOrder(v.write_wait, r)
  BY <1>1 DEF SameOrder
<1> HIDE DEF r
<1>4. /\ w \in Views
      /\ w.read = v.read /\ w.read_wait = v.read_wait
      /\ w.write = v.write /\ w.write_wait = r
      /\ w.write_lock_count = v.write_lock_count
      /\ w.read_no_write_count = v.read_no_write_count
      /\ w.type = v.type /\ w.signalled = v.signalled
      /\ w.cond[x] = TRUE /\ \A d \in Data \ {x} : w.cond[d] = v.cond[d]
  BY <1>1, <1>2 DEF Views
<1> HIDE DEF w
<1>5. Act(w) = Act(v) /\ Que(w) = Que(v) \cup {x} /\ On(w) = On(v) \cup {x}
  BY <1>2, <1>4 DEF Act, Que, On
<1>6. Apart(w)
  BY <1>1, <1>2, <1>4, <1>5 DEF Apart, On, Act, Que
<1>7. On(v) \subseteq Data \ {x}
  BY <1>1, EmptyList DEF Views, On, Act, Que
<1>8. Tagged(w)
  BY <1>1, <1>2, <1>4, <1>5, <1>7 DEF Tagged, On
<1>9. NoInsert(w) = NoInsert(v)
  BY <1>4 DEF NoInsert
<1>10. QInv(w)
  BY <1>1, <1>4, <1>6, <1>8, <1>9 DEF QInv
<1>11. Carries(v, w, {x})
  BY <1>4, <1>5, <1>10 DEF Carries, Carried, On
<1>12. Requeues(v, w)
  BY <1>1, <1>2, <1>3, <1>4, SameOrderReflexive DEF Requeues
<1> QED
  BY <1>2, <1>4, <1>11, <1>12 DEF w, r, QueueWrite

(* The type of a write lock that is in a list changes. *)
Retyped(v, x, t) == [v EXCEPT !.type[x] = t]

(* A write may change its type to another of the write types.              *)
LEMMA RetypeOK ==
    ASSUME NEW v, QInv(v), NEW x \in ToSet(v.write) \cup ToSet(v.write_wait), NEW t \in WriteTypes
    PROVE  LET w == Retyped(v, x, t) IN
           /\ Carries(v, w, {x}) /\ Requeues(v, w)
           /\ w.read = v.read /\ w.read_wait = v.read_wait
           /\ w.write = v.write /\ w.write_wait = v.write_wait
           /\ w.type[x] = t /\ w.cond = v.cond /\ w.signalled = v.signalled
           /\ \A d \in Data \ {x} : w.type[d] = v.type[d]
<1> DEFINE w == Retyped(v, x, t)
<1>1. /\ v \in Views /\ v.type \in [Data -> Types]
      /\ Apart(v) /\ Tagged(v) /\ v.read_no_write_count = Cardinality(NoInsert(v))
      /\ v.write_lock_count \in 0 .. MaxWriteLockCount + 1
  BY DEF QInv, Views
<1>2. t \in Types
  BY DEF Types, RequestTypes
<1>3. x \in Data
  BY <1>1, EmptyList DEF Views
<1>4. /\ w \in Views
      /\ w.read = v.read /\ w.read_wait = v.read_wait
      /\ w.write = v.write /\ w.write_wait = v.write_wait
      /\ w.write_lock_count = v.write_lock_count
      /\ w.read_no_write_count = v.read_no_write_count
      /\ w.type[x] = t /\ w.cond = v.cond /\ w.signalled = v.signalled
      /\ \A d \in Data \ {x} : w.type[d] = v.type[d]
  BY <1>1, <1>2, <1>3 DEF Views, Retyped
<1> HIDE DEF w
<1>5. Requeues(v, w) /\ Act(w) = Act(v) /\ Que(w) = Que(v) /\ On(w) = On(v) /\ Apart(w)
  BY <1>4, SameLists
<1>6. On(v) \subseteq Data /\ x \notin ToSet(v.read) \cup ToSet(v.read_wait)
  BY <1>1, EmptyList DEF Views, Apart, On, Act, Que
<1>7. Tagged(w)
  BY <1>1, <1>4, <1>5, <1>6 DEF Tagged, On, Act, Que
<1>8. NoInsert(w) = NoInsert(v)
  BY <1>4, <1>6 DEF NoInsert, On, Act
<1>9. QInv(w)
  BY <1>1, <1>4, <1>5, <1>7, <1>8 DEF QInv
<1>10. Carries(v, w, {x})
  BY <1>4, <1>5, <1>9 DEF Carries, Carried, On
<1> QED
  BY <1>4, <1>5, <1>10 DEF w

(* An active write lock goes back to the front of the queue. *)
LEMMA FrontOrder ==
    ASSUME NEW s \in Seq(Data), NEW t \in Seq(Data), NEW x \in Data, SameOrder(s, t),
           x \notin ToSet(s)
    PROVE  SameOrder(s, <<x>> \o t)
<1> DEFINE u == <<x>> \o t
<1>1. /\ Len(t) \in Nat /\ Len(u) = Len(t) + 1 /\ DOMAIN u = 1 .. Len(t) + 1
      /\ u[1] = x /\ \A i \in 1 .. Len(t) : u[i + 1] = t[i]
  OBVIOUS
<1>2. ToSet(u) = {x} \cup ToSet(t)
  <2> DEFINE y == <<x>>
  <2>1. y \in Seq(Data) /\ ToSet(y) = {x}
    BY DEF ToSet
  <2> HIDE DEF y
  <2>2. ToSet(y \o t) = ToSet(y) \cup ToSet(t)
    BY <2>1, JoinProperties
  <2> QED
    BY <2>1, <2>2 DEF y
<1> HIDE DEF u
<1> SUFFICES ASSUME NEW i \in 1 .. Len(s), NEW j \in 1 .. Len(s), i < j,
                    s[i] \in ToSet(u), s[j] \in ToSet(u)
             PROVE  \E a, b \in 1 .. Len(u) : a < b /\ u[a] = s[i] /\ u[b] = s[j]
  BY DEF SameOrder, u
<1>3. s[i] \in ToSet(t) /\ s[j] \in ToSet(t)
  <2>1. s[i] \in ToSet(s) /\ s[j] \in ToSet(s)
    BY DEF ToSet
  <2> QED
    BY <1>2, <2>1
<1>4. PICK a \in 1 .. Len(t), b \in 1 .. Len(t) : a < b /\ t[a] = s[i] /\ t[b] = s[j]
  BY <1>3 DEF SameOrder
<1>5. a + 1 \in 1 .. Len(u) /\ b + 1 \in 1 .. Len(u) /\ a + 1 < b + 1
      /\ u[a + 1] = s[i] /\ u[b + 1] = s[j]
  BY <1>1, <1>4
<1> QED
  BY <1>5

SteppedBack(v, x) == [ToFront(v, x) EXCEPT !.cond[x] = TRUE]

(* A write that steps back leaves the writes for the front of the queue of *)
(* writes.                                                                 *)
LEMMA ToFrontOK ==
    ASSUME NEW v, QInv(v), NEW x \in ToSet(v.write)
    PROVE  LET w == SteppedBack(v, x) IN
           /\ Carries(v, w, {x}) /\ Requeues(v, w)
           /\ w.read = Only(v.read, Data \ {x}) /\ ToSet(w.read) = ToSet(v.read)
           /\ ToSet(w.read_wait) = ToSet(v.read_wait)
           /\ ToSet(w.write) = ToSet(v.write) \ {x}
           /\ ToSet(w.write_wait) = ToSet(v.write_wait) \cup {x}
           /\ w.type = v.type
<1> DEFINE u == Unlink(v, x)
           r == <<x>> \o u.write_wait
           w == [u EXCEPT !.write_wait = r, !.cond[x] = TRUE]
<1>1. /\ v \in Views /\ v.write_wait \in Seq(Data) /\ x \in Data
      /\ Apart(v) /\ Tagged(v) /\ v.read_no_write_count = Cardinality(NoInsert(v))
      /\ v.write_lock_count \in 0 .. MaxWriteLockCount + 1 /\ v.cond \in [Data -> BOOLEAN]
  BY EmptyList DEF QInv, Views
<1>2. /\ u \in Views /\ Without(v, u, x) /\ Apart(u) /\ Requeues(v, u)
      /\ InOrder(u.write_wait, v.write_wait)
      /\ u.write_lock_count = v.write_lock_count
      /\ u.read_no_write_count = v.read_no_write_count
      /\ u.type = v.type /\ u.cond = v.cond /\ u.signalled = v.signalled
      /\ Act(u) = Act(v) \ {x} /\ Que(u) = Que(v) \ {x} /\ On(u) = On(v) \ {x}
  BY <1>1, UnlinkLists, Zenon
<1>3. u.read = Only(v.read, Data \ {x})
  BY <1>1, UnlinkFields
<1>4. SteppedBack(v, x) = w
  <2>1. ToFront(v, x) = [u EXCEPT !.write_wait = r]
    BY DEF ToFront
  <2> HIDE DEF u, r
  <2> QED
    BY <1>2, <2>1 DEF Views, SteppedBack
<1> HIDE DEF u
<1>5. x \notin Que(v) /\ x \notin ToSet(v.read)
  BY <1>1 DEF Apart, Act, Que
<1>6. r \in Seq(Data) /\ IsInjective(r) /\ ToSet(r) = {x} \cup ToSet(u.write_wait)
  <2> DEFINE y == <<x>>
  <2>1. y \in Seq(Data) /\ ToSet(y) = {x} /\ IsInjective(y)
    BY <1>1 DEF ToSet, IsInjective
  <2>2. u.write_wait \in Seq(Data) /\ IsInjective(u.write_wait) /\ x \notin ToSet(u.write_wait)
    BY <1>2 DEF Views, Apart, Without
  <2> HIDE DEF y
  <2>3. /\ y \o u.write_wait \in Seq(Data) /\ IsInjective(y \o u.write_wait)
        /\ ToSet(y \o u.write_wait) = ToSet(y) \cup ToSet(u.write_wait)
    BY <2>1, <2>2, JoinProperties
  <2> QED
    BY <2>1, <2>3, Zenon DEF y
<1>7. SameOrder(v.write_wait, r)
  BY <1>1, <1>2, <1>5, FrontOrder DEF Requeues, Views, Que
<1> HIDE DEF r
<1>8. /\ w \in Views
      /\ w.read = u.read /\ w.read_wait = u.read_wait
      /\ w.write = u.write /\ w.write_wait = r
      /\ w.write_lock_count = u.write_lock_count
      /\ w.read_no_write_count = u.read_no_write_count
      /\ w.type = u.type /\ w.signalled = u.signalled
      /\ w.cond[x] = TRUE /\ \A d \in Data \ {x} : w.cond[d] = u.cond[d]
  BY <1>1, <1>2, <1>6 DEF Views
<1> HIDE DEF w
<1>9. /\ ToSet(w.read) = ToSet(v.read) /\ ToSet(w.read_wait) = ToSet(v.read_wait)
      /\ ToSet(w.write) = ToSet(v.write) \ {x}
      /\ ToSet(w.write_wait) = ToSet(v.write_wait) \cup {x}
  <2>1. /\ ToSet(u.read) = ToSet(v.read) \ {x} /\ ToSet(u.read_wait) = ToSet(v.read_wait) \ {x}
        /\ ToSet(u.write) = ToSet(v.write) \ {x} /\ ToSet(u.write_wait) = ToSet(v.write_wait) \ {x}
    BY <1>2 DEF Without
  <2>2. x \notin ToSet(v.read) /\ x \notin ToSet(v.read_wait) /\ x \notin ToSet(v.write_wait)
    BY <1>5 DEF Que
  <2>3. /\ ToSet(w.read) = ToSet(u.read) /\ ToSet(w.read_wait) = ToSet(u.read_wait)
        /\ ToSet(w.write) = ToSet(u.write) /\ ToSet(w.write_wait) = {x} \cup ToSet(u.write_wait)
    BY <1>6, <1>8, Zenon
  <2> QED
    BY <2>1, <2>2, <2>3
<1>10. Act(w) = Act(v) \ {x} /\ Que(w) = Que(v) \cup {x} /\ On(w) = On(v)
  BY <1>5, <1>9 DEF Act, Que, On
<1>11. Apart(w)
  BY <1>1, <1>2, <1>5, <1>6, <1>8, <1>9, <1>10 DEF Apart, Act, Que
<1>12. On(v) \subseteq Data
  BY <1>1, EmptyList DEF Views, On, Act, Que
<1>13. Tagged(w)
  BY <1>1, <1>2, <1>8, <1>9, <1>10, <1>12 DEF Tagged, On
<1>14. NoInsert(w) = NoInsert(v)
  BY <1>2, <1>8, <1>9 DEF NoInsert
<1>15. QInv(w)
  BY <1>1, <1>2, <1>8, <1>11, <1>13, <1>14 DEF QInv
<1>16. Carries(v, w, {x})
  BY <1>2, <1>8, <1>9, <1>10, <1>15 DEF Carries, Carried, On
<1>17. Requeues(v, w)
  BY <1>2, <1>7, <1>8, <1>9 DEF Requeues
<1> QED
  BY <1>2, <1>3, <1>4, <1>8, <1>9, <1>16, <1>17

(* Some waiting locks are aborted. *)
Dropped(v, ds) ==
    Release([v EXCEPT !.read_wait = Only(@, Data \ ds), !.write_wait = Only(@, Data \ ds),
                !.type = [d \in Data |-> IF d \in ds THEN TL_UNLOCK ELSE @[d]]], ds)

(* Aborting waiters takes them out of the queues and disturbs nobody else. *)
LEMMA DroppedOK ==
    ASSUME NEW v, QInv(v), NEW ds, ds \subseteq Que(v)
    PROVE  LET w == Dropped(v, ds) IN
           /\ Carries(v, w, {}) /\ Requeues(v, w) /\ w.write = v.write /\ w.read = v.read
           /\ ToSet(w.read_wait) = ToSet(v.read_wait) \ ds
           /\ ToSet(w.write_wait) = ToSet(v.write_wait) \ ds
           /\ On(w) = On(v) \ ds
           /\ \A d \in Data : d \notin ds => w.type[d] = v.type[d]
<1> DEFINE a == Only(v.read_wait, Data \ ds)
           b == Only(v.write_wait, Data \ ds)
           f == [d \in Data |-> IF d \in ds THEN TL_UNLOCK ELSE v.type[d]]
           u == [v EXCEPT !.read_wait = a, !.write_wait = b, !.type = f]
           w == Release(u, ds)
<1>1. /\ v \in Views /\ v.read_wait \in Seq(Data) /\ v.write_wait \in Seq(Data)
      /\ v.type \in [Data -> Types] /\ v.cond \in [Data -> BOOLEAN]
      /\ Apart(v) /\ Tagged(v) /\ v.read_no_write_count = Cardinality(NoInsert(v))
      /\ v.write_lock_count \in 0 .. MaxWriteLockCount + 1
  BY DEF QInv, Views
<1>2. /\ a \in Seq(Data) /\ IsInjective(a) /\ ToSet(a) = ToSet(v.read_wait) \cap (Data \ ds)
      /\ b \in Seq(Data) /\ IsInjective(b) /\ ToSet(b) = ToSet(v.write_wait) \cap (Data \ ds)
      /\ InOrder(a, v.read_wait) /\ InOrder(b, v.write_wait)
  BY <1>1, OnlyProperties DEF Apart
<1>3. f \in [Data -> Types] /\ \A d \in Data : f[d] = IF d \in ds THEN TL_UNLOCK ELSE v.type[d]
  BY <1>1 DEF Types
<1>4. Dropped(v, ds) = w
  BY DEF Dropped
<1> HIDE DEF a, b, f
<1>5. /\ u \in Views
      /\ u.read = v.read /\ u.read_wait = a /\ u.write = v.write /\ u.write_wait = b
      /\ u.write_lock_count = v.write_lock_count
      /\ u.read_no_write_count = v.read_no_write_count
      /\ u.type = f /\ u.cond = v.cond /\ u.signalled = v.signalled
  BY <1>1, <1>2, <1>3 DEF Views
<1> HIDE DEF u
<1>6. ds \subseteq Data /\ On(v) \subseteq Data
  BY <1>1, EmptyList DEF Views, Que, On, Act
<1>7. /\ w \in Views
      /\ w.read = v.read /\ w.read_wait = a /\ w.write = v.write /\ w.write_wait = b
      /\ w.write_lock_count = v.write_lock_count
      /\ w.read_no_write_count = v.read_no_write_count
      /\ w.type = f
      /\ \A d \in Data : w.cond[d] <=> v.cond[d] /\ d \notin ds
      /\ w.signalled = v.signalled \cup ds
  BY <1>5, <1>6, ReleaseFields
<1> HIDE DEF w
<1>8. /\ ToSet(w.read_wait) = ToSet(v.read_wait) \ ds
      /\ ToSet(w.write_wait) = ToSet(v.write_wait) \ ds
  BY <1>2, <1>6, <1>7 DEF On, Que
<1>9. Act(w) = Act(v) /\ Que(w) = Que(v) \ ds /\ On(w) = On(v) \ ds
  BY <1>1, <1>7, <1>8 DEF Act, Que, On, Apart
<1>10. Apart(w)
  BY <1>1, <1>2, <1>7, <1>8, <1>9 DEF Apart
<1>11. Tagged(w)
  BY <1>1, <1>3, <1>6, <1>7, <1>8, <1>9 DEF Tagged, Apart, On, Act, Que
<1>12. NoInsert(w) = NoInsert(v)
  BY <1>1, <1>3, <1>6, <1>7 DEF NoInsert, Apart, On, Act, Que
<1>13. QInv(w)
  BY <1>1, <1>7, <1>10, <1>11, <1>12 DEF QInv
<1>14. ASSUME NEW d \in Data PROVE Carried(v, w, d)
  <2>1. w.cond[d] \in BOOLEAN /\ v.cond[d] \in BOOLEAN
    BY <1>1, <1>7 DEF Views
  <2>2. w.cond[d] = v.cond[d] \/ (~w.cond[d] /\ d \in w.signalled)
    BY <1>7, <2>1
  <2>3. d \notin ds => w.cond[d] = v.cond[d] /\ w.type[d] = v.type[d]
    BY <1>3, <1>7, <2>1
  <2>4. d \in ds => w.type[d] = TL_UNLOCK
    BY <1>3, <1>7
  <2> QED
    BY <1>7, <1>9, <2>2, <2>3, <2>4 DEF Carried, On
<1>15. Carries(v, w, {})
  BY <1>13, <1>14 DEF Carries
<1>16. Requeues(v, w)
  <2>1. SameOrder(v.read_wait, w.read_wait) /\ SameOrder(v.write_wait, w.write_wait)
    BY <1>1, <1>2, <1>7, InOrderSame DEF Apart
  <2> QED
    BY <1>8, <1>9, <2>1 DEF Requeues
<1> QED
  BY <1>3, <1>4, <1>6, <1>7, <1>8, <1>9, <1>15, <1>16

(* thr_abort_locks drops all that wait. *)
LEMMA AbortAllDrops ==
    ASSUME NEW v, QInv(v)
    PROVE  AbortAll(v) = Dropped(v, Que(v))
<1>1. v.read_wait \in Seq(Data) /\ v.write_wait \in Seq(Data)
  BY DEF QInv, Views
<1>2. /\ Only(v.read_wait, Data \ Que(v)) \in Seq(Data)
      /\ Only(v.write_wait, Data \ Que(v)) \in Seq(Data)
      /\ ToSet(Only(v.read_wait, Data \ Que(v))) = {}
      /\ ToSet(Only(v.write_wait, Data \ Que(v))) = {}
  BY <1>1, OnlyProperties DEF Que
<1>3. Only(v.read_wait, Data \ Que(v)) = <<>> /\ Only(v.write_wait, Data \ Que(v)) = <<>>
  BY <1>2, EmptyList
<1> QED
  BY <1>3 DEF AbortAll, Dropped, Que

-----------------------------------------------------------------------------
(* The same for states: an operation on one lock and the instances and     *)
(* owners that it is not about.                                            *)

Kept(d, gone) ==
    /\ d \in Active(LockOf[d]) => d \in Active(LockOf[d])'
    /\ d \in Queued(LockOf[d]) => Linked(d)' \/ type'[d] = TL_UNLOCK
    /\ ~Linked(d) => ~Linked(d)' /\ type'[d] = type[d]
    /\ Linked(d)' => \/ type'[d] = type[d]
                     \/ type[d] \in WriteTypes /\ type'[d] \in WriteTypes
    /\ \/ cond'[d] = cond[d]
       \/ ~cond'[d] /\ (Waiting(OwnerOf[d]) => OwnerOf[d] \in awake' \cup gone)

(* The view of a lock is its lists with the shared fields of the           *)
(* instances.                                                              *)
LEMMA ViewOf ==
    ASSUME NEW l
    PROVE  /\ View(l).read = lists[l].read /\ View(l).read_wait = lists[l].read_wait
           /\ View(l).write = lists[l].write /\ View(l).write_wait = lists[l].write_wait
           /\ View(l).write_lock_count = lists[l].write_lock_count
           /\ View(l).read_no_write_count = lists[l].read_no_write_count
           /\ View(l).type = type /\ View(l).cond = cond /\ View(l).signalled = {}
           /\ Act(View(l)) = Active(l) /\ Que(View(l)) = Queued(l)
BY DEF View, Act, Que, Active, Queued

(* What keeps the invariant of a lock: its lists, and the type and cond of *)
(* what is in them.                                                        *)
LEMMA SameQInv ==
    ASSUME NEW v, QInv(v), NEW w \in Views,
           w.read = v.read, w.read_wait = v.read_wait, w.write = v.write,
           w.write_wait = v.write_wait, w.write_lock_count = v.write_lock_count,
           w.read_no_write_count = v.read_no_write_count,
           \A d \in On(v) : w.type[d] = v.type[d] /\ w.cond[d] = v.cond[d]
    PROVE  QInv(w)
<1>1. Act(w) = Act(v) /\ Que(w) = Que(v) /\ Apart(w)
  BY SameLists
<1>2. Tagged(w)
  BY <1>1 DEF Tagged, QInv, On, Act, Que
<1>3. NoInsert(w) = NoInsert(v)
  BY DEF NoInsert, On, Act
<1> QED
  BY <1>1, <1>2, <1>3 DEF QInv

(* Installing an edited view of one lock keeps every lock's lists well     *)
(* formed, moves only the instances the edit is about, and wakes the       *)
(* owners the edit signalled.                                              *)
LEMMA InstallOK ==
    ASSUME StateOK, \A m \in Locks : QInv(View(m)),
           NEW l \in Locks, NEW w, NEW gone, NEW X \in SUBSET Data, \A d \in X : LockOf[d] = l,
           Carries(View(l), w, X), Install(l, w, gone)
    PROVE  /\ lists' \in [Locks -> ListRecords]
           /\ \A m \in Locks : \A d \in Active(m)' \cup Queued(m)' : LockOf[d] = m
           /\ \A m \in Locks : QInv(View(m)')
           /\ Active(l)' = Act(w) /\ Queued(l)' = Que(w)
           /\ lists'[l].read = w.read /\ lists'[l].read_wait = w.read_wait
           /\ lists'[l].write = w.write /\ lists'[l].write_wait = w.write_wait
           /\ \A m \in Locks \ {l} : lists'[m] = lists[m]
           /\ type' = w.type /\ cond' = w.cond
           /\ awake \ gone \subseteq awake' /\ awake' \subseteq {o \in Owners \ gone : Waiting(o)}
           /\ \A d \in Data \ X : Kept(d, gone)
<1> DEFINE v == View(l)
<1>1. QInv(v) /\ QInv(w) /\ v \in Views /\ w \in Views
  BY DEF Carries, QInv
<1>2. /\ v.write = lists[l].write /\ v.type = type /\ v.cond = cond
      /\ Act(v) = Active(l) /\ Que(v) = Queued(l) /\ On(v) = Active(l) \cup Queued(l)
  BY ViewOf DEF On
<1>3. \A d \in Data \ X : Carried(v, w, d)
  BY DEF Carries
<1> HIDE DEF v
<1>4. /\ DOMAIN lists' = Locks /\ \A m \in Locks \ {l} : lists'[m] = lists[m]
      /\ lists'[l].read = w.read /\ lists'[l].read_wait = w.read_wait
      /\ lists'[l].write = w.write /\ lists'[l].write_wait = w.write_wait
      /\ lists'[l].write_lock_count = w.write_lock_count
      /\ lists'[l].read_no_write_count = w.read_no_write_count
      /\ type' = w.type /\ cond' = w.cond
  BY DEF Install, StateOK
<1>41. lists' \in [Locks -> ListRecords]
  <2> DEFINE q == [read |-> w.read, read_wait |-> w.read_wait,
                   write |-> w.write, write_wait |-> w.write_wait,
                   write_lock_count |-> w.write_lock_count,
                   read_no_write_count |-> w.read_no_write_count]
  <2>1. lists' = [lists EXCEPT ![l] = q]
    BY DEF Install
  <2>2. q \in ListRecords
    BY <1>1 DEF ListRecords, Views
  <2> HIDE DEF q
  <2> QED
    BY <2>1, <2>2 DEF StateOK
<1>5. Active(l)' = Act(w) /\ Queued(l)' = Que(w)
  BY <1>4 DEF Active, Queued, Act, Que
<1>6. \A m \in Locks \ {l} : Active(m)' = Active(m) /\ Queued(m)' = Queued(m)
  BY <1>4 DEF Active, Queued
<1>7. On(w) \subseteq Data /\ On(v) \subseteq Data
  BY <1>1, EmptyList DEF Views, On, Act, Que
<1>8. \A d \in On(v) : LockOf[d] = l
  BY <1>2 DEF StateOK
<1>9. \A d \in On(w) : LockOf[d] = l
  BY <1>3, <1>7, <1>8 DEF Carried
<1>10. \A m \in Locks : \A d \in Active(m)' \cup Queued(m)' : LockOf[d] = m
  BY <1>5, <1>6, <1>9 DEF StateOK, On
<1>11. \A d \in Data : LockOf[d] # l => type'[d] = type[d] /\ cond'[d] = cond[d]
  BY <1>2, <1>3, <1>4, <1>8 DEF Carried
<1>12. ASSUME NEW m \in Locks PROVE QInv(View(m)')
  <2>1. /\ View(m)'.read = lists'[m].read /\ View(m)'.read_wait = lists'[m].read_wait
        /\ View(m)'.write = lists'[m].write /\ View(m)'.write_wait = lists'[m].write_wait
        /\ View(m)'.write_lock_count = lists'[m].write_lock_count
        /\ View(m)'.read_no_write_count = lists'[m].read_no_write_count
        /\ View(m)'.type = type' /\ View(m)'.cond = cond' /\ View(m)'.signalled = {}
    BY DEF View
  <2>2. CASE m = l
    <3>1. View(m)' \in Views
      BY <1>1, <1>4, <2>2 DEF View, Views
    <3> QED
      BY <1>1, <1>4, <2>1, <2>2, <3>1, SameQInv
  <2>3. CASE m # l
    <3>1. /\ View(m).read = lists[m].read /\ View(m).read_wait = lists[m].read_wait
          /\ View(m).write = lists[m].write /\ View(m).write_wait = lists[m].write_wait
          /\ View(m).write_lock_count = lists[m].write_lock_count
          /\ View(m).read_no_write_count = lists[m].read_no_write_count
          /\ View(m).type = type /\ View(m).cond = cond
          /\ On(View(m)) = Active(m) \cup Queued(m)
      BY ViewOf DEF On
    <3>2. QInv(View(m)) /\ lists'[m] = lists[m]
      BY <1>4, <2>3
    <3>3. \A d \in On(View(m)) : LockOf[d] = m /\ d \in Data
      <4>1. On(View(m)) \subseteq Data
        BY <3>2, EmptyList DEF QInv, Views, On, Act, Que
      <4> QED
        BY <3>1, <4>1 DEF StateOK
    <3>4. View(m)' \in Views
      <4>1. View(m) \in Views
        BY <3>2 DEF QInv
      <4> QED
        BY <1>1, <1>4, <3>1, <3>2, <4>1 DEF View, Views
    <3> HIDE DEF View
    <3> QED
      BY <1>11, <2>1, <2>3, <3>1, <3>2, <3>3, <3>4, SameQInv
  <2> QED
    BY <2>2, <2>3
<1>13. /\ awake \ gone \subseteq awake' /\ awake' \subseteq {o \in Owners \ gone : Waiting(o)}
       /\ \A d \in w.signalled : d \in Data /\ Waiting(OwnerOf[d]) => OwnerOf[d] \in awake' \cup gone
  BY ThrLockAssumption DEF Install, StateOK
<1>14. ASSUME NEW d \in Data \ X PROVE Kept(d, gone)
  <2>1. CASE LockOf[d] = l
    <3>1. Carried(v, w, d)
      BY <1>3
    <3>2. (Linked(d) <=> d \in On(v)) /\ (Linked(d)' <=> d \in On(w))
      BY <1>2, <1>5, <2>1 DEF Linked, On
    <3> QED
      BY <1>2, <1>4, <1>5, <1>13, <2>1, <3>1, <3>2 DEF Kept, Carried
  <2>2. CASE LockOf[d] # l
    <3>1. LockOf[d] \in Locks \ {l}
      BY <2>2, ThrLockAssumption
    <3>2. /\ lists'[LockOf[d]] = lists[LockOf[d]]
          /\ Active(LockOf[d])' = Active(LockOf[d]) /\ Queued(LockOf[d])' = Queued(LockOf[d])
          /\ type'[d] = type[d] /\ cond'[d] = cond[d]
      BY <1>4, <1>6, <1>11, <2>2, <3>1
    <3> QED
      BY <3>2 DEF Kept, Linked
  <2> QED
    BY <2>1, <2>2
<1> QED
  BY <1>4, <1>41, <1>5, <1>10, <1>12, <1>13, <1>14

(* Facts about the lock types. *)
LEMMA TypeFacts ==
    /\ TL_UNLOCK \notin ReadTypes /\ TL_UNLOCK \notin WriteTypes
    /\ ReadTypes \cap WriteTypes = {} /\ ReadTypes \subseteq Types /\ WriteTypes \subseteq Types
    /\ RequestTypes \subseteq Types /\ RequestTypes = ReadTypes \cup WriteTypes
    /\ \A t \in RequestTypes : IsRead(t) <=> t \in ReadTypes
    /\ UpgradeTo \in WriteTypes /\ UpgradedInsert \in WriteTypes
    /\ UpgradeTo # TL_WRITE_ONLY /\ UpgradedInsert # TL_WRITE_ONLY
    /\ TL_WRITE \in WriteTypes /\ TL_WRITE_ONLY \in WriteTypes /\ TL_WRITE_DELAYED \in WriteTypes
    /\ TL_WRITE # TL_WRITE_ONLY /\ TL_WRITE_DELAYED # TL_WRITE_ONLY
BY QueueAssumption, ThrLockAssumption
   DEF ReadTypes, WriteTypes, RequestTypes, Types, IsRead, TL_UNLOCK, TL_READ,
       TL_READ_WITH_SHARED_LOCKS, TL_READ_HIGH_PRIORITY, TL_READ_NO_INSERT, TL_WRITE_ALLOW_WRITE,
       TL_WRITE_ALLOW_READ, TL_WRITE_CONCURRENT_INSERT, TL_WRITE_DELAYED, TL_WRITE_LOW_PRIORITY,
       TL_WRITE, TL_WRITE_ONLY

(* What an instance's type in a list says of the type it was requested     *)
(* with.                                                                   *)
LEMMA FitsFacts ==
    ASSUME NEW rq \in Types, NEW t, Fits(rq, t)
    PROVE  /\ rq \in ReadTypes => t = rq
           /\ rq \in WriteTypes => t \in WriteTypes
           /\ t \in WriteTypes => \A u \in WriteTypes : Fits(rq, u)
           /\ t \in WriteTypes => rq \in WriteTypes
           /\ t \in ReadTypes => rq = t
BY QueueAssumption, ThrLockAssumption
   DEF Fits, ReadTypes, WriteTypes, RequestTypes, Types, TL_UNLOCK, TL_READ,
       TL_READ_WITH_SHARED_LOCKS, TL_READ_HIGH_PRIORITY, TL_READ_NO_INSERT, TL_WRITE_ALLOW_WRITE,
       TL_WRITE_ALLOW_READ, TL_WRITE_CONCURRENT_INSERT, TL_WRITE_DELAYED, TL_WRITE_LOW_PRIORITY,
       TL_WRITE, TL_WRITE_ONLY

(* The state of one instance: type and cond tell which list it is in. *)
LEMMA WhereItIs ==
    ASSUME StateOK, \A m \in Locks : QInv(View(m)), NEW d \in Data
    PROVE  /\ LockOf[d] \in Locks /\ OwnerOf[d] \in Owners
           /\ type[d] \in Types /\ cond[d] \in BOOLEAN
           /\ d \in Active(LockOf[d]) => ~cond[d]
           /\ d \in Queued(LockOf[d]) => cond[d]
           /\ type[d] = TL_UNLOCK => ~Linked(d)
           /\ Linked(d) => type[d] \in ReadTypes \cup WriteTypes
           /\ d \in Active(LockOf[d]) /\ type[d] \in WriteTypes => d \in ToSet(lists[LockOf[d]].write)
           /\ d \in Queued(LockOf[d]) /\ type[d] \in WriteTypes
                 => d \in ToSet(lists[LockOf[d]].write_wait)
           /\ Active(LockOf[d]) \cap Queued(LockOf[d]) = {}
<1> DEFINE l == LockOf[d]
           v == View(l)
<1>1. l \in Locks /\ OwnerOf[d] \in Owners
  BY ThrLockAssumption
<1>2. QInv(v)
  BY <1>1
<1>3. /\ v.read = lists[l].read /\ v.read_wait = lists[l].read_wait
      /\ v.write = lists[l].write /\ v.write_wait = lists[l].write_wait
      /\ v.type = type /\ v.cond = cond
      /\ Act(v) = Active(l) /\ Que(v) = Queued(l)
  BY ViewOf
<1> HIDE DEF v
<1>4. type[d] \in Types /\ cond[d] \in BOOLEAN
  BY <1>2, <1>3 DEF QInv, Views
<1>5. /\ d \in Active(l) => ~cond[d]
      /\ d \in Queued(l) => cond[d]
      /\ Linked(d) => type[d] \in ReadTypes \cup WriteTypes
      /\ Active(l) \cap Queued(l) = {}
  BY <1>2, <1>3 DEF QInv, Tagged, Apart, Act, Que, Linked
<1>6. /\ d \in Active(l) /\ type[d] \in WriteTypes => d \in ToSet(lists[l].write)
      /\ d \in Queued(l) /\ type[d] \in WriteTypes => d \in ToSet(lists[l].write_wait)
  BY <1>2, <1>3, TypeFacts DEF QInv, Tagged, Active, Queued
<1> QED
  BY <1>1, <1>4, <1>5, <1>6, TypeFacts

(* What Kept gives for an instance. *)
LEMMA KeptOne ==
    ASSUME StateOK, \A m \in Locks : QInv(View(m)), NEW d \in Data, NEW gone, Kept(d, gone),
           req'[d] = req[d], req[d] \in Types
    PROVE  /\ type[d] = TL_UNLOCK \/ d \in Active(LockOf[d])
                => type'[d] = TL_UNLOCK \/ d \in Active(LockOf[d])'
           /\ d \in Queued(LockOf[d])
                => type'[d] = TL_UNLOCK \/ d \in Active(LockOf[d])' \/ d \in Queued(LockOf[d])'
           /\ Linked(d)' => Linked(d)
           /\ Linked(d)' /\ Fits(req[d], type[d]) => Fits(req'[d], type'[d])
<1>1. type[d] = TL_UNLOCK => ~Linked(d)
  BY WhereItIs
<1>2. Linked(d)' => Linked(d)
  BY DEF Kept
<1>3. Linked(d)' /\ Fits(req[d], type[d]) => Fits(req'[d], type'[d])
  BY FitsFacts DEF Kept
<1>4. d \in Queued(LockOf[d])
         => type'[d] = TL_UNLOCK \/ d \in Active(LockOf[d])' \/ d \in Queued(LockOf[d])'
  BY DEF Kept, Linked
<1> QED
  BY <1>1, <1>2, <1>3, <1>4 DEF Kept

(* An instance that an operation on others has left where it was, or has   *)
(* woken, still satisfies its part of the invariant.                       *)
LEMMA KeptLinked ==
    ASSUME StateOK, \A m \in Locks : QInv(View(m)), NEW d \in Data, NEW gone, Kept(d, gone),
           req'[d] = req[d], req[d] \in Types, LinkedOK(d), Linked(d)',
           \E i \in Taken(OwnerOf[d])' : plan'[OwnerOf[d]][i] = d
    PROVE  LinkedOK(d)'
<1>1. Linked(d) /\ Fits(req[d], type[d]) /\ Fits(req'[d], type'[d])
  BY KeptOne DEF LinkedOK
<1> QED
  BY <1>1 DEF LinkedOK

(* An owner that does not act. *)
LEMMA OthersKeep ==
    ASSUME LockInv, NEW X, NEW gone, \A d \in Data \ X : Kept(d, gone),
           NEW p \in Owners, \A d \in X : OwnerOf[d] # p, p \notin gone,
           plan'[p] = plan[p], pos'[p] = pos[p], phase'[p] = phase[p],
           \A d \in Data : OwnerOf[d] = p => req'[d] = req[d],
           awake \ gone \subseteq awake'
    PROVE  OwnerInv(p)'
<1>1. /\ StateOK /\ (\A m \in Locks : QInv(View(m))) /\ OwnerInv(p) /\ req \in [Data -> Types]
  BY DEF LockInv, StateOK
<1>2. Taken(p)' = Taken(p) /\ Cur(p)' = Cur(p)
  BY DEF Taken, Cur
<1>3. \A i \in 1 .. Len(plan[p]) : plan[p][i] \in Data /\ OwnerOf[plan[p][i]] = p
  BY <1>1 DEF OwnerInv, PlanOK
<1>4. \A d \in Data : OwnerOf[d] = p => Kept(d, gone) /\ req'[d] = req[d] /\ req[d] \in Types
  BY <1>1
<1>5. PlanOK(p)'
  <2>1. phase[p] \in {"upgrading", "rescheduled"} => req'[Cur(p)] = req[Cur(p)]
    <3>1. phase[p] \in {"upgrading", "rescheduled"} => pos[p] \in 1 .. Len(plan[p])
      BY <1>1 DEF OwnerInv, PlanOK
    <3> QED
      BY <1>3, <3>1 DEF Cur
  <2> QED
    BY <1>1, <1>2, <1>3, <2>1 DEF OwnerInv, PlanOK
<1>6. TakenOK(p)'
  <2> SUFFICES ASSUME NEW i \in Taken(p), NEW d \in Data, d = plan[p][i], OwnerOf[d] = p
               PROVE  \/ type'[d] = TL_UNLOCK
                      \/ d \in Active(LockOf[d])'
                      \/ /\ d \in Queued(LockOf[d])'
                         /\ req[d] = TL_WRITE_DELAYED \/ (phase[p] = "waiting" /\ i = pos[p])
    <3>1. \A i \in Taken(p) : /\ req'[plan[p][i]] = req[plan[p][i]]
                              /\ plan[p][i] \in Data /\ OwnerOf[plan[p][i]] = p
      BY <1>3 DEF Taken
    <3> QED
      BY <1>2, <3>1 DEF TakenOK
  <2>1. \/ type[d] = TL_UNLOCK
        \/ d \in Active(LockOf[d])
        \/ /\ d \in Queued(LockOf[d])
           /\ req[d] = TL_WRITE_DELAYED \/ (phase[p] = "waiting" /\ i = pos[p])
    BY <1>1 DEF OwnerInv, TakenOK
  <2>2. Kept(d, gone) /\ req'[d] = req[d] /\ req[d] \in Types
    BY <1>4
  <2>3. /\ type[d] = TL_UNLOCK \/ d \in Active(LockOf[d])
             => type'[d] = TL_UNLOCK \/ d \in Active(LockOf[d])'
        /\ d \in Queued(LockOf[d])
             => type'[d] = TL_UNLOCK \/ d \in Active(LockOf[d])' \/ d \in Queued(LockOf[d])'
    BY <1>1, <2>2, KeptOne
  <2> QED
    BY <2>1, <2>3
<1>7. Woken(p)'
  <2> SUFFICES ASSUME Waiting(p), ~cond'[Cur(p)] PROVE p \in awake'
    BY <1>2 DEF Woken, Waiting
  <2>1. Cur(p) \in Data /\ OwnerOf[Cur(p)] = p
    <3>1. pos[p] \in 1 .. Len(plan[p])
      BY <1>1 DEF OwnerInv, PlanOK, Waiting
    <3> QED
      BY <1>3, <3>1 DEF Cur
  <2>2. Kept(Cur(p), gone)
    BY <1>4, <2>1
  <2>3. CASE cond'[Cur(p)] = cond[Cur(p)]
    BY <1>1, <2>3 DEF OwnerInv, Woken
  <2>4. CASE cond'[Cur(p)] # cond[Cur(p)]
    BY <2>1, <2>2, <2>4 DEF Kept
  <2> QED
    BY <2>3, <2>4
<1>8. ASSUME NEW d \in Data, OwnerOf[d] = p PROVE LinkedOK(d)'
  <2>1. CASE ~Linked(d)'
    BY <2>1 DEF LinkedOK
  <2>2. CASE Linked(d)'
    <3>1. Kept(d, gone) /\ req'[d] = req[d] /\ req[d] \in Types /\ LinkedOK(d)
      BY <1>1, <1>4, <1>8 DEF OwnerInv
    <3>2. Linked(d)
      BY <1>1, <2>2, <3>1, KeptOne
    <3>3. \E i \in Taken(p) : plan[p][i] = d
      BY <1>8, <3>1, <3>2 DEF LinkedOK
    <3> QED
      BY <1>1, <1>2, <1>8, <2>2, <3>1, <3>3, KeptLinked
  <2> QED
    BY <2>1, <2>2
<1> QED
  BY <1>5, <1>6, <1>7, <1>8 DEF OwnerInv

(* The owner that acts, on the instances in X. *)
LEMMA ActorKeeps ==
    ASSUME LockInv, NEW X, NEW gone, NEW o \in Owners, \A d \in Data \ X : Kept(d, gone),
           \A d \in Data : OwnerOf[d] = o => req'[d] = req[d],
           PlanOK(o)', Woken(o)',
           \A i \in Taken(o)' : plan'[o][i] \notin X =>
              i \in Taken(o) /\ plan'[o][i] = plan[o][i] /\ ~(phase[o] = "waiting" /\ i = pos[o]),
           \A i \in Taken(o)' : \A x \in X : x = plan'[o][i] =>
              \/ type'[x] = TL_UNLOCK \/ x \in Active(LockOf[x])'
              \/ /\ x \in Queued(LockOf[x])'
                 /\ req'[x] = TL_WRITE_DELAYED \/ (phase'[o] = "waiting" /\ i = pos'[o]),
           \A d \in Data \ X : OwnerOf[d] = o /\ Linked(d) =>
              \E i \in Taken(o)' : plan'[o][i] = d,
           \A x \in X : LinkedOK(x)'
    PROVE  OwnerInv(o)'
<1>1. /\ StateOK /\ (\A m \in Locks : QInv(View(m))) /\ OwnerInv(o) /\ req \in [Data -> Types]
  BY DEF LockInv, StateOK
<1>2. \A d \in Data \ X : OwnerOf[d] = o => Kept(d, gone) /\ req'[d] = req[d] /\ req[d] \in Types
  BY <1>1
<1>3. \A i \in 1 .. Len(plan'[o]) : plan'[o][i] \in Data /\ OwnerOf[plan'[o][i]] = o
  BY DEF PlanOK
<1>4. TakenOK(o)'
  <2> SUFFICES ASSUME NEW i \in Taken(o)', NEW d \in Data, d = plan'[o][i], OwnerOf[d] = o
               PROVE  \/ type'[d] = TL_UNLOCK
                      \/ d \in Active(LockOf[d])'
                      \/ /\ d \in Queued(LockOf[d])'
                         /\ req'[d] = TL_WRITE_DELAYED \/ (phase'[o] = "waiting" /\ i = pos'[o])
    <3>1. \A i \in Taken(o)' : plan'[o][i] \in Data /\ OwnerOf[plan'[o][i]] = o
      BY <1>3 DEF Taken
    <3> QED
      BY <3>1 DEF TakenOK
  <2>1. CASE d \in X
    BY <2>1
  <2>2. CASE d \notin X
    <3>1. i \in Taken(o) /\ d = plan[o][i] /\ ~(phase[o] = "waiting" /\ i = pos[o])
      BY <2>2
    <3>2. \/ type[d] = TL_UNLOCK
          \/ d \in Active(LockOf[d])
          \/ d \in Queued(LockOf[d]) /\ req[d] = TL_WRITE_DELAYED
      BY <1>1, <3>1 DEF OwnerInv, TakenOK
    <3>3. Kept(d, gone) /\ req'[d] = req[d] /\ req[d] \in Types
      BY <1>2, <2>2
    <3>4. /\ type[d] = TL_UNLOCK \/ d \in Active(LockOf[d])
               => type'[d] = TL_UNLOCK \/ d \in Active(LockOf[d])'
          /\ d \in Queued(LockOf[d])
               => type'[d] = TL_UNLOCK \/ d \in Active(LockOf[d])' \/ d \in Queued(LockOf[d])'
      BY <1>1, <3>3, KeptOne
    <3> QED
      BY <3>2, <3>3, <3>4
  <2> QED
    BY <2>1, <2>2
<1>5. ASSUME NEW d \in Data, OwnerOf[d] = o PROVE LinkedOK(d)'
  <2>1. CASE d \in X
    BY <2>1
  <2>2. CASE ~Linked(d)'
    BY <2>2 DEF LinkedOK
  <2>3. CASE d \notin X /\ Linked(d)'
    <3>1. Kept(d, gone) /\ req'[d] = req[d] /\ req[d] \in Types /\ LinkedOK(d)
      BY <1>1, <1>2, <1>5, <2>3 DEF OwnerInv
    <3>2. Linked(d)
      BY <1>1, <2>3, <3>1, KeptOne
    <3>3. \E i \in Taken(o)' : plan'[o][i] = d
      BY <1>5, <2>3, <3>2
    <3> QED
      BY <1>1, <1>5, <2>3, <3>1, <3>3, KeptLinked
  <2> QED
    BY <2>1, <2>2, <2>3
<1> QED
  BY <1>4, <1>5 DEF OwnerInv

(* The same when it acts on one instance. *)
LEMMA ActorOne ==
    ASSUME LockInv, NEW x \in Data, NEW gone, NEW o \in Owners,
           \A d \in Data : d # x => Kept(d, gone),
           \A d \in Data : OwnerOf[d] = o => req'[d] = req[d],
           PlanOK(o)', Woken(o)',
           \A i \in Taken(o)' : plan'[o][i] # x =>
              i \in Taken(o) /\ plan'[o][i] = plan[o][i] /\ ~(phase[o] = "waiting" /\ i = pos[o]),
           \A i \in Taken(o)' : x = plan'[o][i] =>
              \/ type'[x] = TL_UNLOCK \/ x \in Active(LockOf[x])'
              \/ /\ x \in Queued(LockOf[x])'
                 /\ req'[x] = TL_WRITE_DELAYED \/ (phase'[o] = "waiting" /\ i = pos'[o]),
           \A d \in Data : d # x /\ OwnerOf[d] = o /\ Linked(d) =>
              \E i \in Taken(o)' : plan'[o][i] = d,
           LinkedOK(x)'
    PROVE  OwnerInv(o)'
<1> DEFINE X == {x}
<1>1. \A d \in Data \ X : Kept(d, gone)
  OBVIOUS
<1>2. \A i \in Taken(o)' : plan'[o][i] \notin X =>
              i \in Taken(o) /\ plan'[o][i] = plan[o][i] /\ ~(phase[o] = "waiting" /\ i = pos[o])
  OBVIOUS
<1>3. \A i \in Taken(o)' : \A y \in X : y = plan'[o][i] =>
              \/ type'[y] = TL_UNLOCK \/ y \in Active(LockOf[y])'
              \/ /\ y \in Queued(LockOf[y])'
                 /\ req'[y] = TL_WRITE_DELAYED \/ (phase'[o] = "waiting" /\ i = pos'[o])
  OBVIOUS
<1>4. \A d \in Data \ X : OwnerOf[d] = o /\ Linked(d) => \E i \in Taken(o)' : plan'[o][i] = d
  OBVIOUS
<1>5. \A y \in X : LinkedOK(y)'
  OBVIOUS
<1> HIDE DEF X
<1> QED
  BY <1>1, <1>2, <1>3, <1>4, <1>5, ActorKeeps

(* A step that edits one lock and is about one owner. *)
LEMMA OneOwnerStep ==
    ASSUME LockInv, NEW l \in Locks, NEW w, NEW gone, NEW X \in SUBSET Data, NEW o \in Owners,
           \A d \in X : LockOf[d] = l /\ OwnerOf[d] = o,
           Carries(View(l), w, X), Install(l, w, gone),
           gone \subseteq {o}, Waiting(o) => o \in gone,
           req' = req, abort' \subseteq Range(ThreadOf),
           DOMAIN plan' = Owners, DOMAIN pos' = Owners, phase' \in [Owners -> Phases],
           \A p \in Owners \ {o} : plan'[p] = plan[p] /\ pos'[p] = pos[p] /\ phase'[p] = phase[p],
           OwnerInv(o)'
    PROVE  LockInv'
<1>1. StateOK /\ (\A m \in Locks : QInv(View(m))) /\ req \in [Data -> Types]
  BY DEF LockInv, StateOK
<1>2. /\ lists' \in [Locks -> ListRecords]
      /\ \A m \in Locks : \A d \in Active(m)' \cup Queued(m)' : LockOf[d] = m
      /\ \A m \in Locks : QInv(View(m)')
      /\ awake \ gone \subseteq awake' /\ awake' \subseteq {p \in Owners \ gone : Waiting(p)}
      /\ \A d \in Data \ X : Kept(d, gone)
  BY <1>1, InstallOK
<1>3. ASSUME NEW p \in Owners PROVE OwnerInv(p)'
  <2>1. CASE p # o
    <3>1. p \notin gone /\ (\A d \in X : OwnerOf[d] # p)
      BY <2>1
    <3>2. plan'[p] = plan[p] /\ pos'[p] = pos[p] /\ phase'[p] = phase[p]
      BY <2>1
    <3>3. \A d \in Data : OwnerOf[d] = p => req'[d] = req[d]
      OBVIOUS
    <3> QED
      BY <1>2, <3>1, <3>2, <3>3, OthersKeep
  <2> QED
    BY <2>1
<1>4. awake' \subseteq {p \in Owners : Waiting(p)'}
  <2> SUFFICES ASSUME NEW p \in awake' PROVE p \in Owners /\ Waiting(p)'
    OBVIOUS
  <2>1. p \in Owners /\ p \notin gone /\ Waiting(p) /\ p # o
    BY <1>2
  <2> QED
    BY <2>1 DEF Waiting
<1>5. StateOK'
  <2>1. type' \in [Data -> Types] /\ cond' \in [Data -> BOOLEAN]
    BY DEF Carries, QInv, Views, Install
  <2> QED
    BY <1>1, <1>2, <1>4, <2>1 DEF StateOK
<1> QED
  BY <1>2, <1>3, <1>5 DEF LockInv

-----------------------------------------------------------------------------
(* The outcomes of a call of thr_lock for the instance at pos[o].          *)

(* What is unchanged for the other owners, and the types of the rest. *)
OthersStay(o) ==
    /\ DOMAIN plan' = Owners /\ DOMAIN pos' = Owners /\ phase' \in [Owners -> Phases]
    /\ \A p \in Owners \ {o} : plan'[p] = plan[p] /\ pos'[p] = pos[p] /\ phase'[p] = phase[p]

InCall(o) == phase[o] \in {"locking", "waiting"}

(* The instance an owner's call is about is one of its own, and while      *)
(* locking it is in no list yet.                                           *)
LEMMA CurFacts ==
    ASSUME LockInv, NEW o \in Owners,
           phase[o] \in {"locking", "waiting", "upgrading", "rescheduled"}
    PROVE  /\ pos[o] \in 1 .. Len(plan[o]) /\ Len(plan[o]) \in Nat
           /\ Cur(o) \in Data /\ OwnerOf[Cur(o)] = o /\ LockOf[Cur(o)] \in Locks
           /\ req[Cur(o)] \in MayRequest[Cur(o)] /\ req[Cur(o)] \in RequestTypes
           /\ phase[o] = "locking" => ~Linked(Cur(o))
           /\ \A i \in 1 .. Len(plan[o]) : i # pos[o] => plan[o][i] # Cur(o)
<1>1. PlanOK(o) /\ OwnerInv(o) /\ plan[o] \in Seq(Data) /\ IsInjective(plan[o])
  BY DEF LockInv, OwnerInv, PlanOK
<1>2. pos[o] \in 1 .. Len(plan[o]) /\ Len(plan[o]) \in Nat
  BY <1>1 DEF PlanOK
<1>3. Cur(o) \in Data /\ OwnerOf[Cur(o)] = o /\ req[Cur(o)] \in MayRequest[Cur(o)]
  BY <1>1, <1>2 DEF PlanOK, Cur
<1>4. LockOf[Cur(o)] \in Locks /\ req[Cur(o)] \in RequestTypes
  BY <1>3, ThrLockAssumption
<1>5. \A i \in 1 .. Len(plan[o]) : i # pos[o] => plan[o][i] # Cur(o)
  BY <1>1, <1>2 DEF Cur, IsInjective
<1>6. ASSUME phase[o] = "locking", Linked(Cur(o)) PROVE FALSE
  <2>1. PICK i \in Taken(o) : plan[o][i] = Cur(o)
    BY <1>1, <1>3, <1>6 DEF OwnerInv, LinkedOK
  <2>2. i \in 1 .. Len(plan[o]) /\ i < pos[o]
    BY <1>6 DEF Taken
  <2> QED
    BY <1>2, <1>5, <2>1, <2>2
<1> QED
  BY <1>2, <1>3, <1>4, <1>5, <1>6

(* A call that got its lock, or queued a delayed insert, leaves the        *)
(* owner's part of the invariant true.                                     *)
LEMMA CallAdvances ==
    ASSUME LockInv, NEW o \in Owners, InCall(o), NEW gone, NEW x \in Data, x = Cur(o),
           \A d \in Data : d # x => Kept(d, gone), Advance(o, pos[o]),
           x \in Active(LockOf[x])' \/ (x \in Queued(LockOf[x])' /\ req[x] = TL_WRITE_DELAYED),
           Fits(req[x], type'[x])
    PROVE  OwnerInv(o)' /\ OthersStay(o) /\ req' = req
<1>1. /\ StateOK /\ OwnerInv(o) /\ PlanOK(o) /\ pos[o] \in 1 .. Len(plan[o])
      /\ Len(plan[o]) \in Nat /\ OwnerOf[x] = o
      /\ \A i \in 1 .. Len(plan[o]) : i # pos[o] => plan[o][i] # x
  BY CurFacts DEF LockInv, OwnerInv, InCall
<1>2. plan' = plan /\ req' = req
  BY DEF Advance
<1>3. OthersStay(o)
  BY <1>1 DEF Advance, OthersStay, StateOK, Phases
<1>4. \/ pos[o] = Len(plan[o]) /\ pos'[o] = 1 /\ phase'[o] = "held"
      \/ pos[o] # Len(plan[o]) /\ pos'[o] = pos[o] + 1 /\ phase'[o] = "locking"
  BY <1>1 DEF Advance, StateOK
<1>5. Taken(o)' = 1 .. pos[o]
  BY <1>1, <1>2, <1>4 DEF Taken
<1>6. PlanOK(o)'
  BY <1>1, <1>2, <1>4 DEF PlanOK
<1>7. Woken(o)'
  BY <1>4 DEF Woken, Waiting
<1>8. Taken(o) = IF phase[o] = "locking" THEN 1 .. (pos[o] - 1) ELSE 1 .. pos[o]
  BY <1>1 DEF Taken, InCall
<1>9. \A i \in Taken(o)' : plan'[o][i] # x =>
         i \in Taken(o) /\ plan'[o][i] = plan[o][i] /\ ~(phase[o] = "waiting" /\ i = pos[o])
  <2> SUFFICES ASSUME NEW i \in 1 .. pos[o], plan[o][i] # x
               PROVE  i \in Taken(o) /\ i # pos[o]
    BY <1>2, <1>5
  <2>1. i # pos[o]
    BY DEF Cur
  <2> QED
    BY <1>1, <1>8, <2>1
<1>10. \A d \in Data : d # x /\ OwnerOf[d] = o /\ Linked(d) => \E i \in Taken(o)' : plan'[o][i] = d
  <2> SUFFICES ASSUME NEW d \in Data, OwnerOf[d] = o, Linked(d)
               PROVE  \E i \in 1 .. pos[o] : plan[o][i] = d
    BY <1>2, <1>5
  <2>1. PICK i \in Taken(o) : plan[o][i] = d
    BY <1>1 DEF OwnerInv, LinkedOK
  <2>2. i \in 1 .. pos[o]
    BY <1>1, <1>8
  <2> QED
    BY <2>1, <2>2
<1>11. LinkedOK(x)'
  <2>1. pos[o] \in Taken(o)' /\ plan'[o][pos[o]] = x
    BY <1>1, <1>2, <1>5 DEF Cur
  <2> QED
    BY <1>1, <1>2, <2>1 DEF LinkedOK
<1>12. \A i \in Taken(o)' : x = plan'[o][i] =>
              \/ type'[x] = TL_UNLOCK \/ x \in Active(LockOf[x])'
              \/ /\ x \in Queued(LockOf[x])'
                 /\ req'[x] = TL_WRITE_DELAYED \/ (phase'[o] = "waiting" /\ i = pos'[o])
  BY <1>2
<1>14. \A d \in Data : OwnerOf[d] = o => req'[d] = req[d]
  BY <1>2
<1>15. LinkedOK(x)'
  BY <1>11
<1> HIDE DEF Taken, LinkedOK, Woken, PlanOK
<1> QED
  BY <1>2, <1>3, <1>6, <1>7, <1>9, <1>10, <1>12, <1>14, <1>15, ActorOne

(* A call that failed leaves the owner with the locks it had before.       *)
LEMMA CallFails ==
    ASSUME LockInv, NEW o \in Owners, InCall(o), NEW gone, NEW x \in Data, x = Cur(o),
           \A d \in Data : d # x => Kept(d, gone), Fail(o, pos[o]), ~Linked(x)'
    PROVE  OwnerInv(o)' /\ OthersStay(o) /\ req' = req
<1>1. /\ StateOK /\ OwnerInv(o) /\ PlanOK(o) /\ pos[o] \in 1 .. Len(plan[o])
      /\ Len(plan[o]) \in Nat /\ OwnerOf[x] = o
      /\ \A i \in 1 .. Len(plan[o]) : i # pos[o] => plan[o][i] # x
      /\ plan[o] \in Seq(Data) /\ IsInjective(plan[o])
  BY CurFacts DEF LockInv, OwnerInv, InCall, PlanOK
<1>2. /\ plan'[o] = SubSeq(plan[o], 1, pos[o] - 1) /\ req' = req
      /\ pos'[o] = 1 /\ phase'[o] = "unlocking"
  BY <1>1 DEF Fail, StateOK
<1>3. OthersStay(o)
  BY <1>1 DEF Fail, OthersStay, StateOK, Phases
<1>4. /\ plan'[o] \in Seq(Data) /\ Len(plan'[o]) = pos[o] - 1
      /\ \A i \in 1 .. (pos[o] - 1) : plan'[o][i] = plan[o][i]
  BY <1>1, <1>2
<1>5. Taken(o)' = 1 .. (pos[o] - 1)
  BY <1>1, <1>2, <1>4 DEF Taken
<1>6. PlanOK(o)'
  <2>1. IsInjective(plan'[o])
    <3>1. pos[o] - 1 \in 0 .. Len(plan[o])
      BY <1>1
    <3> QED
      BY <1>1, <1>2, <3>1, CutProperties
  <2>2. \A i \in 1 .. (pos[o] - 1) : OwnerOf[plan'[o][i]] = o /\ req'[plan'[o][i]] \in MayRequest[plan'[o][i]]
    <3> SUFFICES ASSUME NEW i \in 1 .. (pos[o] - 1)
                 PROVE  OwnerOf[plan'[o][i]] = o /\ req'[plan'[o][i]] \in MayRequest[plan'[o][i]]
      OBVIOUS
    <3>1. i \in 1 .. Len(plan[o]) /\ plan'[o][i] = plan[o][i]
      BY <1>1, <1>4
    <3> QED
      BY <1>1, <1>2, <3>1 DEF PlanOK
  <2> QED
    BY <1>1, <1>2, <1>4, <2>1, <2>2 DEF PlanOK
<1>7. Woken(o)'
  BY <1>2 DEF Woken, Waiting
<1>8. Taken(o) = IF phase[o] = "locking" THEN 1 .. (pos[o] - 1) ELSE 1 .. pos[o]
  BY <1>1 DEF Taken, InCall
<1>9. \A i \in Taken(o)' : plan'[o][i] # x =>
         i \in Taken(o) /\ plan'[o][i] = plan[o][i] /\ ~(phase[o] = "waiting" /\ i = pos[o])
  BY <1>1, <1>4, <1>5, <1>8
<1>10. \A d \in Data : d # x /\ OwnerOf[d] = o /\ Linked(d) => \E i \in Taken(o)' : plan'[o][i] = d
  <2> SUFFICES ASSUME NEW d \in Data, d # x, OwnerOf[d] = o, Linked(d)
               PROVE  \E i \in 1 .. (pos[o] - 1) : plan[o][i] = d
    BY <1>4, <1>5
  <2>1. PICK i \in Taken(o) : plan[o][i] = d
    BY <1>1 DEF OwnerInv, LinkedOK
  <2>2. i # pos[o]
    BY <2>1 DEF Cur
  <2>3. i \in 1 .. (pos[o] - 1)
    BY <1>1, <1>8, <2>2
  <2> QED
    BY <2>1, <2>3
<1>11. LinkedOK(x)'
  BY DEF LinkedOK
<1>12. \A i \in Taken(o)' : x = plan'[o][i] =>
              \/ type'[x] = TL_UNLOCK \/ x \in Active(LockOf[x])'
              \/ /\ x \in Queued(LockOf[x])'
                 /\ req'[x] = TL_WRITE_DELAYED \/ (phase'[o] = "waiting" /\ i = pos'[o])
  <2>1. \A i \in 1 .. (pos[o] - 1) : plan'[o][i] # x
    BY <1>1, <1>4
  <2> QED
    BY <1>5, <2>1
<1>14. \A d \in Data : OwnerOf[d] = o => req'[d] = req[d]
  BY <1>2
<1> QED
  BY <1>2, <1>3, <1>6, <1>7, <1>9, <1>10, <1>11, <1>12, <1>14, ActorOne

(* A call that must wait leaves the owner waiting in the queue of its      *)
(* lock.                                                                   *)
LEMMA CallWaits ==
    ASSUME LockInv, NEW o \in Owners, phase[o] = "locking", NEW gone, NEW x \in Data, x = Cur(o),
           \A d \in Data : d # x => Kept(d, gone), phase' = [phase EXCEPT ![o] = "waiting"],
           UNCHANGED <<req, plan, pos>>, x \in Queued(LockOf[x])', cond'[x],
           Fits(req[x], type'[x])
    PROVE  OwnerInv(o)' /\ OthersStay(o) /\ req' = req
<1>1. /\ StateOK /\ OwnerInv(o) /\ PlanOK(o) /\ pos[o] \in 1 .. Len(plan[o])
      /\ Len(plan[o]) \in Nat /\ OwnerOf[x] = o
      /\ \A i \in 1 .. Len(plan[o]) : i # pos[o] => plan[o][i] # x
  BY CurFacts DEF LockInv, OwnerInv, InCall
<1>2. plan' = plan /\ req' = req /\ pos' = pos /\ phase'[o] = "waiting" /\ Cur(o)' = x
  BY <1>1 DEF StateOK, Cur
<1>3. OthersStay(o)
  BY <1>1 DEF OthersStay, StateOK, Phases
<1>4. Taken(o)' = 1 .. pos[o] /\ Taken(o) = 1 .. (pos[o] - 1)
  BY <1>1, <1>2 DEF Taken
<1>5. PlanOK(o)'
  BY <1>1, <1>2 DEF PlanOK
<1>6. Woken(o)'
  BY <1>2 DEF Woken
<1>7. \A i \in Taken(o)' : plan'[o][i] # x =>
         i \in Taken(o) /\ plan'[o][i] = plan[o][i] /\ ~(phase[o] = "waiting" /\ i = pos[o])
  <2> SUFFICES ASSUME NEW i \in 1 .. pos[o], plan[o][i] # x PROVE i \in Taken(o)
    BY <1>2, <1>4
  <2>1. i # pos[o]
    BY DEF Cur
  <2> QED
    BY <1>1, <1>4, <2>1
<1>8. \A d \in Data : d # x /\ OwnerOf[d] = o /\ Linked(d) => \E i \in Taken(o)' : plan'[o][i] = d
  <2> SUFFICES ASSUME NEW d \in Data, OwnerOf[d] = o, Linked(d)
               PROVE  \E i \in 1 .. pos[o] : plan[o][i] = d
    BY <1>2, <1>4
  <2>1. PICK i \in Taken(o) : plan[o][i] = d
    BY <1>1 DEF OwnerInv, LinkedOK
  <2>2. i \in 1 .. pos[o]
    BY <1>1, <1>4
  <2> QED
    BY <2>1, <2>2
<1>9. LinkedOK(x)'
  <2>1. pos[o] \in Taken(o)' /\ plan'[o][pos[o]] = x
    BY <1>1, <1>2, <1>4 DEF Cur
  <2> QED
    BY <1>1, <1>2, <2>1 DEF LinkedOK
<1>10. \A i \in Taken(o)' : x = plan'[o][i] =>
              \/ type'[x] = TL_UNLOCK \/ x \in Active(LockOf[x])'
              \/ /\ x \in Queued(LockOf[x])'
                 /\ req'[x] = TL_WRITE_DELAYED \/ (phase'[o] = "waiting" /\ i = pos'[o])
  <2> SUFFICES ASSUME NEW i \in 1 .. pos[o], x = plan[o][i] PROVE i = pos'[o]
    BY <1>2, <1>4
  <2> QED
    BY <1>1, <1>2
<1>11. \A d \in Data : OwnerOf[d] = o => req'[d] = req[d]
  BY <1>2
<1>12. LinkedOK(x)'
  BY <1>9
<1> QED
  BY <1>2, <1>3, <1>5, <1>6, <1>7, <1>8, <1>10, <1>11, <1>12, ActorOne

-----------------------------------------------------------------------------
(* A step that edits the lock of one instance x of the owner o.            *)

(* What QueuesInOrder says of one step. *)
QueueStep == \A l \in Locks, k \in {"read_wait", "write_wait"} :
    LET old == lists[l][k]
        new == lists'[l][k] IN
    \A i, j \in 1 .. Len(old) : i < j /\ old[i] \in ToSet(new) =>
       /\ type[old[i]] = type[old[j]] => old[j] \notin Active(l)'
       /\ \A m \in 1 .. Len(new) : new[m] = old[j] => old[i] \in {new[n] : n \in 1 .. m}

(* QueuesInOrder in terms of what is served from each of the queues.       *)
LEMMA QueueStepOf ==
    ASSUME \A l \in Locks : /\ Served(lists[l].read_wait, lists'[l].read_wait, Active(l)', type)
                            /\ Served(lists[l].write_wait, lists'[l].write_wait, Active(l)', type)
    PROVE  QueueStep
<1> SUFFICES ASSUME NEW l \in Locks, NEW k \in {"read_wait", "write_wait"}
             PROVE  Served(lists[l][k], lists'[l][k], Active(l)', type)
  BY Zenon DEF QueueStep, Served
<1>1. CASE k = "read_wait"
  BY <1>1
<1>2. CASE k = "write_wait"
  BY <1>2
<1> QED
  BY <1>1, <1>2

(* A lock whose lists do not change. *)
LEMMA SameServed ==
    ASSUME NEW l \in Locks, QInv(View(l)), lists'[l] = lists[l]
    PROVE  /\ Served(lists[l].read_wait, lists'[l].read_wait, Active(l)', type)
           /\ Served(lists[l].write_wait, lists'[l].write_wait, Active(l)', type)
<1>1. Active(l)' = Act(View(l)) /\ View(l).type = type
      /\ View(l).read_wait = lists[l].read_wait /\ View(l).write_wait = lists[l].write_wait
  BY ViewOf DEF Active
<1>2. Requeues(View(l), View(l))
  BY SameLists
<1>3. InTurn(View(l), View(l))
  BY <1>2, RequeuesInTurn
<1> QED
  BY <1>1, <1>3 DEF InTurn

(* Where the lists do not change nobody is overtaken.                      *)
LEMMA StutterQueues ==
    ASSUME LockInv, lists' = lists
    PROVE  QueueStep
<1>1. \A l \in Locks : QInv(View(l)) /\ lists'[l] = lists[l]
  BY DEF LockInv
<1> QED
  BY <1>1, SameServed, QueueStepOf

(* Nor is anybody when a view that kept the turns is installed.            *)
LEMMA InstallQueues ==
    ASSUME LockInv, NEW l \in Locks, NEW w, NEW gone, Install(l, w, gone), InTurn(View(l), w)
    PROVE  QueueStep
<1>1. /\ lists'[l].read = w.read /\ lists'[l].read_wait = w.read_wait
      /\ lists'[l].write = w.write /\ lists'[l].write_wait = w.write_wait
      /\ \A m \in Locks : m # l => lists'[m] = lists[m]
  BY DEF Install, LockInv, StateOK
<1>2. Active(l)' = Act(w)
  BY <1>1 DEF Active, Act
<1>3. /\ Served(lists[l].read_wait, lists'[l].read_wait, Active(l)', type)
      /\ Served(lists[l].write_wait, lists'[l].write_wait, Active(l)', type)
  BY <1>1, <1>2, ViewOf DEF InTurn
<1>4. \A m \in Locks : QInv(View(m))
  BY DEF LockInv
<1> QED
  BY <1>1, <1>3, <1>4, SameServed, QueueStepOf

(* The outcome of an edit of the lock of x. *)
Edits(x, w) == Carries(View(LockOf[x]), w, {x}) /\ InTurn(View(LockOf[x]), w)

(* What an edit about one instance does to the state when it is installed. *)
LEMMA EditKeeps ==
    ASSUME LockInv, NEW x \in Data, NEW w, NEW gone, Edits(x, w), Install(LockOf[x], w, gone)
    PROVE  /\ QueueStep /\ QInv(w)
           /\ \A d \in Data : d # x => Kept(d, gone)
           /\ Active(LockOf[x])' = Act(w) /\ Queued(LockOf[x])' = Que(w)
           /\ Linked(x)' <=> x \in On(w)
           /\ lists'[LockOf[x]].write = w.write
           /\ type' = w.type /\ cond' = w.cond
           /\ awake \ gone \subseteq awake'
<1> DEFINE X == {x}
           l == LockOf[x]
<1>1. l \in Locks /\ X \in SUBSET Data /\ \A d \in X : LockOf[d] = l
  BY ThrLockAssumption
<1>2. Carries(View(l), w, X) /\ InTurn(View(l), w) /\ Install(l, w, gone)
      /\ StateOK /\ \A m \in Locks : QInv(View(m))
  BY DEF Edits, LockInv
<1>3. \A d \in Data : d # x <=> d \in Data \ X
  OBVIOUS
<1> HIDE DEF X
<1>4. QueueStep /\ QInv(w)
  BY <1>1, <1>2, InstallQueues DEF Carries
<1>5. /\ Active(l)' = Act(w) /\ Queued(l)' = Que(w) /\ lists'[l].write = w.write
      /\ type' = w.type /\ cond' = w.cond
      /\ awake \ gone \subseteq awake'
      /\ \A d \in Data \ X : Kept(d, gone)
  BY <1>1, <1>2, InstallOK
<1> QED
  BY <1>3, <1>4, <1>5 DEF Linked, On

(* An operation that installs an edit about an instance of its own, and    *)
(* leaves its owner well, keeps the invariant.                             *)
LEMMA EditStep ==
    ASSUME LockInv, NEW x \in Data, NEW w, NEW gone, Edits(x, w), Install(LockOf[x], w, gone),
           NEW o \in Owners, OwnerOf[x] = o, gone \subseteq {o}, Waiting(o) => o \in gone,
           req' = req, abort' = abort, OthersStay(o), OwnerInv(o)'
    PROVE  LockInv' /\ QueueStep
<1> DEFINE X == {x}
           l == LockOf[x]
<1>1. l \in Locks /\ X \in SUBSET Data /\ \A d \in X : LockOf[d] = l /\ OwnerOf[d] = o
  BY ThrLockAssumption
<1>2. Carries(View(l), w, X) /\ Install(l, w, gone) /\ abort' \subseteq Range(ThreadOf)
  BY DEF Edits, LockInv, StateOK
<1>3. QueueStep
  BY EditKeeps
<1>4. /\ DOMAIN plan' = Owners /\ DOMAIN pos' = Owners /\ phase' \in [Owners -> Phases]
      /\ \A p \in Owners \ {o} : plan'[p] = plan[p] /\ pos'[p] = pos[p] /\ phase'[p] = phase[p]
  BY DEF OthersStay
<1> HIDE DEF X, l
<1> QED
  BY <1>1, <1>2, <1>3, <1>4, OneOwnerStep

(* The same for an owner that does not wait. *)
LEMMA EditStepAwake ==
    ASSUME LockInv, NEW x \in Data, NEW w, Edits(x, w), Install(LockOf[x], w, {}),
           NEW o \in Owners, OwnerOf[x] = o, ~Waiting(o),
           req' = req, abort' = abort, OthersStay(o), OwnerInv(o)'
    PROVE  LockInv' /\ QueueStep
BY EditStep

(* thr_lock() sets type and cond of x before it tests anything. *)
LEMMA SetThen ==
    ASSUME NEW v, QInv(v), NEW x \in Data, x \notin On(v), NEW t \in Types, NEW w,
           Carries(Cleared(v, x, t), w, {x}),
           Requeues(Cleared(v, x, t), w)
    PROVE  Carries(v, w, {x}) /\ Requeues(v, w) /\ InTurn(v, w)
<1> DEFINE u == Cleared(v, x, t)
<1>1. /\ u.read = v.read /\ u.read_wait = v.read_wait
      /\ u.write = v.write /\ u.write_wait = v.write_wait
      /\ \A d \in Data \ {x} : u.type[d] = v.type[d] /\ u.cond[d] = v.cond[d]
  BY DEF QInv, Views, Cleared
<1>2. Carries(u, w, {x}) /\ Requeues(u, w)
  OBVIOUS
<1> HIDE DEF u
<1>3. Act(u) = Act(v) /\ Que(u) = Que(v) /\ On(u) = On(v)
  BY <1>1 DEF Act, Que, On
<1>4. Requeues(v, w)
  BY <1>1, <1>2 DEF Requeues
<1>5. ASSUME NEW d \in Data \ {x} PROVE Carried(v, w, d)
  <2>1. Carried(u, w, d)
    BY <1>2 DEF Carries
  <2> QED
    BY <1>1, <1>3, <2>1 DEF Carried
<1>6. QInv(w)
  BY <1>2 DEF Carries
<1> QED
  BY <1>4, <1>5, <1>6, RequeuesInTurn DEF Carries

(* The view that thr_lock() works on, and what it can do to it. *)
Begun(x, t) == Cleared(View(LockOf[x]), x, t)

(* The view after thr_lock's first assignments, and that edits made after  *)
(* them are edits of the lock.                                             *)
LEMMA ClearedFacts ==
    ASSUME NEW u, NEW x \in Data, NEW t \in Types, QInv(u), x \notin On(u)
    PROVE  LET v == Cleared(u, x, t) IN
           /\ Carries(u, v, {x}) /\ InTurn(u, v) /\ QInv(v) /\ x \notin On(v)
           /\ v.type[x] = t /\ ~v.cond[x]
           /\ v.read = u.read /\ v.write = u.write
           /\ v.read_wait = u.read_wait /\ v.write_wait = u.write_wait
           /\ \A d \in Data \ {x} : v.type[d] = u.type[d]
           /\ \A w : Carries(v, w, {x}) /\ Requeues(v, w) => Carries(u, w, {x}) /\ InTurn(u, w)
<1> DEFINE v == Cleared(u, x, t)
<1>1. /\ Carries(u, v, {x}) /\ Requeues(u, v)
      /\ v.read = u.read /\ v.read_wait = u.read_wait
      /\ v.write = u.write /\ v.write_wait = u.write_wait
      /\ v.type[x] = t /\ ~v.cond[x]
      /\ \A d \in Data \ {x} : v.type[d] = u.type[d]
  BY SetOff
<1>2. \A w : Carries(v, w, {x}) /\ Requeues(v, w) => Carries(u, w, {x}) /\ InTurn(u, w)
  BY SetThen
<1> HIDE DEF v
<1>3. QInv(v) /\ x \notin On(v)
  BY <1>1 DEF Carries, On, Act, Que
<1>4. InTurn(u, v)
  BY <1>1, <1>3, RequeuesInTurn
<1> QED
  BY <1>1, <1>2, <1>3, <1>4 DEF v

(* The same for the lock the call is about.                                *)
LEMMA BegunFacts ==
    ASSUME LockInv, NEW x \in Data, ~Linked(x), NEW t \in Types
    PROVE  LET v == Begun(x, t) IN
           /\ Edits(x, v) /\ QInv(v) /\ x \notin On(v) /\ v.type[x] = t /\ ~v.cond[x]
           /\ v.read = lists[LockOf[x]].read /\ v.write = lists[LockOf[x]].write
           /\ v.read_wait = lists[LockOf[x]].read_wait /\ v.write_wait = lists[LockOf[x]].write_wait
           /\ \A d \in Data \ {x} : v.type[d] = type[d]
           /\ \A w : Carries(v, w, {x}) /\ Requeues(v, w) => Edits(x, w)
<1>0. PICK u : u = View(LockOf[x])
  OBVIOUS
<1> DEFINE v == Begun(x, t)
<1>1. LockOf[x] \in Locks
  BY ThrLockAssumption
<1>2. /\ u.read = lists[LockOf[x]].read /\ u.write = lists[LockOf[x]].write
      /\ u.read_wait = lists[LockOf[x]].read_wait /\ u.write_wait = lists[LockOf[x]].write_wait
      /\ u.type = type
  BY <1>0, <1>1, ViewOf
<1>3. QInv(u) /\ x \notin On(u)
  BY <1>0, <1>1, ViewOf DEF LockInv, Linked, On
<1>4. v = Cleared(u, x, t)
  BY <1>0 DEF Begun
<1>5. \A w : Edits(x, w) <=> Carries(u, w, {x}) /\ InTurn(u, w)
  BY <1>0 DEF Edits
<1>6. LET c == Cleared(u, x, t) IN
      /\ Carries(u, c, {x}) /\ InTurn(u, c) /\ QInv(c) /\ x \notin On(c)
      /\ c.type[x] = t /\ ~c.cond[x]
      /\ c.read = u.read /\ c.write = u.write
      /\ c.read_wait = u.read_wait /\ c.write_wait = u.write_wait
      /\ \A d \in Data \ {x} : c.type[d] = u.type[d]
      /\ \A w : Carries(c, w, {x}) /\ Requeues(c, w) => Carries(u, w, {x}) /\ InTurn(u, w)
  BY <1>3, ClearedFacts
<1> QED
  BY <1>2, <1>4, <1>5, <1>6

(* The ways a call ends. *)
LEMMA CallGranted ==
    ASSUME LockInv, NEW o \in Owners, phase[o] = "locking", NEW x \in Data, x = Cur(o), NEW w,
           Edits(x, w), Install(LockOf[x], w, {}), Advance(o, pos[o]), abort' = abort,
           x \in Act(w) \/ (x \in Que(w) /\ req[x] = TL_WRITE_DELAYED),
           Fits(req[x], w.type[x])
    PROVE  LockInv' /\ QueueStep
<1>1. OwnerOf[x] = o /\ InCall(o) /\ ~Waiting(o)
  BY CurFacts DEF InCall, Waiting
<1>2. /\ \A d \in Data : d # x => Kept(d, {})
      /\ Active(LockOf[x])' = Act(w) /\ Queued(LockOf[x])' = Que(w) /\ type' = w.type
  BY EditKeeps
<1>3. OwnerInv(o)' /\ OthersStay(o) /\ req' = req
  BY <1>1, <1>2, CallAdvances
<1> QED
  BY <1>1, <1>3, EditStep

(* thr_lock returns an error: the invariant is kept.                       *)
LEMMA CallDenied ==
    ASSUME LockInv, NEW o \in Owners, phase[o] = "locking", NEW x \in Data, x = Cur(o), NEW w,
           Edits(x, w), Install(LockOf[x], w, {}), Fail(o, pos[o]), abort' = abort, x \notin On(w)
    PROVE  LockInv' /\ QueueStep
<1>1. OwnerOf[x] = o /\ InCall(o) /\ ~Waiting(o)
  BY CurFacts DEF InCall, Waiting
<1>2. (\A d \in Data : d # x => Kept(d, {})) /\ ~Linked(x)'
  BY EditKeeps
<1>3. OwnerInv(o)' /\ OthersStay(o) /\ req' = req
  BY <1>1, <1>2, CallFails
<1> QED
  BY <1>1, <1>3, EditStep

(* thr_lock queues its instance and waits: the invariant is kept.          *)
LEMMA CallQueued ==
    ASSUME LockInv, NEW o \in Owners, phase[o] = "locking", NEW x \in Data, x = Cur(o), NEW w,
           Edits(x, w), Install(LockOf[x], w, {}), phase' = [phase EXCEPT ![o] = "waiting"],
           UNCHANGED <<req, plan, pos>>, abort' = abort, x \in Que(w),
           Fits(req[x], w.type[x])
    PROVE  LockInv' /\ QueueStep
<1>1. OwnerOf[x] = o /\ ~Waiting(o)
  BY CurFacts DEF Waiting
<1>2. /\ \A d \in Data : d # x => Kept(d, {})
      /\ Queued(LockOf[x])' = Que(w) /\ type' = w.type /\ cond' = w.cond /\ QInv(w)
  BY EditKeeps
<1>3. w.cond[x]
  BY <1>2 DEF QInv, Tagged
<1>4. OwnerInv(o)' /\ OthersStay(o) /\ req' = req
  BY <1>1, <1>2, <1>3, CallWaits
<1> QED
  BY <1>1, <1>4, EditStep

(* A request that was queued is given up at once: the thread was killed. *)
LEMMA GiveUpEdits ==
    ASSUME NEW v, NEW u, NEW x \in Data, NEW cs \in BOOLEAN, QInv(v), QInv(u),
           Carries(v, u, {x}), Requeues(v, u), x \notin Act(u),
           \A d \in Data \ {x} : u.type[d] = v.type[d]
    PROVE  LET w == GiveUp(u, x, cs) IN
           Carries(v, w, {x}) /\ InTurn(v, w) /\ x \notin On(w)
<1>1. PICK r : r = Removed(u, x)
  OBVIOUS
<1>2. /\ Carries(u, r, {x}) /\ Requeues(u, r) /\ Without(u, r, x)
      /\ On(r) = On(u) \ {x} /\ r.type[x] = TL_UNLOCK
      /\ \A d \in Data \ {x} : r.type[d] = u.type[d]
  BY <1>1, RemovedOK
<1>3. QInv(r)
  BY <1>2 DEF Carries
<1> DEFINE w == wake_up_waiters(r, cs)
<1>4. GiveUp(u, x, cs) = w
  BY <1>1 DEF GiveUp, Removed
<1>5. Wakes(r, w)
  BY <1>3, WakeUp
<1> HIDE DEF w
<1>6. On(w) = On(r)
  BY <1>5 DEF Wakes, Moves, On, Act, Que
<1>7. Carries(v, r, {x}) /\ Requeues(v, r)
  <2>1. Requeues(v, r)
    <3>1. /\ v.read_wait \in Seq(Data) /\ u.read_wait \in Seq(Data) /\ r.read_wait \in Seq(Data)
          /\ v.write_wait \in Seq(Data) /\ u.write_wait \in Seq(Data) /\ r.write_wait \in Seq(Data)
      BY <1>3 DEF QInv, Views
    <3>2. /\ ToSet(r.read_wait) \cap ToSet(v.read_wait) \subseteq ToSet(u.read_wait)
          /\ ToSet(r.write_wait) \cap ToSet(v.write_wait) \subseteq ToSet(u.write_wait)
      BY <1>2 DEF Without
    <3>3. SameOrder(v.read_wait, r.read_wait) /\ SameOrder(v.write_wait, r.write_wait)
      BY <1>2, <3>1, <3>2, SameOrderTransitive DEF Requeues
    <3> QED
      BY <1>2, <3>3 DEF Requeues
  <2>2. ASSUME NEW d \in Data \ {x} PROVE Carried(v, r, d)
    <3>1. Carried(v, u, d) /\ Carried(u, r, d) /\ r.type[d] = u.type[d] /\ u.type[d] = v.type[d]
      BY <1>2 DEF Carries
    <3>2. d \in Act(u) <=> d \in Act(r)
      BY <1>2 DEF Without, Act
    <3>3. d \in Que(u) <=> d \in Que(r)
      BY <1>2 DEF Without, Que
    <3>4. r.cond = u.cond /\ r.signalled = u.signalled
      <4>1. PICK y : y = Unlink(u, x)
        OBVIOUS
      <4>2. y \in Views /\ y.cond = u.cond /\ y.signalled = u.signalled
        BY <4>1, UnlinkFields DEF QInv
      <4>3. r = [y EXCEPT !.type[x] = TL_UNLOCK]
        BY <1>1, <4>1 DEF Removed
      <4> QED
        BY <4>2, <4>3 DEF Views
    <3> QED
      BY <3>1, <3>2, <3>3, <3>4 DEF Carried, On
  <2> QED
    BY <1>3, <2>1, <2>2 DEF Carries
<1>8. Carries(v, w, {x})
  BY <1>5, <1>7, EditThenWake
<1>9. \A d \in Que(v) \cap On(r) : r.type[d] = v.type[d]
  <2>1. On(v) \subseteq Data
    BY EmptyList DEF QInv, Views, On, Act, Que
  <2> QED
    BY <1>2, <2>1 DEF On
<1>10. InTurn(v, w)
  BY <1>3, <1>5, <1>7, <1>9, RequeueThenWake
<1> QED
  BY <1>2, <1>4, <1>6, <1>8, <1>10

(* Not granted and not refused. *)
LEMMA BlockedStep ==
    ASSUME LockInv, NEW o \in Owners, phase[o] = "locking", NEW x \in Data, x = Cur(o),
           NEW t \in Types, NEW list \in {"read_wait", "write_wait"}, NEW cs \in BOOLEAN,
           IF list = "read_wait" THEN t \in ReadTypes ELSE t \in WriteTypes,
           Fits(req[x], t),
           Blocked(o, x, Begun(x, t), list, cs), abort' = abort
    PROVE  LockInv' /\ QueueStep
<1>0. ~Linked(x)
  BY CurFacts
<1>1. PICK v : v = Begun(x, t)
  OBVIOUS
<1>2. /\ Edits(x, v) /\ QInv(v) /\ x \notin On(v) /\ v.type[x] = t /\ ~v.cond[x]
      /\ \A d \in Data \ {x} : v.type[d] = type[d]
      /\ \A w : Carries(v, w, {x}) /\ Requeues(v, w) => Edits(x, w)
  <2>1. LET b == Begun(x, t) IN
        /\ Edits(x, b) /\ QInv(b) /\ x \notin On(b) /\ b.type[x] = t /\ ~b.cond[x]
        /\ \A d \in Data \ {x} : b.type[d] = type[d]
        /\ \A w : Carries(b, w, {x}) /\ Requeues(b, w) => Edits(x, w)
    BY <1>0, BegunFacts
  <2> QED
    BY <1>1, <2>1
<1>4. PICK w : w = [v EXCEPT ![list] = Append(@, x), !.cond[x] = TRUE]
  OBVIOUS
<1>5. Blocked(o, x, v, list, cs)
  BY <1>1
<1>6. /\ Carries(v, w, {x}) /\ Requeues(v, w) /\ x \in Que(w) /\ w.type = v.type
      /\ Act(w) = Act(v)
  <2>1. CASE list = "read_wait"
    <3>1. LET q == QueueRead(v, x) IN
          /\ Carries(v, q, {x}) /\ Requeues(v, q) /\ ToSet(q.read_wait) = ToSet(v.read_wait) \cup {x}
          /\ q.read = v.read /\ q.write = v.write /\ q.type = v.type
      BY <1>2, <2>1, QueueReadOK
    <3> QED
      BY <1>4, <2>1, <3>1 DEF Act, Que, QueueRead
  <2>2. CASE list = "write_wait"
    <3>1. LET q == QueueWrite(v, x) IN
          /\ Carries(v, q, {x}) /\ Requeues(v, q) /\ ToSet(q.write_wait) = ToSet(v.write_wait) \cup {x}
          /\ q.read = v.read /\ q.write = v.write /\ q.type = v.type
      BY <1>2, <2>2, QueueWriteOK
    <3> QED
      BY <1>4, <2>2, <3>1 DEF Act, Que, QueueWrite
  <2> QED
    BY <2>1, <2>2
<1>7. CASE CursorDeadlock(v, o)
  BY <1>2, <1>5, <1>7, CallDenied DEF Blocked
<1>8. CASE ~CursorDeadlock(v, o) /\ ThreadOf[o] \notin abort
  <2>1. Install(LockOf[x], w, {}) /\ phase' = [phase EXCEPT ![o] = "waiting"]
        /\ UNCHANGED <<req, plan, pos>>
    BY <1>4, <1>5, <1>8 DEF Blocked, BeginWait
  <2>2. Edits(x, w) /\ w.type[x] = t
    BY <1>2, <1>6
  <2> QED
    BY <1>6, <2>1, <2>2, CallQueued
<1>9. CASE ~CursorDeadlock(v, o) /\ ThreadOf[o] \in abort
  <2>1. Install(LockOf[x], GiveUp(w, x, cs), {}) /\ Fail(o, pos[o])
    BY <1>4, <1>5, <1>9 DEF Blocked, BeginWait
  <2>2. Edits(x, GiveUp(w, x, cs)) /\ x \notin On(GiveUp(w, x, cs))
    <3>1. LockOf[x] \in Locks
      BY ThrLockAssumption
    <3>2. PICK u : u = View(LockOf[x])
      OBVIOUS
    <3>3. QInv(u) /\ x \notin On(u) /\ QInv(w) /\ x \notin Act(w)
      BY <1>0, <1>2, <1>6, <3>1, <3>2, ViewOf DEF LockInv, Linked, On, Carries
    <3>4. v = Cleared(u, x, t)
      BY <1>1, <3>2 DEF Begun
    <3>5. \A d \in Data \ {x} : w.type[d] = u.type[d]
      BY <1>2, <1>6, <3>2, ViewOf
    <3>6. Carries(u, w, {x}) /\ Requeues(u, w)
      BY <1>6, <3>3, <3>4, SetThen
    <3>7. LET g == GiveUp(w, x, cs) IN Carries(u, g, {x}) /\ InTurn(u, g) /\ x \notin On(g)
      BY <3>3, <3>5, <3>6, GiveUpEdits
    <3> QED
      BY <3>2, <3>7 DEF Edits
  <2> QED
    BY <2>1, <2>2, CallDenied
<1> QED
  BY <1>7, <1>8, <1>9

(* The call is refused: the type is reset. *)
LEMMA RefusedStep ==
    ASSUME LockInv, NEW o \in Owners, phase[o] = "locking", NEW x \in Data, x = Cur(o),
           NEW t \in Types, Install(LockOf[x], [Begun(x, t) EXCEPT !.type[x] = TL_UNLOCK], {}),
           Fail(o, pos[o]), abort' = abort
    PROVE  LockInv' /\ QueueStep
<1>0. ~Linked(x) /\ TL_UNLOCK \in Types /\ LockOf[x] \in Locks
  BY CurFacts, ThrLockAssumption DEF Types
<1>1. LET b == Begun(x, TL_UNLOCK) IN
      /\ Edits(x, b) /\ QInv(b) /\ x \notin On(b) /\ b.type[x] = TL_UNLOCK /\ ~b.cond[x]
      /\ \A d \in Data \ {x} : b.type[d] = type[d]
      /\ \A w : Carries(b, w, {x}) /\ Requeues(b, w) => Edits(x, w)
  BY <1>0, BegunFacts
<1>2. [Begun(x, t) EXCEPT !.type[x] = TL_UNLOCK] = Begun(x, TL_UNLOCK)
  <2>1. PICK u : u = View(LockOf[x])
    OBVIOUS
  <2>2. u \in Views
    BY <1>0, <2>1 DEF LockInv, QInv
  <2>3. [Cleared(u, x, t) EXCEPT !.type[x] = TL_UNLOCK] = Cleared(u, x, TL_UNLOCK)
    BY <2>2 DEF Views, Cleared
  <2> QED
    BY <2>1, <2>3 DEF Begun
<1> QED
  BY <1>1, <1>2, CallDenied

(* thr_lock with a read type keeps the invariant and the turns.            *)
LEMMA ReadCall ==
    ASSUME LockInv, NEW o \in Owners, phase[o] = "locking", NEW x \in Data, x = Cur(o),
           IsRead(req[x]), NEW cs \in BOOLEAN, LockRead(o, x, req[x], cs), abort' = abort
    PROVE  LockInv' /\ QueueStep
<1>1. PICK t : t = req[x]
  OBVIOUS
<1>2. t \in ReadTypes /\ t \in Types /\ Fits(req[x], t) /\ ~Linked(x)
  BY <1>1, CurFacts, TypeFacts DEF Fits
<1>3. PICK v : v = Begun(x, t)
  OBVIOUS
<1>4. \/ /\ ReadGranted(v, o, t)
         /\ Install(LockOf[x], AddRead(v, x), {})
         /\ Advance(o, pos[o])
      \/ /\ Refused(v, o, t)
         /\ Install(LockOf[x], [v EXCEPT !.type[x] = TL_UNLOCK], {})
         /\ Fail(o, pos[o])
      \/ /\ ~Refused(v, o, t)
         /\ Blocked(o, x, v, "read_wait", cs)
  BY <1>1, <1>3 DEF LockRead, Begun, Cleared
<1>5. /\ QInv(v) /\ x \notin On(v) /\ v.type[x] = t /\ ~v.cond[x]
      /\ \A w : Carries(v, w, {x}) /\ Requeues(v, w) => Edits(x, w)
  <2>1. LET b == Begun(x, t) IN
        /\ Edits(x, b) /\ QInv(b) /\ x \notin On(b) /\ b.type[x] = t /\ ~b.cond[x]
        /\ \A d \in Data \ {x} : b.type[d] = type[d]
        /\ \A w : Carries(b, w, {x}) /\ Requeues(b, w) => Edits(x, w)
    BY <1>2, BegunFacts
  <2> QED
    BY <1>3, <2>1
<1>6. CASE Install(LockOf[x], AddRead(v, x), {}) /\ Advance(o, pos[o])
  <2>1. LET w == AddRead(v, x) IN
        /\ Carries(v, w, {x}) /\ Requeues(v, w)
        /\ ToSet(w.read) = ToSet(v.read) \cup {x} /\ w.read_wait = v.read_wait
        /\ w.write = v.write /\ w.write_wait = v.write_wait
        /\ w.type = v.type /\ w.cond = v.cond /\ w.signalled = v.signalled
    BY <1>2, <1>5, AddReadOK
  <2>2. PICK w : w = AddRead(v, x)
    OBVIOUS
  <2>3. Edits(x, w) /\ x \in Act(w) /\ w.type[x] = t
    BY <1>5, <2>1, <2>2 DEF Act
  <2> QED
    BY <1>2, <1>6, <2>2, <2>3, CallGranted
<1>7. CASE Install(LockOf[x], [v EXCEPT !.type[x] = TL_UNLOCK], {}) /\ Fail(o, pos[o])
  BY <1>2, <1>3, <1>7, RefusedStep
<1>8. CASE ~Refused(v, o, t) /\ Blocked(o, x, v, "read_wait", cs)
  BY <1>2, <1>3, <1>8, BlockedStep
<1> QED
  BY <1>4, <1>6, <1>7, <1>8

(* thr_lock with a write type keeps the invariant and the turns.           *)
LEMMA WriteCall ==
    ASSUME LockInv, NEW o \in Owners, phase[o] = "locking", NEW x \in Data, x = Cur(o),
           ~IsRead(req[x]), NEW cs \in BOOLEAN, LockWrite(o, x, req[x], cs), abort' = abort
    PROVE  LockInv' /\ QueueStep
<1>1. PICK t : t = EffectiveType(View(LockOf[x]), req[x], cs)
  OBVIOUS
<1>2. t \in WriteTypes /\ t \in Types /\ Fits(req[x], t) /\ ~Linked(x)
  <2>1. ~Linked(x) /\ req[x] \in WriteTypes
    BY CurFacts, TypeFacts
  <2>2. t = req[x] \/ (t = UpgradedInsert /\ req[x] = TL_WRITE_CONCURRENT_INSERT)
    BY <1>1 DEF EffectiveType
  <2> QED
    BY <2>1, <2>2, TypeFacts DEF Fits
<1>3. PICK v : v = Begun(x, t)
  OBVIOUS
<1>4. \/ /\ Install(LockOf[x], [v EXCEPT !.type[x] = TL_UNLOCK], {})
         /\ Fail(o, pos[o])
      \/ /\ ~Refused(v, o, req[x]) /\ DelayedQueued(v, req[x])
         /\ Install(LockOf[x], [v EXCEPT !.write_wait = Append(@, x), !.cond[x] = TRUE], {})
         /\ Advance(o, pos[o])
      \/ /\ ~Refused(v, o, req[x])
         /\ Install(LockOf[x], AddWrite(v, x), {})
         /\ Advance(o, pos[o])
      \/ /\ ~Refused(v, o, req[x])
         /\ Blocked(o, x, v, "write_wait", cs)
  BY <1>1, <1>3 DEF LockWrite, Begun, Cleared
<1>5. /\ QInv(v) /\ x \notin On(v) /\ v.type[x] = t /\ ~v.cond[x]
      /\ \A w : Carries(v, w, {x}) /\ Requeues(v, w) => Edits(x, w)
  <2>1. LET b == Begun(x, t) IN
        /\ Edits(x, b) /\ QInv(b) /\ x \notin On(b) /\ b.type[x] = t /\ ~b.cond[x]
        /\ \A d \in Data \ {x} : b.type[d] = type[d]
        /\ \A w : Carries(b, w, {x}) /\ Requeues(b, w) => Edits(x, w)
    BY <1>2, BegunFacts
  <2> QED
    BY <1>3, <2>1
<1>7. CASE Install(LockOf[x], [v EXCEPT !.type[x] = TL_UNLOCK], {}) /\ Fail(o, pos[o])
  BY <1>2, <1>3, <1>7, RefusedStep
<1>8. CASE /\ ~Refused(v, o, req[x]) /\ DelayedQueued(v, req[x])
           /\ Install(LockOf[x], [v EXCEPT !.write_wait = Append(@, x), !.cond[x] = TRUE], {})
           /\ Advance(o, pos[o])
  <2>1. LET w == QueueWrite(v, x) IN
        /\ Carries(v, w, {x}) /\ Requeues(v, w)
        /\ ToSet(w.write_wait) = ToSet(v.write_wait) \cup {x} /\ w.read_wait = v.read_wait
        /\ w.read = v.read /\ w.write = v.write /\ w.type = v.type
    BY <1>2, <1>5, QueueWriteOK
  <2>2. PICK w : w = QueueWrite(v, x)
    OBVIOUS
  <2>3. Edits(x, w) /\ x \in Que(w) /\ w.type[x] = t
    BY <1>5, <2>1, <2>2 DEF Que
  <2>4. Install(LockOf[x], w, {}) /\ req[x] = TL_WRITE_DELAYED
    BY <1>8, <2>2 DEF QueueWrite, DelayedQueued
  <2> QED
    BY <1>2, <1>8, <2>3, <2>4, CallGranted
<1>9. CASE ~Refused(v, o, req[x]) /\ Install(LockOf[x], AddWrite(v, x), {}) /\ Advance(o, pos[o])
  <2>1. LET w == AddWrite(v, x) IN
        /\ Carries(v, w, {x}) /\ Requeues(v, w)
        /\ ToSet(w.write) = ToSet(v.write) \cup {x} /\ w.write_wait = v.write_wait
        /\ w.read = v.read /\ w.read_wait = v.read_wait
        /\ w.type = v.type /\ w.cond = v.cond /\ w.signalled = v.signalled
    BY <1>2, <1>5, AddWriteOK
  <2>2. PICK w : w = AddWrite(v, x)
    OBVIOUS
  <2>3. Edits(x, w) /\ x \in Act(w) /\ w.type[x] = t
    BY <1>5, <2>1, <2>2 DEF Act
  <2> QED
    BY <1>2, <1>9, <2>2, <2>3, CallGranted
<1>10. CASE ~Refused(v, o, req[x]) /\ Blocked(o, x, v, "write_wait", cs)
  BY <1>2, <1>3, <1>10, BlockedStep
<1> QED
  BY <1>4, <1>7, <1>8, <1>9, <1>10

(* Every call of thr_lock keeps the invariant and the turns.               *)
LEMMA CallStep ==
    ASSUME LockInv, NEW o \in Owners, ThrLockCall(o)
    PROVE  LockInv' /\ QueueStep
<1>1. PICK x : x = Cur(o)
  OBVIOUS
<1>2. phase[o] = "locking" /\ abort' = abort
  BY DEF ThrLockCall
<1>3. x \in Data
  BY <1>1, <1>2, CurFacts
<1>4. PICK cs \in BOOLEAN : IF IsRead(req[x]) THEN LockRead(o, x, req[x], cs)
                                              ELSE LockWrite(o, x, req[x], cs)
  BY <1>1 DEF ThrLockCall
<1> QED
  BY <1>1, <1>2, <1>3, <1>4, ReadCall, WriteCall

-----------------------------------------------------------------------------
(* Steps that leave the lists alone.                                       *)

(* Instances stay where they are in a step that changes no list.           *)
LEMMA NothingMoves ==
    ASSUME UNCHANGED <<lists, type, cond>>, NEW d, NEW gone
    PROVE  Kept(d, gone)
<1>1. /\ Active(LockOf[d])' = Active(LockOf[d]) /\ Queued(LockOf[d])' = Queued(LockOf[d])
      /\ type'[d] = type[d] /\ cond'[d] = cond[d]
  BY DEF Active, Queued
<1> QED
  BY <1>1 DEF Kept, Linked

(* A step that changes no list keeps the invariant if it keeps its owner's *)
(* part.                                                                   *)
LEMMA QuietStep ==
    ASSUME LockInv, NEW o \in Owners, UNCHANGED <<lists, type, cond>>,
           req' \in [Data -> Types], \A d \in Data : OwnerOf[d] # o => req'[d] = req[d],
           abort' \subseteq Range(ThreadOf), OthersStay(o), OwnerInv(o)',
           awake \ {o} \subseteq awake', awake' \subseteq awake \cup {o},
           o \in awake' => Waiting(o)'
    PROVE  LockInv' /\ QueueStep
<1> DEFINE X == {}
           gone == {o}
<1>1. \A d \in Data \ X : Kept(d, gone)
  BY NothingMoves
<1>2. ASSUME NEW p \in Owners PROVE OwnerInv(p)'
  <2>1. CASE p # o
    <3>1. p \notin gone /\ \A d \in X : OwnerOf[d] # p
      BY <2>1
    <3>2. plan'[p] = plan[p] /\ pos'[p] = pos[p] /\ phase'[p] = phase[p]
      BY <2>1 DEF OthersStay
    <3>3. \A d \in Data : OwnerOf[d] = p => req'[d] = req[d]
      BY <2>1
    <3>4. awake \ gone \subseteq awake'
      OBVIOUS
    <3> HIDE DEF X, gone
    <3> QED
      BY <1>1, <3>1, <3>2, <3>3, <3>4, OthersKeep
  <2> QED
    BY <2>1
<1>3. \A l \in Locks : View(l)' = View(l) /\ Active(l)' = Active(l) /\ Queued(l)' = Queued(l)
  BY DEF View, Active, Queued
<1>4. awake' \subseteq {p \in Owners : Waiting(p)'}
  <2> SUFFICES ASSUME NEW p \in awake', p # o PROVE p \in Owners /\ Waiting(p)'
    OBVIOUS
  <2>1. p \in Owners /\ Waiting(p)
    BY DEF LockInv, StateOK
  <2> QED
    BY <2>1 DEF OthersStay, Waiting
<1>5. StateOK'
  BY <1>3, <1>4 DEF LockInv, StateOK, OthersStay
<1>6. QueueStep
  BY StutterQueues
<1> QED
  BY <1>2, <1>3, <1>5, <1>6 DEF LockInv

(* A waiter that finds its cond cleared takes the lock it was given.       *)
LEMMA GrantedStep ==
    ASSUME LockInv, NEW o \in Owners, WaitGranted(o)
    PROVE  LockInv' /\ QueueStep
<1>1. PICK x : x = Cur(o)
  OBVIOUS
<1>2. /\ phase[o] = "waiting" /\ ~cond[x] /\ type[x] # TL_UNLOCK /\ Advance(o, pos[o])
      /\ awake' = awake \ {o} /\ UNCHANGED <<lists, type, cond, abort>>
  BY <1>1 DEF WaitGranted
<1>3. x \in Data /\ OwnerOf[x] = o /\ pos[o] \in 1 .. Len(plan[o]) /\ plan[o][pos[o]] = x
  BY <1>1, <1>2, CurFacts DEF Cur
<1>4. StateOK /\ (\A m \in Locks : QInv(View(m))) /\ OwnerInv(o)
  BY DEF LockInv
<1>5. x \in Active(LockOf[x]) /\ Linked(x)
  <2>1. pos[o] \in Taken(o)
    BY <1>2, <1>3 DEF Taken
  <2>2. x \in Active(LockOf[x]) \/ x \in Queued(LockOf[x])
    BY <1>2, <1>3, <1>4, <2>1 DEF OwnerInv, TakenOK
  <2> QED
    BY <1>2, <1>3, <1>4, <2>2, WhereItIs DEF Linked
<1>6. Fits(req[x], type'[x])
  BY <1>2, <1>3, <1>4, <1>5 DEF OwnerInv, LinkedOK
<1>7. (\A d \in Data : d # x => Kept(d, {o})) /\ x \in Active(LockOf[x])'
  BY <1>2, <1>5, NothingMoves DEF Active
<1>8. OwnerInv(o)' /\ OthersStay(o) /\ req' = req
  BY <1>1, <1>2, <1>3, <1>6, <1>7, CallAdvances DEF InCall
<1> QED
  BY <1>2, <1>4, <1>8, QuietStep DEF StateOK

(* A waiter whose lock was aborted gives back what it had.                 *)
LEMMA AbortedStep ==
    ASSUME LockInv, NEW o \in Owners, WaitAborted(o)
    PROVE  LockInv' /\ QueueStep
<1>1. PICK x : x = Cur(o)
  OBVIOUS
<1>2. /\ phase[o] = "waiting" /\ type[x] = TL_UNLOCK /\ Fail(o, pos[o])
      /\ awake' = awake \ {o} /\ UNCHANGED <<lists, type, cond, abort>>
  BY <1>1 DEF WaitAborted
<1>3. x \in Data /\ OwnerOf[x] = o
  BY <1>1, <1>2, CurFacts
<1>4. StateOK /\ (\A m \in Locks : QInv(View(m)))
  BY DEF LockInv
<1>5. ~Linked(x)'
  <2>1. ~Linked(x)
    BY <1>2, <1>3, <1>4, WhereItIs
  <2> QED
    BY <1>2, <2>1 DEF Linked, Active, Queued
<1>6. \A d \in Data : d # x => Kept(d, {o})
  BY <1>2, NothingMoves
<1>7. OwnerInv(o)' /\ OthersStay(o) /\ req' = req
  BY <1>1, <1>2, <1>3, <1>5, <1>6, CallFails DEF InCall
<1> QED
  BY <1>2, <1>4, <1>7, QuietStep DEF StateOK

(* Nothing but the signals changes. *)
LEMMA OwnerSame ==
    ASSUME NEW o \in Owners, OwnerInv(o), UNCHANGED <<lists, type, cond, req, plan, pos, phase>>,
           Woken(o)'
    PROVE  OwnerInv(o)'
<1>1. \A d : Active(LockOf[d])' = Active(LockOf[d]) /\ Queued(LockOf[d])' = Queued(LockOf[d])
  BY DEF Active, Queued
<1>2. Taken(o)' = Taken(o)
  BY DEF Taken
<1>3. PlanOK(o)'
  BY DEF OwnerInv, PlanOK, Cur
<1>4. TakenOK(o)'
  BY <1>1, <1>2 DEF OwnerInv, TakenOK
<1>5. ASSUME NEW d \in Data, OwnerOf[d] = o PROVE LinkedOK(d)'
  <2>1. LinkedOK(d)
    BY <1>5 DEF OwnerInv
  <2>2. Linked(d)' = Linked(d)
    BY <1>1 DEF Linked
  <2>3. Taken(OwnerOf[d])' = Taken(OwnerOf[d])
    BY <1>2, <1>5
  <2> QED
    BY <1>1, <2>1, <2>2, <2>3 DEF LinkedOK
<1> QED
  BY <1>3, <1>4, <1>5 DEF OwnerInv

(* A wake-up without a grant leads back to waiting.                        *)
LEMMA AgainStep ==
    ASSUME LockInv, NEW o \in Owners, WaitAgain(o)
    PROVE  LockInv' /\ QueueStep
<1>1. /\ Waiting(o) /\ cond[Cur(o)] /\ awake' = awake \ {o}
      /\ UNCHANGED <<lists, type, cond, req, plan, pos, phase, abort>>
  BY DEF WaitAgain
<1>2. StateOK /\ OwnerInv(o)
  BY DEF LockInv
<1>3. OwnerInv(o)'
  <2>1. Woken(o)'
    BY <1>1 DEF Woken, Cur
  <2> QED
    BY <1>1, <1>2, <2>1, OwnerSame
<1>4. OthersStay(o)
  BY <1>1, <1>2 DEF OthersStay, StateOK
<1> QED
  BY <1>1, <1>2, <1>3, <1>4, QuietStep DEF StateOK

(* A kill wakes the waiter and changes no list.                            *)
LEMMA KillStep ==
    ASSUME LockInv, NEW o \in Owners, Kill(o)
    PROVE  LockInv' /\ QueueStep
<1>1. /\ awake' = IF Waiting(o) THEN awake \cup {o} ELSE awake
      /\ abort' = abort \cup {ThreadOf[o]}
      /\ UNCHANGED <<lists, type, cond, req, plan, pos, phase>>
  BY DEF Kill
<1>2. StateOK /\ OwnerInv(o)
  BY DEF LockInv
<1>3. OwnerInv(o)'
  <2>1. Woken(o)'
    BY <1>1, <1>2 DEF Woken, Cur, Waiting, OwnerInv
  <2> QED
    BY <1>1, <1>2, <2>1, OwnerSame
<1>4. OthersStay(o)
  BY <1>1, <1>2 DEF OthersStay, StateOK
<1>5. ThreadOf[o] \in Range(ThreadOf)
  BY ThrLockAssumption DEF Range
<1>6. o \in awake' => Waiting(o)'
  BY <1>1, <1>2 DEF StateOK, Waiting
<1> QED
  BY <1>1, <1>2, <1>3, <1>4, <1>5, <1>6, QuietStep DEF StateOK

-----------------------------------------------------------------------------
(* Giving up a wait, and unlocking.                                        *)

(* Giving up the wait is an edit that takes the waiter out of its queue.   *)
LEMMA GiveUpEditsView ==
    ASSUME LockInv, NEW x \in Data, cond[x], NEW cs \in BOOLEAN
    PROVE  LET w == GiveUp(View(LockOf[x]), x, cs) IN
           Edits(x, w) /\ x \notin On(w)
<1>1. PICK v : v = View(LockOf[x])
  OBVIOUS
<1>2. StateOK /\ (\A m \in Locks : QInv(View(m))) /\ LockOf[x] \in Locks
  BY ThrLockAssumption DEF LockInv
<1>3. QInv(v) /\ x \notin Act(v)
  BY <1>1, <1>2, ViewOf, WhereItIs
<1>4. Requeues(v, v)
  BY <1>3, SameLists
<1>5. Carries(v, v, {x})
  BY <1>3 DEF Carries, Carried, On
<1>6. LET w == GiveUp(v, x, cs) IN Carries(v, w, {x}) /\ InTurn(v, w) /\ x \notin On(w)
  BY <1>3, <1>4, <1>5, GiveUpEdits
<1> QED
  BY <1>1, <1>6 DEF Edits

(* A waiter that times out or is killed leaves its queue and wakes those   *)
(* behind it.                                                              *)
LEMMA GivenUpStep ==
    ASSUME LockInv, NEW o \in Owners, WaitGivenUp(o)
    PROVE  LockInv' /\ QueueStep
<1>1. PICK x : x = Cur(o)
  OBVIOUS
<1>2. phase[o] = "waiting" /\ cond[x] /\ Fail(o, pos[o]) /\ abort' = abort
  BY <1>1 DEF WaitGivenUp
<1>3. PICK cs \in BOOLEAN : Install(LockOf[x], GiveUp(View(LockOf[x]), x, cs), {o})
  BY <1>1 DEF WaitGivenUp
<1>4. x \in Data /\ OwnerOf[x] = o
  BY <1>1, <1>2, CurFacts
<1>5. PICK w : w = GiveUp(View(LockOf[x]), x, cs)
  OBVIOUS
<1>6. Edits(x, w) /\ x \notin On(w) /\ Install(LockOf[x], w, {o})
  BY <1>2, <1>3, <1>4, <1>5, GiveUpEditsView
<1>7. (\A d \in Data : d # x => Kept(d, {o})) /\ ~Linked(x)'
  BY <1>4, <1>6, EditKeeps
<1>8. OwnerInv(o)' /\ OthersStay(o) /\ req' = req
  BY <1>1, <1>2, <1>4, <1>7, CallFails DEF InCall
<1> QED
  BY <1>2, <1>4, <1>6, <1>8, EditStep

(* Where thr_multi_unlock is. *)
LEMMA UnlockFacts ==
    ASSUME LockInv, NEW o \in Owners, phase[o] = "unlocking", pos[o] <= Len(plan[o])
    PROVE  /\ pos[o] \in 1 .. Len(plan[o]) /\ Len(plan[o]) \in Nat
           /\ Cur(o) \in Data /\ OwnerOf[Cur(o)] = o
           /\ \A i \in 1 .. Len(plan[o]) : i # pos[o] => plan[o][i] # Cur(o)
           /\ Taken(o) = pos[o] .. Len(plan[o])
           /\ \/ type[Cur(o)] = TL_UNLOCK \/ Cur(o) \in Active(LockOf[Cur(o)])
              \/ Cur(o) \in Queued(LockOf[Cur(o)]) /\ type[Cur(o)] \in WriteTypes
<1>1. PlanOK(o) /\ OwnerInv(o) /\ plan[o] \in Seq(Data) /\ IsInjective(plan[o]) /\ StateOK
  BY DEF LockInv, OwnerInv, PlanOK
<1>2. pos[o] \in 1 .. Len(plan[o]) /\ Len(plan[o]) \in Nat
  BY <1>1 DEF PlanOK
<1>3. Cur(o) \in Data /\ OwnerOf[Cur(o)] = o
  BY <1>1, <1>2 DEF PlanOK, Cur
<1>4. \A i \in 1 .. Len(plan[o]) : i # pos[o] => plan[o][i] # Cur(o)
  BY <1>1, <1>2 DEF Cur, IsInjective
<1>5. Taken(o) = pos[o] .. Len(plan[o])
  BY <1>2 DEF Taken
<1>6. \/ type[Cur(o)] = TL_UNLOCK \/ Cur(o) \in Active(LockOf[Cur(o)])
      \/ Cur(o) \in Queued(LockOf[Cur(o)]) /\ req[Cur(o)] = TL_WRITE_DELAYED
  <2>1. pos[o] \in Taken(o)
    BY <1>2, <1>5
  <2> QED
    BY <1>1, <2>1 DEF OwnerInv, TakenOK, Cur
<1>7. Cur(o) \in Queued(LockOf[Cur(o)]) /\ req[Cur(o)] = TL_WRITE_DELAYED => type[Cur(o)] \in WriteTypes
  <2> SUFFICES ASSUME Cur(o) \in Queued(LockOf[Cur(o)]), req[Cur(o)] = TL_WRITE_DELAYED
               PROVE  type[Cur(o)] \in WriteTypes
    OBVIOUS
  <2>1. Fits(req[Cur(o)], type[Cur(o)])
    BY <1>1, <1>3 DEF OwnerInv, LinkedOK, Linked
  <2> QED
    BY <2>1, TypeFacts, FitsFacts
<1> QED
  BY <1>2, <1>3, <1>4, <1>5, <1>6, <1>7

(* One round of the loop leaves the owner's other locks as they are. *)
LEMMA UnlockAdvances ==
    ASSUME LockInv, NEW o \in Owners, phase[o] = "unlocking", pos[o] <= Len(plan[o]),
           NEW x \in Data, x = Cur(o), \A d \in Data : d # x => Kept(d, {}), ~Linked(x)',
           pos' = [pos EXCEPT ![o] = @ + 1], UNCHANGED <<req, plan, phase, abort>>
    PROVE  OwnerInv(o)' /\ OthersStay(o) /\ req' = req /\ abort' = abort
<1>1. /\ pos[o] \in 1 .. Len(plan[o]) /\ Len(plan[o]) \in Nat /\ OwnerOf[x] = o
      /\ \A i \in 1 .. Len(plan[o]) : i # pos[o] => plan[o][i] # x
      /\ Taken(o) = pos[o] .. Len(plan[o])
  BY UnlockFacts
<1>2. StateOK /\ OwnerInv(o) /\ PlanOK(o)
  BY DEF LockInv, OwnerInv
<1>3. pos'[o] = pos[o] + 1 /\ phase'[o] = "unlocking" /\ plan' = plan /\ req' = req
  BY <1>2 DEF StateOK
<1>4. OthersStay(o)
  BY <1>2 DEF OthersStay, StateOK
<1>5. Taken(o)' = (pos[o] + 1) .. Len(plan[o])
  BY <1>1, <1>3 DEF Taken
<1>6. PlanOK(o)'
  BY <1>1, <1>2, <1>3 DEF PlanOK
<1>7. Woken(o)'
  BY <1>3 DEF Woken, Waiting
<1>8. \A i \in Taken(o)' : plan'[o][i] # x =>
         i \in Taken(o) /\ plan'[o][i] = plan[o][i] /\ ~(phase[o] = "waiting" /\ i = pos[o])
  BY <1>1, <1>3, <1>5
<1>9. \A i \in Taken(o)' : x = plan'[o][i] =>
              \/ type'[x] = TL_UNLOCK \/ x \in Active(LockOf[x])'
              \/ /\ x \in Queued(LockOf[x])'
                 /\ req'[x] = TL_WRITE_DELAYED \/ (phase'[o] = "waiting" /\ i = pos'[o])
  BY <1>1, <1>3, <1>5
<1>10. \A d \in Data : d # x /\ OwnerOf[d] = o /\ Linked(d) => \E i \in Taken(o)' : plan'[o][i] = d
  <2> SUFFICES ASSUME NEW d \in Data, d # x, OwnerOf[d] = o, Linked(d)
               PROVE  \E i \in (pos[o] + 1) .. Len(plan[o]) : plan[o][i] = d
    BY <1>3, <1>5
  <2>1. PICK i \in Taken(o) : plan[o][i] = d
    BY <1>2 DEF OwnerInv, LinkedOK
  <2>2. i # pos[o]
    BY <2>1 DEF Cur
  <2> QED
    BY <1>1, <2>1, <2>2
<1>11. LinkedOK(x)'
  BY DEF LinkedOK
<1>12. \A d \in Data : OwnerOf[d] = o => req'[d] = req[d]
  BY <1>3
<1> QED
  BY <1>3, <1>4, <1>6, <1>7, <1>8, <1>9, <1>10, <1>11, <1>12, ActorOne

(* thr_unlock is an edit that takes its instance out.                      *)
LEMMA UnlockEdits ==
    ASSUME LockInv, NEW x \in Data, NEW cs \in BOOLEAN,
           \/ x \in Active(LockOf[x])
           \/ x \in Queued(LockOf[x]) /\ type[x] \in WriteTypes
    PROVE  LET w == thr_unlock(View(LockOf[x]), x, cs) IN
           Edits(x, w) /\ x \notin On(w)
<1>1. PICK v : v = View(LockOf[x])
  OBVIOUS
<1>2. StateOK /\ (\A m \in Locks : QInv(View(m))) /\ LockOf[x] \in Locks
  BY ThrLockAssumption DEF LockInv
<1>3. QInv(v) /\ Act(v) = Active(LockOf[x]) /\ Que(v) = Queued(LockOf[x]) /\ v.type = type
  BY <1>1, <1>2, ViewOf
<1>4. x \in Act(v) \/ (x \in Que(v) /\ v.type[x] # TL_READ_NO_INSERT)
  <2>1. TL_READ_NO_INSERT \in ReadTypes
    BY DEF ReadTypes
  <2> QED
    BY <1>3, <2>1, TypeFacts
<1>5. LET r == Unlocked(v, x) IN
      /\ Carries(v, r, {x}) /\ Requeues(v, r) /\ Without(v, r, x)
      /\ On(r) = On(v) \ {x} /\ r.type[x] = TL_UNLOCK
      /\ \A d \in Data \ {x} : r.type[d] = v.type[d]
  BY <1>3, <1>4, UnlockedOK
<1>6. PICK r : r = Unlocked(v, x)
  OBVIOUS
<1>7. /\ Carries(v, r, {x}) /\ Requeues(v, r) /\ QInv(r) /\ On(r) = On(v) \ {x}
      /\ \A d \in Data \ {x} : r.type[d] = v.type[d]
  BY <1>5, <1>6 DEF Carries
<1>8. PICK w : w = wake_up_waiters(r, cs)
  OBVIOUS
<1>9. thr_unlock(View(LockOf[x]), x, cs) = w
  BY <1>1, <1>6, <1>8 DEF thr_unlock, Unlocked
<1>10. Wakes(r, w)
  BY <1>7, <1>8, WakeUp
<1>11. On(w) = On(r)
  BY <1>10 DEF Wakes, Moves, On, Act, Que
<1>12. Carries(v, w, {x})
  BY <1>3, <1>7, <1>10, EditThenWake
<1>13. InTurn(v, w)
  <2>1. On(v) \subseteq Data
    BY <1>3, EmptyList DEF QInv, Views, On, Act, Que
  <2>2. \A d \in Que(v) \cap On(r) : r.type[d] = v.type[d]
    BY <1>7, <2>1 DEF On
  <2> QED
    BY <1>3, <1>7, <1>10, <2>2, RequeueThenWake
<1> QED
  BY <1>1, <1>7, <1>9, <1>11, <1>12, <1>13 DEF Edits

(* thr_multi_unlock's next unlock keeps the invariant and the turns.       *)
LEMMA UnlockStep ==
    ASSUME LockInv, NEW o \in Owners, UnlockNext(o)
    PROVE  LockInv' /\ QueueStep
<1>1. PICK x : x = Cur(o)
  OBVIOUS
<1>2. /\ phase[o] = "unlocking" /\ pos[o] <= Len(plan[o])
      /\ pos' = [pos EXCEPT ![o] = @ + 1] /\ UNCHANGED <<req, plan, phase, abort>>
  BY DEF UnlockNext
<1>3. /\ x \in Data /\ OwnerOf[x] = o /\ LockOf[x] \in Locks /\ ~Waiting(o)
      /\ \/ type[x] = TL_UNLOCK \/ x \in Active(LockOf[x])
         \/ x \in Queued(LockOf[x]) /\ type[x] \in WriteTypes
  BY <1>1, <1>2, UnlockFacts, ThrLockAssumption DEF Waiting
<1>4. StateOK /\ (\A m \in Locks : QInv(View(m)))
  BY DEF LockInv
<1>5. CASE type[x] = TL_UNLOCK
  <2>1. UNCHANGED <<lists, type, cond, awake>>
    BY <1>1, <1>5 DEF UnlockNext
  <2>2. ~Linked(x)'
    <3>1. ~Linked(x)
      BY <1>3, <1>4, <1>5, WhereItIs
    <3> QED
      BY <2>1, <3>1 DEF Linked, Active, Queued
  <2>3. \A d \in Data : d # x => Kept(d, {})
    BY <2>1, NothingMoves
  <2>4. OwnerInv(o)' /\ OthersStay(o) /\ req' = req
    BY <1>1, <1>2, <1>3, <2>2, <2>3, UnlockAdvances
  <2>5. o \notin awake'
    BY <1>3, <1>4, <2>1 DEF StateOK
  <2> QED
    BY <1>2, <1>4, <2>1, <2>4, <2>5, QuietStep DEF StateOK
<1>6. CASE type[x] # TL_UNLOCK
  <2>1. PICK cs \in BOOLEAN : Install(LockOf[x], thr_unlock(View(LockOf[x]), x, cs), {})
    BY <1>1, <1>6 DEF UnlockNext
  <2>2. PICK w : w = thr_unlock(View(LockOf[x]), x, cs)
    OBVIOUS
  <2>3. Edits(x, w) /\ x \notin On(w) /\ Install(LockOf[x], w, {})
    BY <1>3, <1>6, <2>1, <2>2, UnlockEdits
  <2>4. (\A d \in Data : d # x => Kept(d, {})) /\ ~Linked(x)'
    BY <1>3, <2>3, EditKeeps
  <2>5. OwnerInv(o)' /\ OthersStay(o) /\ req' = req /\ abort' = abort
    BY <1>1, <1>2, <1>3, <2>4, UnlockAdvances
  <2> QED
    BY <1>3, <2>3, <2>5, EditStep
<1> QED
  BY <1>5, <1>6

-----------------------------------------------------------------------------
(* The begin and the end of a statement.                                   *)

(* The array that thr_multi_lock sorts has each of the instances once.     *)
LEMMA SortedArray ==
    ASSUME NEW ds \in SUBSET Data, ds # {}, NEW rq, NEW s \in sort_locks(ds, rq)
    PROVE  /\ s \in Seq(Data) /\ IsInjective(s) /\ Len(s) \in Nat /\ Len(s) >= 1
           /\ \A i \in 1 .. Len(s) : s[i] \in ds
<1> DEFINE n == Cardinality(ds)
<1>1. n \in Nat /\ n # 0
  BY QueueAssumption, FS_Subset, FS_CardinalityType, FS_EmptySet
<1>2. s \in [1 .. n -> ds] /\ \A i, j \in 1 .. n : i # j => s[i] # s[j]
  BY DEF sort_locks, SetToSeqs
<1> HIDE DEF n
<1>3. s \in Seq(Data) /\ Len(s) = n /\ DOMAIN s = 1 .. n
  BY <1>1, <1>2
<1> QED
  BY <1>1, <1>2, <1>3 DEF IsInjective

(* An owner that has taken nothing has nothing in the lists. *)
LEMMA NothingTaken ==
    ASSUME LockInv, NEW o \in Owners, Taken(o) = {}, NEW d \in Data, OwnerOf[d] = o
    PROVE  ~Linked(d)
BY DEF LockInv, OwnerInv, LinkedOK

(* thr_multi_lock begins: its owner has no lock yet.                       *)
LEMMA StartLockStep ==
    ASSUME LockInv, NEW o \in Owners, StartMultiLock(o)
    PROVE  LockInv' /\ QueueStep
<1>1. StateOK /\ OwnerInv(o) /\ PlanOK(o)
  BY DEF LockInv, OwnerInv
<1>2. /\ phase[o] = "idle" /\ UNCHANGED <<lists, type, cond, awake, abort>>
      /\ pos' = [pos EXCEPT ![o] = 1] /\ phase' = [phase EXCEPT ![o] = "locking"]
  BY DEF StartMultiLock
<1>3. PICK ds \in SUBSET {d \in Data : OwnerOf[d] = o} :
      \E rq \in [ds -> UNION {MayRequest[d] : d \in ds}] :
      \E s \in sort_locks(ds, rq) :
          /\ ds # {} /\ \A d \in ds : rq[d] \in MayRequest[d]
          /\ req' = [d \in Data |-> IF d \in ds THEN rq[d] ELSE req[d]]
          /\ plan' = [plan EXCEPT ![o] = s]
  BY DEF StartMultiLock
<1>4. PICK rq : \E s \in sort_locks(ds, rq) :
          /\ ds # {} /\ \A d \in ds : rq[d] \in MayRequest[d]
          /\ req' = [d \in Data |-> IF d \in ds THEN rq[d] ELSE req[d]]
          /\ plan' = [plan EXCEPT ![o] = s]
  BY <1>3
<1>5. PICK s \in sort_locks(ds, rq) :
          /\ ds # {} /\ \A d \in ds : rq[d] \in MayRequest[d]
          /\ req' = [d \in Data |-> IF d \in ds THEN rq[d] ELSE req[d]]
          /\ plan' = [plan EXCEPT ![o] = s]
  BY <1>4
<1>6. ds \in SUBSET Data /\ \A d \in ds : OwnerOf[d] = o
  BY <1>3
<1>7. /\ s \in Seq(Data) /\ IsInjective(s) /\ Len(s) \in Nat /\ Len(s) >= 1
      /\ \A i \in 1 .. Len(s) : s[i] \in ds
  BY <1>5, <1>6, SortedArray
<1>8. plan'[o] = s /\ pos'[o] = 1 /\ phase'[o] = "locking"
  BY <1>1, <1>2, <1>5 DEF StateOK
<1>9. Taken(o)' = {} /\ Taken(o) = {}
  BY <1>2, <1>7, <1>8 DEF Taken
<1>10. req' \in [Data -> Types] /\ \A d \in Data : OwnerOf[d] # o => req'[d] = req[d]
  <2>1. \A d \in ds : rq[d] \in Types
    BY <1>5, <1>6, ThrLockAssumption, TypeFacts
  <2> QED
    BY <1>1, <1>5, <1>6, <2>1 DEF StateOK
<1>11. \A d \in ds : req'[d] \in MayRequest[d]
  BY <1>5, <1>6
<1>12. PlanOK(o)'
  BY <1>6, <1>7, <1>8, <1>11 DEF PlanOK
<1>13. \A d \in Data : OwnerOf[d] = o => ~Linked(d)'
  <2>1. \A d \in Data : OwnerOf[d] = o => ~Linked(d)
    BY <1>9, NothingTaken
  <2> QED
    BY <1>2, <2>1 DEF Linked, Active, Queued
<1>14. OwnerInv(o)'
  BY <1>8, <1>9, <1>12, <1>13 DEF OwnerInv, TakenOK, LinkedOK, Woken, Waiting
<1>15. OthersStay(o)
  BY <1>1, <1>2, <1>5 DEF OthersStay, StateOK, Phases
<1>16. o \notin awake'
  BY <1>1, <1>2 DEF StateOK, Waiting
<1> QED
  BY <1>1, <1>2, <1>10, <1>14, <1>15, <1>16, QuietStep DEF StateOK

(* thr_multi_unlock ends: its owner has no lock any more.                  *)
LEMMA DoneStep ==
    ASSUME LockInv, NEW o \in Owners, MultiUnlockDone(o)
    PROVE  LockInv' /\ QueueStep
<1>1. StateOK /\ OwnerInv(o) /\ PlanOK(o)
  BY DEF LockInv, OwnerInv
<1>2. /\ phase[o] = "unlocking" /\ pos[o] > Len(plan[o]) /\ UNCHANGED <<lists, type, cond, awake>>
      /\ plan' = [plan EXCEPT ![o] = <<>>]
      /\ pos' = [pos EXCEPT ![o] = 1] /\ phase' = [phase EXCEPT ![o] = "idle"]
      /\ abort' = abort \ {ThreadOf[o]}
      /\ req' = [d \in Data |-> IF OwnerOf[d] = o THEN TL_UNLOCK ELSE req[d]]
  BY DEF MultiUnlockDone
<1>3. plan'[o] = <<>> /\ pos'[o] = 1 /\ phase'[o] = "idle"
  BY <1>1, <1>2 DEF StateOK
<1>4. Taken(o)' = {} /\ Taken(o) = {}
  BY <1>1, <1>2, <1>3 DEF Taken, PlanOK
<1>5. req' \in [Data -> Types] /\ \A d \in Data : OwnerOf[d] # o => req'[d] = req[d]
  BY <1>1, <1>2 DEF StateOK, Types
<1>6. PlanOK(o)'
  BY <1>3 DEF PlanOK, IsInjective
<1>7. \A d \in Data : OwnerOf[d] = o => ~Linked(d)'
  <2>1. \A d \in Data : OwnerOf[d] = o => ~Linked(d)
    BY <1>4, NothingTaken
  <2> QED
    BY <1>2, <2>1 DEF Linked, Active, Queued
<1>8. OwnerInv(o)'
  BY <1>3, <1>4, <1>6, <1>7 DEF OwnerInv, TakenOK, LinkedOK, Woken, Waiting
<1>9. OthersStay(o)
  BY <1>1, <1>2 DEF OthersStay, StateOK, Phases
<1>10. o \notin awake'
  BY <1>1, <1>2 DEF StateOK, Waiting
<1> QED
  BY <1>1, <1>2, <1>5, <1>8, <1>9, <1>10, QuietStep DEF StateOK

(* A step between the phases in which the owner has all its locks. *)
LEMMA HoldingOn ==
    ASSUME LockInv, NEW o \in Owners, phase[o] \in {"held", "upgrading", "rescheduled"},
           NEW x \in Data, NEW gone, \A d \in Data : d # x => Kept(d, gone), OwnerOf[x] = o,
           phase'[o] \in {"held", "upgrading", "rescheduled", "unlocking"},
           phase'[o] = "unlocking" => pos'[o] = 1,
           plan'[o] = plan[o], \A d \in Data : OwnerOf[d] = o => req'[d] = req[d],
           pos'[o] \in 1 .. Len(plan[o]) + 1,
           phase'[o] \in {"upgrading", "rescheduled"} =>
              pos'[o] <= Len(plan[o]) /\ plan[o][pos'[o]] = x /\ req[x] = TL_WRITE_DELAYED,
           phase'[o] = "upgrading" /\ ~cond'[x] => o \in awake',
           type'[x] = TL_UNLOCK \/ x \in Active(LockOf[x])'
              \/ (x \in Queued(LockOf[x])' /\ req[x] = TL_WRITE_DELAYED),
           Linked(x)' => Linked(x) /\ Fits(req[x], type'[x])
    PROVE  OwnerInv(o)'
<1>1. StateOK /\ OwnerInv(o) /\ PlanOK(o) /\ plan[o] \in Seq(Data) /\ Len(plan[o]) \in Nat
  BY DEF LockInv, OwnerInv, PlanOK
<1>2. Taken(o) = 1 .. Len(plan[o]) /\ Taken(o)' = 1 .. Len(plan[o])
  BY <1>1 DEF Taken
<1>3. PlanOK(o)'
  <2>1. phase'[o] \in {"upgrading", "rescheduled"} => Cur(o)' = x
    BY DEF Cur
  <2>2. \A i \in 1 .. Len(plan[o]) : OwnerOf[plan[o][i]] = o /\ req'[plan[o][i]] = req[plan[o][i]]
    BY <1>1 DEF PlanOK
  <2> QED
    BY <1>1, <2>1, <2>2 DEF PlanOK
<1>4. Woken(o)'
  <2>1. phase'[o] = "upgrading" => Cur(o)' = x
    BY DEF Cur
  <2> QED
    BY <2>1 DEF Woken, Waiting
<1>5. \A i \in Taken(o)' : plan'[o][i] # x =>
         i \in Taken(o) /\ plan'[o][i] = plan[o][i] /\ ~(phase[o] = "waiting" /\ i = pos[o])
  BY <1>2
<1>6. \A i \in Taken(o)' : x = plan'[o][i] =>
              \/ type'[x] = TL_UNLOCK \/ x \in Active(LockOf[x])'
              \/ /\ x \in Queued(LockOf[x])'
                 /\ req'[x] = TL_WRITE_DELAYED \/ (phase'[o] = "waiting" /\ i = pos'[o])
  OBVIOUS
<1>7. \A d \in Data : OwnerOf[d] = o /\ Linked(d) => \E i \in Taken(o)' : plan'[o][i] = d
  BY <1>1, <1>2 DEF OwnerInv, LinkedOK
<1>8. LinkedOK(x)'
  BY <1>7 DEF LinkedOK
<1>9. \A d \in Data : d # x /\ OwnerOf[d] = o /\ Linked(d) => \E i \in Taken(o)' : plan'[o][i] = d
  BY <1>7
<1> QED
  BY <1>3, <1>4, <1>5, <1>6, <1>8, <1>9, ActorOne, Zenon

(* thr_multi_unlock begins with every lock still held.                     *)
LEMMA StartUnlockStep ==
    ASSUME LockInv, NEW o \in Owners, StartMultiUnlock(o)
    PROVE  LockInv' /\ QueueStep
<1>1. StateOK /\ OwnerInv(o) /\ PlanOK(o) /\ plan[o] \in Seq(Data) /\ Len(plan[o]) \in Nat
  BY DEF LockInv, OwnerInv, PlanOK
<1>2. /\ phase[o] = "held" /\ UNCHANGED <<lists, type, cond, req, plan, awake, abort>>
      /\ pos' = [pos EXCEPT ![o] = 1] /\ phase' = [phase EXCEPT ![o] = "unlocking"]
  BY DEF StartMultiUnlock
<1>3. pos'[o] = 1 /\ phase'[o] = "unlocking"
  BY <1>1, <1>2 DEF StateOK
<1>4. Taken(o)' = Taken(o)
  BY <1>1, <1>2, <1>3 DEF Taken
<1>5. \A d : Active(LockOf[d])' = Active(LockOf[d]) /\ Queued(LockOf[d])' = Queued(LockOf[d])
  BY <1>2 DEF Active, Queued
<1>6. PlanOK(o)'
  BY <1>1, <1>2, <1>3 DEF PlanOK
<1>7. TakenOK(o)'
  BY <1>1, <1>2, <1>4, <1>5 DEF OwnerInv, TakenOK
<1>8. ASSUME NEW d \in Data, OwnerOf[d] = o PROVE LinkedOK(d)'
  <2>1. LinkedOK(d)
    BY <1>1, <1>8 DEF OwnerInv
  <2>2. Linked(d)' = Linked(d)
    BY <1>5 DEF Linked
  <2>3. Taken(OwnerOf[d])' = Taken(OwnerOf[d]) /\ phase'[OwnerOf[d]] = "unlocking"
    BY <1>3, <1>4, <1>8
  <2> QED
    BY <1>2, <1>5, <2>1, <2>2, <2>3 DEF LinkedOK
<1>9. OwnerInv(o)'
  BY <1>3, <1>6, <1>7, <1>8 DEF OwnerInv, Woken, Waiting
<1>10. OthersStay(o)
  BY <1>1, <1>2 DEF OthersStay, StateOK, Phases
<1>11. o \notin awake'
  BY <1>1, <1>2 DEF StateOK, Waiting
<1> QED
  BY <1>1, <1>2, <1>9, <1>10, <1>11, QuietStep DEF StateOK

-----------------------------------------------------------------------------
(* Delayed inserts.                                                        *)

(* The type of x is set, and then the lists are edited. *)
LEMMA SameThen ==
    ASSUME NEW v, NEW u, NEW w, NEW x \in Data, QInv(v),
           u.read = v.read, u.read_wait = v.read_wait, u.write = v.write, u.write_wait = v.write_wait,
           \A d \in Data \ {x} : u.type[d] = v.type[d] /\ u.cond[d] = v.cond[d],
           Carries(u, w, {x}), Requeues(u, w)
    PROVE  Carries(v, w, {x}) /\ Requeues(v, w) /\ InTurn(v, w)
<1>1. Act(u) = Act(v) /\ Que(u) = Que(v) /\ On(u) = On(v)
  BY DEF Act, Que, On
<1>2. Requeues(v, w)
  BY DEF Requeues
<1>3. ASSUME NEW d \in Data \ {x} PROVE Carried(v, w, d)
  <2>1. Carried(u, w, d)
    BY DEF Carries
  <2> QED
    BY <1>1, <2>1 DEF Carried
<1>4. QInv(w)
  BY DEF Carries
<1> QED
  BY <1>2, <1>3, <1>4, RequeuesInTurn DEF Carries

(* A write lock of the view gets another type, and may step back. *)
LEMMA DelayedEdits ==
    ASSUME NEW v, QInv(v), NEW x \in Data, x \in ToSet(v.write) \cup ToSet(v.write_wait),
           NEW t \in WriteTypes
    PROVE  LET u == Retyped(v, x, t)
               w == SteppedBack(u, x) IN
           /\ Carries(v, u, {x}) /\ InTurn(v, u) /\ u.type[x] = t /\ u.cond = v.cond /\ QInv(u)
           /\ u.read = v.read /\ u.write = v.write /\ Act(u) = Act(v) /\ Que(u) = Que(v)
           /\ \A d \in Data \ {x} : u.type[d] = v.type[d]
           /\ x \in ToSet(v.write) =>
                 /\ Carries(v, w, {x}) /\ Requeues(v, w) /\ InTurn(v, w) /\ QInv(w)
                 /\ w.type = u.type /\ x \in Que(w) /\ x \notin Que(v)
<1>1. LET u == Retyped(v, x, t) IN
      /\ Carries(v, u, {x}) /\ Requeues(v, u)
      /\ u.read = v.read /\ u.read_wait = v.read_wait
      /\ u.write = v.write /\ u.write_wait = v.write_wait
      /\ u.type[x] = t /\ u.cond = v.cond /\ u.signalled = v.signalled
      /\ \A d \in Data \ {x} : u.type[d] = v.type[d]
  BY RetypeOK
<1>2. PICK u : u = Retyped(v, x, t)
  OBVIOUS
<1>3. /\ Carries(v, u, {x}) /\ Requeues(v, u) /\ QInv(u)
      /\ u.read = v.read /\ u.read_wait = v.read_wait
      /\ u.write = v.write /\ u.write_wait = v.write_wait
      /\ u.type[x] = t /\ u.cond = v.cond
      /\ \A d \in Data \ {x} : u.type[d] = v.type[d] /\ u.cond[d] = v.cond[d]
  BY <1>1, <1>2 DEF Carries
<1>4. InTurn(v, u)
  BY <1>3, RequeuesInTurn
<1>5. ASSUME x \in ToSet(v.write)
      PROVE  LET w == SteppedBack(u, x) IN
             /\ Carries(v, w, {x}) /\ Requeues(v, w) /\ InTurn(v, w) /\ QInv(w)
             /\ w.type = u.type /\ x \in Que(w) /\ x \notin Que(v)
  <2>1. LET w == SteppedBack(u, x) IN
        /\ Carries(u, w, {x}) /\ Requeues(u, w)
        /\ ToSet(w.write_wait) = ToSet(u.write_wait) \cup {x}
        /\ w.type = u.type
    BY <1>3, <1>5, ToFrontOK
  <2>2. PICK w : w = SteppedBack(u, x)
    OBVIOUS
  <2>3. Carries(u, w, {x}) /\ Requeues(u, w) /\ x \in Que(w) /\ QInv(w) /\ w.type = u.type
    BY <2>1, <2>2 DEF Que, Carries
  <2>4. Carries(v, w, {x}) /\ Requeues(v, w) /\ InTurn(v, w)
    BY <1>3, <2>3, SameThen
  <2>5. x \notin Que(v)
    BY <1>5 DEF QInv, Apart, Act, Que
  <2> QED
    BY <2>2, <2>3, <2>4, <2>5
<1>6. Act(u) = Act(v) /\ Que(u) = Que(v)
  BY <1>3 DEF Act, Que
<1> QED
  BY <1>2, <1>3, <1>4, <1>5, <1>6

(* The delayed insert at position n of the array is in a write list. *)
LEMMA DelayedFacts ==
    ASSUME LockInv, NEW o \in Owners, phase[o] \in {"held", "upgrading", "rescheduled"},
           NEW n \in 1 .. Len(plan[o]), NEW x, x = plan[o][n], type[x] # TL_UNLOCK,
           req[x] = TL_WRITE_DELAYED
    PROVE  /\ x \in Data /\ OwnerOf[x] = o /\ LockOf[x] \in Locks /\ Linked(x)
           /\ QInv(View(LockOf[x])) /\ Len(plan[o]) \in Nat
           /\ ~cond[x] => x \in ToSet(lists[LockOf[x]].write)
           /\ cond[x] => x \in ToSet(lists[LockOf[x]].write_wait)
<1>1. StateOK /\ (\A m \in Locks : QInv(View(m))) /\ OwnerInv(o) /\ PlanOK(o) /\ plan[o] \in Seq(Data)
  BY DEF LockInv, OwnerInv, PlanOK
<1>2. x \in Data /\ OwnerOf[x] = o /\ Len(plan[o]) \in Nat
  BY <1>1 DEF PlanOK
<1>3. LockOf[x] \in Locks
  BY <1>2, ThrLockAssumption
<1>4. n \in Taken(o)
  BY DEF Taken
<1>5. Linked(x)
  BY <1>1, <1>4 DEF OwnerInv, TakenOK, Linked
<1>6. type[x] \in WriteTypes
  <2>1. Fits(req[x], type[x])
    BY <1>1, <1>2, <1>5 DEF OwnerInv, LinkedOK
  <2> QED
    BY <2>1, TypeFacts, FitsFacts
<1> QED
  BY <1>1, <1>2, <1>3, <1>5, <1>6, WhereItIs DEF Linked

(* thr_upgrade_write_delay_lock on one instance, granted or made to wait.  *)
LEMMA UpgradeDelayedStep ==
    ASSUME LockInv, NEW o \in Owners, phase[o] \in {"held", "rescheduled"},
           NEW x \in Data, \E n \in 1 .. Len(plan[o]) : plan[o][n] = x /\ pos'[o] = n,
           type[x] # TL_UNLOCK, req[x] = TL_WRITE_DELAYED,
           UpgradeDelayed(o, x), DOMAIN pos' = Owners,
           \A p \in Owners \ {o} : pos'[p] = pos[p],
           req' = req, plan' = plan, abort' = abort
    PROVE  LockInv' /\ QueueStep
<1>1. /\ x \in Data /\ OwnerOf[x] = o /\ LockOf[x] \in Locks /\ Linked(x)
      /\ QInv(View(LockOf[x])) /\ Len(plan[o]) \in Nat
      /\ ~cond[x] => x \in ToSet(lists[LockOf[x]].write)
      /\ cond[x] => x \in ToSet(lists[LockOf[x]].write_wait)
  BY DelayedFacts
<1>2. StateOK /\ ~Waiting(o)
  BY DEF LockInv, Waiting
<1>3. PICK v : v = View(LockOf[x])
  OBVIOUS
<1>4. PICK u : u = Retyped(v, x, UpgradeTo)
  OBVIOUS
<1>5. PICK w : w = SteppedBack(u, x)
  OBVIOUS
<1>6. /\ QInv(v) /\ v.cond = cond /\ v.type = type
      /\ v.write = lists[LockOf[x]].write /\ v.write_wait = lists[LockOf[x]].write_wait
      /\ Act(v) = Active(LockOf[x]) /\ Que(v) = Queued(LockOf[x])
  BY <1>1, <1>3, ViewOf
<1>7. x \in ToSet(v.write) \cup ToSet(v.write_wait) /\ UpgradeTo \in WriteTypes
      /\ Fits(req[x], UpgradeTo)
  BY <1>1, <1>6, TypeFacts DEF Fits
<1>8. LET a == Retyped(v, x, UpgradeTo)
          b == SteppedBack(a, x) IN
      /\ Carries(v, a, {x}) /\ InTurn(v, a) /\ a.type[x] = UpgradeTo /\ a.cond = v.cond /\ QInv(a)
      /\ a.read = v.read /\ a.write = v.write /\ Act(a) = Act(v) /\ Que(a) = Que(v)
      /\ \A d \in Data \ {x} : a.type[d] = v.type[d]
      /\ x \in ToSet(v.write) =>
            /\ Carries(v, b, {x}) /\ Requeues(v, b) /\ InTurn(v, b) /\ QInv(b)
            /\ b.type = a.type /\ x \in Que(b) /\ x \notin Que(v)
  BY <1>1, <1>6, <1>7, DelayedEdits
<1>9. /\ Edits(x, u) /\ u.type[x] = UpgradeTo /\ u.cond = cond /\ Act(u) = Act(v) /\ Que(u) = Que(v)
      /\ ~cond[x] => Edits(x, w) /\ w.type[x] = UpgradeTo /\ x \in Que(w) /\ w.cond[x]
  <2>1. x \in Que(w) /\ QInv(w) => w.cond[x]
    BY DEF QInv, Tagged
  <2> QED
    BY <1>1, <1>3, <1>4, <1>5, <1>6, <1>8, <2>1 DEF Edits
<1>10. \/ ~cond[x] /\ Install(LockOf[x], u, {}) /\ phase' = [phase EXCEPT ![o] = "held"]
       \/ ~cond[x] /\ Install(LockOf[x], w, {}) /\ phase' = [phase EXCEPT ![o] = "upgrading"]
       \/ cond[x] /\ Install(LockOf[x], u, {}) /\ phase' = [phase EXCEPT ![o] = "upgrading"]
  BY <1>3, <1>4, <1>5 DEF UpgradeDelayed, Retyped, SteppedBack
<1>11. /\ OthersStay(o) /\ req' = req /\ abort' = abort /\ plan'[o] = plan[o]
       /\ pos'[o] \in 1 .. Len(plan[o]) + 1 /\ pos'[o] <= Len(plan[o]) /\ plan[o][pos'[o]] = x
       /\ phase'[o] \in {"held", "upgrading"}
  BY <1>1, <1>2, <1>10 DEF OthersStay, StateOK, Phases
<1>12. CASE Install(LockOf[x], u, {})
  <2>1. /\ \A d \in Data : d # x => Kept(d, {})
        /\ Active(LockOf[x])' = Act(u) /\ Queued(LockOf[x])' = Que(u)
        /\ type' = u.type /\ cond' = u.cond
    BY <1>1, <1>9, <1>12, EditKeeps
  <2>2. x \in Active(LockOf[x])' \/ x \in Queued(LockOf[x])'
    BY <1>1, <1>6, <1>9, <2>1 DEF Linked
  <2>3. phase'[o] = "upgrading" => cond'[x]
    <3>1. phase'[o] = "upgrading" => cond[x]
      <4>1. CASE ~cond[x] /\ Install(LockOf[x], w, {}) /\ phase' = [phase EXCEPT ![o] = "upgrading"]
        <5>1. w.type[x] = UpgradeTo /\ x \in Que(w) /\ Edits(x, w)
          BY <1>9, <4>1
        <5>2. Queued(LockOf[x])' = Que(w)
          BY <1>1, <4>1, <5>1, EditKeeps
        <5>3. x \in Active(LockOf[x])
          BY <1>1, <4>1 DEF Active
        <5>4. x \in Act(v) /\ Act(v) \cap Que(v) = {}
          BY <1>6, <5>3 DEF QInv, Apart
        <5> QED
          BY <1>9, <2>1, <5>1, <5>2, <5>4
      <4>2. CASE ~cond[x] /\ phase' = [phase EXCEPT ![o] = "held"]
        BY <1>2, <4>2 DEF StateOK
      <4> QED
        BY <1>10, <4>1, <4>2
    <3> QED
      BY <1>9, <2>1, <3>1
  <2>4. OwnerInv(o)'
    BY <1>1, <1>7, <1>9, <1>11, <2>1, <2>2, <2>3, HoldingOn
  <2> QED
    <3>1. Edits(x, u) /\ Install(LockOf[x], u, {}) /\ x \in Data /\ OwnerOf[x] = o /\ ~Waiting(o)
      BY <1>1, <1>2, <1>9, <1>12
    <3>2. req' = req /\ abort' = abort /\ OthersStay(o)
      BY <1>11
    <3> QED
      BY <2>4, <3>1, <3>2, EditStepAwake
<1>13. CASE ~cond[x] /\ Install(LockOf[x], w, {})
  <2>0. Edits(x, w) /\ w.type[x] = UpgradeTo /\ x \in Que(w) /\ w.cond[x]
    BY <1>9, <1>13
  <2>1. /\ \A d \in Data : d # x => Kept(d, {})
        /\ Active(LockOf[x])' = Act(w) /\ Queued(LockOf[x])' = Que(w)
        /\ type' = w.type /\ cond' = w.cond
    BY <1>1, <2>0, <1>13, EditKeeps
  <2>2. x \in Queued(LockOf[x])' /\ cond'[x] /\ type'[x] = UpgradeTo
    BY <2>0, <2>1
  <2>3. OwnerInv(o)'
    BY <1>1, <1>7, <1>11, <2>1, <2>2, HoldingOn
  <2> QED
    <3>1. Install(LockOf[x], w, {}) /\ x \in Data /\ OwnerOf[x] = o /\ ~Waiting(o)
      BY <1>1, <1>2, <1>13
    <3>2. req' = req /\ abort' = abort /\ OthersStay(o) /\ Edits(x, w)
      BY <1>11, <2>0
    <3> QED
      BY <2>3, <3>1, <3>2, EditStepAwake
<1> QED
  BY <1>10, <1>12, <1>13

(* The delayed insert of an owner is in its array.                         *)
LEMMA DelayedPosition ==
    ASSUME LockInv, NEW o \in Owners, NEW x \in DelayedData(o)
    PROVE  LET n == CHOOSE i \in 1 .. Len(plan[o]) : plan[o][i] = x IN
           n \in 1 .. Len(plan[o]) /\ plan[o][n] = x /\ req[x] = TL_WRITE_DELAYED
<1>1. plan[o] \in Seq(Data)
  BY DEF LockInv, OwnerInv, PlanOK
<1>2. \E i \in 1 .. Len(plan[o]) : plan[o][i] = x
  BY <1>1 DEF DelayedData, ToSet
<1> QED
  BY <1>2 DEF DelayedData

(* thr_upgrade_write_delay_lock keeps the invariant and the turns.         *)
LEMMA UpgradeStep ==
    ASSUME LockInv, NEW o \in Owners, thr_upgrade_write_delay_lock(o)
    PROVE  LockInv' /\ QueueStep
<1>1. PICK x \in DelayedData(o) :
         /\ type[x] # TL_UNLOCK
         /\ pos' = [pos EXCEPT ![o] = CHOOSE i \in 1 .. Len(plan[o]) : plan[o][i] = x]
         /\ UpgradeDelayed(o, x)
  BY DEF thr_upgrade_write_delay_lock
<1>2. PICK n : n = CHOOSE i \in 1 .. Len(plan[o]) : plan[o][i] = x
  OBVIOUS
<1>3. n \in 1 .. Len(plan[o]) /\ plan[o][n] = x /\ req[x] = TL_WRITE_DELAYED
  BY <1>2, DelayedPosition
<1>4. phase[o] = "held" /\ req' = req /\ plan' = plan /\ abort' = abort
  BY DEF thr_upgrade_write_delay_lock
<1>5. DOMAIN pos' = Owners /\ pos'[o] = n /\ \A p \in Owners \ {o} : pos'[p] = pos[p]
  BY <1>1, <1>2 DEF LockInv, StateOK
<1>6. x \in Data
  BY <1>1, <1>3, <1>4, DelayedFacts
<1> QED
  BY <1>1, <1>3, <1>4, <1>5, <1>6, UpgradeDelayedStep

(* So does the upgrade that ends a reschedule.                             *)
LEMMA RescheduleUpgradeStep ==
    ASSUME LockInv, NEW o \in Owners, RescheduleUpgrade(o)
    PROVE  LockInv' /\ QueueStep
<1>1. phase[o] = "rescheduled" /\ UNCHANGED <<req, plan, pos, abort>>
  BY DEF RescheduleUpgrade
<1>2. PICK x : x = Cur(o)
  OBVIOUS
<1>3. /\ x \in Data /\ OwnerOf[x] = o /\ pos[o] \in 1 .. Len(plan[o]) /\ plan[o][pos[o]] = x
      /\ req[x] = TL_WRITE_DELAYED /\ StateOK /\ Len(plan[o]) \in Nat
  BY <1>1, <1>2, CurFacts DEF LockInv, OwnerInv, PlanOK, Cur
<1>4. CASE type[x] # TL_UNLOCK
  <2>1. UpgradeDelayed(o, x)
    BY <1>2, <1>4 DEF RescheduleUpgrade
  <2>2. DOMAIN pos' = Owners /\ pos'[o] = pos[o] /\ \A p \in Owners \ {o} : pos'[p] = pos[p]
    BY <1>1, <1>3 DEF StateOK
  <2> QED
    BY <1>1, <1>3, <1>4, <2>1, <2>2, UpgradeDelayedStep
<1>5. CASE type[x] = TL_UNLOCK
  <2>1. phase' = [phase EXCEPT ![o] = "held"] /\ UNCHANGED <<lists, type, cond, awake>>
    BY <1>2, <1>5 DEF RescheduleUpgrade
  <2>2. OthersStay(o) /\ phase'[o] = "held"
    BY <1>1, <1>3, <2>1 DEF OthersStay, StateOK, Phases
  <2>3. ~Linked(x)'
    <3>1. ~Linked(x)
      BY <1>3, <1>5, WhereItIs DEF LockInv
    <3> QED
      BY <2>1, <3>1 DEF Linked, Active, Queued
  <2>4. \A d \in Data : d # x => Kept(d, {})
    BY <2>1, NothingMoves
  <2>5. type'[x] = TL_UNLOCK /\ plan'[o] = plan[o] /\ pos'[o] \in 1 .. Len(plan[o]) + 1 /\ req' = req
    BY <1>1, <1>3, <1>5, <2>1
  <2>6. OwnerInv(o)'
    BY <1>1, <1>3, <2>2, <2>3, <2>4, <2>5, HoldingOn
  <2>7. o \notin awake'
    BY <1>1, <1>3, <2>1 DEF StateOK, Waiting
  <2> QED
    BY <1>1, <1>3, <2>1, <2>2, <2>6, <2>7, QuietStep DEF StateOK
<1> QED
  BY <1>4, <1>5

(* The wait of an upgrade ends with a grant or without.                    *)
LEMMA UpgradeEndsStep ==
    ASSUME LockInv, NEW o \in Owners, UpgradeWaitEnds(o)
    PROVE  LockInv' /\ QueueStep
<1>1. /\ phase[o] = "upgrading" /\ phase' = [phase EXCEPT ![o] = "held"]
      /\ req' = req /\ plan' = plan /\ pos' = pos /\ abort' = abort
  BY DEF UpgradeWaitEnds
<1>2. PICK x \in Data : x = Cur(o)
  BY <1>1, CurFacts
<1>3. /\ OwnerOf[x] = o /\ pos[o] \in 1 .. Len(plan[o]) /\ plan[o][pos[o]] = x
      /\ req[x] = TL_WRITE_DELAYED /\ StateOK /\ Len(plan[o]) \in Nat /\ OwnerInv(o)
      /\ \A m \in Locks : QInv(View(m))
  BY <1>1, <1>2, CurFacts DEF LockInv, OwnerInv, PlanOK, Cur
<1>4. /\ OthersStay(o) /\ phase'[o] = "held" /\ plan'[o] = plan[o]
      /\ pos'[o] \in 1 .. Len(plan[o]) + 1
  BY <1>1, <1>3 DEF OthersStay, StateOK, Phases
<1>5. ASSUME ~cond[x], awake' = awake \ {o}, UNCHANGED <<lists, type, cond>>
      PROVE  LockInv' /\ QueueStep
  <2>1. pos[o] \in Taken(o)
    BY <1>1, <1>3 DEF Taken
  <2>2. \/ type[x] = TL_UNLOCK \/ x \in Active(LockOf[x])
        \/ x \in Queued(LockOf[x]) /\ req[x] = TL_WRITE_DELAYED
    BY <1>3, <2>1 DEF OwnerInv, TakenOK
  <2>3. \/ type'[x] = TL_UNLOCK \/ x \in Active(LockOf[x])'
        \/ x \in Queued(LockOf[x])' /\ req[x] = TL_WRITE_DELAYED
    BY <1>5, <2>2 DEF Active, Queued
  <2>4. Linked(x)' => Linked(x) /\ Fits(req[x], type'[x])
    <3>1. Linked(x)' <=> Linked(x)
      BY <1>5 DEF Linked, Active, Queued
    <3>2. LinkedOK(x)
      BY <1>3 DEF OwnerInv
    <3> QED
      BY <1>5, <3>1, <3>2 DEF LinkedOK
  <2>5. \A d \in Data : d # x => Kept(d, {o})
    BY <1>5, NothingMoves
  <2>6. OwnerInv(o)'
    BY <1>1, <1>3, <1>4, <2>3, <2>4, <2>5, HoldingOn
  <2> QED
    BY <1>1, <1>3, <1>4, <1>5, <2>6, QuietStep DEF StateOK
<1>6. ASSUME cond[x], NEW cs \in BOOLEAN,
             Install(LockOf[x], GiveUp(View(LockOf[x]), x, cs), {o})
      PROVE  LockInv' /\ QueueStep
  <2>1. PICK w : w = GiveUp(View(LockOf[x]), x, cs)
    OBVIOUS
  <2>2. Edits(x, w) /\ x \notin On(w) /\ Install(LockOf[x], w, {o})
    BY <1>6, <2>1, GiveUpEditsView
  <2>3. (\A d \in Data : d # x => Kept(d, {o})) /\ ~Linked(x)' /\ type' = w.type
    BY <2>2, EditKeeps
  <2>4. type'[x] = TL_UNLOCK
    <3>1. PICK v : v = View(LockOf[x])
      OBVIOUS
    <3> QInv(v) /\ x \notin Act(v)
      <4>1. LockOf[x] \in Locks
        BY ThrLockAssumption
      <4>2. QInv(View(LockOf[x])) /\ x \notin Active(LockOf[x])
        BY <1>3, <1>6, <4>1, ViewOf DEF QInv, Tagged
      <4> QED
        BY <3>1, <4>1, <4>2, ViewOf
    <3>2. QInv(v) /\ x \notin Act(v)
      OBVIOUS
    <3>3. LET r == Removed(v, x) IN
          /\ Carries(v, r, {x}) /\ Requeues(v, r) /\ Without(v, r, x)
          /\ On(r) = On(v) \ {x} /\ r.type[x] = TL_UNLOCK
      BY <3>2, RemovedOK
    <3>4. PICK r : r = Removed(v, x)
      OBVIOUS
    <3>5. QInv(r) /\ r.type[x] = TL_UNLOCK
      BY <3>3, <3>4 DEF Carries
    <3>6. w = wake_up_waiters(r, cs)
      BY <2>1, <3>1, <3>4 DEF GiveUp, Removed
    <3>7. Wakes(r, w)
      BY <3>5, <3>6, WakeUp
    <3>8. w.type[x] = r.type[x]
      BY <3>5, <3>7 DEF Wakes, Retypes, TL_UNLOCK, TL_WRITE_CONCURRENT_INSERT
    <3> QED
      BY <2>3, <3>5, <3>8
  <2>5. OwnerInv(o)'
    BY <1>1, <1>3, <1>4, <2>3, <2>4, HoldingOn
  <2> QED
    BY <1>1, <1>3, <1>4, <2>2, <2>5, EditStep
<1>7. \/ ~cond[x] /\ awake' = awake \ {o} /\ UNCHANGED <<lists, type, cond>>
      \/ cond[x] /\ \E cs \in BOOLEAN : Install(LockOf[x], GiveUp(View(LockOf[x]), x, cs), {o})
  BY <1>2 DEF UpgradeWaitEnds
<1> QED
  BY <1>5, <1>6, <1>7

(* thr_reschedule_write_lock steps back for the waiting readers.           *)
LEMMA RescheduleStep ==
    ASSUME LockInv, NEW o \in Owners, thr_reschedule_write_lock(o)
    PROVE  LockInv' /\ QueueStep
<1>1. /\ phase[o] = "held" /\ phase' = [phase EXCEPT ![o] = "rescheduled"]
      /\ req' = req /\ plan' = plan /\ abort' = abort
  BY DEF thr_reschedule_write_lock
<1>2. PICK x \in DelayedData(o) :
         LET u == [View(LockOf[x]) EXCEPT !.type[x] = TL_WRITE_DELAYED] IN
         /\ type[x] = UpgradeTo /\ ~cond[x]
         /\ pos' = [pos EXCEPT ![o] = CHOOSE i \in 1 .. Len(plan[o]) : plan[o][i] = x]
         /\ Install(LockOf[x],
                free_all_read_locks([ToFront(u, x) EXCEPT !.cond[x] = TRUE], FALSE), {})
  BY DEF thr_reschedule_write_lock
<1>3. PICK n : n = CHOOSE i \in 1 .. Len(plan[o]) : plan[o][i] = x
  OBVIOUS
<1>4. n \in 1 .. Len(plan[o]) /\ plan[o][n] = x /\ req[x] = TL_WRITE_DELAYED
  BY <1>3, DelayedPosition
<1>5. type[x] # TL_UNLOCK /\ TL_WRITE_DELAYED \in WriteTypes
  BY <1>2, TypeFacts
<1>6. /\ x \in Data /\ OwnerOf[x] = o /\ LockOf[x] \in Locks /\ Linked(x)
      /\ QInv(View(LockOf[x])) /\ Len(plan[o]) \in Nat
      /\ x \in ToSet(lists[LockOf[x]].write)
  BY <1>1, <1>2, <1>4, <1>5, DelayedFacts
<1>7. PICK v : v = View(LockOf[x])
  OBVIOUS
<1>8. PICK u : u = Retyped(v, x, TL_WRITE_DELAYED)
  OBVIOUS
<1>9. PICK b : b = SteppedBack(u, x)
  OBVIOUS
<1>10. PICK w : w = free_all_read_locks(b, FALSE)
  OBVIOUS
<1>11. Install(LockOf[x], w, {})
  BY <1>2, <1>7, <1>8, <1>9, <1>10 DEF Retyped, SteppedBack
<1>12. QInv(v) /\ x \in ToSet(v.write) /\ x \in ToSet(v.write) \cup ToSet(v.write_wait)
  BY <1>6, <1>7, ViewOf
<1>13. LET p == Retyped(v, x, TL_WRITE_DELAYED)
           q == SteppedBack(p, x) IN
       /\ Carries(v, p, {x}) /\ InTurn(v, p) /\ p.type[x] = TL_WRITE_DELAYED /\ p.cond = v.cond /\ QInv(p)
       /\ p.read = v.read /\ p.write = v.write /\ Act(p) = Act(v) /\ Que(p) = Que(v)
       /\ \A d \in Data \ {x} : p.type[d] = v.type[d]
       /\ x \in ToSet(v.write) =>
             /\ Carries(v, q, {x}) /\ Requeues(v, q) /\ InTurn(v, q) /\ QInv(q)
             /\ q.type = p.type /\ x \in Que(q) /\ x \notin Que(v)
  BY <1>5, <1>6, <1>12, DelayedEdits
<1>14. /\ Carries(v, b, {x}) /\ Requeues(v, b) /\ QInv(b) /\ b.type = u.type
       /\ x \in Que(b) /\ x \notin Que(v) /\ u.type[x] = TL_WRITE_DELAYED
       /\ \A d \in Data \ {x} : u.type[d] = v.type[d]
  BY <1>8, <1>9, <1>12, <1>13
<1>15. Wakes(b, w)
  BY <1>10, <1>14, FreeWakes
<1>16. w.type = b.type
  BY <1>10, <1>14, FreeFields DEF QInv
<1>17. Edits(x, w)
  <2>1. Carries(v, w, {x})
    BY <1>12, <1>14, <1>15, EditThenWake
  <2>2. \A d \in Que(v) \cap On(b) : b.type[d] = v.type[d]
    <3>1. Que(v) \subseteq Data
      BY <1>12, EmptyList DEF QInv, Views, Que
    <3> QED
      BY <1>14, <3>1
  <2>3. InTurn(v, w)
    BY <1>12, <1>14, <1>15, <2>2, RequeueThenWake
  <2> QED
    BY <1>7, <2>1, <2>3 DEF Edits
<1>18. x \in On(w)
  BY <1>14, <1>15 DEF Wakes, Moves, On, Act, Que
<1>19. /\ \A d \in Data : d # x => Kept(d, {})
       /\ Active(LockOf[x])' = Act(w) /\ Queued(LockOf[x])' = Que(w) /\ type' = w.type
  BY <1>6, <1>11, <1>17, EditKeeps
<1>20. type'[x] = TL_WRITE_DELAYED /\ (x \in Active(LockOf[x])' \/ x \in Queued(LockOf[x])')
  BY <1>14, <1>16, <1>18, <1>19 DEF On
<1>21. /\ OthersStay(o) /\ phase'[o] = "rescheduled" /\ ~Waiting(o)
       /\ pos'[o] \in 1 .. Len(plan[o]) + 1 /\ pos'[o] <= Len(plan[o]) /\ plan[o][pos'[o]] = x
  <2>1. StateOK /\ pos' = [pos EXCEPT ![o] = n]
    BY <1>2, <1>3 DEF LockInv
  <2>2. pos'[o] = n
    BY <2>1 DEF StateOK
  <2>3. OthersStay(o)
    BY <1>1, <2>1 DEF StateOK, OthersStay, Phases
  <2>4. phase'[o] = "rescheduled" /\ ~Waiting(o)
    BY <1>1, <2>1 DEF StateOK, Waiting
  <2>5. n \in 1 .. Len(plan[o]) + 1 /\ n <= Len(plan[o])
    BY <1>4, <1>6
  <2> QED
    BY <1>4, <2>2, <2>3, <2>4, <2>5
<1>22. Fits(req[x], type'[x])
  BY <1>4, <1>5, <1>20 DEF Fits
<1>23. OwnerInv(o)'
  BY <1>1, <1>4, <1>6, <1>19, <1>20, <1>21, <1>22, HoldingOn
<1> QED
  BY <1>1, <1>6, <1>11, <1>17, <1>21, <1>23, EditStepAwake

-----------------------------------------------------------------------------
(* Aborting and downgrading.                                               *)

(* A step that edits one lock and is about no owner. *)
LEMMA SharedStep ==
    ASSUME LockInv, NEW l \in Locks, NEW w, Carries(View(l), w, {}), InTurn(View(l), w),
           Install(l, w, {}), req' = req, plan' = plan, pos' = pos, phase' = phase, abort' = abort
    PROVE  LockInv' /\ QueueStep
<1> DEFINE X == {}
           gone == {}
<1>1. StateOK /\ (\A m \in Locks : QInv(View(m)))
  BY DEF LockInv
<1>2. X \in SUBSET Data /\ (\A d \in X : LockOf[d] = l) /\ Carries(View(l), w, X)
      /\ Install(l, w, gone)
  OBVIOUS
<1>3. \A p \in Owners : p \notin gone /\ (\A d \in X : OwnerOf[d] # p)
  OBVIOUS
<1> HIDE DEF X, gone
<1>4. /\ lists' \in [Locks -> ListRecords]
      /\ \A m \in Locks : \A d \in Active(m)' \cup Queued(m)' : LockOf[d] = m
      /\ \A m \in Locks : QInv(View(m)')
      /\ awake \ gone \subseteq awake' /\ awake' \subseteq {p \in Owners \ gone : Waiting(p)}
      /\ \A d \in Data \ X : Kept(d, gone)
  BY <1>1, <1>2, InstallOK
<1>5. ASSUME NEW p \in Owners PROVE OwnerInv(p)'
  <2>1. plan'[p] = plan[p] /\ pos'[p] = pos[p] /\ phase'[p] = phase[p]
        /\ \A d \in Data : OwnerOf[d] = p => req'[d] = req[d]
    OBVIOUS
  <2>2. p \notin gone /\ (\A d \in X : OwnerOf[d] # p)
    BY <1>3
  <2> QED
    BY <1>4, <2>1, <2>2, OthersKeep
<1>6. awake' \subseteq {p \in Owners : Waiting(p)'}
  BY <1>4 DEF Waiting
<1>7. StateOK'
  <2>1. type' \in [Data -> Types] /\ cond' \in [Data -> BOOLEAN]
    BY DEF Carries, QInv, Views, Install
  <2> QED
    BY <1>1, <1>4, <1>6, <2>1 DEF StateOK
<1>8. QueueStep
  BY InstallQueues
<1> QED
  BY <1>4, <1>5, <1>7, <1>8 DEF LockInv

(* The lists are edited, and then the type of a write is set. *)
LEMMA ThenSame ==
    ASSUME NEW v, NEW u, NEW w, NEW x \in Data, QInv(v), QInv(w),
           Carries(v, u, {}), Requeues(v, u),
           w.read = u.read, w.read_wait = u.read_wait, w.write = u.write, w.write_wait = u.write_wait,
           w.cond = u.cond, w.signalled = u.signalled, \A d \in Data \ {x} : w.type[d] = u.type[d],
           x \in On(v), v.type[x] \in WriteTypes, w.type[x] \in WriteTypes, x \in On(u)
    PROVE  Carries(v, w, {}) /\ InTurn(v, w)
<1>1. Act(u) = Act(w) /\ Que(u) = Que(w) /\ On(u) = On(w)
  BY DEF Act, Que, On
<1>2. Requeues(v, w)
  BY <1>1 DEF Requeues
<1>3. ASSUME NEW d \in Data PROVE Carried(v, w, d)
  <2>1. Carried(v, u, d)
    BY DEF Carries
  <2>2. d \in Que(v) => d \in On(w) \/ w.type[d] = TL_UNLOCK
    BY <1>1, <2>1 DEF Carried
  <2> QED
    BY <1>1, <2>1, <2>2 DEF Carried
<1> QED
  BY <1>2, <1>3, RequeuesInTurn DEF Carries

(* A write lock that an owner holds. *)
LEMMA HeldWrite ==
    ASSUME LockInv, NEW l \in Locks, NEW x \in ToSet(lists[l].write)
    PROVE  x \in Data /\ LockOf[x] = l /\ OwnerOf[x] \in Owners /\ x \in Active(l) /\ Linked(x)
<1>1. QInv(View(l)) /\ View(l).write = lists[l].write
  BY ViewOf DEF LockInv
<1>2. x \in Data /\ x \in Active(l)
  BY <1>1, EmptyList DEF QInv, Views, Active
<1>3. LockOf[x] = l
  BY <1>2 DEF LockInv, StateOK
<1> QED
  BY <1>2, <1>3, ThrLockAssumption DEF Linked

(* What thr_abort_locks makes of a lock. *)
Aborted(v, upgrade) ==
    IF upgrade /\ AbortAll(v).write # <<>>
    THEN Retyped(AbortAll(v), Head(AbortAll(v).write), TL_WRITE_ONLY) ELSE AbortAll(v)

(* thr_abort_locks empties the queues, and leaves the active locks where   *)
(* they are, even if it changes the type of one.                           *)
LEMMA AbortedOK ==
    ASSUME NEW v, QInv(v), NEW upgrade \in BOOLEAN
    PROVE  LET w == Aborted(v, upgrade) IN
           /\ Carries(v, w, {}) /\ InTurn(v, w) /\ Que(w) = {}
           /\ w.write = v.write /\ w.read = v.read
           /\ \A d \in ToSet(v.write) : w.type[d] = TL_WRITE_ONLY =>
                 v.type[d] = TL_WRITE_ONLY \/ d = Head(v.write)
<1>1. PICK u : u = AbortAll(v)
  OBVIOUS
<1>2. u = Dropped(v, Que(v))
  BY <1>1, AbortAllDrops
<1>3. LET c == Dropped(v, Que(v)) IN
      /\ Carries(v, c, {}) /\ Requeues(v, c) /\ c.write = v.write /\ c.read = v.read
      /\ ToSet(c.read_wait) = ToSet(v.read_wait) \ Que(v)
      /\ ToSet(c.write_wait) = ToSet(v.write_wait) \ Que(v)
      /\ On(c) = On(v) \ Que(v)
      /\ \A d \in Data : d \notin Que(v) => c.type[d] = v.type[d]
  BY DroppedOK
<1>4. /\ Carries(v, u, {}) /\ Requeues(v, u) /\ u.write = v.write /\ u.read = v.read
      /\ QInv(u) /\ Que(u) = {}
      /\ \A d \in Data : d \notin Que(v) => u.type[d] = v.type[d]
  <2>1. ToSet(u.read_wait) = {} /\ ToSet(u.write_wait) = {}
    BY <1>2, <1>3 DEF Que
  <2> QED
    BY <1>2, <1>3, <2>1 DEF Carries, Que
<1>5. InTurn(v, u)
  BY <1>4, RequeuesInTurn
<1>6. ToSet(v.write) \subseteq Data /\ ToSet(v.write) \cap Que(v) = {} /\ v.write \in Seq(Data)
  BY EmptyList DEF QInv, Views, Apart, Act
<1>7. CASE ~(upgrade /\ u.write # <<>>)
  <2>1. Aborted(v, upgrade) = u
    BY <1>1, <1>7 DEF Aborted
  <2> QED
    BY <1>4, <1>5, <1>6, <2>1
<1>8. CASE upgrade /\ u.write # <<>>
  <2>1. PICK x : x = Head(u.write)
    OBVIOUS
  <2>2. x = Head(v.write) /\ x \in ToSet(u.write) /\ x \in ToSet(v.write) /\ x \in Data
    BY <1>4, <1>6, <1>8, <2>1, EmptyList
  <2>3. PICK w : w = Retyped(u, x, TL_WRITE_ONLY)
    OBVIOUS
  <2>4. Aborted(v, upgrade) = w
    BY <1>1, <1>8, <2>1, <2>3 DEF Aborted
  <2>5. x \in ToSet(u.write) \cup ToSet(u.write_wait) /\ TL_WRITE_ONLY \in WriteTypes
    BY <2>2, TypeFacts
  <2>6. LET c == Retyped(u, x, TL_WRITE_ONLY) IN
        /\ Carries(u, c, {x}) /\ Requeues(u, c)
        /\ c.read = u.read /\ c.read_wait = u.read_wait
        /\ c.write = u.write /\ c.write_wait = u.write_wait
        /\ c.type[x] = TL_WRITE_ONLY /\ c.cond = u.cond /\ c.signalled = u.signalled
        /\ \A d \in Data \ {x} : c.type[d] = u.type[d]
    BY <1>4, <2>5, RetypeOK
  <2>7. /\ QInv(w) /\ w.read = u.read /\ w.read_wait = u.read_wait
        /\ w.write = u.write /\ w.write_wait = u.write_wait
        /\ w.type[x] = TL_WRITE_ONLY /\ w.cond = u.cond /\ w.signalled = u.signalled
        /\ \A d \in Data \ {x} : w.type[d] = u.type[d]
    BY <2>3, <2>6 DEF Carries
  <2>8. v.type[x] \in WriteTypes /\ w.type[x] \in WriteTypes /\ x \in On(v) /\ x \in On(u)
    BY <2>2, <2>5, <2>7 DEF QInv, Tagged, On, Act
  <2>9. Carries(v, w, {}) /\ InTurn(v, w)
    BY <1>4, <2>2, <2>7, <2>8, ThenSame
  <2>10. Que(w) = {}
    BY <1>4, <2>7 DEF Que
  <2>11. \A d \in ToSet(v.write) : w.type[d] = TL_WRITE_ONLY =>
            v.type[d] = TL_WRITE_ONLY \/ d = Head(v.write)
    BY <1>4, <1>6, <2>2, <2>7
  <2> QED
    BY <1>4, <2>4, <2>7, <2>9, <2>10, <2>11
<1> QED
  BY <1>7, <1>8

(* thr_abort_locks keeps the invariant and the turns.                      *)
LEMMA AbortStep ==
    ASSUME LockInv, NEW l \in Locks, NEW upgrade \in BOOLEAN, thr_abort_locks(l, upgrade)
    PROVE  LockInv' /\ QueueStep
<1>1. PICK v : v = View(l)
  OBVIOUS
<1>2. PICK w : w = Aborted(v, upgrade)
  OBVIOUS
<1>3. /\ Install(l, w, {})
      /\ req' = req /\ plan' = plan /\ pos' = pos /\ phase' = phase /\ abort' = abort
  BY <1>1, <1>2 DEF thr_abort_locks, Aborted, Retyped
<1>4. QInv(v)
  BY <1>1 DEF LockInv
<1>5. Carries(v, w, {}) /\ InTurn(v, w)
  BY <1>2, <1>4, AbortedOK
<1> QED
  BY <1>1, <1>3, <1>5, SharedStep

(* thr_abort_locks_for_thread takes one thread's waiters out.              *)
LEMMA AbortThreadStep ==
    ASSUME LockInv, NEW l \in Locks, NEW t, thr_abort_locks_for_thread(l, t)
    PROVE  LockInv' /\ QueueStep
<1>1. PICK v : v = View(l)
  OBVIOUS
<1>2. PICK ds : ds = {d \in Que(v) : ThreadOf[OwnerOf[d]] = t}
  OBVIOUS
<1>3. PICK u : u = Dropped(v, ds)
  OBVIOUS
<1>4. /\ \E cs \in BOOLEAN : Install(l, wake_up_waiters(u, cs), {})
      /\ req' = req /\ plan' = plan /\ pos' = pos /\ phase' = phase /\ abort' = abort
  BY <1>1, <1>2, <1>3 DEF thr_abort_locks_for_thread, Dropped, Que
<1>5. PICK cs \in BOOLEAN : Install(l, wake_up_waiters(u, cs), {})
  BY <1>4
<1>6. PICK w : w = wake_up_waiters(u, cs)
  OBVIOUS
<1>7. QInv(v) /\ ds \subseteq Que(v)
  BY <1>1, <1>2 DEF LockInv
<1>8. LET c == Dropped(v, ds) IN
      /\ Carries(v, c, {}) /\ Requeues(v, c) /\ c.write = v.write
      /\ ToSet(c.read_wait) = ToSet(v.read_wait) \ ds
      /\ ToSet(c.write_wait) = ToSet(v.write_wait) \ ds
      /\ On(c) = On(v) \ ds
      /\ \A d \in Data : d \notin ds => c.type[d] = v.type[d]
  BY <1>7, DroppedOK
<1>9. Carries(v, u, {}) /\ Requeues(v, u) /\ QInv(u) /\ On(u) = On(v) \ ds
      /\ \A d \in Data \ ds : u.type[d] = v.type[d]
  BY <1>3, <1>8 DEF Carries
<1>10. Wakes(u, w)
  BY <1>6, <1>9, WakeUp
<1>11. Carries(v, w, {})
  BY <1>7, <1>9, <1>10, EditThenWake
<1>12. \A d \in Que(v) \cap On(u) : u.type[d] = v.type[d]
  <2>1. Que(v) \subseteq Data
    BY <1>7, EmptyList DEF QInv, Views, Que
  <2> QED
    BY <1>9, <2>1
<1>13. InTurn(v, w)
  BY <1>7, <1>9, <1>10, <1>12, RequeueThenWake
<1> QED
  BY <1>1, <1>4, <1>5, <1>6, <1>11, <1>13, SharedStep

(* thr_downgrade_write_lock changes the type of a write and moves nothing. *)
LEMMA DowngradeStep ==
    ASSUME LockInv, NEW o \in Owners, thr_downgrade_write_lock(o)
    PROVE  LockInv' /\ QueueStep
<1>1. /\ phase[o] = "held" /\ lists' = lists /\ cond' = cond /\ awake' = awake
      /\ req' = req /\ plan' = plan /\ pos' = pos /\ phase' = phase /\ abort' = abort
  BY DEF thr_downgrade_write_lock
<1>3. PICK x \in ToSet(plan[o]), new \in WriteTypes \ {TL_WRITE_ONLY} :
         type[x] = TL_WRITE_ONLY /\ type' = [type EXCEPT ![x] = new]
  BY DEF thr_downgrade_write_lock
<1>4. StateOK /\ (\A m \in Locks : QInv(View(m))) /\ OwnerInv(o) /\ PlanOK(o) /\ plan[o] \in Seq(Data)
  BY DEF LockInv, OwnerInv, PlanOK
<1>5. PICK n \in 1 .. Len(plan[o]) : plan[o][n] = x
  BY <1>4 DEF ToSet
<1>6. x \in Data /\ OwnerOf[x] = o /\ LockOf[x] \in Locks /\ n \in Taken(o)
  BY <1>1, <1>4, <1>5, ThrLockAssumption DEF PlanOK, Taken
<1>7. x \in Active(LockOf[x]) \/ (x \in Queued(LockOf[x]) /\ req[x] = TL_WRITE_DELAYED)
  BY <1>1, <1>3, <1>4, <1>5, <1>6, TypeFacts DEF OwnerInv, TakenOK, TL_WRITE_ONLY, TL_UNLOCK
<1>8. Fits(req[x], TL_WRITE_ONLY) /\ Linked(x) /\ req[x] \in Types
  BY <1>3, <1>4, <1>6, <1>7 DEF OwnerInv, LinkedOK, Linked, StateOK
<1>9. new \in WriteTypes /\ Fits(req[x], new)
  BY <1>3, <1>8, TypeFacts, FitsFacts
<1>10. x \in ToSet(lists[LockOf[x]].write) \cup ToSet(lists[LockOf[x]].write_wait)
  BY <1>3, <1>4, <1>6, <1>7, WhereItIs, TypeFacts
<1>11. PICK v : v = View(LockOf[x])
  OBVIOUS
<1>12. PICK w : w = Retyped(v, x, new)
  OBVIOUS
<1>13. QInv(v) /\ x \in ToSet(v.write) \cup ToSet(v.write_wait)
  BY <1>4, <1>6, <1>10, <1>11, ViewOf
<1>14. LET c == Retyped(v, x, new) IN
       /\ Carries(v, c, {x}) /\ Requeues(v, c)
       /\ c.read = v.read /\ c.read_wait = v.read_wait
       /\ c.write = v.write /\ c.write_wait = v.write_wait
       /\ c.type[x] = new /\ c.cond = v.cond /\ c.signalled = v.signalled
       /\ \A d \in Data \ {x} : c.type[d] = v.type[d]
  BY <1>9, <1>13, RetypeOK
<1>15. /\ Carries(v, w, {x}) /\ Requeues(v, w) /\ QInv(w) /\ w.type[x] = new
       /\ Act(w) = Act(v) /\ Que(w) = Que(v)
  BY <1>12, <1>14 DEF Carries, Act, Que
<1>16. InTurn(v, w)
  BY <1>13, <1>15, RequeuesInTurn
<1>17. Install(LockOf[x], w, {})
  <2>1. w.type = type' /\ w.cond = cond /\ w.signalled = {}
    BY <1>3, <1>11, <1>12 DEF Retyped, View
  <2>2. [read |-> w.read, read_wait |-> w.read_wait, write |-> w.write, write_wait |-> w.write_wait,
         write_lock_count |-> w.write_lock_count,
         read_no_write_count |-> w.read_no_write_count] = lists[LockOf[x]]
    <3>1. lists[LockOf[x]] \in ListRecords
      BY <1>4, <1>6 DEF StateOK
    <3>2. /\ w.read = lists[LockOf[x]].read /\ w.read_wait = lists[LockOf[x]].read_wait
          /\ w.write = lists[LockOf[x]].write /\ w.write_wait = lists[LockOf[x]].write_wait
          /\ w.write_lock_count = lists[LockOf[x]].write_lock_count
          /\ w.read_no_write_count = lists[LockOf[x]].read_no_write_count
      BY <1>11, <1>12 DEF Retyped, View
    <3> QED
      BY <3>1, <3>2 DEF ListRecords
  <2>3. lists' = [lists EXCEPT ![LockOf[x]] =
          [read |-> w.read, read_wait |-> w.read_wait, write |-> w.write, write_wait |-> w.write_wait,
           write_lock_count |-> w.write_lock_count,
           read_no_write_count |-> w.read_no_write_count]]
    <3>1. lists' = [lists EXCEPT ![LockOf[x]] = lists[LockOf[x]]]
      BY <1>1, <1>4, <1>6 DEF StateOK
    <3> QED
      BY <2>2, <3>1
  <2> QED
    BY <1>1, <2>1, <2>3 DEF Install
<1>18. Edits(x, w)
  BY <1>11, <1>15, <1>16 DEF Edits
<1>19. (\A d \in Data : d # x => Kept(d, {})) /\ type' = w.type
  BY <1>6, <1>17, <1>18, EditKeeps
<1>20. /\ x \in Active(LockOf[x])' \/ (x \in Queued(LockOf[x])' /\ req[x] = TL_WRITE_DELAYED)
       /\ type'[x] = new
  BY <1>1, <1>7, <1>15, <1>19 DEF Active, Queued
<1>21. /\ OthersStay(o) /\ ~Waiting(o) /\ phase'[o] = "held" /\ plan'[o] = plan[o]
       /\ pos'[o] \in 1 .. Len(plan[o]) + 1
       /\ \A d \in Data : OwnerOf[d] = o => req'[d] = req[d]
  BY <1>1, <1>4 DEF OthersStay, Waiting, StateOK, PlanOK
<1>22. OwnerInv(o)'
  BY <1>1, <1>6, <1>8, <1>9, <1>19, <1>20, <1>21, HoldingOn
<1> QED
  BY <1>1, <1>6, <1>17, <1>18, <1>21, <1>22, EditStepAwake

-----------------------------------------------------------------------------
(* The invariant, and the properties of ThrLock that follow from it.       *)

(* A lock without instances is well formed.                                *)
LEMMA NoListsOK ==
    ASSUME NEW v \in Views, v.read = <<>>, v.read_wait = <<>>, v.write = <<>>, v.write_wait = <<>>,
           v.write_lock_count = 0, v.read_no_write_count = 0
    PROVE  QInv(v)
<1>1. ToSet(<<>>) = {} /\ IsInjective(<<>>)
  BY EmptyList
<1>2. Act(v) = {} /\ Que(v) = {} /\ NoInsert(v) = {}
  BY <1>1 DEF Act, Que, NoInsert
<1>3. Apart(v) /\ Tagged(v)
  BY <1>1, <1>2 DEF Apart, Tagged
<1>4. Cardinality({}) = 0
  BY FS_EmptySet
<1> QED
  BY <1>2, <1>3, <1>4, QueueAssumption DEF QInv

(* thr_lock_init and thr_lock_data_init make the invariant true.           *)
LEMMA InitOK ==
    ASSUME Init
    PROVE  LockInv
<1>1. \A l \in Locks : lists[l] = NoLists
  BY DEF Init
<1>2. ToSet(<<>>) = {} /\ <<>> \in Seq(Data) /\ IsInjective(<<>>) /\ Len(<<>>) = 0
  BY EmptyList
<1>3. \A l \in Locks : Active(l) = {} /\ Queued(l) = {}
  BY <1>1, <1>2 DEF Active, Queued, NoLists
<1>4. NoLists \in ListRecords
  BY <1>2 DEF NoLists, ListRecords
<1>5. StateOK
  <2>1. lists \in [Locks -> ListRecords]
    BY <1>4 DEF Init
  <2>2. type \in [Data -> Types] /\ cond \in [Data -> BOOLEAN]
        /\ req \in [Data -> Types] /\ phase \in [Owners -> Phases]
        /\ DOMAIN plan = Owners /\ DOMAIN pos = Owners /\ awake = {} /\ abort = {}
    BY DEF Init, Types, Phases
  <2> QED
    BY <1>3, <2>1, <2>2 DEF StateOK
<1>6. ASSUME NEW l \in Locks PROVE QInv(View(l))
  <2>1. /\ View(l).read = <<>> /\ View(l).read_wait = <<>> /\ View(l).write = <<>>
        /\ View(l).write_wait = <<>> /\ View(l).write_lock_count = 0
        /\ View(l).read_no_write_count = 0
    BY <1>1 DEF View, NoLists
  <2>2. type \in [Data -> Types] /\ cond \in [Data -> BOOLEAN]
    BY DEF Init, Types
  <2>3. View(l) \in Views
    <3>1. View(l) = [read |-> <<>>, read_wait |-> <<>>, write |-> <<>>, write_wait |-> <<>>,
                     write_lock_count |-> 0, read_no_write_count |-> 0,
                     type |-> type, cond |-> cond, signalled |-> {}]
      <4>1. /\ lists[l].read = <<>> /\ lists[l].read_wait = <<>> /\ lists[l].write = <<>>
            /\ lists[l].write_wait = <<>> /\ lists[l].write_lock_count = 0
            /\ lists[l].read_no_write_count = 0
        BY <1>1 DEF NoLists
      <4> QED
        BY <4>1, Zenon DEF View
    <3> QED
      BY <1>2, <2>2, <3>1 DEF Views
  <2> QED
    BY <2>1, <2>3, NoListsOK
<1>7. ASSUME NEW o \in Owners PROVE OwnerInv(o)
  <2>1. plan[o] = <<>> /\ pos[o] = 1 /\ phase[o] = "idle"
    BY DEF Init
  <2>2. Taken(o) = {}
    BY <1>2, <2>1 DEF Taken
  <2>3. PlanOK(o) /\ TakenOK(o) /\ Woken(o)
    BY <1>2, <2>1, <2>2 DEF PlanOK, TakenOK, Woken, Waiting
  <2>4. \A d \in Data : ~Linked(d)
    BY <1>3, ThrLockAssumption DEF Linked
  <2> QED
    BY <2>3, <2>4 DEF OwnerInv, LinkedOK
<1> QED
  BY <1>5, <1>6, <1>7 DEF LockInv

(* Every step keeps the invariant and the turns.                           *)
LEMMA NextOK ==
    ASSUME LockInv, Next
    PROVE  LockInv' /\ QueueStep
<1>1. ASSUME NEW o \in Owners, OwnerStep(o) PROVE LockInv' /\ QueueStep
  <2>1. CASE ThrLockCall(o)
    BY <2>1, CallStep
  <2>2. CASE WaitGranted(o)
    BY <2>2, GrantedStep
  <2>3. CASE WaitAborted(o)
    BY <2>3, AbortedStep
  <2>4. CASE WaitGivenUp(o)
    BY <2>4, GivenUpStep
  <2>5. CASE WaitAgain(o)
    BY <2>5, AgainStep
  <2>6. CASE UnlockNext(o)
    BY <2>6, UnlockStep
  <2>7. CASE MultiUnlockDone(o)
    BY <2>7, DoneStep
  <2>8. CASE UpgradeWaitEnds(o)
    BY <2>8, UpgradeEndsStep
  <2>9. CASE RescheduleUpgrade(o)
    BY <2>9, RescheduleUpgradeStep
  <2> QED
    BY <1>1, <2>1, <2>2, <2>3, <2>4, <2>5, <2>6, <2>7, <2>8, <2>9 DEF OwnerStep
<1>2. ASSUME NEW o \in Owners,
             \/ StartMultiLock(o) \/ OwnerStep(o) \/ StartMultiUnlock(o)
             \/ thr_upgrade_write_delay_lock(o) \/ thr_reschedule_write_lock(o)
             \/ thr_downgrade_write_lock(o) \/ Kill(o)
      PROVE  LockInv' /\ QueueStep
  <2>1. CASE StartMultiLock(o)
    BY <2>1, StartLockStep
  <2>2. CASE OwnerStep(o)
    BY <1>1, <2>2
  <2>3. CASE StartMultiUnlock(o)
    BY <2>3, StartUnlockStep
  <2>4. CASE thr_upgrade_write_delay_lock(o)
    BY <2>4, UpgradeStep
  <2>5. CASE thr_reschedule_write_lock(o)
    BY <2>5, RescheduleStep
  <2>6. CASE thr_downgrade_write_lock(o)
    BY <2>6, DowngradeStep
  <2>7. CASE Kill(o)
    BY <2>7, KillStep
  <2> QED
    BY <1>2, <2>1, <2>2, <2>3, <2>4, <2>5, <2>6, <2>7
<1>3. ASSUME NEW l \in Abortable,
             \/ \E upgrade_lock \in BOOLEAN : thr_abort_locks(l, upgrade_lock)
             \/ \E t \in Range(ThreadOf) : thr_abort_locks_for_thread(l, t)
      PROVE  LockInv' /\ QueueStep
  <2>1. l \in Locks
    BY ThrLockAssumption
  <2>2. CASE \E upgrade_lock \in BOOLEAN : thr_abort_locks(l, upgrade_lock)
    BY <2>1, <2>2, AbortStep
  <2>3. CASE \E t \in Range(ThreadOf) : thr_abort_locks_for_thread(l, t)
    BY <2>1, <2>3, AbortThreadStep
  <2> QED
    BY <1>3, <2>2, <2>3
<1> QED
  BY <1>2, <1>3 DEF Next

(* So does a step that changes nothing.                                    *)
LEMMA StutterOK ==
    ASSUME LockInv, UNCHANGED vars
    PROVE  LockInv' /\ QueueStep
<1>1. /\ \A l \in Locks : View(l)' = View(l) /\ Active(l)' = Active(l) /\ Queued(l)' = Queued(l)
      /\ \A d \in Data : Linked(d)' = Linked(d)
  BY DEF vars, View, Active, Queued, Linked
<1>2. \A o \in Owners : Taken(o)' = Taken(o) /\ Cur(o)' = Cur(o) /\ Waiting(o)' = Waiting(o)
  BY DEF vars, Taken, Cur, Waiting
<1>3. StateOK'
  BY DEF LockInv, StateOK, vars, Active, Queued, Waiting
<1>4. ASSUME NEW o \in Owners PROVE OwnerInv(o)'
  <2>1. OwnerInv(o)
    BY DEF LockInv
  <2>2. Woken(o)'
    BY <2>1 DEF OwnerInv, Woken, Cur, Waiting, vars
  <2> QED
    BY <2>1, <2>2, OwnerSame DEF vars
<1>5. QueueStep
  BY StutterQueues DEF vars
<1> QED
  BY <1>1, <1>3, <1>4, <1>5 DEF LockInv

(* The inductive invariant: the lists of every lock are disjoint and agree *)
(* with type, cond and the counters; every owner's array says which locks  *)
(* it has or waits for; every lock in a list is in its owner's array.      *)
THEOREM TableLocks == Spec => []LockInv
<1>1. Init => LockInv
  BY InitOK
<1>2. LockInv /\ [Next]_vars => LockInv'
  BY NextOK, StutterOK
<1> QED
  BY <1>1, <1>2, PTL DEF Spec

(* The lists of a lock as TypeOK and ListsAgree have them. *)
LEMMA ListsOf ==
    ASSUME LockInv, NEW l \in Locks
    PROVE  LET v == View(l) IN
           /\ QInv(v)
           /\ v.read = lists[l].read /\ v.read_wait = lists[l].read_wait
           /\ v.write = lists[l].write /\ v.write_wait = lists[l].write_wait
           /\ v.write_lock_count = lists[l].write_lock_count
           /\ v.read_no_write_count = lists[l].read_no_write_count
           /\ v.type = type /\ v.cond = cond
           /\ Act(v) = Active(l) /\ Que(v) = Queued(l)
<1>1. QInv(View(l))
  BY DEF LockInv
<1> QED
  BY <1>1, ViewOf

(* A list is a list of its elements.                                       *)
LEMMA ListElements ==
    ASSUME NEW s \in Seq(Data), NEW S, ToSet(s) \subseteq S
    PROVE  s \in Seq(S)
<1>1. \A i \in 1 .. Len(s) : s[i] \in S
  BY DEF ToSet
<1> QED
  BY <1>1

(* Four lists without repetitions and without a common element make one    *)
(* without repetitions.                                                    *)
LEMMA FourLists ==
    ASSUME NEW a \in Seq(Data), NEW b \in Seq(Data), NEW c \in Seq(Data), NEW d \in Seq(Data),
           IsInjective(a), IsInjective(b), IsInjective(c), IsInjective(d),
           (ToSet(a) \cup ToSet(c)) \cap (ToSet(b) \cup ToSet(d)) = {},
           ToSet(a) \cap ToSet(c) = {}, ToSet(b) \cap ToSet(d) = {}
    PROVE  IsInjective(a \o b \o c \o d)
<1>1. a \o b \in Seq(Data) /\ ToSet(a \o b) = ToSet(a) \cup ToSet(b) /\ IsInjective(a \o b)
  BY JoinProperties
<1>2. PICK p : p = a \o b
  OBVIOUS
<1>3. p \in Seq(Data) /\ ToSet(p) \cap ToSet(c) = {} /\ IsInjective(p) /\ ToSet(p) = ToSet(a) \cup ToSet(b)
  BY <1>1, <1>2
<1>4. p \o c \in Seq(Data) /\ ToSet(p \o c) = ToSet(p) \cup ToSet(c) /\ IsInjective(p \o c)
  BY <1>3, JoinProperties
<1>5. PICK q : q = p \o c
  OBVIOUS
<1>6. q \in Seq(Data) /\ ToSet(q) \cap ToSet(d) = {} /\ IsInjective(q)
  BY <1>3, <1>4, <1>5
<1>7. IsInjective(q \o d)
  BY <1>6, JoinProperties
<1> QED
  BY <1>2, <1>5, <1>7

(* The invariant gives the types.                                          *)
LEMMA InvTypeOK ==
    ASSUME LockInv
    PROVE  TypeOK
<1>1. ASSUME NEW l \in Locks
      PROVE  /\ \A i \in 1 .. 4 : Lists(l)[i] \in Seq({d \in Data : LockOf[d] = l})
             /\ lists[l].write_lock_count \in 0 .. MaxWriteLockCount + 1
             /\ lists[l].read_no_write_count \in 0 .. Cardinality(Data)
  <2>1. PICK v : v = View(l)
    OBVIOUS
  <2>2. /\ QInv(v) /\ v \in Views
        /\ v.read = lists[l].read /\ v.read_wait = lists[l].read_wait
        /\ v.write = lists[l].write /\ v.write_wait = lists[l].write_wait
        /\ v.write_lock_count = lists[l].write_lock_count
        /\ v.read_no_write_count = lists[l].read_no_write_count
    BY <2>1, ListsOf DEF QInv
  <2>3. lists[l].write_lock_count \in 0 .. MaxWriteLockCount + 1
    BY <2>2 DEF QInv
  <2>4. lists[l].read_no_write_count \in 0 .. Cardinality(Data)
    BY <2>2, NoInsertFinite DEF QInv
  <2> DEFINE S == {d \in Data : LockOf[d] = l}
  <2>5. \A s \in {lists[l].read, lists[l].read_wait, lists[l].write, lists[l].write_wait} :
           s \in Seq(Data) /\ ToSet(s) \subseteq S
    <3>1. \A d \in Active(l) \cup Queued(l) : LockOf[d] = l
      BY DEF LockInv, StateOK
    <3> QED
      BY <2>2, <3>1, EmptyList DEF Views, Active, Queued
  <2> HIDE DEF S
  <2>6. \A s \in {lists[l].read, lists[l].read_wait, lists[l].write, lists[l].write_wait} :
           s \in Seq(S)
    BY <2>5, ListElements
  <2>7. \A i \in 1 .. 4 : Lists(l)[i] \in Seq(S)
    BY <2>6 DEF Lists
  <2> QED
    BY <2>3, <2>4, <2>7 DEF S
<1>2. type \in [Data -> RequestTypes \cup {TL_UNLOCK}] /\ cond \in [Data -> BOOLEAN]
  BY DEF LockInv, StateOK, Types
<1>3. phase \in [Owners -> Phases] /\ awake \subseteq {o \in Owners : Waiting(o)}
      /\ abort \subseteq Range(ThreadOf)
  BY DEF LockInv, StateOK
<1>4. \A o \in Owners : plan[o] \in Seq(Data) /\ pos[o] \in 1 .. Len(plan[o]) + 1
  BY DEF LockInv, OwnerInv, PlanOK
<1> QED
  BY <1>1, <1>2, <1>3, <1>4 DEF TypeOK

(* The invariant gives the agreement of the lists, the fields and the      *)
(* count.                                                                  *)
LEMMA InvListsAgree ==
    ASSUME LockInv
    PROVE  ListsAgree
<1>1. TypeOK
  BY InvTypeOK
<1>2. ASSUME NEW l \in Locks
      PROVE  LET q == lists[l] IN
             /\ IsInjective(q.read \o q.read_wait \o q.write \o q.write_wait)
             /\ \A d \in ToSet(q.read) \cup ToSet(q.read_wait) : type[d] \in ReadTypes
             /\ \A d \in ToSet(q.write) \cup ToSet(q.write_wait) : type[d] \in WriteTypes
             /\ \A d \in Active(l) : ~cond[d]
             /\ \A d \in Queued(l) : cond[d]
             /\ q.read_no_write_count =
                   Cardinality({d \in ToSet(q.read) : type[d] = TL_READ_NO_INSERT})
  <2>1. PICK v : v = View(l)
    OBVIOUS
  <2>2. /\ QInv(v)
        /\ v.read = lists[l].read /\ v.read_wait = lists[l].read_wait
        /\ v.write = lists[l].write /\ v.write_wait = lists[l].write_wait
        /\ v.write_lock_count = lists[l].write_lock_count
        /\ v.read_no_write_count = lists[l].read_no_write_count
        /\ v.type = type /\ v.cond = cond
        /\ Act(v) = Active(l) /\ Que(v) = Queued(l)
    BY <2>1, ListsOf
  <2>3. IsInjective(v.read \o v.read_wait \o v.write \o v.write_wait)
    BY <2>2, FourLists DEF QInv, Views, Apart, Act, Que
  <2>4. v.read_no_write_count = Cardinality({d \in ToSet(v.read) : v.type[d] = TL_READ_NO_INSERT})
    BY <2>2 DEF QInv, NoInsert
  <2>5. /\ \A d \in ToSet(v.read) \cup ToSet(v.read_wait) : v.type[d] \in ReadTypes
        /\ \A d \in ToSet(v.write) \cup ToSet(v.write_wait) : v.type[d] \in WriteTypes
        /\ \A d \in Act(v) : ~v.cond[d]
        /\ \A d \in Que(v) : v.cond[d]
    BY <2>2 DEF QInv, Tagged
  <2> QED
    BY <2>2, <2>3, <2>4, <2>5
<1> QED
  BY <1>1, <1>2 DEF ListsAgree

(* The invariant gives each owner the locks it was granted.                *)
LEMMA InvHoldersHold ==
    ASSUME LockInv
    PROVE  HoldersHold
<1>1. ASSUME NEW o \in Owners, phase[o] = "held", NEW d \in ToSet(plan[o])
      PROVE  \/ type[d] = TL_UNLOCK \/ d \in Active(LockOf[d])
             \/ req[d] = TL_WRITE_DELAYED /\ d \in Queued(LockOf[d])
  <2>1. OwnerInv(o) /\ plan[o] \in Seq(Data)
    BY DEF LockInv, OwnerInv, PlanOK
  <2>2. PICK i \in 1 .. Len(plan[o]) : plan[o][i] = d
    BY <2>1 DEF ToSet
  <2>3. i \in Taken(o)
    BY <1>1 DEF Taken
  <2> QED
    BY <1>1, <2>1, <2>2, <2>3 DEF OwnerInv, TakenOK
<1>2. ASSUME NEW l \in Locks, NEW d \in Active(l) \cup Queued(l)
      PROVE  LET o == OwnerOf[d] IN
             /\ phase[o] # "idle"
             /\ phase[o] = "unlocking" => d \in ToSet(SubSeq(plan[o], pos[o], Len(plan[o])))
             /\ phase[o] # "unlocking" => d \in ToSet(plan[o])
  <2>1. LockOf[d] = l
    BY DEF LockInv, StateOK
  <2>2. d \in Data
    <3>1. QInv(View(l)) /\ Active(l) = Act(View(l)) /\ Queued(l) = Que(View(l))
      BY ViewOf DEF LockInv
    <3> QED
      BY <3>1, EmptyList DEF QInv, Views, Act, Que
  <2>3. PICK o \in Owners : o = OwnerOf[d]
    BY <2>2, ThrLockAssumption
  <2>4. OwnerInv(o) /\ plan[o] \in Seq(Data) /\ pos[o] \in 1 .. Len(plan[o]) + 1 /\ Len(plan[o]) \in Nat
    BY DEF LockInv, OwnerInv, PlanOK
  <2>5. PICK i \in Taken(o) : plan[o][i] = d
    BY <2>1, <2>2, <2>3, <2>4 DEF OwnerInv, LinkedOK, Linked
  <2>6. i \in 1 .. Len(plan[o]) /\ phase[o] # "idle" /\ (phase[o] = "unlocking" => i >= pos[o])
    BY DEF Taken
  <2>7. d \in ToSet(plan[o])
    BY <2>4, <2>5, <2>6 DEF ToSet
  <2>8. ASSUME phase[o] = "unlocking"
        PROVE  d \in ToSet(SubSeq(plan[o], pos[o], Len(plan[o])))
    <3>1. PICK t : t = SubSeq(plan[o], pos[o], Len(plan[o]))
      OBVIOUS
    <3>2. Len(t) = Len(plan[o]) - pos[o] + 1 /\ \A k \in 1 .. Len(t) : t[k] = plan[o][pos[o] + k - 1]
      BY <2>4, <3>1
    <3>3. i - pos[o] + 1 \in 1 .. Len(t) /\ t[i - pos[o] + 1] = d
      <4>1. PICK k : k = i - pos[o] + 1
        OBVIOUS
      <4>2. k \in 1 .. Len(t) /\ pos[o] + k - 1 = i
        BY <2>4, <2>6, <2>8, <3>2, <4>1
      <4>3. t[k] = plan[o][i]
        BY <3>2, <4>2
      <4> QED
        BY <2>5, <4>1, <4>2, <4>3
    <3>4. DOMAIN t = 1 .. Len(t)
      BY <2>4, <3>1
    <3> QED
      BY <3>1, <3>3, <3>4 DEF ToSet
  <2> QED
    BY <2>3, <2>6, <2>7, <2>8
<1> QED
  BY <1>1, <1>2 DEF HoldersHold

(* ListsAgree: thr_unlock() and check_lock() may rely on type and cond to  *)
(* tell the list a lock instance is in, and on read_no_write_count.        *)
THEOREM ListsAlwaysAgree == Spec => []ListsAgree
<1>1. LockInv => ListsAgree
  BY InvListsAgree
<1> QED
  BY <1>1, TableLocks, PTL

(* HoldersHold: who was told THR_LOCK_SUCCESS has the locks until it       *)
(* releases them, and no lock is left in a list without an owner that      *)
(* releases or awaits it.                                                  *)
THEOREM GrantsAreHeld == Spec => []HoldersHold
<1>1. LockInv => HoldersHold
  BY InvHoldersHold
<1> QED
  BY <1>1, TableLocks, PTL

(* GrantedIsWoken: whoever clears data->cond has signalled the waiter.     *)
THEOREM NoLostSignal == Spec => []GrantedIsWoken
<1>1. LockInv => GrantedIsWoken
  BY DEF LockInv, OwnerInv, Woken, GrantedIsWoken
<1> QED
  BY <1>1, TableLocks, PTL

(* QueuesInOrder: no step of any call overtakes a waiting request by a     *)
(* later one of the same type, or reorders the ones that go on waiting.    *)
THEOREM ServedInOrder == Spec => QueuesInOrder
<1>1. LockInv /\ [Next]_vars => [QueueStep]_vars
  BY NextOK, StutterOK
<1> QED
  BY <1>1, TableLocks, PTL DEF Spec, QueuesInOrder, QueueStep

-----------------------------------------------------------------------------
(* FreeLockServes and UpgradedHasNoWaiters, for one lock.                  *)

(* Who waits for a lock waits for somebody.                                *)
Serves(v) ==
    /\ ToSet(v.write) = {} /\ ToSet(v.read) = {} => Que(v) = {}
    /\ ToSet(v.write) = {} /\ ToSet(v.write_wait) = {} => ToSet(v.read_wait) = {}

(* A write that became TL_WRITE_ONLY by thr_abort_locks() is the first of  *)
(* its list, so it turns newcomers away, and only delayed inserts wait; a  *)
(* waiting write is never made TL_WRITE_ONLY.                              *)
Upgraded(v) ==
    /\ \A q \in ToSet(v.write_wait) : v.type[q] = TL_WRITE_ONLY => req[q] = TL_WRITE_ONLY
    /\ \A d \in ToSet(v.write) : v.type[d] = TL_WRITE_ONLY /\ req[d] # TL_WRITE_ONLY =>
          /\ d = Head(v.write) /\ ToSet(v.read_wait) = {}
          /\ \A q \in ToSet(v.write_wait) : req[q] = TL_WRITE_DELAYED

Settled(v) == Serves(v) /\ Upgraded(v)

(* The first of a list stays the first while it is in the list.            *)
LEMMA HeadStays ==
    ASSUME NEW s \in Seq(Data), IsInjective(s), s # <<>>, NEW T, Head(s) \in T
    PROVE  Head(Only(s, T)) = Head(s)
<1>1. PICK u : u = Only(s, T)
  OBVIOUS
<1>2. u \in Seq(Data) /\ ToSet(u) = ToSet(s) \cap T /\ InOrder(u, s)
  BY <1>1, OnlyProperties
<1>3. Len(s) \in Nat \ {0} /\ Head(s) = s[1] /\ Head(s) \in ToSet(s)
  BY EmptyList
<1>4. s[1] \in ToSet(u)
  BY <1>2, <1>3
<1>5. PICK a \in 1 .. Len(u) : u[a] = s[1]
  BY <1>2, <1>4 DEF ToSet
<1>6. u # <<>> /\ Len(u) \in Nat /\ Head(u) = u[1]
  BY <1>2, <1>4, EmptyList
<1>7. ASSUME a # 1 PROVE FALSE
  <2>1. 1 \in 1 .. Len(u) /\ 1 < a
    BY <1>5, <1>6, <1>7
  <2>2. PICK i, j \in 1 .. Len(s) : i < j /\ u[1] = s[i] /\ u[a] = s[j]
    BY <1>2, <2>1 DEF InOrder
  <2>3. j = 1
    BY <1>3, <1>5, <2>2 DEF IsInjective
  <2> QED
    BY <2>2, <2>3
<1> QED
  BY <1>1, <1>3, <1>5, <1>6, <1>7

(* What free_all_read_locks does to the sets of instances in the lists.    *)
LEMMA FreedSets ==
    ASSUME NEW v, QInv(v), NEW using \in BOOLEAN
    PROVE  LET w == FreeReaders(v, using) IN
           /\ ToSet(w.read) = ToSet(v.read) \cup (ToSet(v.read_wait) \ Stays(v, using))
           /\ ToSet(w.read_wait) = ToSet(v.read_wait) \cap Stays(v, using)
           /\ w.write = v.write /\ w.write_wait = v.write_wait /\ w.type = v.type
<1>0. v \in Views /\ v.read \in Seq(Data) /\ v.read_wait \in Seq(Data) /\ ToSet(v.read_wait) \subseteq Data
  BY EmptyList DEF QInv, Views
<1>1. CASE v.read_wait = <<>>
  BY <1>1, EmptyList DEF FreeReaders
<1>2. CASE v.read_wait # <<>>
  <2>1. PICK freed : freed = Only(v.read_wait, Data \ Stays(v, using))
    OBVIOUS
  <2>2. freed \in Seq(Data) /\ ToSet(freed) = ToSet(v.read_wait) \cap (Data \ Stays(v, using))
    BY <1>0, <2>1, OnlyProperties
  <2>3. LET w == free_all_read_locks(v, using) IN
        /\ w.read = v.read \o freed
        /\ w.write = v.write /\ w.write_wait = v.write_wait /\ w.type = v.type
    BY <1>0, <2>1, FreeFields
  <2>4. ToSet(v.read \o freed) = ToSet(v.read) \cup ToSet(freed)
    BY <1>0, <2>2, JoinProperties
  <2>5. ToSet(free_all_read_locks(v, using).read_wait) = ToSet(v.read_wait) \cap Stays(v, using)
    BY FreeWakes
  <2>6. ToSet(freed) = ToSet(v.read_wait) \ Stays(v, using)
    BY <1>0, <2>2
  <2> QED
    BY <1>2, <2>3, <2>4, <2>5, <2>6 DEF FreeReaders
<1> QED
  BY <1>1, <1>2

(* The writes that StartWrites starts on a lock without writes: the first  *)
(* of the queue, and others only if all are TL_WRITE_ALLOW_WRITE.          *)
LEMMA StartedSets ==
    ASSUME NEW v, QInv(v), v.write = <<>>, v.write_wait # <<>>
    PROVE  LET w == StartWrites(v) IN
           /\ w.read = v.read /\ w.read_wait = v.read_wait /\ w.type = v.type
           /\ ToSet(w.write) \subseteq ToSet(v.write_wait) /\ Head(v.write_wait) \in ToSet(w.write)
           /\ \A x, y \in ToSet(w.write) : x = y \/
                 (v.type[x] = TL_WRITE_ALLOW_WRITE /\ v.type[y] = TL_WRITE_ALLOW_WRITE)
<1>1. v \in Views /\ v.write_wait \in Seq(Data) /\ IsInjective(v.write_wait) /\ Len(v.write_wait) \in Nat
      /\ Len(v.write_wait) >= 1 /\ Head(v.write_wait) = v.write_wait[1]
  BY EmptyList DEF QInv, Views, Apart
<1>2. PICK n : n = WriteBatch(v)
  OBVIOUS
<1>3. n \in 1 .. Len(v.write_wait)
      /\ (n # 1 => \A i \in 1 .. n : v.type[v.write_wait[i]] = TL_WRITE_ALLOW_WRITE)
  BY <1>1, <1>2, BatchSize
<1>4. PICK batch : batch = SubSeq(v.write_wait, 1, n)
  OBVIOUS
<1>5. batch \in Seq(Data) /\ ToSet(batch) \subseteq ToSet(v.write_wait)
      /\ ToSet(batch) = {v.write_wait[i] : i \in 1 .. n}
  <2>1. n \in 0 .. Len(v.write_wait)
    BY <1>1, <1>3
  <2> QED
    BY <1>1, <1>4, <2>1, CutProperties
<1>6. LET w == StartWrites(v) IN
      /\ w.read = v.read /\ w.read_wait = v.read_wait /\ w.type = v.type
      /\ w.write = v.write \o batch
  BY <1>1, <1>2, <1>4, StartFields
<1>7. v.write \o batch = batch
  BY <1>5
<1>8. v.write_wait[1] \in ToSet(batch)
  BY <1>1, <1>3, <1>5
<1>9. \A x, y \in ToSet(batch) : x = y \/
         (v.type[x] = TL_WRITE_ALLOW_WRITE /\ v.type[y] = TL_WRITE_ALLOW_WRITE)
  BY <1>1, <1>3, <1>5
<1> QED
  BY <1>1, <1>5, <1>6, <1>7, <1>8, <1>9

(* A lock that is written serves whom it can.                              *)
LEMMA WriterServes ==
    ASSUME NEW f, ToSet(f.write) # {}
    PROVE  Serves(f)
BY DEF Serves

(* And so does one that nobody writes when nobody waits to read it, and    *)
(* somebody reads it if anybody waits.                                     *)
LEMMA NoWriterServes ==
    ASSUME NEW f, ToSet(f.write) = {}, ToSet(f.read) = {} => Que(f) = {},
           ToSet(f.write_wait) = {} => ToSet(f.read_wait) = {}
    PROVE  Serves(f)
BY DEF Serves

(* wake_up_waiters of a free lock starts somebody if anybody waits.        *)
LEMMA WakeFreeServes ==
    ASSUME NEW v, QInv(v), NEW cs \in BOOLEAN, v.write = <<>>, v.read = <<>>
    PROVE  Serves(WakeFree(v, cs))
<1>0. /\ v.write \in Seq(Data) /\ v.read \in Seq(Data) /\ v.write_wait \in Seq(Data)
      /\ v.read_wait \in Seq(Data) /\ ToSet(v.write) = {} /\ ToSet(v.read) = {}
  BY EmptyList DEF QInv, Views
<1>1. CASE ~WriteGoesFirst(v)
  <2>1. WakeFree(v, cs) = FreeReaders(v, FALSE)
    BY <1>1 DEF WakeFree
  <2>2. LET f == FreeReaders(v, FALSE) IN
        /\ ToSet(f.read) = ToSet(v.read) \cup (ToSet(v.read_wait) \ Stays(v, FALSE))
        /\ ToSet(f.read_wait) = ToSet(v.read_wait) \cap Stays(v, FALSE)
        /\ f.write = v.write /\ f.write_wait = v.write_wait /\ f.type = v.type
    BY FreedSets
  <2>3. PICK f : f = FreeReaders(v, FALSE)
    OBVIOUS
  <2>4. Stays(v, FALSE) = {}
    BY DEF Stays
  <2>5. /\ ToSet(f.write) = {} /\ ToSet(f.read) = ToSet(v.read_wait) /\ ToSet(f.read_wait) = {}
        /\ f.write_wait = v.write_wait
    BY <1>0, <2>2, <2>3, <2>4
  <2>6. v.read_wait = <<>> => v.write_wait = <<>>
    BY <1>1 DEF WriteGoesFirst
  <2>7. ToSet(f.read) = {} => Que(f) = {}
    BY <1>0, <2>5, <2>6, EmptyList DEF Que
  <2>8. Serves(f)
    BY <2>5, <2>7, NoWriterServes
  <2> QED
    BY <2>1, <2>3, <2>8
<1>2. CASE WriteGoesFirst(v)
  <2>0. v.write_wait # <<>>
    BY <1>2 DEF WriteGoesFirst
  <2>1. PICK h : h = Head(v.write_wait)
    OBVIOUS
  <2>2. PICK c : c = Counted(v)
    OBVIOUS
  <2>3. /\ QInv(c) /\ c.read = v.read /\ c.read_wait = v.read_wait
        /\ c.write = v.write /\ c.write_wait = v.write_wait /\ c.type = v.type
    BY <2>2, CountWakes DEF Wakes
  <2>4. PICK b : b = StartWrites(c)
    OBVIOUS
  <2>5. h \in ToSet(b.write)
    <3>1. LET w == StartWrites(c) IN
          /\ w.read = c.read /\ w.read_wait = c.read_wait /\ w.type = c.type
          /\ ToSet(w.write) \subseteq ToSet(c.write_wait) /\ Head(c.write_wait) \in ToSet(w.write)
      BY <2>0, <2>3, StartedSets
    <3> QED
      BY <2>1, <2>3, <2>4, <3>1
  <2>6. QInv(b) /\ h \in Data
    BY <2>0, <2>1, <2>3, <2>4, <1>0, StartWakes, EmptyList DEF Wakes
  <2>7. PICK s : s = UpgradeInsert(b, h, cs)
    OBVIOUS
  <2>8. s.write = b.write /\ QInv(s)
    <3>1. LET w == UpgradeInsert(b, h, cs) IN
          /\ w.write = b.write
          /\ w.type = [b.type EXCEPT ![h] =
                          IF @ = TL_WRITE_CONCURRENT_INSERT /\ cs THEN TL_WRITE ELSE @]
      BY <2>6, UpgradeFields DEF QInv
    <3>2. QInv(UpgradeInsert(b, h, cs))
      BY <2>5, <2>6, UpgradeWakes DEF Wakes
    <3> QED
      BY <2>7, <3>1, <3>2
  <2>9. PICK using \in BOOLEAN : using = (s.type[h] \in InsertTypes)
    <3>1. (s.type[h] \in InsertTypes) \in BOOLEAN
      OBVIOUS
    <3> QED
      BY <3>1, Zenon
  <2>10. \/ WakeFree(v, cs) = free_all_read_locks(c, FALSE) /\ v.read_wait # <<>>
         \/ WakeFree(v, cs) = s
         \/ WakeFree(v, cs) = FreeReaders(s, using)
    BY <1>2, <2>1, <2>2, <2>4, <2>7, <2>9 DEF WakeFree, Counted
  <2>11. CASE WakeFree(v, cs) = free_all_read_locks(c, FALSE) /\ v.read_wait # <<>>
    <3>1. LET f == FreeReaders(c, FALSE) IN
          /\ ToSet(f.read) = ToSet(c.read) \cup (ToSet(c.read_wait) \ Stays(c, FALSE))
          /\ ToSet(f.read_wait) = ToSet(c.read_wait) \cap Stays(c, FALSE)
          /\ f.write = c.write /\ f.write_wait = c.write_wait /\ f.type = c.type
      BY <2>3, FreedSets
    <3>2. PICK f : f = FreeReaders(c, FALSE)
      OBVIOUS
    <3>3. WakeFree(v, cs) = f
      BY <2>3, <2>11, <3>2 DEF FreeReaders
    <3>4. Stays(c, FALSE) = {}
      BY DEF Stays
    <3>5. ToSet(v.read_wait) # {}
      BY <1>0, <2>11, EmptyList
    <3>6. ToSet(f.write) = {} /\ ToSet(f.read) # {} /\ ToSet(f.read_wait) = {}
      BY <1>0, <2>3, <3>1, <3>2, <3>4, <3>5
    <3> QED
      BY <3>3, <3>6, NoWriterServes
  <2>12. CASE WakeFree(v, cs) = s
    BY <2>5, <2>8, <2>12, WriterServes
  <2>13. CASE WakeFree(v, cs) = FreeReaders(s, using)
    <3>1. FreeReaders(s, using).write = s.write
      BY <2>8, FreedSets
    <3> QED
      BY <2>5, <2>8, <2>13, <3>1, WriterServes
  <2> QED
    BY <2>10, <2>11, <2>12, <2>13
<1> QED
  BY <1>1, <1>2

(* A concurrent insert that becomes a TL_WRITE leaves the active lists alone. *)
LEMMA UpgradeKeepsActive ==
    ASSUME NEW v \in Views, NEW d \in Data, NEW cs \in BOOLEAN
    PROVE  /\ UpgradeInsert(v, d, cs).read = v.read
           /\ UpgradeInsert(v, d, cs).write = v.write
BY DEF UpgradeInsert, Views

(* wake_up_waiters of a lock that is being read lets the readers in unless *)
(* a write waits.                                                          *)
LEMMA WakeReadingServes ==
    ASSUME NEW v, QInv(v), NEW cs \in BOOLEAN, v.write = <<>>, v.read # <<>>
    PROVE  Serves(WakeReading(v, cs))
<1>0. /\ v.write \in Seq(Data) /\ v.read \in Seq(Data) /\ v.write_wait \in Seq(Data)
      /\ v.read_wait \in Seq(Data) /\ ToSet(v.write) = {} /\ ToSet(v.read) # {}
      /\ v.write_wait # <<>> => ToSet(v.write_wait) # {}
  BY EmptyList DEF QInv, Views
<1>1. PICK h : h = Head(v.write_wait)
  OBVIOUS
<1>2. PICK u : u = UpgradeInsert(v, h, cs)
  OBVIOUS
<1>3. PICK using \in BOOLEAN : using = (v.type[h] \in InsertTypes)
  <2>1. (v.type[h] \in InsertTypes) \in BOOLEAN
    OBVIOUS
  <2> QED
    BY <2>1, Zenon
<1>4. \/ WakeReading(v, cs) = FreeReaders(v, FALSE)
      \/ WakeReading(v, cs) = v /\ v.write_wait # <<>>
      \/ WakeReading(v, cs) = FreeReaders(u, FALSE) /\ v.write_wait # <<>>
      \/ WakeReading(v, cs) = FreeReaders(StartWrites(v), using) /\ v.write_wait # <<>>
  BY <1>1, <1>2, <1>3 DEF WakeReading
<1>5. ASSUME NEW y, QInv(y), ToSet(y.write) = {}, ToSet(y.read) # {}
      PROVE  Serves(FreeReaders(y, FALSE))
  <2>1. LET f == FreeReaders(y, FALSE) IN
        /\ ToSet(f.read) = ToSet(y.read) \cup (ToSet(y.read_wait) \ Stays(y, FALSE))
        /\ ToSet(f.read_wait) = ToSet(y.read_wait) \cap Stays(y, FALSE)
        /\ f.write = y.write /\ f.write_wait = y.write_wait /\ f.type = y.type
    BY <1>5, FreedSets
  <2>2. PICK f : f = FreeReaders(y, FALSE)
    OBVIOUS
  <2>3. Stays(y, FALSE) = {}
    BY DEF Stays
  <2>4. ToSet(f.write) = {} /\ ToSet(f.read) # {} /\ ToSet(f.read_wait) = {}
    BY <1>5, <2>1, <2>2, <2>3
  <2>5. Serves(f)
    BY <2>4, NoWriterServes
  <2> QED
    BY <2>2, <2>5
<1>6. CASE WakeReading(v, cs) = FreeReaders(v, FALSE)
  BY <1>0, <1>5, <1>6
<1>7. CASE WakeReading(v, cs) = v /\ v.write_wait # <<>>
  BY <1>0, <1>7, NoWriterServes
<1>8. CASE WakeReading(v, cs) = FreeReaders(u, FALSE) /\ v.write_wait # <<>>
  <2>1. h \in ToSet(v.write_wait) /\ h \in Data
    BY <1>0, <1>1, <1>8, EmptyList
  <2>2. UpgradeInsert(v, h, cs).read = v.read /\ UpgradeInsert(v, h, cs).write = v.write
    <3>1. v \in Views
      BY <1>0 DEF QInv
    <3> QED
      BY <2>1, <3>1, UpgradeKeepsActive, Zenon
  <2>3. QInv(UpgradeInsert(v, h, cs))
    BY <2>1, UpgradeWakes DEF Wakes
  <2> QED
    BY <1>0, <1>2, <1>5, <1>8, <2>2, <2>3
<1>9. CASE WakeReading(v, cs) = FreeReaders(StartWrites(v), using) /\ v.write_wait # <<>>
  <2>1. Head(v.write_wait) \in ToSet(StartWrites(v).write)
    BY <1>9, StartedSets
  <2>2. PICK s : s = StartWrites(v)
    OBVIOUS
  <2>3. QInv(s)
    BY <1>9, <2>2, StartWakes DEF Wakes
  <2>4. FreeReaders(s, using).write = s.write
    BY <2>3, FreedSets
  <2> QED
    BY <1>9, <2>1, <2>2, <2>4, WriterServes
<1> QED
  BY <1>4, <1>6, <1>7, <1>8, <1>9

(* What is left of a lock after some of its instances were taken out.      *)
Shrinks(v, b) ==
    /\ ToSet(b.write) \subseteq ToSet(v.write)
    /\ ToSet(b.read_wait) \subseteq ToSet(v.read_wait)
    /\ ToSet(b.write_wait) \subseteq ToSet(v.write_wait)
    /\ Head(v.write) \in ToSet(b.write) => Head(b.write) = Head(v.write)
    /\ \A d \in On(b) : b.type[d] = v.type[d]

(* Taking instances out and then waking waiters keeps a lock settled.      *)
LEMMA ShrinkWakeSettles ==
    ASSUME NEW v, NEW b, Settled(v), QInv(b), Shrinks(v, b), NEW cs \in BOOLEAN
    PROVE  Settled(wake_up_waiters(b, cs))
<1>1. Upgraded(b)
  BY DEF Settled, Upgraded, Shrinks, On, Act, Que
<1>2. CASE b.write = <<>>
  <2>1. PICK w : w = wake_up_waiters(b, cs)
    OBVIOUS
  <2>2. Serves(w)
    BY <1>2, <2>1, WakeFreeServes, WakeReadingServes DEF wake_up_waiters
  <2>3. Wakes(b, w)
    BY <2>1, WakeUp
  <2>4. /\ ToSet(b.write) = {} /\ ToSet(b.write_wait) \subseteq Data
        /\ ToSet(w.write) \subseteq ToSet(b.write_wait)
        /\ ToSet(w.write_wait) \subseteq ToSet(b.write_wait)
    BY <1>2, <2>3, EmptyList DEF Wakes, Moves, QInv, Views
  <2>5. \A d \in ToSet(b.write_wait) : w.type[d] = TL_WRITE_ONLY => b.type[d] = TL_WRITE_ONLY
    BY <2>3, <2>4 DEF Wakes, Retypes, TL_WRITE, TL_WRITE_ONLY
  <2>6. Upgraded(w)
    BY <1>1, <2>4, <2>5 DEF Upgraded
  <2> QED
    BY <2>1, <2>2, <2>6 DEF Settled
<1>3. CASE b.write # <<>>
  <2>1. wake_up_waiters(b, cs) = b
    BY <1>3 DEF wake_up_waiters
  <2>2. ToSet(b.write) # {}
    BY <1>3, EmptyList DEF QInv, Views
  <2> QED
    BY <1>1, <2>1, <2>2, WriterServes DEF Settled
<1> QED
  BY <1>2, <1>3

-----------------------------------------------------------------------------
(* What thr_lock() may do to a lock that is settled.                       *)

(* A read is granted.                                                      *)
LEMMA AddReadSettles ==
    ASSUME NEW v, NEW w, NEW x, Settled(v),
           ToSet(w.read) = ToSet(v.read) \cup {x}, w.read_wait = v.read_wait,
           w.write = v.write, w.write_wait = v.write_wait, w.type = v.type
    PROVE  Settled(w)
<1>1. Serves(w)
  BY DEF Settled, Serves
<1>2. Upgraded(w)
  BY DEF Settled, Upgraded
<1> QED
  BY <1>1, <1>2 DEF Settled

(* A write is granted: it goes to the end of its list.                     *)
LEMMA AddWriteSettles ==
    ASSUME NEW v, NEW w, NEW x \in Data, QInv(v), Settled(v),
           v.type[x] = TL_WRITE_ONLY => req[x] = TL_WRITE_ONLY,
           ToSet(w.write) = ToSet(v.write) \cup {x}, w.write = Append(v.write, x),
           w.write_wait = v.write_wait, w.read_wait = v.read_wait, w.type = v.type
    PROVE  Settled(w)
<1>1. Serves(w)
  BY WriterServes
<1>2. v.write # <<>> => Head(w.write) = Head(v.write)
  BY DEF QInv, Views
<1>3. ToSet(v.write) # {} => v.write # <<>>
  BY EmptyList
<1>4. Upgraded(w)
  BY <1>2, <1>3 DEF Settled, Upgraded
<1> QED
  BY <1>1, <1>4 DEF Settled

(* A request that must wait has a reason, and the lock does not turn       *)
(* newcomers away.                                                         *)
LEMMA QueueReadSettles ==
    ASSUME NEW v, NEW w, NEW x \in Data, NEW o, NEW t, QInv(v), Settled(v),
           ~ReadGranted(v, o, t), v.write # <<>> => v.type[Head(v.write)] # TL_WRITE_ONLY,
           ToSet(w.read_wait) = ToSet(v.read_wait) \cup {x}, w.write_wait = v.write_wait,
           w.read = v.read, w.write = v.write, w.type = v.type
    PROVE  Settled(w)
<1>0. /\ v.write \in Seq(Data) /\ v.read \in Seq(Data) /\ v.write_wait \in Seq(Data)
      /\ ToSet(v.write) = {} => v.write = <<>>
      /\ ToSet(v.write_wait) = {} => v.write_wait = <<>>
      /\ ToSet(<<>>) = {}
  BY EmptyList DEF QInv, Views
<1>1. v.write = <<>> => v.write_wait # <<>>
  BY DEF ReadGranted
<1>2. ToSet(v.write) = {} => ToSet(v.read) # {} /\ ToSet(v.write_wait) # {}
  BY <1>0, <1>1 DEF Settled, Serves, Que
<1>3. Serves(w)
  BY <1>2 DEF Serves
<1>4. Upgraded(w)
  BY <1>0 DEF Settled, Upgraded
<1> QED
  BY <1>3, <1>4 DEF Settled

(* The same for a write.                                                   *)
LEMMA QueueWriteSettles ==
    ASSUME NEW v, NEW w, NEW x \in Data, QInv(v), Settled(v),
           v.write # <<>> \/ v.read # <<>> \/ v.write_wait # <<>>,
           v.write # <<>> => v.type[Head(v.write)] # TL_WRITE_ONLY,
           v.type[x] = TL_WRITE_ONLY => req[x] = TL_WRITE_ONLY,
           ToSet(w.write_wait) = ToSet(v.write_wait) \cup {x}, w.read_wait = v.read_wait,
           w.read = v.read, w.write = v.write, w.type = v.type
    PROVE  Settled(w)
<1>1. ToSet(v.write) # {} \/ ToSet(v.read) # {} \/ ToSet(v.write_wait) # {}
  BY EmptyList DEF QInv, Views
<1>2. Serves(w)
  BY <1>1 DEF Settled, Serves, Que
<1>3. ToSet(v.write) # {} => v.write # <<>>
  BY EmptyList
<1>4. Upgraded(w)
  BY <1>3 DEF Settled, Upgraded
<1> QED
  BY <1>2, <1>4 DEF Settled

(* The same lists, and types that are the same or not TL_WRITE_ONLY.       *)
LEMMA SameSettles ==
    ASSUME NEW v, NEW w, Settled(v), w.read = v.read, w.read_wait = v.read_wait,
           w.write = v.write, w.write_wait = v.write_wait,
           \A d \in On(v) : w.type[d] = v.type[d] \/ w.type[d] # TL_WRITE_ONLY
    PROVE  Settled(w)
<1>1. Serves(w)
  BY DEF Settled, Serves, Que
<1>2. Upgraded(w)
  BY DEF Settled, Upgraded, Que, On, Act
<1> QED
  BY <1>1, <1>2 DEF Settled

-----------------------------------------------------------------------------
(* The same for states.                                                    *)

SettledInv == \A l \in Locks : Settled(View(l))

(* A lock in the next state, whose instances were requested as before.     *)
LEMMA NextSettles ==
    ASSUME NEW l \in Locks, NEW y, y = View(l)', Settled(y), \A d \in On(y) : req'[d] = req[d]
    PROVE  Settled(View(l))'
<1>1. /\ y.read = (View(l).read)' /\ y.read_wait = (View(l).read_wait)'
      /\ y.write = (View(l).write)' /\ y.write_wait = (View(l).write_wait)' /\ y.type = (View(l).type)'
  OBVIOUS
<1>2. Serves(View(l))'
  BY <1>1 DEF Settled, Serves, Que
<1>3. Upgraded(View(l))'
  BY <1>1 DEF Settled, Upgraded, On, Act, Que
<1> QED
  BY <1>2, <1>3 DEF Settled

(* Installing an edit that leaves its lock settled.                        *)
LEMMA InstallSettles ==
    ASSUME LockInv, SettledInv, NEW l \in Locks, NEW w, NEW gone, NEW X \in SUBSET Data,
           \A d \in X : LockOf[d] = l, Carries(View(l), w, X), Install(l, w, gone),
           req' = req, Settled(w)
    PROVE  SettledInv'
<1>1. /\ lists'[l].read = w.read /\ lists'[l].read_wait = w.read_wait
      /\ lists'[l].write = w.write /\ lists'[l].write_wait = w.write_wait
      /\ \A m \in Locks \ {l} : lists'[m] = lists[m]
      /\ type' = w.type
  BY InstallOK DEF LockInv
<1>2. ASSUME NEW m \in Locks PROVE Settled(View(m))'
  <2>1. PICK y : y = View(m)'
    OBVIOUS
  <2>2. /\ y.read = lists'[m].read /\ y.read_wait = lists'[m].read_wait
        /\ y.write = lists'[m].write /\ y.write_wait = lists'[m].write_wait /\ y.type = type'
    BY <2>1 DEF View
  <2>3. CASE m = l
    BY <1>1, <2>1, <2>2, <2>3, SameSettles, NextSettles
  <2>4. CASE m # l
    <3>1. PICK v : v = View(m)
      OBVIOUS
    <3>2. /\ v.read = lists[m].read /\ v.read_wait = lists[m].read_wait
          /\ v.write = lists[m].write /\ v.write_wait = lists[m].write_wait /\ v.type = type
      BY <3>1, ViewOf
    <3>3. ASSUME NEW d \in On(v) PROVE y.type[d] = v.type[d]
      <4>1. d \in Data /\ d \in Active(m) \cup Queued(m)
        BY <3>1, ViewOf, EmptyList DEF On, LockInv, QInv, Views, Act, Que
      <4>2. LockOf[d] = m
        BY <4>1 DEF LockInv, StateOK
      <4>3. d \notin Active(l) \cup Queued(l)
        BY <2>4, <4>2 DEF LockInv, StateOK
      <4>4. PICK u : u = View(l)
        OBVIOUS
      <4>5. d \notin On(u) /\ u.type = type /\ d \in Data \ X
        BY <2>4, <4>1, <4>2, <4>3, <4>4, ViewOf DEF On
      <4>6. Carried(u, w, d)
        BY <4>4, <4>5 DEF Carries
      <4> QED
        BY <1>1, <2>2, <3>2, <4>5, <4>6 DEF Carried
    <3>4. Settled(v)
      BY <3>1 DEF SettledInv
    <3>5. Settled(y)
      BY <1>1, <2>2, <2>4, <3>2, <3>3, <3>4, SameSettles
    <3> QED
      BY <2>1, <3>5, NextSettles
  <2> QED
    BY <2>3, <2>4
<1> QED
  BY <1>2 DEF SettledInv

(* The same for an edit about one instance.                                *)
LEMMA EditSettles ==
    ASSUME LockInv, SettledInv, NEW x \in Data, NEW w, NEW gone, Edits(x, w),
           Install(LockOf[x], w, gone), req' = req, Settled(w)
    PROVE  SettledInv'
<1>1. LockOf[x] \in Locks /\ {x} \in SUBSET Data /\ \A d \in {x} : LockOf[d] = LockOf[x]
  BY ThrLockAssumption
<1> QED
  BY <1>1, InstallSettles DEF Edits

(* A step that changes no list and no request of an instance in a list.    *)
LEMMA QuietSettles ==
    ASSUME LockInv, SettledInv, lists' = lists, type' = type,
           \A d \in Data : Linked(d) => req'[d] = req[d]
    PROVE  SettledInv'
<1>1. ASSUME NEW m \in Locks PROVE Settled(View(m))'
  <2>1. PICK y : y = View(m)'
    OBVIOUS
  <2>2. PICK v : v = View(m)
    OBVIOUS
  <2>3. /\ y.read = v.read /\ y.read_wait = v.read_wait
        /\ y.write = v.write /\ y.write_wait = v.write_wait /\ y.type = v.type
    BY <2>1, <2>2 DEF View
  <2>4. Settled(y)
    BY <2>2, <2>3, SameSettles DEF SettledInv
  <2>5. ASSUME NEW d \in On(y) PROVE req'[d] = req[d]
    <3>1. d \in On(v)
      BY <2>3 DEF On, Act, Que
    <3>2. d \in Data /\ d \in Active(m) \cup Queued(m)
      BY <2>2, <3>1, ViewOf, EmptyList DEF On, LockInv, QInv, Views, Act, Que
    <3>3. Linked(d)
      BY <3>2 DEF LockInv, StateOK, Linked
    <3> QED
      BY <3>2, <3>3
  <2> QED
    BY <2>1, <2>4, <2>5, NextSettles
<1> QED
  BY <1>1 DEF SettledInv

(* What taking an instance out of its list leaves.                         *)
LEMMA OutShrinks ==
    ASSUME NEW v, NEW b, QInv(v), NEW x \in Data, Without(v, b, x), b.write = Only(v.write, Data \ {x}),
           On(b) = On(v) \ {x}, \A d \in Data \ {x} : b.type[d] = v.type[d]
    PROVE  Shrinks(v, b)
<1>1. v.write \in Seq(Data) /\ IsInjective(v.write) /\ On(v) \subseteq Data
  BY EmptyList DEF QInv, Views, Apart, On, Act, Que
<1>2. ASSUME Head(v.write) \in ToSet(b.write) PROVE Head(b.write) = Head(v.write)
  <2>1. v.write # <<>> /\ Head(v.write) \in Data \ {x}
    BY <1>1, <1>2, EmptyList DEF Without
  <2> QED
    BY <1>1, <2>1, HeadStays
<1>3. \A d \in On(b) : b.type[d] = v.type[d]
  BY <1>1
<1> QED
  BY <1>2, <1>3 DEF Shrinks, Without

(* Unlinking one, however its type is changed.                             *)
LEMMA RemovedWrites ==
    ASSUME NEW v, QInv(v), NEW x \in Data
    PROVE  /\ Removed(v, x).write = Only(v.write, Data \ {x})
           /\ Unlocked(v, x).write = Only(v.write, Data \ {x})
           /\ SteppedBack(v, x).write = Only(v.write, Data \ {x})
<1>1. PICK u : u = Unlink(v, x)
  OBVIOUS
<1>2. u \in Views /\ u.write = Only(v.write, Data \ {x})
  BY <1>1, UnlinkFields DEF QInv
<1>3. [u EXCEPT !.type[x] = TL_UNLOCK].write = u.write
  BY <1>2 DEF Views
<1>4. \A n : [u EXCEPT !.type[x] = TL_UNLOCK, !.read_no_write_count = n].write = u.write
  BY <1>2 DEF Views
<1>5. \A r : [[u EXCEPT !.write_wait = r] EXCEPT !.cond[x] = TRUE].write = u.write
  BY <1>2 DEF Views
<1>6. Removed(v, x).write = u.write
  BY <1>1, <1>3 DEF Removed
<1>7. Unlocked(v, x).write = u.write
  BY <1>1, <1>4 DEF Unlocked
<1>8. SteppedBack(v, x).write = u.write
  BY <1>1, <1>5 DEF SteppedBack, ToFront
<1> QED
  BY <1>2, <1>6, <1>7, <1>8

(* Giving up a wait leaves a lock settled.                                 *)
LEMMA GiveUpSettles ==
    ASSUME NEW u, NEW x \in Data, NEW cs \in BOOLEAN, QInv(u), Settled(u), x \notin Act(u)
    PROVE  Settled(GiveUp(u, x, cs))
<1>1. LET r == Removed(u, x) IN
      /\ Carries(u, r, {x}) /\ Requeues(u, r) /\ Without(u, r, x)
      /\ On(r) = On(u) \ {x} /\ r.type[x] = TL_UNLOCK
      /\ \A d \in Data \ {x} : r.type[d] = u.type[d]
  BY RemovedOK
<1>2. PICK r : r = Removed(u, x)
  OBVIOUS
<1>3. GiveUp(u, x, cs) = wake_up_waiters(r, cs)
  BY <1>2 DEF GiveUp, Removed
<1>4. QInv(r) /\ On(r) \subseteq Data \ {x}
  <2>1. On(u) \subseteq Data
    BY EmptyList DEF QInv, Views, On, Act, Que
  <2> QED
    BY <1>1, <1>2, <2>1 DEF Carries
<1>5. Shrinks(u, r)
  BY <1>1, <1>2, <1>4, RemovedWrites, OutShrinks
<1> QED
  BY <1>3, <1>4, <1>5, ShrinkWakeSettles

(* A request that is put into a queue of the view it works on.             *)
Enqueued(v, list, x) == [v EXCEPT ![list] = Append(@, x), !.cond[x] = TRUE]

(* A request that is queued, and perhaps given up at once.                 *)
LEMMA QueuedEdits ==
    ASSUME LockInv, NEW x \in Data, ~Linked(x),
           NEW t \in Types, NEW list \in {"read_wait", "write_wait"}, NEW cs \in BOOLEAN,
           IF list = "read_wait" THEN t \in ReadTypes ELSE t \in WriteTypes
    PROVE  LET w == Enqueued(Begun(x, t), list, x) IN
           /\ Edits(x, w) /\ QInv(w) /\ x \in Que(w) /\ x \notin Act(w) /\ w.type[x] = t
           /\ Edits(x, GiveUp(w, x, cs)) /\ x \notin On(GiveUp(w, x, cs))
<1>0. LockOf[x] \in Locks
  BY ThrLockAssumption
<1>a. PICK w : w = Enqueued(Begun(x, t), list, x)
  OBVIOUS
<1>1. PICK v : v = Begun(x, t)
  OBVIOUS
<1>2. /\ Edits(x, v) /\ QInv(v) /\ x \notin On(v) /\ v.type[x] = t /\ ~v.cond[x]
      /\ \A d \in Data \ {x} : v.type[d] = type[d]
      /\ \A y : Carries(v, y, {x}) /\ Requeues(v, y) => Edits(x, y)
  <2>1. LET b == Begun(x, t) IN
        /\ Edits(x, b) /\ QInv(b) /\ x \notin On(b) /\ b.type[x] = t /\ ~b.cond[x]
        /\ \A d \in Data \ {x} : b.type[d] = type[d]
        /\ \A y : Carries(b, y, {x}) /\ Requeues(b, y) => Edits(x, y)
    BY <1>0, BegunFacts
  <2> QED
    BY <1>1, <2>1
<1>4. w = [v EXCEPT ![list] = Append(@, x), !.cond[x] = TRUE]
  BY <1>a, <1>1 DEF Enqueued
<1>5. /\ Carries(v, w, {x}) /\ Requeues(v, w) /\ x \in Que(w) /\ w.type = v.type
      /\ Act(w) = Act(v)
  <2>1. CASE list = "read_wait"
    <3>1. LET q == QueueRead(v, x) IN
          /\ Carries(v, q, {x}) /\ Requeues(v, q) /\ ToSet(q.read_wait) = ToSet(v.read_wait) \cup {x}
          /\ q.read = v.read /\ q.write = v.write /\ q.type = v.type
      BY <1>2, <2>1, QueueReadOK
    <3> QED
      BY <1>4, <2>1, <3>1 DEF Act, Que, QueueRead
  <2>2. CASE list = "write_wait"
    <3>1. LET q == QueueWrite(v, x) IN
          /\ Carries(v, q, {x}) /\ Requeues(v, q) /\ ToSet(q.write_wait) = ToSet(v.write_wait) \cup {x}
          /\ q.read = v.read /\ q.write = v.write /\ q.type = v.type
      BY <1>2, <2>2, QueueWriteOK
    <3> QED
      BY <1>4, <2>2, <3>1 DEF Act, Que, QueueWrite
  <2> QED
    BY <2>1, <2>2
<1>6. PICK u : u = View(LockOf[x])
  OBVIOUS
<1>7. QInv(u) /\ x \notin On(u) /\ QInv(w) /\ x \notin Act(w)
  BY <1>0, <1>2, <1>5, <1>6, ViewOf DEF LockInv, Linked, On, Carries
<1>8. v = Cleared(u, x, t)
  BY <1>1, <1>6 DEF Begun
<1>9. \A d \in Data \ {x} : w.type[d] = u.type[d]
  BY <1>2, <1>5, <1>6, ViewOf
<1>10. Carries(u, w, {x}) /\ Requeues(u, w)
  BY <1>5, <1>7, <1>8, SetThen
<1>11. LET g == GiveUp(w, x, cs) IN Carries(u, g, {x}) /\ InTurn(u, g) /\ x \notin On(g)
  BY <1>7, <1>9, <1>10, GiveUpEdits
<1>12. Edits(x, GiveUp(w, x, cs)) /\ x \notin On(GiveUp(w, x, cs))
  BY <1>6, <1>11 DEF Edits
<1>13. Edits(x, w) /\ w.type[x] = t
  BY <1>2, <1>5
<1> QED
  BY <1>a, <1>5, <1>7, <1>12, <1>13

(* A call that is not granted leaves its lock settled if its queue is.     *)
LEMMA BlockedSettles ==
    ASSUME LockInv, SettledInv, NEW o \in Owners, phase[o] = "locking", NEW x \in Data, x = Cur(o),
           NEW t \in Types, NEW list \in {"read_wait", "write_wait"}, NEW cs \in BOOLEAN,
           IF list = "read_wait" THEN t \in ReadTypes ELSE t \in WriteTypes,
           Blocked(o, x, Begun(x, t), list, cs),
           Settled(Begun(x, t)), Settled(Enqueued(Begun(x, t), list, x))
    PROVE  SettledInv'
<1>0. ~Linked(x)
  BY CurFacts
<1>1. LET w == Enqueued(Begun(x, t), list, x) IN
      /\ Edits(x, w) /\ QInv(w) /\ x \in Que(w) /\ x \notin Act(w) /\ w.type[x] = t
      /\ Edits(x, GiveUp(w, x, cs)) /\ x \notin On(GiveUp(w, x, cs))
  BY <1>0, QueuedEdits
<1>b. PICK w : w = Enqueued(Begun(x, t), list, x)
  OBVIOUS
<1>2. Edits(x, Begun(x, t))
  BY <1>0, BegunFacts
<1>3. Settled(w) /\ Settled(GiveUp(w, x, cs)) /\ Edits(x, w) /\ Edits(x, GiveUp(w, x, cs))
  BY <1>1, <1>b, GiveUpSettles
<1>4. \/ Install(LockOf[x], Begun(x, t), {}) /\ req' = req
      \/ Install(LockOf[x], w, {}) /\ req' = req
      \/ Install(LockOf[x], GiveUp(w, x, cs), {}) /\ req' = req
  BY <1>b DEF Blocked, BeginWait, Fail, Enqueued
<1> QED
  BY <1>2, <1>3, <1>4, EditSettles

(* thr_lock's first assignments leave the lock settled.                    *)
LEMMA BegunSettles ==
    ASSUME LockInv, SettledInv, NEW x \in Data, ~Linked(x), NEW t \in Types
    PROVE  Settled(Begun(x, t)) /\ Edits(x, Begun(x, t))
<1>1. LET b == Begun(x, t) IN
      /\ Edits(x, b) /\ QInv(b) /\ x \notin On(b) /\ b.type[x] = t /\ ~b.cond[x]
      /\ b.read = lists[LockOf[x]].read /\ b.write = lists[LockOf[x]].write
      /\ b.read_wait = lists[LockOf[x]].read_wait /\ b.write_wait = lists[LockOf[x]].write_wait
      /\ \A d \in Data \ {x} : b.type[d] = type[d]
      /\ \A w : Carries(b, w, {x}) /\ Requeues(b, w) => Edits(x, w)
  BY BegunFacts
<1>2. PICK b : b = Begun(x, t)
  OBVIOUS
<1>3. PICK u : u = View(LockOf[x])
  OBVIOUS
<1>4. LockOf[x] \in Locks
  BY ThrLockAssumption
<1>5. /\ u.read = lists[LockOf[x]].read /\ u.write = lists[LockOf[x]].write
      /\ u.read_wait = lists[LockOf[x]].read_wait /\ u.write_wait = lists[LockOf[x]].write_wait
      /\ u.type = type /\ Settled(u) /\ QInv(u) /\ x \notin On(u)
  BY <1>3, <1>4, ViewOf DEF SettledInv, LockInv, Linked, On
<1>6. On(u) \subseteq Data \ {x}
  BY <1>5, EmptyList DEF QInv, Views, On, Act, Que
<1>7. Settled(b)
  BY <1>1, <1>2, <1>5, <1>6, SameSettles
<1> QED
  BY <1>1, <1>2, <1>7

(* thr_lock resets the type of a request that it refuses.                  *)
LEMMA BegunReset ==
    ASSUME LockInv, NEW x \in Data, NEW t \in Types
    PROVE  [Begun(x, t) EXCEPT !.type[x] = TL_UNLOCK] = Begun(x, TL_UNLOCK)
<1>1. PICK u : u = View(LockOf[x])
  OBVIOUS
<1>2. u \in Views
  BY <1>1, ThrLockAssumption DEF LockInv, QInv
<1>3. [Cleared(u, x, t) EXCEPT !.type[x] = TL_UNLOCK] = Cleared(u, x, TL_UNLOCK)
  BY <1>2 DEF Views, Cleared
<1> QED
  BY <1>1, <1>3 DEF Begun

(* thr_lock with a read type leaves the lock settled.                      *)
LEMMA ReadCallSettles ==
    ASSUME LockInv, SettledInv, NEW o \in Owners, phase[o] = "locking",
           NEW x \in Data, x = Cur(o), IsRead(req[x]), NEW cs \in BOOLEAN,
           LockRead(o, x, req[x], cs)
    PROVE  SettledInv'
<1>1. PICK t : t = req[x]
  OBVIOUS
<1>2. /\ t \in ReadTypes /\ t \in Types /\ ~Linked(x) /\ OwnerOf[x] = o /\ TL_UNLOCK \in Types
  BY <1>1, CurFacts, TypeFacts DEF Types
<1>3. PICK v : v = Begun(x, t)
  OBVIOUS
<1>4. \/ /\ ReadGranted(v, o, t)
         /\ Install(LockOf[x], AddRead(v, x), {}) /\ req' = req
      \/ /\ Install(LockOf[x], [v EXCEPT !.type[x] = TL_UNLOCK], {}) /\ req' = req
      \/ /\ ~Refused(v, o, t) /\ ~ReadGranted(v, o, t)
         /\ Blocked(o, x, v, "read_wait", cs)
  BY <1>1, <1>3 DEF LockRead, Begun, Cleared, Advance, Fail
<1>5. /\ QInv(v) /\ x \notin On(v) /\ v.type[x] = t /\ ~v.cond[x]
      /\ v.write = lists[LockOf[x]].write
      /\ \A w : Carries(v, w, {x}) /\ Requeues(v, w) => Edits(x, w)
  <2>1. LET b == Begun(x, t) IN
        /\ Edits(x, b) /\ QInv(b) /\ x \notin On(b) /\ b.type[x] = t /\ ~b.cond[x]
        /\ b.read = lists[LockOf[x]].read /\ b.write = lists[LockOf[x]].write
        /\ b.read_wait = lists[LockOf[x]].read_wait /\ b.write_wait = lists[LockOf[x]].write_wait
        /\ \A d \in Data \ {x} : b.type[d] = type[d]
        /\ \A w : Carries(b, w, {x}) /\ Requeues(b, w) => Edits(x, w)
    BY <1>2, BegunFacts
  <2> QED
    BY <1>3, <2>1
<1>6. Settled(v)
  BY <1>2, <1>3, BegunSettles
<1>7. CASE ReadGranted(v, o, t) /\ Install(LockOf[x], AddRead(v, x), {}) /\ req' = req
  <2>1. LET w == AddRead(v, x) IN
        /\ Carries(v, w, {x}) /\ Requeues(v, w)
        /\ ToSet(w.read) = ToSet(v.read) \cup {x} /\ w.read_wait = v.read_wait
        /\ w.write = v.write /\ w.write_wait = v.write_wait
        /\ w.type = v.type /\ w.cond = v.cond /\ w.signalled = v.signalled
    BY <1>2, <1>5, AddReadOK
  <2>2. PICK w : w = AddRead(v, x)
    OBVIOUS
  <2>3. Edits(x, w)
    BY <1>5, <2>1, <2>2
  <2>4. Settled(w)
    BY <1>6, <2>1, <2>2, AddReadSettles
  <2> QED
    BY <1>7, <2>2, <2>3, <2>4, EditSettles
<1>8. CASE Install(LockOf[x], [v EXCEPT !.type[x] = TL_UNLOCK], {}) /\ req' = req
  BY <1>2, <1>3, <1>8, BegunReset, BegunSettles, EditSettles
<1>9. CASE ~Refused(v, o, t) /\ ~ReadGranted(v, o, t) /\ Blocked(o, x, v, "read_wait", cs)
  <2>1. v.write # <<>> => v.type[Head(v.write)] # TL_WRITE_ONLY
    BY <1>9 DEF Refused, ReadGranted, HeadType
  <2>2. LET w == QueueRead(v, x) IN
        /\ Carries(v, w, {x}) /\ Requeues(v, w)
        /\ ToSet(w.read_wait) = ToSet(v.read_wait) \cup {x} /\ w.write_wait = v.write_wait
        /\ w.read = v.read /\ w.write = v.write
        /\ w.type = v.type /\ w.signalled = v.signalled
    BY <1>2, <1>5, QueueReadOK
  <2>3. Settled(QueueRead(v, x))
    <3>1. PICK w : w = QueueRead(v, x)
      OBVIOUS
    <3>2. Settled(w)
      BY <1>5, <1>6, <1>9, <2>1, <2>2, <3>1, QueueReadSettles
    <3> QED
      BY <3>1, <3>2
  <2>4. Settled(Enqueued(v, "read_wait", x))
    BY <2>3 DEF Enqueued, QueueRead
  <2> QED
    BY <1>2, <1>3, <1>6, <1>9, <2>4, BlockedSettles
<1> QED
  BY <1>4, <1>7, <1>8, <1>9

(* thr_lock with a write type leaves the lock settled.                     *)
LEMMA WriteCallSettles ==
    ASSUME LockInv, SettledInv, NEW o \in Owners, phase[o] = "locking",
           NEW x \in Data, x = Cur(o), ~IsRead(req[x]), NEW cs \in BOOLEAN,
           LockWrite(o, x, req[x], cs)
    PROVE  SettledInv'
<1>1. PICK t : t = EffectiveType(View(LockOf[x]), req[x], cs)
  OBVIOUS
<1>2. /\ t \in WriteTypes /\ t \in Types /\ ~Linked(x) /\ OwnerOf[x] = o /\ TL_UNLOCK \in Types
  <2>1. ~Linked(x) /\ req[x] \in WriteTypes /\ OwnerOf[x] = o
    BY CurFacts, TypeFacts
  <2>2. t = req[x] \/ t = UpgradedInsert
    BY <1>1 DEF EffectiveType
  <2> QED
    BY <2>1, <2>2, TypeFacts DEF Types
<1>3. PICK v : v = Begun(x, t)
  OBVIOUS
<1>4. \/ /\ Install(LockOf[x], [v EXCEPT !.type[x] = TL_UNLOCK], {}) /\ req' = req
      \/ /\ ~Refused(v, o, req[x]) /\ DelayedQueued(v, req[x])
         /\ Install(LockOf[x], QueueWrite(v, x), {}) /\ req' = req
      \/ /\ ~Refused(v, o, req[x]) /\ WriteGranted(v, o, t)
         /\ Install(LockOf[x], AddWrite(v, x), {}) /\ req' = req
      \/ /\ ~Refused(v, o, req[x]) /\ ~WriteGranted(v, o, t)
         /\ Blocked(o, x, v, "write_wait", cs)
  BY <1>1, <1>3 DEF LockWrite, Begun, Cleared, QueueWrite, Advance, Fail
<1>5. /\ QInv(v) /\ x \notin On(v) /\ v.type[x] = t /\ ~v.cond[x]
      /\ v.write = lists[LockOf[x]].write
      /\ \A w : Carries(v, w, {x}) /\ Requeues(v, w) => Edits(x, w)
  <2>1. LET b == Begun(x, t) IN
        /\ Edits(x, b) /\ QInv(b) /\ x \notin On(b) /\ b.type[x] = t /\ ~b.cond[x]
        /\ b.read = lists[LockOf[x]].read /\ b.write = lists[LockOf[x]].write
        /\ b.read_wait = lists[LockOf[x]].read_wait /\ b.write_wait = lists[LockOf[x]].write_wait
        /\ \A d \in Data \ {x} : b.type[d] = type[d]
        /\ \A w : Carries(b, w, {x}) /\ Requeues(b, w) => Edits(x, w)
    BY <1>2, BegunFacts
  <2> QED
    BY <1>3, <2>1
<1>6. Settled(v)
  BY <1>2, <1>3, BegunSettles
<1>7. v.type[x] = TL_WRITE_ONLY => req[x] = TL_WRITE_ONLY
  <2>1. t = req[x] \/ t = UpgradedInsert
    BY <1>1 DEF EffectiveType
  <2> QED
    BY <1>5, <2>1, QueueAssumption DEF TL_WRITE, TL_WRITE_LOW_PRIORITY, TL_WRITE_ONLY
<1>8. CASE Install(LockOf[x], [v EXCEPT !.type[x] = TL_UNLOCK], {}) /\ req' = req
  BY <1>2, <1>3, <1>8, BegunReset, BegunSettles, EditSettles
<1>9. ASSUME ~Refused(v, o, req[x]), DelayedQueued(v, req[x]) \/ ~WriteGranted(v, o, t)
      PROVE  Settled(QueueWrite(v, x)) /\ Edits(x, QueueWrite(v, x))
  <2>1. LET w == QueueWrite(v, x) IN
        /\ Carries(v, w, {x}) /\ Requeues(v, w)
        /\ ToSet(w.write_wait) = ToSet(v.write_wait) \cup {x} /\ w.read_wait = v.read_wait
        /\ w.read = v.read /\ w.write = v.write
        /\ w.type = v.type /\ w.signalled = v.signalled
    BY <1>2, <1>5, QueueWriteOK
  <2>2. PICK w : w = QueueWrite(v, x)
    OBVIOUS
  <2>3. v.write # <<>> \/ v.read # <<>> \/ v.write_wait # <<>>
    BY <1>9 DEF DelayedQueued, WriteGranted
  <2>4. v.write # <<>> => v.type[Head(v.write)] # TL_WRITE_ONLY
    BY <1>9 DEF Refused, DelayedQueued, WriteGranted, HeadType
  <2>5. Settled(w) /\ Edits(x, w)
    BY <1>5, <1>6, <1>7, <2>1, <2>2, <2>3, <2>4, QueueWriteSettles
  <2> QED
    BY <2>2, <2>5
<1>10. CASE /\ ~Refused(v, o, req[x]) /\ DelayedQueued(v, req[x])
            /\ Install(LockOf[x], QueueWrite(v, x), {}) /\ req' = req
  BY <1>9, <1>10, EditSettles
<1>11. CASE /\ ~Refused(v, o, req[x]) /\ WriteGranted(v, o, t)
            /\ Install(LockOf[x], AddWrite(v, x), {}) /\ req' = req
  <2>1. LET w == AddWrite(v, x) IN
        /\ Carries(v, w, {x}) /\ Requeues(v, w)
        /\ ToSet(w.write) = ToSet(v.write) \cup {x} /\ w.write_wait = v.write_wait
        /\ w.read = v.read /\ w.read_wait = v.read_wait
        /\ w.type = v.type /\ w.cond = v.cond /\ w.signalled = v.signalled
        /\ w.write = Append(v.write, x)
    BY <1>2, <1>5, AddWriteOK
  <2>2. PICK w : w = AddWrite(v, x)
    OBVIOUS
  <2>3. Edits(x, w)
    BY <1>5, <2>1, <2>2
  <2>4. Settled(w)
    BY <1>5, <1>6, <1>7, <2>1, <2>2, AddWriteSettles
  <2> QED
    BY <1>11, <2>2, <2>3, <2>4, EditSettles
<1>12. CASE /\ ~Refused(v, o, req[x]) /\ ~WriteGranted(v, o, t)
            /\ Blocked(o, x, v, "write_wait", cs)
  <2>1. Settled(Enqueued(v, "write_wait", x))
    BY <1>9, <1>12 DEF Enqueued, QueueWrite
  <2> QED
    BY <1>2, <1>3, <1>6, <1>12, <2>1, BlockedSettles
<1> QED
  BY <1>4, <1>8, <1>10, <1>11, <1>12

(* thr_lock leaves every lock settled.                                     *)
LEMMA CallSettles ==
    ASSUME LockInv, SettledInv, NEW o \in Owners, ThrLockCall(o)
    PROVE  SettledInv'
<1>1. PICK x : x = Cur(o)
  OBVIOUS
<1>2. phase[o] = "locking"
  BY DEF ThrLockCall
<1>3. x \in Data
  BY <1>1, <1>2, CurFacts
<1>4. PICK cs \in BOOLEAN : IF IsRead(req[x]) THEN LockRead(o, x, req[x], cs)
                                              ELSE LockWrite(o, x, req[x], cs)
  BY <1>1 DEF ThrLockCall
<1> QED
  BY <1>1, <1>2, <1>3, <1>4, ReadCallSettles, WriteCallSettles

(* So does the end of a wait that was not granted.                         *)
LEMMA LeaveSettles ==
    ASSUME LockInv, SettledInv, NEW x \in Data, cond[x], NEW cs \in BOOLEAN, NEW gone,
           Install(LockOf[x], GiveUp(View(LockOf[x]), x, cs), gone), req' = req
    PROVE  SettledInv'
<1>1. PICK v : v = View(LockOf[x])
  OBVIOUS
<1>2. LockOf[x] \in Locks
  BY ThrLockAssumption
<1>3. QInv(v) /\ Settled(v) /\ x \notin Act(v)
  BY <1>1, <1>2, ViewOf, WhereItIs DEF LockInv, SettledInv
<1>4. PICK w : w = GiveUp(v, x, cs)
  OBVIOUS
<1>5. Settled(w)
  BY <1>3, <1>4, GiveUpSettles
<1>6. Edits(x, w)
  BY <1>1, <1>4, GiveUpEditsView
<1> QED
  BY <1>1, <1>4, <1>5, <1>6, EditSettles

(* A timeout or a kill of a waiting thread.                                *)
LEMMA GivenUpSettles ==
    ASSUME LockInv, SettledInv, NEW o \in Owners, WaitGivenUp(o)
    PROVE  SettledInv'
<1>1. PICK x : x = Cur(o)
  OBVIOUS
<1>2. phase[o] = "waiting" /\ cond[x] /\ req' = req
  BY <1>1 DEF WaitGivenUp, Fail
<1>3. PICK cs \in BOOLEAN : Install(LockOf[x], GiveUp(View(LockOf[x]), x, cs), {o})
  BY <1>1 DEF WaitGivenUp
<1>4. x \in Data
  BY <1>1, <1>2, CurFacts
<1> QED
  BY <1>2, <1>3, <1>4, LeaveSettles

(* The end of an upgrade's wait.                                           *)
LEMMA UpgradeEndsSettles ==
    ASSUME LockInv, SettledInv, NEW o \in Owners, UpgradeWaitEnds(o)
    PROVE  SettledInv'
<1>1. phase[o] = "upgrading" /\ req' = req
  BY DEF UpgradeWaitEnds
<1>2. PICK x \in Data : x = Cur(o)
  BY <1>1, CurFacts
<1>3. \/ lists' = lists /\ type' = type
      \/ cond[x] /\ \E cs \in BOOLEAN : Install(LockOf[x], GiveUp(View(LockOf[x]), x, cs), {o})
  BY <1>2 DEF UpgradeWaitEnds
<1> QED
  BY <1>1, <1>3, QuietSettles, LeaveSettles

(* One thr_unlock.                                                         *)
LEMMA UnlockSettles ==
    ASSUME LockInv, SettledInv, NEW o \in Owners, UnlockNext(o)
    PROVE  SettledInv'
<1>1. PICK x : x = Cur(o)
  OBVIOUS
<1>2. phase[o] = "unlocking" /\ pos[o] <= Len(plan[o]) /\ req' = req
  BY DEF UnlockNext
<1>3. /\ x \in Data /\ LockOf[x] \in Locks
      /\ \/ type[x] = TL_UNLOCK \/ x \in Active(LockOf[x])
         \/ x \in Queued(LockOf[x]) /\ type[x] \in WriteTypes
  BY <1>1, <1>2, UnlockFacts, ThrLockAssumption
<1>4. CASE type[x] = TL_UNLOCK
  <2>1. lists' = lists /\ type' = type
    BY <1>1, <1>4 DEF UnlockNext
  <2> QED
    BY <1>2, <2>1, QuietSettles
<1>5. CASE type[x] # TL_UNLOCK
  <2>1. PICK cs \in BOOLEAN : Install(LockOf[x], thr_unlock(View(LockOf[x]), x, cs), {})
    BY <1>1, <1>5 DEF UnlockNext
  <2>2. PICK v : v = View(LockOf[x])
    OBVIOUS
  <2>3. /\ QInv(v) /\ Settled(v) /\ Act(v) = Active(LockOf[x]) /\ Que(v) = Queued(LockOf[x])
        /\ v.type = type
    BY <1>3, <2>2, ViewOf DEF LockInv, SettledInv
  <2>4. x \in Act(v) \/ (x \in Que(v) /\ v.type[x] # TL_READ_NO_INSERT)
    <3>1. TL_READ_NO_INSERT \in ReadTypes
      BY DEF ReadTypes
    <3> QED
      BY <1>3, <1>5, <2>3, <3>1, TypeFacts
  <2>5. LET r == Unlocked(v, x) IN
        /\ Carries(v, r, {x}) /\ Requeues(v, r) /\ Without(v, r, x)
        /\ On(r) = On(v) \ {x} /\ r.type[x] = TL_UNLOCK
        /\ \A d \in Data \ {x} : r.type[d] = v.type[d]
    BY <1>3, <2>3, <2>4, UnlockedOK
  <2>6. PICK r : r = Unlocked(v, x)
    OBVIOUS
  <2>7. QInv(r) /\ Shrinks(v, r)
    BY <1>3, <2>3, <2>5, <2>6, RemovedWrites, OutShrinks DEF Carries
  <2>8. PICK w : w = thr_unlock(v, x, cs)
    OBVIOUS
  <2>9. w = wake_up_waiters(r, cs)
    BY <2>6, <2>8 DEF thr_unlock, Unlocked
  <2>10. Settled(w)
    BY <2>3, <2>7, <2>9, ShrinkWakeSettles
  <2>11. Edits(x, w)
    BY <1>3, <1>5, <2>2, <2>8, UnlockEdits
  <2> QED
    BY <1>2, <1>3, <2>1, <2>2, <2>8, <2>10, <2>11, EditSettles
<1> QED
  BY <1>4, <1>5

(* Steps that change no list, and requests only of an owner without locks. *)
LEMMA QuietSteps ==
    ASSUME LockInv, SettledInv, NEW o \in Owners,
           \/ WaitGranted(o) \/ WaitAborted(o) \/ WaitAgain(o) \/ Kill(o)
           \/ StartMultiUnlock(o) \/ StartMultiLock(o) \/ MultiUnlockDone(o)
    PROVE  SettledInv'
<1>1. CASE WaitGranted(o) \/ WaitAborted(o) \/ WaitAgain(o) \/ Kill(o) \/ StartMultiUnlock(o)
  <2>1. lists' = lists /\ type' = type /\ req' = req
    BY <1>1 DEF WaitGranted, WaitAborted, WaitAgain, Kill, StartMultiUnlock, Advance, Fail
  <2> QED
    BY <2>1, QuietSettles
<1>2. CASE StartMultiLock(o)
  <2>1. lists' = lists /\ type' = type /\ phase[o] = "idle"
    BY <1>2 DEF StartMultiLock
  <2>2. PICK ds \in SUBSET {d \in Data : OwnerOf[d] = o} :
           \E rq : req' = [d \in Data |-> IF d \in ds THEN rq[d] ELSE req[d]]
    BY <1>2 DEF StartMultiLock
  <2>3. Taken(o) = {}
    BY <2>1 DEF Taken
  <2>4. \A d \in Data : Linked(d) => req'[d] = req[d]
    BY <2>2, <2>3, NothingTaken
  <2> QED
    BY <2>1, <2>4, QuietSettles
<1>3. CASE MultiUnlockDone(o)
  <2>1. /\ lists' = lists /\ type' = type /\ phase[o] = "unlocking" /\ pos[o] > Len(plan[o])
        /\ req' = [d \in Data |-> IF OwnerOf[d] = o THEN TL_UNLOCK ELSE req[d]]
    BY <1>3 DEF MultiUnlockDone
  <2>2. PlanOK(o)
    BY DEF LockInv, OwnerInv
  <2>3. Taken(o) = {}
    BY <2>1, <2>2 DEF Taken, PlanOK
  <2>4. \A d \in Data : Linked(d) => req'[d] = req[d]
    BY <2>1, <2>3, NothingTaken
  <2> QED
    BY <2>1, <2>4, QuietSettles
<1> QED
  BY <1>1, <1>2, <1>3

(* A write that steps back from the lock to wait for the readers.          *)
LEMMA SteppedBackSettles ==
    ASSUME NEW u, QInv(u), Settled(u), NEW x \in Data, x \in ToSet(u.write), ToSet(u.read) # {},
           u.type[x] # TL_WRITE_ONLY, req[x] = TL_WRITE_DELAYED
    PROVE  Settled(SteppedBack(u, x))
<1>1. LET b == SteppedBack(u, x) IN
      /\ Carries(u, b, {x}) /\ Requeues(u, b)
      /\ b.read = Only(u.read, Data \ {x}) /\ ToSet(b.read) = ToSet(u.read)
      /\ ToSet(b.read_wait) = ToSet(u.read_wait)
      /\ ToSet(b.write) = ToSet(u.write) \ {x}
      /\ ToSet(b.write_wait) = ToSet(u.write_wait) \cup {x}
      /\ b.type = u.type
  BY ToFrontOK
<1>2. PICK w : w = SteppedBack(u, x)
  OBVIOUS
<1>3. w.write = Only(u.write, Data \ {x}) /\ u.write \in Seq(Data) /\ IsInjective(u.write)
  BY <1>2, RemovedWrites DEF QInv, Views, Apart
<1>4. Serves(w)
  BY <1>1, <1>2 DEF Serves
<1>5. ASSUME NEW d \in ToSet(w.write), d = Head(u.write) PROVE d = Head(w.write)
  <2>1. u.write # <<>> /\ Head(u.write) \in Data \ {x}
    BY <1>1, <1>2, <1>3, <1>5, EmptyList
  <2> QED
    BY <1>3, <1>5, <2>1, HeadStays
<1>6. Upgraded(w)
  BY <1>1, <1>2, <1>5 DEF Settled, Upgraded
<1> QED
  BY <1>2, <1>4, <1>6 DEF Settled

(* An upgrade of a delayed insert, granted or made to wait.                *)
LEMMA UpgradeDelayedSettles ==
    ASSUME LockInv, SettledInv, NEW o \in Owners, phase[o] \in {"held", "rescheduled"},
           NEW x \in Data, \E n \in 1 .. Len(plan[o]) : plan[o][n] = x,
           type[x] # TL_UNLOCK, req[x] = TL_WRITE_DELAYED,
           UpgradeDelayed(o, x), req' = req
    PROVE  SettledInv'
<1>1. /\ LockOf[x] \in Locks /\ QInv(View(LockOf[x]))
      /\ ~cond[x] => x \in ToSet(lists[LockOf[x]].write)
      /\ cond[x] => x \in ToSet(lists[LockOf[x]].write_wait)
  BY DelayedFacts
<1>2. PICK v : v = View(LockOf[x])
  OBVIOUS
<1>3. PICK u : u = Retyped(v, x, UpgradeTo)
  OBVIOUS
<1>4. PICK w : w = SteppedBack(u, x)
  OBVIOUS
<1>5. /\ QInv(v) /\ Settled(v) /\ v.cond = cond /\ v.type = type
      /\ v.write = lists[LockOf[x]].write /\ v.write_wait = lists[LockOf[x]].write_wait
      /\ v.read \in Seq(Data) /\ v.write \in Seq(Data)
  BY <1>1, <1>2, ViewOf DEF SettledInv, QInv, Views
<1>6. x \in ToSet(v.write) \cup ToSet(v.write_wait) /\ UpgradeTo \in WriteTypes
      /\ UpgradeTo # TL_WRITE_ONLY
  BY <1>1, <1>5, TypeFacts, ThrLockAssumption DEF TL_WRITE_LOW_PRIORITY, TL_WRITE, TL_WRITE_ONLY
<1>7. LET a == Retyped(v, x, UpgradeTo) IN
      /\ Carries(v, a, {x}) /\ Requeues(v, a)
      /\ a.read = v.read /\ a.read_wait = v.read_wait
      /\ a.write = v.write /\ a.write_wait = v.write_wait
      /\ a.type[x] = UpgradeTo /\ a.cond = v.cond /\ a.signalled = v.signalled
      /\ \A d \in Data \ {x} : a.type[d] = v.type[d]
  BY <1>5, <1>6, RetypeOK
<1>8. LET a == Retyped(v, x, UpgradeTo)
          b == SteppedBack(a, x) IN
      /\ Carries(v, a, {x}) /\ InTurn(v, a) /\ a.type[x] = UpgradeTo /\ a.cond = v.cond /\ QInv(a)
      /\ a.read = v.read /\ a.write = v.write /\ Act(a) = Act(v) /\ Que(a) = Que(v)
      /\ \A d \in Data \ {x} : a.type[d] = v.type[d]
      /\ x \in ToSet(v.write) =>
            /\ Carries(v, b, {x}) /\ Requeues(v, b) /\ InTurn(v, b) /\ QInv(b)
            /\ b.type = a.type /\ x \in Que(b) /\ x \notin Que(v)
  BY <1>5, <1>6, DelayedEdits
<1>9. Edits(x, u) /\ (~cond[x] => Edits(x, w)) /\ QInv(u)
  BY <1>1, <1>2, <1>3, <1>4, <1>5, <1>8 DEF Edits
<1>10. /\ u.read = v.read /\ u.read_wait = v.read_wait
       /\ u.write = v.write /\ u.write_wait = v.write_wait
       /\ u.type[x] = UpgradeTo /\ \A d \in Data \ {x} : u.type[d] = v.type[d]
  BY <1>3, <1>7
<1>11. \/ ~cond[x] /\ v.read = <<>> /\ Install(LockOf[x], u, {})
       \/ ~cond[x] /\ v.read # <<>> /\ Install(LockOf[x], w, {})
       \/ cond[x] /\ Install(LockOf[x], u, {})
  BY <1>2, <1>3, <1>4, <1>10 DEF UpgradeDelayed, Retyped, SteppedBack
<1>12. Settled(u)
  <2>1. On(v) \subseteq Data
    BY <1>5, EmptyList DEF QInv, Views, On, Act, Que
  <2> QED
    BY <1>5, <1>6, <1>10, <2>1, SameSettles
<1>13. CASE Install(LockOf[x], u, {})
  BY <1>9, <1>12, <1>13, EditSettles
<1>14. CASE ~cond[x] /\ v.read # <<>> /\ Install(LockOf[x], w, {})
  <2>1. x \in ToSet(u.write) /\ ToSet(u.read) # {}
    BY <1>1, <1>5, <1>10, <1>14, EmptyList
  <2>2. Settled(w)
    BY <1>4, <1>6, <1>9, <1>10, <1>12, <2>1, SteppedBackSettles
  <2> QED
    BY <1>9, <1>14, <2>2, EditSettles
<1> QED
  BY <1>11, <1>13, <1>14

(* thr_upgrade_write_delay_lock.                                           *)
LEMMA UpgradeSettles ==
    ASSUME LockInv, SettledInv, NEW o \in Owners, thr_upgrade_write_delay_lock(o)
    PROVE  SettledInv'
<1>1. PICK x \in DelayedData(o) : type[x] # TL_UNLOCK /\ UpgradeDelayed(o, x)
  BY DEF thr_upgrade_write_delay_lock
<1>2. PICK n : n = CHOOSE i \in 1 .. Len(plan[o]) : plan[o][i] = x
  OBVIOUS
<1>3. n \in 1 .. Len(plan[o]) /\ plan[o][n] = x /\ req[x] = TL_WRITE_DELAYED
  BY <1>2, DelayedPosition
<1>4. phase[o] = "held" /\ req' = req
  BY DEF thr_upgrade_write_delay_lock
<1>5. x \in Data
  BY <1>1, <1>3, <1>4, DelayedFacts
<1> QED
  BY <1>1, <1>3, <1>4, <1>5, UpgradeDelayedSettles

(* The upgrade that ends a reschedule.                                     *)
LEMMA RescheduleUpgradeSettles ==
    ASSUME LockInv, SettledInv, NEW o \in Owners, RescheduleUpgrade(o)
    PROVE  SettledInv'
<1>1. phase[o] = "rescheduled" /\ req' = req
  BY DEF RescheduleUpgrade
<1>2. PICK x : x = Cur(o)
  OBVIOUS
<1>3. /\ x \in Data /\ pos[o] \in 1 .. Len(plan[o]) /\ plan[o][pos[o]] = x
      /\ req[x] = TL_WRITE_DELAYED
  BY <1>1, <1>2, CurFacts DEF LockInv, OwnerInv, PlanOK, Cur
<1>4. CASE type[x] # TL_UNLOCK
  <2>1. UpgradeDelayed(o, x)
    BY <1>2, <1>4 DEF RescheduleUpgrade
  <2> QED
    BY <1>1, <1>3, <1>4, <2>1, UpgradeDelayedSettles
<1>5. CASE type[x] = TL_UNLOCK
  <2>1. lists' = lists /\ type' = type
    BY <1>2, <1>5 DEF RescheduleUpgrade
  <2> QED
    BY <1>1, <2>1, QuietSettles
<1> QED
  BY <1>4, <1>5

(* thr_reschedule_write_lock leaves the lock to the readers that waited.   *)
LEMMA RescheduleSettles ==
    ASSUME LockInv, SettledInv, NEW o \in Owners, thr_reschedule_write_lock(o)
    PROVE  SettledInv'
<1>1. phase[o] = "held" /\ req' = req
  BY DEF thr_reschedule_write_lock
<1>2. PICK x \in DelayedData(o) :
         LET u == [View(LockOf[x]) EXCEPT !.type[x] = TL_WRITE_DELAYED] IN
         /\ type[x] = UpgradeTo /\ ~cond[x]
         /\ u.read_wait # <<>>
         /\ Install(LockOf[x],
                free_all_read_locks([ToFront(u, x) EXCEPT !.cond[x] = TRUE], FALSE), {})
  BY DEF thr_reschedule_write_lock
<1>3. PICK n : n = CHOOSE i \in 1 .. Len(plan[o]) : plan[o][i] = x
  OBVIOUS
<1>4. n \in 1 .. Len(plan[o]) /\ plan[o][n] = x /\ req[x] = TL_WRITE_DELAYED
  BY <1>3, DelayedPosition
<1>5. type[x] # TL_UNLOCK /\ TL_WRITE_DELAYED \in WriteTypes
  BY <1>2, TypeFacts
<1>6. x \in Data /\ LockOf[x] \in Locks /\ x \in ToSet(lists[LockOf[x]].write)
  BY <1>1, <1>2, <1>4, <1>5, DelayedFacts
<1>7. PICK v : v = View(LockOf[x])
  OBVIOUS
<1>8. PICK u : u = Retyped(v, x, TL_WRITE_DELAYED)
  OBVIOUS
<1>9. PICK b : b = SteppedBack(u, x)
  OBVIOUS
<1>10. PICK w : w = free_all_read_locks(b, FALSE)
  OBVIOUS
<1>11. Install(LockOf[x], w, {}) /\ u.read_wait # <<>>
  BY <1>2, <1>7, <1>8, <1>9, <1>10 DEF Retyped, SteppedBack
<1>12. QInv(v) /\ x \in ToSet(v.write) /\ x \in ToSet(v.write) \cup ToSet(v.write_wait) /\ Settled(v)
  BY <1>6, <1>7, ViewOf DEF LockInv, SettledInv
<1>13. LET a == Retyped(v, x, TL_WRITE_DELAYED) IN
       /\ Carries(v, a, {x}) /\ Requeues(v, a)
       /\ a.read = v.read /\ a.read_wait = v.read_wait
       /\ a.write = v.write /\ a.write_wait = v.write_wait
       /\ a.type[x] = TL_WRITE_DELAYED /\ a.cond = v.cond /\ a.signalled = v.signalled
       /\ \A d \in Data \ {x} : a.type[d] = v.type[d]
  BY <1>5, <1>6, <1>12, RetypeOK
<1>14. /\ QInv(u) /\ x \in ToSet(u.write) /\ u.read_wait \in Seq(Data)
       /\ u.read = v.read /\ u.read_wait = v.read_wait /\ u.write_wait = v.write_wait
       /\ u.write = v.write /\ \A d \in Data \ {x} : u.type[d] = v.type[d] /\ u.cond[d] = v.cond[d]
  BY <1>8, <1>12, <1>13 DEF Carries, QInv, Views
<1>15. LET c == SteppedBack(u, x) IN
        /\ Carries(u, c, {x}) /\ Requeues(u, c)
        /\ c.read = Only(u.read, Data \ {x}) /\ ToSet(c.read) = ToSet(u.read)
        /\ ToSet(c.read_wait) = ToSet(u.read_wait)
        /\ ToSet(c.write) = ToSet(u.write) \ {x}
        /\ ToSet(c.write_wait) = ToSet(u.write_wait) \cup {x}
        /\ c.type = u.type
  BY <1>14, ToFrontOK
<1>16. /\ Carries(u, b, {x}) /\ Requeues(u, b) /\ QInv(b) /\ b.type = u.type
       /\ ToSet(b.read_wait) # {} /\ b.read_wait # <<>> /\ ToSet(b.write_wait) # {}
  <2>1. ToSet(u.read_wait) # {}
    BY <1>11, <1>14, EmptyList
  <2>2. ToSet(b.read_wait) # {}
    BY <1>9, <1>15, <2>1
  <2>3. b.read_wait # <<>>
    BY <2>2, EmptyList
  <2> QED
    BY <1>9, <1>14, <1>15, <2>2, <2>3 DEF Carries
<1>17. Carries(v, b, {x}) /\ Requeues(v, b)
  BY <1>6, <1>12, <1>14, <1>16, SameThen
<1>18. Wakes(b, w)
  BY <1>10, <1>16, FreeWakes
<1>19. Carries(v, w, {x})
  BY <1>12, <1>16, <1>17, <1>18, EditThenWake
<1>20. LET f == FreeReaders(b, FALSE) IN
       /\ ToSet(f.read) = ToSet(b.read) \cup (ToSet(b.read_wait) \ Stays(b, FALSE))
       /\ ToSet(f.read_wait) = ToSet(b.read_wait) \cap Stays(b, FALSE)
       /\ f.write = b.write /\ f.write_wait = b.write_wait /\ f.type = b.type
  BY <1>16, FreedSets
<1>21. w = FreeReaders(b, FALSE) /\ Stays(b, FALSE) = {}
  BY <1>10, <1>16 DEF FreeReaders, Stays
<1>22. /\ ToSet(w.read) # {} /\ ToSet(w.write) \subseteq ToSet(v.write) \ {x} /\ w.type = u.type
       /\ ToSet(w.write_wait) = ToSet(v.write_wait) \cup {x}
  BY <1>9, <1>14, <1>15, <1>16, <1>20, <1>21
<1>23. Settled(w)
  <2>1. Serves(w)
    BY <1>22 DEF Serves
  <2>2. ToSet(v.write) \subseteq Data /\ ToSet(v.write_wait) \subseteq Data /\ ToSet(v.read_wait) # {}
    BY <1>11, <1>12, <1>14, EmptyList DEF QInv, Views
  <2>3. \A d \in ToSet(v.write) : v.type[d] = TL_WRITE_ONLY => req[d] = TL_WRITE_ONLY
    BY <1>12, <2>2 DEF Settled, Upgraded
  <2>4. w.type[x] # TL_WRITE_ONLY
    BY <1>8, <1>13, <1>22 DEF TL_WRITE_DELAYED, TL_WRITE_ONLY
  <2>5. \A d \in ToSet(v.write) \cup ToSet(v.write_wait) : d # x => w.type[d] = v.type[d]
    BY <1>14, <1>22, <2>2
  <2>6. Upgraded(w)
    BY <1>12, <1>22, <2>3, <2>4, <2>5 DEF Settled, Upgraded
  <2> QED
    BY <2>1, <2>6 DEF Settled
<1>24. {x} \in SUBSET Data /\ \A d \in {x} : LockOf[d] = LockOf[x]
  BY <1>6
<1> QED
  BY <1>1, <1>6, <1>7, <1>11, <1>19, <1>23, <1>24, InstallSettles

(* What aborting waiters leaves of the active locks.                       *)
LEMMA DroppedShrinks ==
    ASSUME NEW v, QInv(v), NEW ds, ds \subseteq Que(v)
    PROVE  LET c == Dropped(v, ds) IN QInv(c) /\ Shrinks(v, c) /\ Carries(v, c, {})
<1>1. LET c == Dropped(v, ds) IN
      /\ Carries(v, c, {}) /\ Requeues(v, c) /\ c.write = v.write /\ c.read = v.read
      /\ ToSet(c.read_wait) = ToSet(v.read_wait) \ ds
      /\ ToSet(c.write_wait) = ToSet(v.write_wait) \ ds
      /\ On(c) = On(v) \ ds
      /\ \A d \in Data : d \notin ds => c.type[d] = v.type[d]
  BY DroppedOK
<1>2. PICK c : c = Dropped(v, ds)
  OBVIOUS
<1>3. /\ Carries(v, c, {}) /\ QInv(c) /\ c.write = v.write
      /\ ToSet(c.read_wait) = ToSet(v.read_wait) \ ds
      /\ ToSet(c.write_wait) = ToSet(v.write_wait) \ ds
      /\ On(c) = On(v) \ ds /\ \A d \in Data : d \notin ds => c.type[d] = v.type[d]
  BY <1>1, <1>2 DEF Carries
<1>4. On(v) \subseteq Data
  BY EmptyList DEF QInv, Views, On, Act, Que
<1>6. \A d \in On(c) : c.type[d] = v.type[d]
  BY <1>3, <1>4
<1> QED
  BY <1>2, <1>3, <1>6 DEF Shrinks

(* thr_abort_locks of a lock leaves it settled: nobody waits, and the      *)
(* write that it upgrades is the first.                                    *)
LEMMA AbortSettles ==
    ASSUME LockInv, SettledInv, NEW l \in Locks, NEW upgrade \in BOOLEAN, thr_abort_locks(l, upgrade)
    PROVE  SettledInv'
<1>1. PICK v : v = View(l)
  OBVIOUS
<1>2. PICK w : w = Aborted(v, upgrade)
  OBVIOUS
<1>3. Install(l, w, {}) /\ req' = req
  BY <1>1, <1>2 DEF thr_abort_locks, Aborted, Retyped
<1>4. QInv(v) /\ Settled(v)
  BY <1>1 DEF LockInv, SettledInv
<1>5. /\ Carries(v, w, {}) /\ Que(w) = {} /\ w.write = v.write
      /\ \A d \in ToSet(v.write) : w.type[d] = TL_WRITE_ONLY =>
            v.type[d] = TL_WRITE_ONLY \/ d = Head(v.write)
  BY <1>2, <1>4, AbortedOK
<1>6. Serves(w)
  BY <1>5 DEF Serves, Que
<1>7. Upgraded(w)
  BY <1>4, <1>5 DEF Settled, Upgraded, Que
<1>8. {} \in SUBSET Data /\ \A d \in {} : LockOf[d] = l
  OBVIOUS
<1> QED
  BY <1>1, <1>3, <1>5, <1>6, <1>7, <1>8, InstallSettles DEF Settled

(* thr_abort_locks_for_thread wakes those who waited behind the aborted.   *)
LEMMA AbortThreadSettles ==
    ASSUME LockInv, SettledInv, NEW l \in Locks, NEW t, thr_abort_locks_for_thread(l, t)
    PROVE  SettledInv'
<1>1. PICK v : v = View(l)
  OBVIOUS
<1>2. PICK ds : ds = {d \in Que(v) : ThreadOf[OwnerOf[d]] = t}
  OBVIOUS
<1>3. PICK u : u = Dropped(v, ds)
  OBVIOUS
<1>4. /\ \E cs \in BOOLEAN : Install(l, wake_up_waiters(u, cs), {})
      /\ req' = req
  BY <1>1, <1>2, <1>3 DEF thr_abort_locks_for_thread, Dropped, Que
<1>5. PICK cs \in BOOLEAN : Install(l, wake_up_waiters(u, cs), {})
  BY <1>4
<1>6. PICK w : w = wake_up_waiters(u, cs)
  OBVIOUS
<1>7. QInv(v) /\ Settled(v) /\ ds \subseteq Que(v)
  BY <1>1, <1>2 DEF LockInv, SettledInv
<1>8. QInv(u) /\ Shrinks(v, u) /\ Carries(v, u, {})
  BY <1>3, <1>7, DroppedShrinks
<1>9. Wakes(u, w) /\ Settled(w)
  BY <1>6, <1>7, <1>8, WakeUp, ShrinkWakeSettles
<1>10. Carries(v, w, {})
  BY <1>7, <1>8, <1>9, EditThenWake
<1>11. {} \in SUBSET Data /\ \A d \in {} : LockOf[d] = l
  OBVIOUS
<1> QED
  BY <1>1, <1>4, <1>5, <1>6, <1>9, <1>10, <1>11, InstallSettles

(* thr_downgrade_write_lock only takes TL_WRITE_ONLY away.                 *)
LEMMA DowngradeSettles ==
    ASSUME LockInv, SettledInv, NEW o \in Owners, thr_downgrade_write_lock(o)
    PROVE  SettledInv'
<1>1. lists' = lists /\ req' = req
  BY DEF thr_downgrade_write_lock
<1>2. PICK x \in ToSet(plan[o]), new \in WriteTypes \ {TL_WRITE_ONLY} : type' = [type EXCEPT ![x] = new]
  BY DEF thr_downgrade_write_lock
<1>3. ASSUME NEW m \in Locks PROVE Settled(View(m))'
  <2>1. PICK y : y = View(m)'
    OBVIOUS
  <2>2. PICK v : v = View(m)
    OBVIOUS
  <2>3. /\ y.read = v.read /\ y.read_wait = v.read_wait
        /\ y.write = v.write /\ y.write_wait = v.write_wait /\ y.type = type' /\ v.type = type
    BY <1>1, <2>1, <2>2 DEF View
  <2>4. Settled(v) /\ On(v) \subseteq Data
    BY <2>2, EmptyList DEF SettledInv, LockInv, QInv, Views, On, Act, Que
  <2>5. type \in [Data -> Types]
    BY DEF LockInv, StateOK
  <2>6. \A d \in On(v) : y.type[d] = v.type[d] \/ y.type[d] # TL_WRITE_ONLY
    BY <1>2, <2>3, <2>4, <2>5
  <2>7. Settled(y)
    BY <2>3, <2>4, <2>6, SameSettles
  <2> QED
    BY <1>1, <2>1, <2>7, NextSettles
<1> QED
  BY <1>3 DEF SettledInv

(* Free locks are settled.                                                 *)
LEMMA InitSettles ==
    ASSUME Init
    PROVE  SettledInv
<1>1. ASSUME NEW l \in Locks PROVE Settled(View(l))
  <2>1. /\ View(l).read = <<>> /\ View(l).read_wait = <<>> /\ View(l).write = <<>>
        /\ View(l).write_wait = <<>>
    BY DEF View, NoLists, Init
  <2>2. ToSet(<<>>) = {}
    BY EmptyList
  <2>3. PICK v : v = View(l)
    OBVIOUS
  <2>4. ToSet(v.write) = {} /\ Que(v) = {} /\ ToSet(v.read_wait) = {} /\ ToSet(v.write_wait) = {}
    BY <2>1, <2>2, <2>3 DEF Que
  <2>5. Serves(v) /\ Upgraded(v)
    BY <2>4 DEF Serves, Upgraded
  <2> QED
    BY <2>3, <2>5 DEF Settled
<1> QED
  BY <1>1 DEF SettledInv

(* Every step leaves the locks settled.                                    *)
LEMMA NextSettled ==
    ASSUME LockInv, SettledInv, Next
    PROVE  SettledInv'
<1>1. ASSUME NEW o \in Owners, OwnerStep(o) PROVE SettledInv'
  BY <1>1, CallSettles, QuietSteps, GivenUpSettles, UnlockSettles, UpgradeEndsSettles, RescheduleUpgradeSettles
     DEF OwnerStep
<1>2. ASSUME NEW o \in Owners,
             \/ StartMultiLock(o) \/ OwnerStep(o) \/ StartMultiUnlock(o)
             \/ thr_upgrade_write_delay_lock(o) \/ thr_reschedule_write_lock(o)
             \/ thr_downgrade_write_lock(o) \/ Kill(o)
      PROVE  SettledInv'
  BY <1>1, <1>2, QuietSteps, UpgradeSettles, RescheduleSettles, DowngradeSettles
<1>3. ASSUME NEW l \in Abortable,
             \/ \E upgrade_lock \in BOOLEAN : thr_abort_locks(l, upgrade_lock)
             \/ \E t \in Range(ThreadOf) : thr_abort_locks_for_thread(l, t)
      PROVE  SettledInv'
  <2>1. l \in Locks
    BY ThrLockAssumption
  <2> QED
    BY <1>3, <2>1, AbortSettles, AbortThreadSettles
<1> QED
  BY <1>2, <1>3 DEF Next

(* Every lock is settled, in every state: the inductive invariant of the   *)
(* two theorems that follow.                                               *)
LEMMA LocksAreSettled == Spec => []SettledInv
<1>1. Init => SettledInv
  BY InitSettles
<1>2. LockInv /\ SettledInv /\ [Next]_vars => SettledInv'
  <2>1. ASSUME LockInv, SettledInv, UNCHANGED vars PROVE SettledInv'
    BY <2>1, QuietSettles DEF vars
  <2> QED
    BY <2>1, NextSettled
<1> QED
  BY <1>1, <1>2, TableLocks, PTL DEF Spec

(* Nobody waits for a lock that is free, and no reader for one that no     *)
(* writer has or waits for: every path of thr_lock.c that can empty the    *)
(* active lists ends in wake_up_waiters() or free_all_read_locks(), which  *)
(* start somebody.  For any number of owners, instances and requests.      *)
THEOREM FreeLocksServe == Spec => []FreeLockServes
<1>1. ASSUME LockInv, SettledInv PROVE FreeLockServes
  <2> SUFFICES ASSUME NEW l \in Locks
               PROVE  LET q == lists[l] IN
                      /\ q.write = <<>> /\ q.read = <<>> => Queued(l) = {}
                      /\ q.write = <<>> /\ q.write_wait = <<>> => q.read_wait = <<>>
    BY DEF FreeLockServes
  <2>1. PICK v : v = View(l)
    OBVIOUS
  <2>2. PICK q : q = lists[l]
    OBVIOUS
  <2>3. /\ Serves(v) /\ QInv(v) /\ v.read = q.read /\ v.write = q.write
        /\ v.read_wait = q.read_wait /\ v.write_wait = q.write_wait /\ Que(v) = Queued(l)
    BY <1>1, <2>1, <2>2, ViewOf DEF SettledInv, Settled, LockInv
  <2>4. (ToSet(q.read_wait) = {} => q.read_wait = <<>>) /\ ToSet(<<>>) = {}
    BY <2>3, EmptyList DEF QInv, Views
  <2> QED
    BY <2>2, <2>3, <2>4 DEF Serves
<1> QED
  BY <1>1, TableLocks, LocksAreSettled, PTL

(* A lock that thr_abort_locks() made TL_WRITE_ONLY has no waiters but     *)
(* delayed inserts that stepped back, so thr_downgrade_write_lock(), which *)
(* wakes nobody, need not wake anybody else.                               *)
THEOREM DowngradeNeedNotWake == Spec => []UpgradedHasNoWaiters
<1>1. ASSUME LockInv, SettledInv PROVE UpgradedHasNoWaiters
  <2> SUFFICES ASSUME NEW l \in Locks, NEW d \in ToSet(lists[l].write),
                      type[d] = TL_WRITE_ONLY, req[d] # TL_WRITE_ONLY, NEW q \in Queued(l)
               PROVE  req[q] = TL_WRITE_DELAYED
    BY DEF UpgradedHasNoWaiters
  <2>1. PICK v : v = View(l)
    OBVIOUS
  <2>2. Upgraded(v) /\ v.write = lists[l].write /\ v.type = type /\ Que(v) = Queued(l)
    BY <1>1, <2>1, ViewOf DEF SettledInv, Settled
  <2> QED
    BY <2>2 DEF Upgraded, Que
<1> QED
  BY <1>1, TableLocks, LocksAreSettled, PTL
=============================================================================
