------------------------------- MODULE LfHash -------------------------------
(***************************************************************************)
(* The lock-free hash of mysys/lf_hash.c: one list ordered by the reversed *)
(* hash number, a slot per bucket that points at the bucket's dummy node   *)
(* in it, and three pins per thread that keep the nodes a thread looks at  *)
(* from being given to somebody else.                                      *)
(*                                                                         *)
(* A step is one access to a word other threads write: a link, a slot, a   *)
(* pin, the size or the count.  The allocator under the hash is the object *)
(* pool that LfAlloc implements: a node freed goes to the thread's         *)
(* purgatory and the pins of all threads are then read one by one, each    *)
(* thread's upwards; what was not seen pinned can be handed out again.     *)
(* The word that links a purgatory is the node's key (free_ptr_offset), so *)
(* a freed node has no readable key.                                       *)
(*                                                                         *)
(* Only hashes with LF_HASH_UNIQUE are modelled, as wt_init makes the one  *)
(* of this source: without it linsert puts a node before one with its key. *)
(***************************************************************************)
EXTENDS Integers, FiniteSets, FiniteSetsExt, Sequences

CONSTANTS
    Threads, Nodes, Null,
    Keys,           \* a set of numbers, in the order of my_strnncoll
    Hash,           \* Hash[k]: calc_hash of key k
    HashBits,       \* 31 in the code
    MaxSize,        \* bound on hash->size; the code doubles it without end
    Calls           \* the calls made, pairs of "insert", "delete" or "search" and a key

ASSUME KeysAssumption ==
    /\ Keys \subseteq Nat \ {0}
    /\ Hash \in [Keys -> 0 .. 2 ^ HashBits - 1]
    /\ MaxSize \in Nat \ {0}
    /\ Calls \subseteq {"insert", "delete", "search"} \X Keys

VARIABLES
    word,       \* word[c]: the pointer and the DELETED flag in a slot or a link
    key,        \* key[n]: the key stored in node n, 0 when it is overwritten
    pin,        \* pin[t][i], i in 0 .. 2
    size, count,\* hash->size, hash->count
    available,  \* the free nodes of the allocator
    purgatory,  \* purgatory[t]: nodes t freed that wait for a scan
    pc, local,  \* control and local variables of each thread
    seen        \* history: whether the key of t's call was in the hash
                \* (TRUE) or not (FALSE) at some moment of the call

vars == <<word, key, pin, size, count, available, purgatory, pc, local, seen>>

(* The dummy nodes threads allocate for one bucket differ only in which of *)
(* them gets into the list; until then nobody else sees them.              *)
Slot(b)  == <<"slot", b>>
Dummy(b) == <<"dummy", b>>

Buckets == 0 .. MaxSize - 1
Slots   == {Slot(b) : b \in Buckets}
Dummies == {Dummy(b) : b \in Buckets}
Cells   == Slots \cup Dummies \cup Nodes
Targets == Dummies \cup Nodes \cup {Null}

Live(p) == <<p, FALSE>>     \* a link to p
Dead(p) == <<p, TRUE>>      \* the same with the DELETED flag

(* my_reverse_bits, of HashBits bits *)
Reversed(h) ==
    SumSet({2 ^ (HashBits - 1 - i) : i \in {j \in 0 .. HashBits - 1 : (h \div 2 ^ j) % 2 = 1}})

(* my_clear_highest_bit *)
Parent(b) == IF b = 0 THEN 0
             ELSE b - Max({2 ^ i : i \in {j \in 0 .. HashBits : 2 ^ j <= b}})

(* The order of the list, by hash number and then by key.  The lowest bit  *)
(* of the hash number tells normal nodes from dummy nodes.                 *)
Order(h, normal, k) == (2 * Reversed(h) + normal) * (Max(Keys) + 1) + k

KeyOrder    == [k \in Keys |-> Order(Hash[k], 1, k)]
BucketOrder == [b \in Buckets |-> Order(b, 0, 0)]

(* What lfind compares of node n *)
NodeOrder(n) ==
    CASE n \in Dummies -> BucketOrder[n[2]]
      [] n \in Nodes /\ key[n] # 0 -> KeyOrder[key[n]]
      [] OTHER -> 0

-----------------------------------------------------------------------------
NoLocals == [op |-> "none", key |-> 0, node |-> Null, todo |-> <<>>,
             head |-> Slot(0), prev |-> Slot(0), curr |-> Null, next |-> Null, dead |-> FALSE,
             cmp |-> 0, found |-> FALSE, csize |-> 0,
             scan |-> {}, granary |-> {}, then |-> "idle"]

PC == {"idle", "bucket", "slot", "init", "init_cas",
       "head", "pin1", "check", "link", "pin0", "relink", "compare", "reread",
       "pin2", "advance", "help",
       "ins_cas", "mark", "unlink", "keep", "unpin",
       "size", "count", "grow", "uncount", "scan", "using"}

(* Pointers point at nodes, and the counters stay within what the nodes    *)
(* and threads allow.                                                      *)
TypeOK ==
    /\ word \in [Cells -> Targets \X BOOLEAN]
    /\ key \in [Nodes -> Keys \cup {0}]
    /\ pin \in [Threads -> [0 .. 2 -> Targets]]
    /\ size \in {2 ^ i : i \in 0 .. HashBits} /\ size <= MaxSize
    /\ count \in -Cardinality(Threads) .. Cardinality(Nodes)
    /\ available \subseteq Nodes
    /\ purgatory \in [Threads -> SUBSET Nodes]
    /\ pc \in [Threads -> PC]
    /\ seen \in [Threads -> SUBSET BOOLEAN]

(* lf_hash_init *)
Init ==
    /\ word = [c \in Cells |-> Live(Null)]
    /\ key = [n \in Nodes |-> 0]
    /\ pin = [t \in Threads |-> [i \in 0 .. 2 |-> Null]]
    /\ size = 1 /\ count = 0
    /\ available = Nodes
    /\ purgatory = [t \in Threads |-> {}]
    /\ pc = [t \in Threads |-> "idle"]
    /\ local = [t \in Threads |-> NoLocals]
    /\ seen = [t \in Threads |-> {}]

memory   == <<word, key, available, purgatory>>
counters == <<size, count>>

Goto(t, label)  == pc' = [pc EXCEPT ![t] = label]
Set(t, values)  == local' = [local EXCEPT ![t] = values]
Pin(t, i, p)    == pin' = [pin EXCEPT ![t][i] = p]

(* Is the thread inserting a dummy node, or the node of its own call? *)
Initializing(l) == l.todo # <<>>

(* The position lfind is called with *)
Wanted(l) == IF Initializing(l) THEN BucketOrder[Head(l.todo)] ELSE KeyOrder[l.key]

(* The node linsert puts in the list *)
Inserted(t) ==
    IF Initializing(local[t]) THEN Dummy(Head(local[t].todo)) ELSE local[t].node

Done(t) == Goto(t, "idle") /\ Set(t, NoLocals)

-----------------------------------------------------------------------------
(* lf_hash_insert, lf_hash_delete and lf_hash_search up to the bucket.     *)
(* An insert starts with a node of the allocator that gets the key.        *)
Call(t) ==
    /\ pc[t] = "idle"
    /\ \E call \in Calls : LET op == call[1]  k == call[2] IN
         \/ /\ op = "insert"
            /\ \E n \in available :
                 /\ available' = available \ {n}
                 /\ key' = [key EXCEPT ![n] = k]
                 /\ Set(t, [NoLocals EXCEPT !.op = op, !.key = k, !.node = n])
         \/ /\ op # "insert"
            /\ Set(t, [NoLocals EXCEPT !.op = op, !.key = k])
            /\ UNCHANGED <<available, key>>
    /\ Goto(t, "bucket")
    /\ UNCHANGED <<word, purgatory, pin, counters>>

Bucket(t) ==
    /\ pc[t] = "bucket"
    /\ Set(t, [local[t] EXCEPT !.head = Slot(Hash[local[t].key] % size)])
    /\ Goto(t, "slot")
    /\ UNCHANGED <<memory, pin, counters>>

SlotTest(t) ==
    /\ pc[t] = "slot"
    /\ \/ /\ word[local[t].head] = Live(Null)
          /\ Set(t, [local[t] EXCEPT !.todo = <<local[t].head[2]>>])
          /\ Goto(t, "init")
       \/ /\ word[local[t].head] # Live(Null)
          /\ Goto(t, "head")
          /\ UNCHANGED local
    /\ UNCHANGED <<memory, pin, counters>>

(* initialize_bucket, for the bucket at the head of todo: its parent       *)
(* first, when that has no dummy node either.                              *)
InitBucket(t) ==
    LET l == local[t]  parent == Parent(Head(l.todo)) IN
    /\ pc[t] = "init"
    /\ IF word[Slot(parent)] = Live(Null) /\ Head(l.todo) # 0
       THEN Set(t, [l EXCEPT !.todo = <<parent>> \o @]) /\ UNCHANGED pc
       ELSE Set(t, [l EXCEPT !.head = Slot(parent)]) /\ Goto(t, "head")
    /\ UNCHANGED <<memory, pin, counters>>

(* linsert has returned: the slot gets the dummy node in the list, unless  *)
(* another thread has filled it.                                           *)
InitCas(t) ==
    LET l == local[t]
        slot == Slot(Head(l.todo))
        dummy == IF l.found THEN l.curr ELSE Inserted(t)
    IN
    /\ pc[t] = "init_cas"
    /\ word' = IF word[slot] = Live(Null) THEN [word EXCEPT ![slot] = Live(dummy)] ELSE word
    /\ Set(t, [NoLocals EXCEPT !.op = l.op, !.key = l.key, !.node = l.node,
                               !.todo = Tail(l.todo), !.head = slot])
    /\ Goto(t, IF Tail(l.todo) = <<>> THEN "head" ELSE "init")
    /\ UNCHANGED <<key, available, purgatory, pin, counters>>

-----------------------------------------------------------------------------
(* _lf_alloc_free: the node goes to the purgatory and the pins are read;   *)
(* the thread's own do not change meanwhile.  Then the call goes on.       *)
Free(t, n, l, then) ==
    /\ purgatory' = [purgatory EXCEPT ![t] = @ \cup {n}]
    /\ key' = [key EXCEPT ![n] = 0]
    /\ Set(t, [l EXCEPT !.scan = (Threads \ {t}) \X (0 .. 2), !.then = then,
                        !.granary = {pin'[t][i] : i \in 0 .. 2} \cap Nodes])
    /\ Goto(t, "scan")

(* Variant: downwards, against the direction in which pins are copied. *)
ScanPinDownwards(t) ==
    LET l == local[t] IN
    /\ pc[t] = "scan"
    /\ \E u \in {x[1] : x \in l.scan} :
         LET i == Max({x[2] : x \in {y \in l.scan : y[1] = u}})
         IN  Set(t, [l EXCEPT !.scan = @ \ {<<u, i>>},
                              !.granary = @ \cup ({pin[u][i]} \cap purgatory[t])])
    /\ UNCHANGED <<memory, pin, counters, pc>>

(* harvest_pins: the next pin, upwards, of some other thread *)
ScanPin(t) ==
    LET l == local[t] IN
    /\ pc[t] = "scan"
    /\ \E u \in {x[1] : x \in l.scan} :
         LET i == Min({x[2] : x \in {y \in l.scan : y[1] = u}})
         IN  Set(t, [l EXCEPT !.scan = @ \ {<<u, i>>},
                              !.granary = @ \cup ({pin[u][i]} \cap purgatory[t])])
    /\ UNCHANGED <<memory, pin, counters, pc>>

(* _lf_pinbox_real_free frees what nobody was seen to pin. *)
Reclaim(t) ==
    LET l == local[t] IN
    /\ pc[t] = "scan" /\ l.scan = {}
    /\ available' = available \cup (purgatory[t] \ l.granary)
    /\ purgatory' = [purgatory EXCEPT ![t] = @ \cap l.granary]
    /\ IF l.then = "idle" THEN Done(t)
       ELSE Set(t, [l EXCEPT !.granary = {}, !.then = "idle"]) /\ Goto(t, l.then)
    /\ UNCHANGED <<word, key, pin, counters>>

-----------------------------------------------------------------------------
(* lfind has ended with the cursor in l.  A key that is found ends the     *)
(* insertion: LF_HASH_UNIQUE is set.                                       *)
FindReturn(t, l, found) ==
    /\ Set(t, [l EXCEPT !.found = found, !.cmp = 0])
    /\ Goto(t, IF Initializing(l) THEN IF found THEN "unpin" ELSE "ins_cas"
               ELSE CASE l.op = "insert"  -> IF found THEN "unpin" ELSE "ins_cas"
                      [] l.op = "delete"  -> IF found THEN "mark" ELSE "unpin"
                      [] l.op = "deleted" -> "unpin"
                      [] l.op = "search"  -> IF found THEN "keep" ELSE "unpin")

(* lfind: the first node, pinned and then seen again *)
FindHead(t) ==
    LET l == local[t] IN
    /\ pc[t] = "head"
    /\ Set(t, [l EXCEPT !.prev = l.head, !.curr = word[l.head][1],
                        !.next = Null, !.dead = FALSE, !.cmp = 0])
    /\ Goto(t, "pin1")
    /\ UNCHANGED <<memory, pin, counters>>

FindPin1(t) ==
    /\ pc[t] = "pin1"
    /\ Pin(t, 1, local[t].curr)
    /\ Goto(t, "check")
    /\ UNCHANGED <<memory, counters, local>>

FindCheck(t) ==
    LET l == local[t] IN
    /\ pc[t] = "check"
    /\ \/ word[l.prev] # Live(l.curr) /\ Goto(t, "head") /\ UNCHANGED local
       \/ word[l.prev] = Live(l.curr) /\ l.curr = Null /\ FindReturn(t, l, FALSE)
       \/ word[l.prev] = Live(l.curr) /\ l.curr # Null /\ Goto(t, "link") /\ UNCHANGED local
    /\ UNCHANGED <<memory, pin, counters>>

FindLink(t) ==
    LET l == local[t] IN
    /\ pc[t] = "link"
    /\ Set(t, [l EXCEPT !.next = word[l.curr][1], !.dead = word[l.curr][2]])
    /\ Goto(t, "pin0")
    /\ UNCHANGED <<memory, pin, counters>>

FindPin0(t) ==
    /\ pc[t] = "pin0"
    /\ Pin(t, 0, local[t].next)
    /\ Goto(t, "relink")
    /\ UNCHANGED <<memory, counters, local>>

FindRelink(t) ==
    LET l == local[t] IN
    /\ pc[t] = "relink"
    /\ Goto(t, IF word[l.curr] = <<l.next, l.dead>> THEN "compare" ELSE "link")
    /\ UNCHANGED <<memory, pin, counters, local>>

(* Hash number and key of curr, whatever has become of it: the comparison  *)
(* with a key that was overwritten may go either way.                      *)
FindCompare(t) ==
    LET l == local[t] IN
    /\ pc[t] = "compare"
    /\ \E order \in IF l.curr \in Nodes /\ key[l.curr] = 0
                    THEN {0, Wanted(l), Wanted(l) + 1}
                    ELSE {NodeOrder(l.curr)} :
         Set(t, [l EXCEPT !.cmp = order])
    /\ Goto(t, "reread")
    /\ UNCHANGED <<memory, pin, counters>>

(* Variant: what was read counts whether or not prev still leads to curr. *)
FindNoReread(t) ==
    LET l == local[t] IN
    /\ pc[t] = "reread"
    /\ \/ l.dead /\ Goto(t, "help") /\ UNCHANGED local
       \/ ~l.dead /\ l.cmp >= Wanted(l) /\ FindReturn(t, l, l.cmp = Wanted(l))
       \/ ~l.dead /\ l.cmp < Wanted(l) /\ Goto(t, "pin2") /\ UNCHANGED local
    /\ UNCHANGED <<memory, pin, counters>>

(* What was read of curr counts only if prev still leads to it. *)
FindReread(t) ==
    LET l == local[t] IN
    /\ pc[t] = "reread"
    /\ \/ word[l.prev] # Live(l.curr) /\ Goto(t, "head") /\ UNCHANGED local
       \/ /\ word[l.prev] = Live(l.curr) /\ l.dead
          /\ Goto(t, "help") /\ UNCHANGED local
       \/ /\ word[l.prev] = Live(l.curr) /\ ~l.dead /\ l.cmp >= Wanted(l)
          /\ FindReturn(t, l, l.cmp = Wanted(l))
       \/ /\ word[l.prev] = Live(l.curr) /\ ~l.dead /\ l.cmp < Wanted(l)
          /\ Goto(t, "pin2") /\ UNCHANGED local
    /\ UNCHANGED <<memory, pin, counters>>

FindPin2(t) ==
    /\ pc[t] = "pin2"
    /\ Pin(t, 2, local[t].curr)
    /\ Set(t, [local[t] EXCEPT !.prev = local[t].curr])
    /\ Goto(t, "advance")
    /\ UNCHANGED <<memory, counters>>

FindAdvance(t) ==
    LET l == [local[t] EXCEPT !.curr = local[t].next, !.next = Null,
                              !.dead = FALSE, !.cmp = 0]
    IN
    /\ pc[t] = "advance"
    /\ Pin(t, 1, l.curr)
    /\ IF l.curr = Null THEN FindReturn(t, l, FALSE) ELSE Set(t, l) /\ Goto(t, "link")
    /\ UNCHANGED <<memory, counters>>

(* The compare-and-swap that takes curr out of the list, by the thread     *)
(* that marked it or by one that met it; the one that succeeds frees it.   *)
Remove(t, l, then) ==
    /\ UNCHANGED <<pin, available, counters>>
    /\ \/ /\ word[l.prev] = Live(l.curr)
          /\ word' = [word EXCEPT ![l.prev] = Live(l.next)]
          /\ Free(t, l.curr, l, then)
       \/ /\ word[l.prev] # Live(l.curr)
          /\ Set(t, l) /\ Goto(t, "head")
          /\ UNCHANGED <<word, key, purgatory>>

FindHelp(t) == pc[t] = "help" /\ Remove(t, local[t], "advance")

-----------------------------------------------------------------------------
(* linsert: the link of the new node, then the word that will lead to it. *)
InsertCas(t) ==
    LET l == local[t]
        linked == [word EXCEPT ![Inserted(t)] = Live(l.curr)]
    IN
    /\ pc[t] = "ins_cas"
    /\ IF word[l.prev] = Live(l.curr)
       THEN word' = [linked EXCEPT ![l.prev] = Live(Inserted(t))] /\ Goto(t, "unpin")
       ELSE word' = (IF Initializing(l) THEN word ELSE linked) /\ Goto(t, "head")
    /\ UNCHANGED <<key, available, purgatory, pin, counters, local>>

(* Variant: the node is taken out of the list without being marked, and an *)
(* insert behind it is lost.                                               *)
DeleteNoMark(t) ==
    /\ pc[t] = "mark"
    /\ Set(t, [local[t] EXCEPT !.op = "deleted"])
    /\ Goto(t, "unlink")
    /\ UNCHANGED <<memory, pin, counters>>

(* ldelete: the DELETED flag decides which thread deletes the node. *)
DeleteMark(t) ==
    LET l == local[t] IN
    /\ pc[t] = "mark"
    /\ \/ /\ word[l.curr] = Live(l.next)
          /\ word' = [word EXCEPT ![l.curr] = Dead(l.next)]
          /\ Set(t, [l EXCEPT !.op = "deleted"])
          /\ Goto(t, "unlink")
       \/ /\ word[l.curr] # Live(l.next)
          /\ Goto(t, "head")
          /\ UNCHANGED <<word, local>>
    /\ UNCHANGED <<key, available, purgatory, pin, counters>>

(* Variant: a failed removal is left to the others. *)
DeleteUnlinkNoHelp(t) ==
    LET l == local[t] IN
    /\ pc[t] = "unlink"
    /\ UNCHANGED <<pin, available, counters>>
    /\ \/ /\ word[l.prev] = Live(l.curr)
          /\ word' = [word EXCEPT ![l.prev] = Live(l.next)]
          /\ Free(t, l.curr, l, "unpin")
       \/ /\ word[l.prev] # Live(l.curr)
          /\ Goto(t, "unpin")
          /\ UNCHANGED <<word, key, purgatory, local>>

(* When the removal fails, lfind is run once more to help whoever is in    *)
(* the way.                                                                *)
DeleteUnlink(t) == pc[t] = "unlink" /\ Remove(t, local[t], "unpin")

(* lsearch *)
SearchKeep(t) ==
    /\ pc[t] = "keep"
    /\ Pin(t, 2, local[t].curr)
    /\ Goto(t, "unpin")
    /\ UNCHANGED <<memory, counters, local>>

NoPins == [i \in 0 .. 2 |-> Null]

(* The pins are removed, and the call returns or goes on; the cursor is    *)
(* not used again except for the node found.  A search keeps pin 2 whether *)
(* or not it found anything.                                               *)
Unpin(t) ==
    LET l == [local[t] EXCEPT !.prev = Slot(0), !.next = Null, !.dead = FALSE,
                              !.curr = IF local[t].found THEN @ ELSE Null]
        searching == l.op = "search" /\ ~Initializing(l)
    IN
    /\ pc[t] = "unpin"
    /\ pin' = [pin EXCEPT ![t] =
            IF searching THEN [NoPins EXCEPT ![2] = pin[t][2]] ELSE NoPins]
    /\ \/ /\ ~Initializing(l) /\ l.op = "insert" /\ l.found
          /\ Free(t, l.node, l, "idle")
          /\ UNCHANGED <<word, available>>
       \/ /\ ~Initializing(l) /\ l.op \in {"delete", "search"} /\ ~l.found
          /\ Done(t)
          /\ UNCHANGED memory
       \/ /\ \/ Initializing(l) /\ Goto(t, "init_cas")
             \/ ~Initializing(l) /\ l.op = "insert" /\ ~l.found /\ Goto(t, "size")
             \/ ~Initializing(l) /\ l.op = "deleted" /\ Goto(t, "uncount")
             \/ searching /\ l.found /\ Goto(t, "using")
          /\ Set(t, l)
          /\ UNCHANGED memory
    /\ UNCHANGED counters

(* The end of lf_hash_insert: the array is doubled when the load is high. *)
SizeRead(t) ==
    /\ pc[t] = "size"
    /\ Set(t, [local[t] EXCEPT !.csize = size])
    /\ Goto(t, "count")
    /\ UNCHANGED <<memory, pin, counters>>

Count(t) ==
    /\ pc[t] = "count"
    /\ count' = count + 1
    /\ IF count + 1 > local[t].csize
       THEN Goto(t, "grow") /\ UNCHANGED local
       ELSE Done(t)
    /\ UNCHANGED <<memory, pin, size>>

Grow(t) ==
    /\ pc[t] = "grow"
    /\ size' = IF size = local[t].csize /\ 2 * size <= MaxSize THEN 2 * size ELSE size
    /\ Done(t)
    /\ UNCHANGED <<memory, pin, count>>

(* The end of lf_hash_delete *)
Uncount(t) ==
    /\ pc[t] = "uncount"
    /\ count' = count - 1
    /\ Done(t)
    /\ UNCHANGED <<memory, pin, size>>

(* lf_hash_search_unpin, when the caller is done with what it found *)
SearchUnpin(t) ==
    /\ pc[t] = "using"
    /\ Pin(t, 2, Null)
    /\ Done(t)
    /\ UNCHANGED <<memory, counters>>

-----------------------------------------------------------------------------
(* The nodes of the list, from the dummy node of bucket 0 on *)
Listed ==
    LET From[m \in Targets, steps \in Nat] ==
            IF m = Null \/ steps = 0 THEN {}
            ELSE {m} \cup From[word[m][1], steps - 1]
    IN  From[word[Slot(0)][1], Cardinality(Cells)]

(* What is in the hash *)
Contents == {key[n] : n \in {m \in Listed \cap Nodes : ~word[m][2]}}

Observe == seen' = [t \in Threads |->
    IF local'[t].op = "none" THEN {}
    ELSE seen[t] \cup {local'[t].key \in Contents'}]

Step(t) ==
    \/ Call(t) \/ Bucket(t) \/ SlotTest(t) \/ InitBucket(t) \/ InitCas(t)
    \/ FindHead(t) \/ FindPin1(t) \/ FindCheck(t) \/ FindLink(t) \/ FindPin0(t)
    \/ FindRelink(t) \/ FindCompare(t) \/ FindReread(t) \/ FindPin2(t)
    \/ FindAdvance(t) \/ FindHelp(t)
    \/ InsertCas(t) \/ DeleteMark(t) \/ DeleteUnlink(t) \/ SearchKeep(t) \/ Unpin(t)
    \/ SizeRead(t) \/ Count(t) \/ Grow(t) \/ Uncount(t) \/ SearchUnpin(t)
    \/ ScanPin(t) \/ Reclaim(t)

Next == \E t \in Threads : Step(t) /\ Observe

Spec == Init /\ [][Next]_vars

-----------------------------------------------------------------------------
Idle == \A t \in Threads : pc[t] = "idle"

(* The list is what lfind takes it for: strictly ordered along its links,  *)
(* so that no key is in it twice, with the dummy node of every filled slot *)
(* in it, and without a node that is free, retired or not yet inserted.    *)
ListOrdered ==
    LET list == Listed IN
    /\ \A n \in list : word[n][1] # Null => NodeOrder(n) < NodeOrder(word[n][1])
    /\ \A b \in Buckets : word[Slot(b)] # Live(Null) => word[Slot(b)][1] \in list
    /\ list \cap (available \cup UNION {purgatory[t] : t \in Threads}) = {}

(* A call that returns "not found" had a moment when the key was not in    *)
(* the hash, a duplicate or a found element a moment when it was, and an   *)
(* insert or a delete that succeeds changed the one into the other: the    *)
(* calls are linearizable although lfind reads the list link by link.      *)
Linearizable == \A t \in Threads :
    LET l == local[t] IN
    pc[t] = "unpin" /\ ~Initializing(l) =>
        CASE l.op = "deleted"               -> seen[t] = BOOLEAN
          [] l.op = "insert" /\ ~l.found    -> seen[t] = BOOLEAN
          [] OTHER                          -> l.found \in seen[t]

(* No use after free: the nodes whose links a thread is about to change on *)
(* the strength of what it read, and the element a search has returned,    *)
(* are not handed to somebody else as long as the thread's pins hold them. *)
PinnedNotReused == \A t \in Threads :
    LET l == local[t] IN
    /\ pc[t] \in {"help", "ins_cas", "mark", "unlink"} => l.prev \notin available
    /\ pc[t] \in {"help", "mark", "unlink", "keep", "using"} => l.curr \notin available

(* A marked node is taken out of the list by somebody before the last call *)
(* returns, every node that left is retired once, and the element count is *)
(* exact again when the threads come to rest.                              *)
RestIsClean == Idle =>
    /\ \A n \in Listed : ~word[n][2]
    /\ count = Cardinality(Contents)
    /\ \A n \in Nodes \ Listed :
         n \in available \/ \E t \in Threads : n \in purgatory[t]
=============================================================================
