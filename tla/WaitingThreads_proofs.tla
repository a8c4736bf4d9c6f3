----------------------- MODULE WaitingThreads_proofs -----------------------
(***************************************************************************)
(* Proofs about WaitingThreads, for any finite set of threads, any         *)
(* resources, weights and depths: the graph is consistent, a search leaves *)
(* no lock behind, and nobody sleeps for nobody.                           *)
(***************************************************************************)
EXTENDS WaitingThreads, ListFacts

Places ==
    {"idle", "search_hash", "insert", "register", "search", "locked", "return", "kill",
     "declared", "check", "test", "block", "asleep", "woken", "stop", "delete", "stopped",
     "release", "release_mutex", "releasing", "release_delete"}
Searching == {"search", "locked", "return", "kill"}
Releasing == {"releasing", "release_delete"}
Deleting  == {"delete", "release_delete"}

Frame == [blocker : Threads, rc : Resources, i : Nat \ {0}, ret : {"OK", "DEPTH_EXCEEDED"}]
Locals ==
    [blocker : Threads \cup {Nobody}, declared : SUBSET Threads, id : Ids \cup {Nobody},
     base : {0, 1}, cursor : Threads \cup {Nobody}, stack : Seq(Frame),
     last : Resources \cup {Nobody}, victim : Threads \cup {Nobody},
     ret : {"OK", "DEPTH_EXCEEDED", "DEADLOCK", "TIMEOUT"}, long : BOOLEAN,
     todo : SUBSET Resources, released : SUBSET Resources]

(* TypeOK, but for what is counted, and the threads' own state.            *)
StateOK ==
    /\ rcid \in [Resources -> Ids \cup {Nobody}]
    /\ state \in [Resources -> {"ACTIVE", "FREE"}]
    /\ owners \in [Resources -> Seq(Threads)]
    /\ waiter_count \in [Resources -> Int]
    /\ readers \in [Resources -> Int]
    /\ hash \in [Ids -> Resources \cup {Nobody}]
    /\ waiting_for \in [Threads -> Resources \cup {Nobody}]
    /\ killed \in [Threads -> BOOLEAN]
    /\ weight \in [Threads -> Nat]
    /\ my_resources \in [Threads -> SUBSET Resources]
    /\ pin \in [Threads -> Resources \cup {Nobody}]
    /\ lock \in [Threads -> Threads \cup {Nobody}]
    /\ mutex \in Threads \cup {Nobody}
    /\ waits \in 0..MaxWaits
    /\ pc \in [Threads -> Places]
    /\ loc \in [Threads -> Locals]

(* Which mutexes a thread has at a place, and whether it waits.            *)
PlaceOK(t) ==
    /\ pc[t] \in Searching \cup {"declared", "check", "test", "block", "asleep", "woken", "stop"}
          => waiting_for[t] # Nobody
    /\ pc[t] \in {"idle", "search_hash", "insert", "delete", "stopped", "release",
                  "release_mutex"} \cup Releasing
          => waiting_for[t] = Nobody
    /\ pc[t] \in {"search_hash", "insert", "register"} \/ (pc[t] \in Searching /\ loc[t].base = 1)
          => loc[t].blocker \in Threads \ {t} /\ lock[loc[t].blocker] = t
    /\ pc[t] \in {"search_hash", "insert", "register"} => loc[t].id \in Ids
    /\ pc[t] = "register" /\ waiting_for[t] = Nobody => pin[t] # Nobody /\ rcid[pin[t]] = loc[t].id
    /\ pc[t] \in {"release_mutex"} \cup Releasing => lock[t] = t
    /\ pc[t] \in {"check", "test", "block"} \cup Releasing => mutex = t
    /\ pc[t] \in Searching /\ loc[t].base = 0 => mutex = t
    /\ waiting_for[t] # Nobody => rcid[waiting_for[t]] = loc[t].id
    /\ pc[t] \in Releasing => loc[t].todo \subseteq my_resources[t] \ loc[t].released
    /\ pc[t] \notin Releasing => loc[t].released = {}

(* The two ends of the edges, of one resource.                             *)
EdgesOK(r) ==
    /\ waiter_count[r] = Cardinality({t \in Threads : waiting_for[t] = r})
    /\ ToSet(owners[r]) = {t \in Threads : r \in Owned(t)}
    /\ IsInjective(owners[r])
    /\ state[r] = "ACTIVE" => rcid[r] \in Ids /\ hash[rcid[r]] = r
    /\ (\E t \in Threads : waiting_for[t] = r \/ r \in Owned(t)) => state[r] = "ACTIVE"

(* The hash, and who takes a FREE object out of it.                        *)
HashOK ==
    /\ \A i \in Ids : hash[i] # Nobody => rcid[hash[i]] = i
    /\ \A i \in Ids : hash[i] # Nobody /\ state[hash[i]] = "FREE" =>
          \E t \in Threads : pc[t] \in Deleting /\ loc[t].id = i
    /\ \A t \in Threads : pc[t] \in Deleting =>
          /\ loc[t].id \in Ids /\ hash[loc[t].id] # Nobody /\ state[hash[loc[t].id]] = "FREE"
          /\ \A u \in Threads \ {t} : pc[u] \in Deleting => loc[u].id # loc[t].id

(* A frame of the search of t: its resource is the one its blocker waits   *)
(* for, t itself does not own it, and the search is at its i-th owner.     *)
FrameOK(t, k) ==
    LET f == loc[t].stack[k]
    IN  /\ waiting_for[f.blocker] = f.rc
        /\ f.i <= Len(owners[f.rc]) /\ t \notin ToSet(owners[f.rc])
        /\ owners[f.rc][f.i] = IF k = Len(loc[t].stack) THEN loc[t].cursor
                               ELSE loc[t].stack[k + 1].blocker

(* The thread at which the search of t began.                              *)
Root(t) == IF loc[t].base = 1 THEN loc[t].blocker ELSE t

SearchOK(t) ==
    LET l == loc[t]
    IN  /\ l.stack # <<>> => pc[t] \in {"search", "locked", "return"}
        /\ \A k \in 1..Len(l.stack) : FrameOK(t, k)
        /\ pc[t] \in {"search", "locked", "return"} =>
              (IF l.stack = <<>> THEN l.cursor ELSE l.stack[1].blocker) = Root(t)
        /\ pc[t] \in {"search", "locked", "return"} => l.cursor # Nobody
        /\ pc[t] = "locked" => pin[t] # Nobody
        /\ pc[t] = "return" /\ l.last # Nobody => waiting_for[l.cursor] = l.last
        /\ pc[t] = "return" /\ l.ret = "DEADLOCK" =>
              l.last # Nobody /\ l.victim # Nobody /\ waiting_for[l.victim] # Nobody
        /\ pc[t] = "kill" => l.victim \notin {t, Nobody} /\ waiting_for[l.victim] # Nobody

(* There is somebody to wait for, from the last look at the owners to the  *)
(* wait.                                                                   *)
SleepOK(t) ==
    LET l == loc[t]
    IN  /\ pc[t] = "return" /\ l.base = 0 /\ l.stack = <<>> =>
              l.last # Nobody /\ (l.ret # "OK" => owners[l.last] # <<>>)
        /\ pc[t] = "kill" /\ l.base = 0 => owners[waiting_for[t]] # <<>>
        /\ pc[t] = "test" /\ l.ret = "TIMEOUT" => owners[waiting_for[t]] # <<>>
        /\ pc[t] \in {"block", "asleep"} => owners[waiting_for[t]] # <<>>

WTInv ==
    /\ StateOK /\ HashOK
    /\ \A t \in Threads : PlaceOK(t) /\ SearchOK(t) /\ SleepOK(t)
    /\ \A r \in Resources : EdgesOK(r) /\ readers[r] = Cardinality(Holders(r))

-----------------------------------------------------------------------------
(* Counting.  The pairs of a thread and one of its slots.                  *)
Pairs(S) == UNION {{t} \X S[t] : t \in Threads}

LEMMA UnionSize ==
    ASSUME NEW A, NEW B, IsFiniteSet(A), IsFiniteSet(B), A \cap B = {}
    PROVE  IsFiniteSet(A \cup B) /\ Cardinality(A \cup B) = Cardinality(A) + Cardinality(B)
<1>1. Cardinality(A) \in Nat /\ Cardinality(B) \in Nat
  BY FS_CardinalityType
<1>2. Cardinality(A \cap B) = 0
  BY FS_EmptySet
<1>3. /\ IsFiniteSet(A \cup B)
      /\ Cardinality(A \cup B) = Cardinality(A) + Cardinality(B) - Cardinality(A \cap B)
  BY FS_Union
<1> QED
  BY <1>1, <1>2, <1>3

LEMMA RowSize ==
    ASSUME NEW t, NEW S, IsFiniteSet(S)
    PROVE  IsFiniteSet({t} \X S) /\ Cardinality({t} \X S) = Cardinality(S)
<1>1. IsFiniteSet({t}) /\ Cardinality({t}) = 1
  BY FS_Singleton
<1>2. Cardinality(S) \in Nat
  BY FS_CardinalityType
<1> QED
  BY <1>1, <1>2, FS_Product

LEMMA PairsFinite ==
    ASSUME NEW S, \A t \in Threads : IsFiniteSet(S[t])
    PROVE  IsFiniteSet(Pairs(S)) /\ Cardinality(Pairs(S)) \in Nat
<1>1. IsFiniteSet({{t} \X S[t] : t \in Threads})
  <2> DEFINE f == [t \in Threads |-> {t} \X S[t]]
             T == {{t} \X S[t] : t \in Threads}
  <2>1. f \in Surjection(Threads, T)
    BY DEF Surjection
  <2> HIDE DEF f, T
  <2>2. IsFiniteSet(T)
    BY <2>1, WTAssumption, FS_Surjection
  <2> QED
    BY <2>2 DEF T
<1>2. \A x \in {{t} \X S[t] : t \in Threads} : IsFiniteSet(x)
  <2>1. ASSUME NEW t \in Threads PROVE IsFiniteSet({t} \X S[t])
    BY RowSize
  <2> QED
    BY <2>1
<1> QED
  BY <1>1, <1>2, FS_UNION, FS_CardinalityType DEF Pairs

(* Only the row of t changes.                                              *)
LEMMA PairsChange ==
    ASSUME NEW S, NEW T, NEW t \in Threads,
           \A u \in Threads : IsFiniteSet(S[u]) /\ IsFiniteSet(T[u]),
           \A u \in Threads \ {t} : S[u] = T[u]
    PROVE  Cardinality(Pairs(T)) = Cardinality(Pairs(S)) - Cardinality(S[t]) + Cardinality(T[t])
<1> DEFINE R == UNION {{u} \X S[u] : u \in Threads \ {t}}
<1>1. Pairs(S) = R \cup ({t} \X S[t]) /\ R \cap ({t} \X S[t]) = {}
  BY DEF Pairs
<1>2. Pairs(T) = R \cup ({t} \X T[t]) /\ R \cap ({t} \X T[t]) = {}
  BY DEF Pairs
<1>3. IsFiniteSet(R)
  BY <1>1, PairsFinite, FS_Subset
<1>4. /\ IsFiniteSet({t} \X S[t]) /\ Cardinality({t} \X S[t]) = Cardinality(S[t])
      /\ IsFiniteSet({t} \X T[t]) /\ Cardinality({t} \X T[t]) = Cardinality(T[t])
  BY RowSize
<1> HIDE DEF R
<1>5. Cardinality(Pairs(S)) = Cardinality(R) + Cardinality(S[t])
  <2>1. Cardinality(R \cup ({t} \X S[t])) = Cardinality(R) + Cardinality({t} \X S[t])
    BY <1>1, <1>3, <1>4, UnionSize
  <2> QED
    BY <1>1, <1>4, <2>1
<1>6. Cardinality(Pairs(T)) = Cardinality(R) + Cardinality(T[t])
  <2>1. Cardinality(R \cup ({t} \X T[t])) = Cardinality(R) + Cardinality({t} \X T[t])
    BY <1>2, <1>3, <1>4, UnionSize
  <2> QED
    BY <1>2, <1>4, <2>1
<1>7. Cardinality(R) \in Nat /\ Cardinality(S[t]) \in Nat /\ Cardinality(T[t]) \in Nat
  BY <1>3, FS_CardinalityType
<1> QED
  BY <1>5, <1>6, <1>7

(* Slots and Holders by the values they depend on.                         *)
FramesOf(s, r) == {i \in DOMAIN s : s[i].rc = r}
SlotsOf(l, p, K, r) ==
    FramesOf(l.stack, r) \cup (IF p = "return" /\ l.last = r THEN {0} ELSE {})
                         \cup (IF r \in K THEN {-1} ELSE {})

LEMMA FramesFinite ==
    ASSUME NEW s \in Seq(Frame), NEW r
    PROVE  /\ FramesOf(s, r) \subseteq 1..Len(s) /\ IsFiniteSet(FramesOf(s, r))
           /\ Cardinality(FramesOf(s, r)) \in Nat
<1>1. FramesOf(s, r) \subseteq 1..Len(s) /\ Len(s) \in Nat
  BY DEF FramesOf
<1>2. IsFiniteSet(1..Len(s))
  BY <1>1, FS_Interval
<1> QED
  BY <1>1, <1>2, FS_Subset, FS_CardinalityType

LEMMA FramesPush ==
    ASSUME NEW s \in Seq(Frame), NEW r, NEW f \in Frame
    PROVE  Cardinality(FramesOf(Append(s, f), r))
              = Cardinality(FramesOf(s, r)) + (IF f.rc = r THEN 1 ELSE 0)
<1> DEFINE n == Len(s) + 1
<1>1. /\ Len(s) \in Nat /\ DOMAIN s = 1..Len(s) /\ DOMAIN Append(s, f) = 1..n
      /\ Append(s, f)[n] = f /\ \A i \in 1..Len(s) : Append(s, f)[i] = s[i]
  OBVIOUS
<1>2. FramesOf(Append(s, f), r) = IF f.rc = r THEN FramesOf(s, r) \cup {n} ELSE FramesOf(s, r)
  BY <1>1 DEF FramesOf
<1>3. IsFiniteSet(FramesOf(s, r)) /\ n \notin FramesOf(s, r) /\ Cardinality(FramesOf(s, r)) \in Nat
  BY <1>1, FramesFinite
<1> HIDE DEF n
<1>4. Cardinality(FramesOf(s, r) \cup {n}) = Cardinality(FramesOf(s, r)) + 1
  BY <1>3, FS_AddElement
<1> QED
  BY <1>2, <1>3, <1>4

LEMMA FrontIsPop ==
    ASSUME NEW s \in Seq(Frame), s # <<>>
    PROVE  /\ Front(s) \in Seq(Frame) /\ Last(s) \in Frame /\ Len(Front(s)) = Len(s) - 1
           /\ Last(s) = s[Len(s)] /\ Len(s) \in Nat \ {0}
           /\ \A i \in 1..(Len(s) - 1) : Front(s)[i] = s[i]
           /\ s = Append(Front(s), Last(s))
<1>1. Len(s) \in Nat \ {0} /\ \A i \in 1..Len(s) : s[i] \in Frame
  OBVIOUS
<1>2. Front(s) = SubSeq(s, 1, Len(s) - 1) /\ Last(s) = s[Len(s)]
  BY DEF Front, Last
<1>3. /\ Front(s) \in Seq(Frame) /\ Len(Front(s)) = Len(s) - 1
      /\ \A i \in 1..(Len(s) - 1) : Front(s)[i] = s[i]
  <2> DEFINE n == Len(s) - 1
  <2>1. n \in Nat /\ n <= Len(s)
    BY <1>1
  <2>2. \A i \in 1..n : s[i] \in Frame
    BY <1>1, <2>1
  <2> HIDE DEF n
  <2>3. /\ SubSeq(s, 1, n) \in Seq(Frame) /\ Len(SubSeq(s, 1, n)) = n
        /\ \A i \in 1..n : SubSeq(s, 1, n)[i] = s[i]
    BY <1>1, <2>1, <2>2, SubSeqProperties
  <2> QED
    BY <1>2, <2>3 DEF n
<1>4. s = Append(Front(s), Last(s))
  <2>1. Append(Front(s), Last(s)) \in Seq(Frame) /\ Len(Append(Front(s), Last(s))) = Len(s)
    BY <1>1, <1>2, <1>3
  <2>2. \A i \in 1..Len(s) : Append(Front(s), Last(s))[i] = s[i]
    BY <1>1, <1>2, <1>3
  <2> QED
    BY <2>1, <2>2
<1> QED
  BY <1>1, <1>2, <1>3, <1>4

LEMMA FramesPop ==
    ASSUME NEW s \in Seq(Frame), s # <<>>, NEW r
    PROVE  Cardinality(FramesOf(Front(s), r))
              = Cardinality(FramesOf(s, r)) - (IF Last(s).rc = r THEN 1 ELSE 0)
<1>1. Front(s) \in Seq(Frame) /\ Last(s) \in Frame /\ s = Append(Front(s), Last(s))
  BY FrontIsPop
<1>2. Cardinality(FramesOf(Front(s), r)) \in Nat
  BY <1>1, FramesFinite
<1>3. Cardinality(FramesOf(Append(Front(s), Last(s)), r))
        = Cardinality(FramesOf(Front(s), r)) + (IF Last(s).rc = r THEN 1 ELSE 0)
  BY <1>1, FramesPush
<1>4. FramesOf(Append(Front(s), Last(s)), r) = FramesOf(s, r)
  BY <1>1, Zenon
<1> QED
  BY <1>2, <1>3, <1>4

LEMMA SlotCount ==
    ASSUME NEW l \in Locals, NEW p, NEW K, NEW r
    PROVE  /\ IsFiniteSet(SlotsOf(l, p, K, r))
           /\ Cardinality(SlotsOf(l, p, K, r))
                = Cardinality(FramesOf(l.stack, r))
                  + (IF p = "return" /\ l.last = r THEN 1 ELSE 0) + (IF r \in K THEN 1 ELSE 0)
<1> DEFINE A == FramesOf(l.stack, r)
           B == IF p = "return" /\ l.last = r THEN {0} ELSE {}
           C == IF r \in K THEN {-1} ELSE {}
<1>1. l.stack \in Seq(Frame)
  BY DEF Locals
<1>2. A \subseteq 1..Len(l.stack) /\ IsFiniteSet(A) /\ Cardinality(A) \in Nat
  BY <1>1, FramesFinite
<1>3. IsFiniteSet(B) /\ Cardinality(B) = IF p = "return" /\ l.last = r THEN 1 ELSE 0
  BY FS_EmptySet, FS_Singleton
<1>4. IsFiniteSet(C) /\ Cardinality(C) = IF r \in K THEN 1 ELSE 0
  BY FS_EmptySet, FS_Singleton
<1>5. A \cap B = {} /\ (A \cup B) \cap C = {}
  BY <1>1, <1>2
<1>6. SlotsOf(l, p, K, r) = (A \cup B) \cup C
  BY DEF SlotsOf
<1> HIDE DEF A, B, C
<1>7. IsFiniteSet(A \cup B) /\ Cardinality(A \cup B) = Cardinality(A) + Cardinality(B)
  BY <1>2, <1>3, <1>5, UnionSize
<1>8. /\ IsFiniteSet((A \cup B) \cup C)
      /\ Cardinality((A \cup B) \cup C) = Cardinality(A \cup B) + Cardinality(C)
  BY <1>4, <1>5, <1>7, UnionSize
<1> QED
  BY <1>2, <1>3, <1>4, <1>6, <1>7, <1>8 DEF A

LEMMA SlotsFinite ==
    ASSUME StateOK, NEW t \in Threads, NEW r
    PROVE  /\ Slots(t, r) = SlotsOf(loc[t], pc[t], KeptFor(t), r)
           /\ IsFiniteSet(Slots(t, r)) /\ Cardinality(Slots(t, r)) \in Nat
           /\ Cardinality(Slots(t, r))
                = Cardinality(FramesOf(loc[t].stack, r))
                  + (IF pc[t] = "return" /\ loc[t].last = r THEN 1 ELSE 0)
                  + (IF r \in KeptFor(t) THEN 1 ELSE 0)
<1>1. Slots(t, r) = SlotsOf(loc[t], pc[t], KeptFor(t), r)
  BY DEF Slots, SlotsOf, FramesOf
<1>2. loc[t] \in Locals
  BY DEF StateOK
<1> QED
  BY <1>1, <1>2, SlotCount, FS_CardinalityType

(* The number of holders after a step of t.                                *)
LEMMA HoldersStep ==
    ASSUME StateOK, StateOK', NEW t \in Threads, NEW r,
           \A u \in Threads \ {t} : Slots(u, r)' = Slots(u, r)
    PROVE  Cardinality(Holders(r)')
              = Cardinality(Holders(r)) - Cardinality(Slots(t, r)) + Cardinality(Slots(t, r)')
<1> DEFINE S == [u \in Threads |-> Slots(u, r)]
           T == [u \in Threads |-> Slots(u, r)']
<1>1. Holders(r) = Pairs(S) /\ Holders(r)' = Pairs(T)
  BY DEF Holders, Pairs
<1>2. \A u \in Threads : IsFiniteSet(S[u])
  BY SlotsFinite
<1>3. ASSUME NEW u \in Threads PROVE IsFiniteSet(Slots(u, r)')
  <2>1. Slots(u, r)' = SlotsOf(loc'[u], pc'[u], KeptFor(u)', r)
    BY DEF Slots, SlotsOf, FramesOf
  <2>2. loc'[u] \in Locals
    BY DEF StateOK
  <2> QED
    BY <2>1, <2>2, SlotCount
<1>4. \A u \in Threads : IsFiniteSet(T[u])
  BY <1>3
<1>5. \A u \in Threads \ {t} : S[u] = T[u]
  OBVIOUS
<1>6. S[t] = Slots(t, r) /\ T[t] = Slots(t, r)'
  OBVIOUS
<1> HIDE DEF S, T
<1>7. Cardinality(Pairs(T)) = Cardinality(Pairs(S)) - Cardinality(S[t]) + Cardinality(T[t])
  BY <1>2, <1>4, <1>5, PairsChange
<1> QED
  BY <1>1, <1>6, <1>7

(* Whatever is locked by a search is seen to be locked.                    *)
LEMMA SlotLocks ==
    ASSUME WTInv, NEW t \in Threads, NEW r \in Resources, NEW k \in Slots(t, r)
    PROVE  readers[r] # 0
<1> DEFINE S == [u \in Threads |-> Slots(u, r)]
<1>1. Holders(r) = Pairs(S)
  BY DEF Holders, Pairs
<1>2. IsFiniteSet(Pairs(S))
  <2>1. \A u \in Threads : IsFiniteSet(S[u])
    BY SlotsFinite DEF WTInv
  <2> QED
    BY <2>1, PairsFinite
<1>3. <<t, k>> \in Pairs(S)
  BY DEF Pairs
<1>4. Cardinality(Pairs(S)) # 0
  BY <1>2, <1>3, FS_EmptySet
<1> QED
  BY <1>1, <1>4 DEF WTInv

(* What a step of t leaves of the other threads' state.                    *)
Same(l, m) ==
    /\ l.blocker = m.blocker /\ l.id = m.id /\ l.base = m.base /\ l.cursor = m.cursor
    /\ l.stack = m.stack /\ l.last = m.last /\ l.victim = m.victim /\ l.ret = m.ret
    /\ l.long = m.long /\ l.todo = m.todo /\ l.released = m.released
OthersKept(t) ==
    /\ \A u \in Threads \ {t} :
         /\ pc'[u] = pc[u] \/ (pc[u] = "asleep" /\ pc'[u] = "woken")
         /\ Same(loc'[u], loc[u])
         /\ pin'[u] = pin[u] /\ waiting_for'[u] = waiting_for[u]
         /\ my_resources[u] \subseteq my_resources'[u]
         /\ \A x \in Threads : lock[x] = u => lock'[x] = u
         /\ mutex = u => mutex' = u
    /\ \A r \in Resources :
         /\ readers[r] # 0 => /\ owners'[r] = owners[r]
                              /\ waiting_for[t] = r => waiting_for'[t] = r
         /\ owners[r] # <<>> /\ owners'[r] = <<>> =>
              /\ mutex = t
              /\ \A u \in Threads \ {t} : waiting_for[u] = r => pc'[u] # "asleep"
         /\ rcid'[r] = rcid[r] \/ r \in Available

LEMMA NotAvailable ==
    ASSUME WTInv, NEW u \in Threads
    PROVE  pin[u] \notin Available /\ waiting_for[u] \notin Available
<1>1. pin[u] \notin Available
  BY DEF Available
<1>2. ASSUME waiting_for[u] \in Resources PROVE waiting_for[u] \notin Available
  <2>1. EdgesOK(waiting_for[u])
    BY <1>2 DEF WTInv
  <2> QED
    BY <1>2, <2>1 DEF EdgesOK, Available
<1> QED
  BY <1>1, <1>2 DEF Available

LEMMA OthersPlace ==
    ASSUME WTInv, StateOK', NEW t \in Threads, OthersKept(t), NEW u \in Threads \ {t}
    PROVE  PlaceOK(u)'
<1>1. PlaceOK(u) /\ StateOK
  BY DEF WTInv
<1>2. /\ pin[u] # Nobody => rcid'[pin[u]] = rcid[pin[u]]
      /\ waiting_for[u] # Nobody => rcid'[waiting_for[u]] = rcid[waiting_for[u]]
  BY <1>1, NotAvailable DEF OthersKept, StateOK
<1>3. /\ pc'[u] = pc[u] \/ (pc[u] = "asleep" /\ pc'[u] = "woken")
      /\ Same(loc'[u], loc[u])
      /\ pin'[u] = pin[u] /\ waiting_for'[u] = waiting_for[u]
      /\ my_resources[u] \subseteq my_resources'[u]
      /\ \A x \in Threads : lock[x] = u => lock'[x] = u
      /\ mutex = u => mutex' = u
  BY DEF OthersKept
<1> QED
  BY <1>1, <1>2, <1>3 DEF PlaceOK, Same, Searching, Releasing

(* What a search has locked stays as the search has seen it.               *)
LEMMA LockedKept ==
    ASSUME WTInv, NEW t \in Threads, OthersKept(t), NEW u \in Threads, NEW r \in Resources,
           NEW k \in Slots(u, r)
    PROVE  /\ owners'[r] = owners[r]
           /\ \A x \in Threads : waiting_for[x] = r => waiting_for'[x] = r
<1>1. readers[r] # 0
  BY SlotLocks
<1> QED
  BY <1>1 DEF OthersKept

LEMMA FrameSlot ==
    ASSUME WTInv, NEW u \in Threads, NEW k \in 1..Len(loc[u].stack)
    PROVE  /\ loc[u].stack[k] \in Frame /\ loc[u].stack[k].rc \in Resources
           /\ loc[u].stack[k].blocker \in Threads
           /\ k \in Slots(u, loc[u].stack[k].rc)
<1>1. loc[u].stack \in Seq(Frame)
  BY DEF WTInv, StateOK, Locals
<1>2. loc[u].stack[k] \in Frame /\ k \in DOMAIN loc[u].stack
  BY <1>1
<1> QED
  BY <1>2 DEF Slots, Frame

LEMMA VictimSlot ==
    ASSUME WTInv, NEW u \in Threads,
           pc[u] = "kill" \/ (pc[u] = "return" /\ loc[u].ret = "DEADLOCK" /\ loc[u].victim # u)
    PROVE  /\ loc[u].victim \in Threads \ {u} /\ waiting_for[loc[u].victim] \in Resources
           /\ KeptFor(u) = {waiting_for[loc[u].victim]}
           /\ -1 \in Slots(u, waiting_for[loc[u].victim])
<1>1. /\ loc[u].victim \in Threads \ {u} /\ waiting_for[loc[u].victim] \in Resources
  BY DEF WTInv, StateOK, SearchOK, Locals
<1>2. KeptFor(u) = {waiting_for[loc[u].victim]}
  BY DEF KeptFor
<1> QED
  BY <1>1, <1>2 DEF Slots

LEMMA VictimKept ==
    ASSUME WTInv, NEW t \in Threads, OthersKept(t), NEW u \in Threads,
           pc[u] = "kill" \/ (pc[u] = "return" /\ loc[u].ret = "DEADLOCK" /\ loc[u].victim # u)
    PROVE  waiting_for'[loc[u].victim] = waiting_for[loc[u].victim]
<1>1. /\ loc[u].victim \in Threads /\ waiting_for[loc[u].victim] \in Resources
      /\ -1 \in Slots(u, waiting_for[loc[u].victim])
  BY VictimSlot
<1> QED
  BY <1>1, LockedKept

LEMMA OthersSlots ==
    ASSUME WTInv, StateOK', NEW t \in Threads, OthersKept(t), NEW u \in Threads \ {t}, NEW r
    PROVE  KeptFor(u)' = KeptFor(u) /\ Slots(u, r)' = Slots(u, r)
<1>1. /\ pc'[u] = pc[u] \/ (pc[u] = "asleep" /\ pc'[u] = "woken")
      /\ Same(loc'[u], loc[u])
  BY DEF OthersKept
<1>2. KeptFor(u)' = KeptFor(u)
  BY <1>1, VictimKept DEF KeptFor, Same
<1> QED
  BY <1>1, <1>2 DEF Slots, Same

LEMMA OthersSearch ==
    ASSUME WTInv, StateOK', NEW t \in Threads, OthersKept(t), NEW u \in Threads \ {t}
    PROVE  SearchOK(u)'
<1>1. /\ pc'[u] = pc[u] \/ (pc[u] = "asleep" /\ pc'[u] = "woken")
      /\ Same(loc'[u], loc[u])
      /\ pin'[u] = pin[u] /\ waiting_for'[u] = waiting_for[u]
  BY DEF OthersKept
<1>2. SearchOK(u) /\ loc[u] \in Locals /\ loc[u].stack \in Seq(Frame)
  BY DEF WTInv, StateOK, Locals
<1>3. ASSUME NEW k \in 1..Len(loc[u].stack) PROVE FrameOK(u, k)'
  <2>1. /\ loc[u].stack[k].rc \in Resources /\ loc[u].stack[k].blocker \in Threads
        /\ k \in Slots(u, loc[u].stack[k].rc)
    BY FrameSlot
  <2>2. FrameOK(u, k)
    BY <1>2 DEF SearchOK
  <2>3. /\ owners'[loc[u].stack[k].rc] = owners[loc[u].stack[k].rc]
        /\ waiting_for'[loc[u].stack[k].blocker] = loc[u].stack[k].rc
    BY <2>1, <2>2, LockedKept DEF FrameOK
  <2> QED
    BY <1>1, <2>2, <2>3 DEF FrameOK, Same
<1>4. pc[u] = "return" /\ loc[u].last # Nobody => waiting_for'[loc[u].cursor] = loc[u].last
  <2> SUFFICES ASSUME pc[u] = "return", loc[u].last # Nobody
               PROVE  waiting_for'[loc[u].cursor] = loc[u].last
    OBVIOUS
  <2>1. loc[u].last \in Resources /\ loc[u].cursor \in Threads
    BY <1>2 DEF SearchOK, Locals
  <2>2. 0 \in Slots(u, loc[u].last)
    BY DEF Slots
  <2> QED
    BY <1>2, <2>1, <2>2, LockedKept DEF SearchOK
<1>5. pc[u] = "return" /\ loc[u].ret = "DEADLOCK" => waiting_for'[loc[u].victim] # Nobody
  BY <1>1, <1>2, VictimKept DEF SearchOK
<1>6. pc[u] = "kill" => waiting_for'[loc[u].victim] # Nobody
  BY <1>2, VictimKept DEF SearchOK
<1> QED
  BY <1>1, <1>2, <1>3, <1>4, <1>5, <1>6 DEF SearchOK, Same, Root

LEMMA OthersSleep ==
    ASSUME WTInv, StateOK', NEW t \in Threads, OthersKept(t), NEW u \in Threads \ {t}
    PROVE  SleepOK(u)'
<1>1. /\ pc'[u] = pc[u] \/ (pc[u] = "asleep" /\ pc'[u] = "woken")
      /\ Same(loc'[u], loc[u])
      /\ waiting_for'[u] = waiting_for[u]
  BY DEF OthersKept
<1>2. /\ SleepOK(u) /\ PlaceOK(u) /\ waiting_for[u] \in Resources \cup {Nobody}
      /\ loc[u].last \in Resources \cup {Nobody}
  BY DEF WTInv, StateOK, Locals
<1>3. pc[u] = "return" /\ loc[u].last # Nobody => owners'[loc[u].last] = owners[loc[u].last]
  <2> SUFFICES ASSUME pc[u] = "return", loc[u].last # Nobody
               PROVE  owners'[loc[u].last] = owners[loc[u].last]
    OBVIOUS
  <2>1. 0 \in Slots(u, loc[u].last)
    BY DEF Slots
  <2> QED
    BY <1>2, <2>1, LockedKept
<1>4. ASSUME mutex = u, waiting_for[u] # Nobody, owners[waiting_for[u]] # <<>>
      PROVE  owners'[waiting_for[u]] # <<>>
  BY <1>2, <1>4 DEF OthersKept
<1>5. ASSUME pc'[u] = "asleep", waiting_for[u] # Nobody, owners[waiting_for[u]] # <<>>
      PROVE  owners'[waiting_for[u]] # <<>>
  BY <1>2, <1>5 DEF OthersKept
<1> QED
  BY <1>1, <1>2, <1>3, <1>4, <1>5 DEF SleepOK, PlaceOK, Same, Searching

(* A step of t as a whole.                                                 *)
LEMMA Step ==
    ASSUME WTInv, StateOK', NEW t \in Threads, OthersKept(t),
           PlaceOK(t)', SearchOK(t)', SleepOK(t)', HashOK', \A r \in Resources : EdgesOK(r)',
           \A r \in Resources : readers'[r] = readers[r] - Cardinality(Slots(t, r))
                                                         + Cardinality(Slots(t, r)')
    PROVE  WTInv'
<1>1. \A u \in Threads : PlaceOK(u)' /\ SearchOK(u)' /\ SleepOK(u)'
  BY OthersPlace, OthersSearch, OthersSleep
<1>2. ASSUME NEW r \in Resources PROVE readers'[r] = Cardinality(Holders(r)')
  <2>1. \A u \in Threads \ {t} : Slots(u, r)' = Slots(u, r)
    BY OthersSlots
  <2>2. Cardinality(Holders(r)')
          = Cardinality(Holders(r)) - Cardinality(Slots(t, r)) + Cardinality(Slots(t, r)')
    BY <2>1, HoldersStep DEF WTInv
  <2> QED
    BY <2>2 DEF WTInv
<1> QED
  BY <1>1, <1>2 DEF WTInv

(* A step of t that leaves the graph alone.                                *)
Plain(t) ==
    /\ UNCHANGED graph
    /\ \A u \in Threads \ {t} :
         /\ pc'[u] = pc[u] \/ (pc[u] = "asleep" /\ pc'[u] = "woken")
         /\ loc'[u] = loc[u] /\ pin'[u] = pin[u]
         /\ \A x \in Threads : lock[x] = u => lock'[x] = u
         /\ mutex = u => mutex' = u
    /\ pc[t] \notin Deleting /\ pc'[t] \notin Deleting
    /\ loc'[t].released = loc[t].released

LEMMA PlainKeeps ==
    ASSUME WTInv, StateOK', NEW t \in Threads, Plain(t)
    PROVE  OthersKept(t) /\ HashOK' /\ \A r \in Resources : EdgesOK(r)'
<1>1. OthersKept(t)
  BY DEF Plain, OthersKept, graph, Same
<1>2. HashOK'
  <2>1. \A u \in Threads : (pc'[u] \in Deleting <=> pc[u] \in Deleting)
                           /\ (pc[u] \in Deleting => loc'[u].id = loc[u].id)
    BY DEF Plain, Deleting
  <2> QED
    BY <2>1 DEF Plain, graph, HashOK, WTInv
<1>3. ASSUME NEW r \in Resources PROVE EdgesOK(r)'
  <2>1. \A u \in Threads : Owned(u)' = Owned(u)
    BY DEF Owned, Plain, graph
  <2>2. EdgesOK(r)
    BY DEF WTInv
  <2> QED
    BY <2>1, <2>2 DEF Plain, graph, EdgesOK
<1> QED
  BY <1>1, <1>2, <1>3

LEMMA PlainStep ==
    ASSUME WTInv, StateOK', NEW t \in Threads, Plain(t),
           PlaceOK(t)', SearchOK(t)', SleepOK(t)',
           \A r \in Resources : readers'[r] = readers[r] - Cardinality(Slots(t, r))
                                                         + Cardinality(Slots(t, r)')
    PROVE  WTInv'
  BY PlainKeeps, Step

(* Outside of a search nothing is locked.                                  *)
LEMMA NoSlots ==
    ASSUME WTInv, NEW t \in Threads, pc[t] \notin Searching, NEW r \in Resources
    PROVE  loc[t].stack = <<>> /\ Slots(t, r) = {}
<1>1. loc[t].stack = <<>>
  BY DEF WTInv, SearchOK, Searching
<1> QED
  BY <1>1 DEF Slots, KeptFor, Searching

LEMMA QuietStep ==
    ASSUME WTInv, StateOK', NEW t \in Threads, Plain(t), UNCHANGED readers,
           pc[t] \notin Searching, pc'[t] \notin Searching, loc'[t].stack = <<>>,
           PlaceOK(t)', SleepOK(t)'
    PROVE  WTInv'
<1>1. SearchOK(t)'
  BY DEF SearchOK, Searching, FrameOK
<1>2. ASSUME NEW r \in Resources
      PROVE  readers'[r] = readers[r] - Cardinality(Slots(t, r)) + Cardinality(Slots(t, r)')
  <2>1. Slots(t, r) = {}
    BY NoSlots
  <2>2. Slots(t, r)' = {}
    BY DEF Slots, KeptFor, Searching
  <2>3. readers[r] \in Int
    BY DEF WTInv, StateOK
  <2> QED
    BY <2>1, <2>2, <2>3, FS_EmptySet
<1> QED
  BY <1>1, <1>2, PlainStep

LEMMA DeclareStep ==
    ASSUME WTInv, NEW t \in Threads, Declare(t)
    PROVE  WTInv'
<1>1. StateOK /\ PlaceOK(t)
  BY DEF WTInv
<1>2. PICK b \in Threads \ ({t} \cup loc[t].declared), i \in WaitsOn(t) :
         /\ \/ pc[t] = "idle" /\ waits < MaxWaits /\ waits' = waits + 1
            \/ pc[t] = "declared" /\ i = loc[t].id /\ UNCHANGED waits
         /\ i \notin WaitsOn(b)
         /\ lock[b] = Nobody
         /\ lock' = [lock EXCEPT ![b] = t]
         /\ loc' = [loc EXCEPT ![t].blocker = b, ![t].id = i]
         /\ Goto(t, IF waiting_for[t] = Nobody THEN "search_hash" ELSE "register")
         /\ UNCHANGED <<graph, readers, killed, weight, pin, mutex>>
  BY DEF Declare
<1>3. i \in Ids
  BY WTAssumption
<1>4. loc[t] \in Locals /\ loc'[t] = [loc[t] EXCEPT !.blocker = b, !.id = i]
  BY <1>1, <1>2 DEF StateOK
<1>5. /\ loc'[t] \in Locals /\ \A u \in Threads \ {t} : loc'[u] = loc[u]
      /\ loc'[t].blocker = b /\ loc'[t].id = i /\ loc'[t].released = loc[t].released
      /\ pc'[t] = IF waiting_for[t] = Nobody THEN "search_hash" ELSE "register"
  <2>1. /\ loc'[t] \in Locals /\ loc'[t].blocker = b /\ loc'[t].id = i
        /\ loc'[t].released = loc[t].released
    BY <1>3, <1>4 DEF Locals
  <2>2. /\ \A u \in Threads \ {t} : loc'[u] = loc[u]
        /\ pc'[t] = IF waiting_for[t] = Nobody THEN "search_hash" ELSE "register"
    BY <1>1, <1>2 DEF StateOK, Goto
  <2> QED
    BY <2>1, <2>2
<1>6. StateOK'
  BY <1>1, <1>2, <1>5, WTAssumption DEF StateOK, Goto, graph, Places
<1>7. loc[t].stack = <<>>
  BY <1>2, NoSlots DEF WTInv, SearchOK
<1>8. Plain(t)
  <2>1. loc'[t].released = loc[t].released
    BY <1>4 DEF Locals
  <2>2. \A u \in Threads \ {t}, x \in Threads : lock[x] = u => lock'[x] = u
    BY <1>1, <1>2, WTAssumption DEF StateOK
  <2> QED
    BY <1>1, <1>2, <1>5, <2>1, <2>2 DEF Plain, Goto, StateOK, Deleting
<1>9. PlaceOK(t)'
  <2>1. /\ lock'[b] = t /\ UNCHANGED <<waiting_for, pin, rcid, my_resources, mutex>>
    BY <1>1, <1>2 DEF StateOK, graph
  <2>2. /\ loc[t].released = {}
        /\ waiting_for[t] # Nobody => i = loc[t].id /\ rcid[waiting_for[t]] = loc[t].id
    BY <1>1, <1>2 DEF PlaceOK, Releasing
  <2>3. pc'[t] \notin Searching \cup Releasing
    BY <1>5 DEF Searching, Releasing
  <2> QED
    BY <1>2, <1>3, <1>5, <2>1, <2>2, <2>3 DEF PlaceOK
<1>10. SleepOK(t)'
  BY <1>1, <1>2 DEF SleepOK, Goto, StateOK
<1>11. UNCHANGED readers /\ pc[t] \notin Searching /\ pc'[t] \notin Searching
       /\ loc'[t].stack = <<>>
  BY <1>1, <1>2, <1>4, <1>7 DEF Goto, StateOK, Searching, Locals
<1> QED
  BY <1>6, <1>8, <1>9, <1>10, <1>11, QuietStep

LEMMA SearchHashStep ==
    ASSUME WTInv, NEW t \in Threads, SearchHash(t)
    PROVE  WTInv'
<1>1. StateOK /\ PlaceOK(t) /\ HashOK
  BY DEF WTInv
<1>2. hash[loc[t].id] \in Resources \cup {Nobody} /\ loc[t].id \in Ids
  BY <1>1 DEF SearchHash, PlaceOK, StateOK
<1>3. StateOK'
  BY <1>1, <1>2 DEF StateOK, SearchHash, Goto, graph, Places
<1>4. Plain(t)
  BY <1>1 DEF Plain, SearchHash, Goto, StateOK, Deleting
<1>5. PlaceOK(t)'
  BY <1>1, <1>2, WTAssumption
     DEF PlaceOK, SearchHash, HashOK, Goto, StateOK, Searching, Releasing, graph
<1>6. SleepOK(t)'
  BY <1>1 DEF SleepOK, SearchHash, Goto, StateOK
<1>7. /\ UNCHANGED <<readers, loc>> /\ pc[t] \notin Searching /\ pc'[t] \notin Searching
  BY <1>1 DEF SearchHash, Goto, StateOK, Searching
<1>8. loc'[t].stack = <<>>
  BY <1>7, NoSlots DEF WTInv, SearchOK, Searching
<1> QED
  BY <1>3, <1>4, <1>5, <1>6, <1>7, <1>8, QuietStep

LEMMA RegisterRetryStep ==
    ASSUME WTInv, NEW t \in Threads, RegisterRetry(t)
    PROVE  WTInv'
<1>1. StateOK /\ PlaceOK(t)
  BY DEF WTInv
<1>2. StateOK'
  BY <1>1 DEF StateOK, RegisterRetry, Goto, graph, Places
<1>3. Plain(t)
  BY <1>1 DEF Plain, RegisterRetry, Goto, StateOK, Deleting
<1>4. PlaceOK(t)'
  BY <1>1, WTAssumption
     DEF PlaceOK, RegisterRetry, Goto, StateOK, Searching, Releasing, graph
<1>5. SleepOK(t)'
  BY <1>1 DEF SleepOK, RegisterRetry, Goto, StateOK
<1>6. UNCHANGED <<readers, loc>> /\ pc[t] \notin Searching /\ pc'[t] \notin Searching
  BY <1>1 DEF RegisterRetry, Goto, StateOK, Searching
<1>7. loc'[t].stack = <<>>
  BY <1>6, NoSlots DEF WTInv, SearchOK, Searching
<1> QED
  BY <1>2, <1>3, <1>4, <1>5, <1>6, <1>7, QuietStep

LEMMA TimedWaitStep ==
    ASSUME WTInv, NEW t \in Threads, TimedWait(t)
    PROVE  WTInv'
<1>1. StateOK /\ PlaceOK(t)
  BY DEF WTInv
<1>2. StateOK'
  BY <1>1 DEF StateOK, TimedWait, Goto, graph, Places
<1>3. Plain(t)
  BY <1>1, WTAssumption DEF Plain, TimedWait, Goto, StateOK, Deleting
<1>4. PlaceOK(t)'
  BY <1>1, WTAssumption DEF PlaceOK, TimedWait, Goto, StateOK, Searching, Releasing, graph
<1>5. SleepOK(t)'
  BY <1>1 DEF SleepOK, TimedWait, Goto, StateOK
<1>6. UNCHANGED <<readers, loc>> /\ pc[t] \notin Searching /\ pc'[t] \notin Searching
  BY <1>1 DEF TimedWait, Goto, StateOK, Searching
<1>7. loc'[t].stack = <<>>
  BY <1>6, NoSlots DEF WTInv, SearchOK, Searching
<1> QED
  BY <1>2, <1>3, <1>4, <1>5, <1>6, <1>7, QuietStep

LEMMA CheckOwnersStep ==
    ASSUME WTInv, NEW t \in Threads, CheckOwners(t)
    PROVE  WTInv'
<1>1. StateOK /\ PlaceOK(t)
  BY DEF WTInv
<1>2. PICK v \in {"OK", "TIMEOUT"} :
         /\ loc' = [loc EXCEPT ![t].ret = v]
         /\ v = IF owners[waiting_for[t]] = <<>> THEN "OK" ELSE "TIMEOUT"
  BY DEF CheckOwners
<1>3. loc[t] \in Locals /\ loc'[t] = [loc[t] EXCEPT !.ret = v]
  BY <1>1, <1>2 DEF StateOK
<1>4. loc'[t] \in Locals /\ \A u \in Threads \ {t} : loc'[u] = loc[u]
  BY <1>1, <1>2, <1>3 DEF StateOK, Locals
<1>5. StateOK'
  BY <1>1, <1>2, <1>4 DEF StateOK, CheckOwners, Goto, graph, Places
<1>6. loc'[t].released = loc[t].released /\ loc'[t].stack = loc[t].stack
      /\ loc'[t].ret = v /\ loc'[t].id = loc[t].id
  BY <1>3 DEF Locals
<1>7. Plain(t)
  BY <1>1, <1>4, <1>6 DEF Plain, CheckOwners, Goto, StateOK, Deleting
<1>8. PlaceOK(t)'
  BY <1>1, <1>6, WTAssumption DEF PlaceOK, CheckOwners, Goto, StateOK, Searching, Releasing, graph
<1>9. SleepOK(t)'
  BY <1>1, <1>2, <1>6 DEF SleepOK, CheckOwners, Goto, StateOK, graph
<1>10. UNCHANGED readers /\ pc[t] \notin Searching /\ pc'[t] \notin Searching
  BY <1>1 DEF CheckOwners, Goto, StateOK, Searching
<1>11. loc'[t].stack = <<>>
  BY <1>6, <1>10, NoSlots DEF WTInv, SearchOK, Searching
<1> QED
  BY <1>5, <1>7, <1>8, <1>9, <1>10, <1>11, QuietStep

LEMMA TestKilledStep ==
    ASSUME WTInv, NEW t \in Threads, TestKilled(t)
    PROVE  WTInv'
<1>1. StateOK /\ PlaceOK(t) /\ SleepOK(t)
  BY DEF WTInv
<1>2. StateOK'
  BY <1>1 DEF StateOK, TestKilled, Goto, graph, Places
<1>3. Plain(t)
  BY <1>1 DEF Plain, TestKilled, Goto, StateOK, Deleting
<1>4. PlaceOK(t)'
  BY <1>1 DEF PlaceOK, TestKilled, Goto, StateOK, Searching, Releasing, graph
<1>5. SleepOK(t)'
  BY <1>1 DEF SleepOK, TestKilled, Goto, StateOK, graph
<1>6. UNCHANGED <<readers, loc>> /\ pc[t] \notin Searching /\ pc'[t] \notin Searching
  BY <1>1 DEF TestKilled, Goto, StateOK, Searching
<1>7. loc'[t].stack = <<>>
  BY <1>6, NoSlots DEF WTInv, SearchOK, Searching
<1> QED
  BY <1>2, <1>3, <1>4, <1>5, <1>6, <1>7, QuietStep

LEMMA BlockStep ==
    ASSUME WTInv, NEW t \in Threads, Block(t)
    PROVE  WTInv'
<1>1. StateOK /\ PlaceOK(t) /\ SleepOK(t)
  BY DEF WTInv
<1>2. StateOK'
  BY <1>1 DEF StateOK, Block, Goto, graph, Places
<1>3. Plain(t)
  BY <1>1 DEF Plain, Block, Goto, StateOK, Deleting, PlaceOK
<1>4. PlaceOK(t)'
  BY <1>1 DEF PlaceOK, Block, Goto, StateOK, Searching, Releasing, graph
<1>5. SleepOK(t)'
  BY <1>1 DEF SleepOK, Block, Goto, StateOK, graph
<1>6. UNCHANGED <<readers, loc>> /\ pc[t] \notin Searching /\ pc'[t] \notin Searching
  BY <1>1 DEF Block, Goto, StateOK, Searching
<1>7. loc'[t].stack = <<>>
  BY <1>6, NoSlots DEF WTInv, SearchOK, Searching
<1> QED
  BY <1>2, <1>3, <1>4, <1>5, <1>6, <1>7, QuietStep

LEMMA IdleLocals == Idle \in Locals
<1>1. <<>> \in Seq(Frame)
  OBVIOUS
<1> QED
  BY <1>1 DEF Idle, Locals

LEMMA StoppedStep ==
    ASSUME WTInv, NEW t \in Threads, Stopped(t)
    PROVE  WTInv'
<1>1. StateOK /\ PlaceOK(t)
  BY DEF WTInv
<1>2. loc'[t] = Idle /\ \A u \in Threads \ {t} : loc'[u] = loc[u]
  BY <1>1 DEF StateOK, Stopped
<1>3. StateOK'
  BY <1>1, IdleLocals DEF StateOK, Stopped, Goto, graph, Places
<1>4. Idle.stack = <<>> /\ Idle.released = {}
  BY DEF Idle
<1>5. Plain(t)
  BY <1>1, <1>2, <1>4 DEF Plain, Stopped, Goto, StateOK, Deleting, PlaceOK, Releasing
<1>6. PlaceOK(t)'
  BY <1>1, <1>2, <1>4 DEF PlaceOK, Stopped, Goto, StateOK, Searching, Releasing, graph
<1>7. SleepOK(t)'
  BY <1>1 DEF SleepOK, Stopped, Goto, StateOK
<1>8. UNCHANGED readers /\ pc[t] \notin Searching /\ pc'[t] \notin Searching
  BY <1>1 DEF Stopped, Goto, StateOK, Searching
<1> QED
  BY <1>2, <1>3, <1>4, <1>5, <1>6, <1>7, <1>8, QuietStep

LEMMA ReleaseLockStep ==
    ASSUME WTInv, NEW t \in Threads, ReleaseLock(t)
    PROVE  WTInv'
<1>1. StateOK /\ PlaceOK(t)
  BY DEF WTInv
<1>2. StateOK'
  BY <1>1 DEF StateOK, ReleaseLock, Goto, graph, Places
<1>3. Plain(t)
  BY <1>1, WTAssumption DEF Plain, ReleaseLock, Goto, StateOK, Deleting
<1>4. PlaceOK(t)'
  BY <1>1 DEF PlaceOK, ReleaseLock, Goto, StateOK, Searching, Releasing, graph
<1>5. SleepOK(t)'
  BY <1>1 DEF SleepOK, ReleaseLock, Goto, StateOK
<1>6. UNCHANGED <<readers, loc>> /\ pc[t] \notin Searching /\ pc'[t] \notin Searching
  BY <1>1 DEF ReleaseLock, Goto, StateOK, Searching
<1>7. loc'[t].stack = <<>>
  BY <1>6, NoSlots DEF WTInv, SearchOK, Searching
<1> QED
  BY <1>2, <1>3, <1>4, <1>5, <1>6, <1>7, QuietStep

LEMMA ReleaseMutexStep ==
    ASSUME WTInv, NEW t \in Threads, ReleaseMutex(t)
    PROVE  WTInv'
<1>1. StateOK /\ PlaceOK(t)
  BY DEF WTInv
<1>2. PICK rs \in {my_resources[t]} \cup {{r} : r \in my_resources[t]} :
         loc' = [loc EXCEPT ![t].todo = rs, ![t].released = {}]
  BY DEF ReleaseMutex
<1>3. rs \subseteq my_resources[t] /\ rs \subseteq Resources
  BY <1>1, <1>2 DEF StateOK
<1>4. loc[t] \in Locals /\ loc'[t] = [loc[t] EXCEPT !.todo = rs, !.released = {}]
  BY <1>1, <1>2 DEF StateOK
<1>5. loc'[t] \in Locals /\ \A u \in Threads \ {t} : loc'[u] = loc[u]
  BY <1>1, <1>2, <1>3, <1>4 DEF StateOK, Locals
<1>6. StateOK'
  BY <1>1, <1>2, <1>5 DEF StateOK, ReleaseMutex, Goto, graph, Places
<1>7. loc'[t].released = {} /\ loc'[t].stack = loc[t].stack /\ loc'[t].todo = rs
  BY <1>4 DEF Locals
<1>8. Plain(t)
  BY <1>1, <1>5, <1>7, WTAssumption
     DEF Plain, ReleaseMutex, Goto, StateOK, Deleting, PlaceOK, Releasing
<1>9. PlaceOK(t)'
  BY <1>1, <1>3, <1>7 DEF PlaceOK, ReleaseMutex, Goto, StateOK, Searching, Releasing, graph
<1>10. SleepOK(t)'
  BY <1>1 DEF SleepOK, ReleaseMutex, Goto, StateOK
<1>11. UNCHANGED readers /\ pc[t] \notin Searching /\ pc'[t] \notin Searching
  BY <1>1 DEF ReleaseMutex, Goto, StateOK, Searching
<1>12. loc'[t].stack = <<>>
  BY <1>7, <1>11, NoSlots DEF WTInv, SearchOK, Searching
<1> QED
  BY <1>6, <1>8, <1>9, <1>10, <1>11, <1>12, QuietStep

(* The steps of a search.  What t has locked, as a number.                 *)
Count(l, p, K, r) ==
    Cardinality(FramesOf(l.stack, r)) + (IF p = "return" /\ l.last = r THEN 1 ELSE 0)
                                      + (IF r \in K THEN 1 ELSE 0)

LEMMA UnlockedProperties ==
    ASSUME NEW rs \in [Resources -> Int], NEW r \in Resources \cup {Nobody}
    PROVE  /\ Unlocked(rs, r) \in [Resources -> Int]
           /\ \A x \in Resources : Unlocked(rs, r)[x] = rs[x] - (IF r = x THEN 1 ELSE 0)
<1>1. Nobody \notin Resources
  BY WTAssumption
<1> QED
  BY <1>1 DEF Unlocked

LEMMA SearchStep ==
    ASSUME WTInv, StateOK', NEW t \in Threads, Plain(t),
           PlaceOK(t)', SearchOK(t)', SleepOK(t)',
           \A r \in Resources : readers'[r] = readers[r] - Count(loc[t], pc[t], KeptFor(t), r)
                                                + Count(loc'[t], pc'[t], KeptFor(t)', r)
    PROVE  WTInv'
<1>1. loc[t] \in Locals /\ loc'[t] \in Locals
  BY DEF WTInv, StateOK
<1>2. ASSUME NEW r \in Resources
      PROVE  readers'[r] = readers[r] - Cardinality(Slots(t, r)) + Cardinality(Slots(t, r)')
  <2>1. Slots(t, r) = SlotsOf(loc[t], pc[t], KeptFor(t), r)
    BY DEF Slots, SlotsOf, FramesOf
  <2>2. Slots(t, r)' = SlotsOf(loc'[t], pc'[t], KeptFor(t)', r)
    BY DEF Slots, SlotsOf, FramesOf
  <2>3. Cardinality(Slots(t, r)) = Count(loc[t], pc[t], KeptFor(t), r)
    BY <1>1, <2>1, SlotCount DEF Count
  <2>4. Cardinality(Slots(t, r)') = Count(loc'[t], pc'[t], KeptFor(t)', r)
    BY <1>1, <2>2, SlotCount DEF Count
  <2> QED
    BY <2>3, <2>4
<1> QED
  BY <1>2, PlainStep

LEMMA FrameCount ==
    ASSUME NEW l \in Locals, NEW r
    PROVE  Cardinality(FramesOf(l.stack, r)) \in Nat
  BY FramesFinite DEF Locals

(* A step of the search that leaves its path alone.                        *)
LEMMA PathKept ==
    ASSUME NEW t \in Threads, SearchOK(t), UNCHANGED graph,
           pc[t] \in {"search", "locked"}, pc'[t] \in {"search", "locked", "return"},
           loc'[t].stack = loc[t].stack, loc'[t].base = loc[t].base,
           loc'[t].cursor = loc[t].cursor, loc'[t].blocker = loc[t].blocker,
           pc'[t] = "locked" => pin'[t] # Nobody,
           pc'[t] = "return" => loc'[t].last = Nobody /\ loc'[t].ret # "DEADLOCK"
    PROVE  SearchOK(t)'
<1>1. UNCHANGED <<owners, waiting_for>>
  BY DEF graph
<1>2. \A k \in 1..Len(loc[t].stack) : FrameOK(t, k)'
  BY <1>1 DEF SearchOK, FrameOK
<1>3. Root(t)' = Root(t)
  BY DEF Root
<1> QED
  BY <1>1, <1>2, <1>3 DEF SearchOK

LEMMA SearchTooDeepStep ==
    ASSUME WTInv, NEW t \in Threads, SearchTooDeep(t)
    PROVE  WTInv'
<1>1. StateOK /\ PlaceOK(t) /\ SearchOK(t)
  BY DEF WTInv
<1>2. loc[t] \in Locals /\ loc'[t] = [loc[t] EXCEPT !.last = Nobody, !.ret = "DEPTH_EXCEEDED"]
      /\ pc[t] = "search" /\ pc'[t] = "return"
  BY <1>1 DEF StateOK, SearchTooDeep, Goto
<1>3. /\ loc'[t] \in Locals
      /\ \A u \in Threads \ {t} : loc'[u] = loc[u]
  BY <1>1, <1>2 DEF StateOK, Locals, SearchTooDeep
<1>4. /\ loc'[t].stack = loc[t].stack /\ loc'[t].last = Nobody /\ loc'[t].ret = "DEPTH_EXCEEDED"
      /\ loc'[t].released = loc[t].released /\ loc'[t].base = loc[t].base
      /\ loc'[t].cursor = loc[t].cursor /\ loc'[t].blocker = loc[t].blocker
      /\ loc'[t].id = loc[t].id
  BY <1>2 DEF Locals
<1>5. StateOK'
  BY <1>1, <1>3 DEF StateOK, SearchTooDeep, Goto, graph, Places
<1>6. Plain(t)
  BY <1>1, <1>3, <1>4 DEF Plain, SearchTooDeep, Goto, StateOK, Deleting
<1>7. PlaceOK(t)'
  BY <1>1, <1>2, <1>4 DEF PlaceOK, SearchTooDeep, StateOK, Searching, Releasing, graph
<1>8. SearchOK(t)'
  BY <1>1, <1>2, <1>4, PathKept DEF SearchTooDeep
<1>9. SleepOK(t)'
  <2>1. loc[t].base = 0 => loc[t].stack # <<>>
    BY WTAssumption DEF SearchTooDeep, TooDeep, Depth, MaxDepth
  <2> QED
    BY <1>2, <1>4, <2>1 DEF SleepOK
<1>10. KeptFor(t) = {} /\ KeptFor(t)' = {}
  BY <1>2, <1>4 DEF KeptFor
<1>11. ASSUME NEW r \in Resources
       PROVE  readers'[r] = readers[r] - Count(loc[t], pc[t], KeptFor(t), r)
                              + Count(loc'[t], pc'[t], KeptFor(t)', r)
  <2>1. readers'[r] = readers[r] /\ readers[r] \in Int /\ r # Nobody
    BY <1>1, WTAssumption DEF StateOK, SearchTooDeep
  <2>2. Cardinality(FramesOf(loc[t].stack, r)) \in Nat
    BY <1>2, FrameCount
  <2> QED
    BY <1>2, <1>4, <1>10, <2>1, <2>2 DEF Count
<1> QED
  BY <1>5, <1>6, <1>7, <1>8, <1>9, <1>11, SearchStep

LEMMA SearchPinStep ==
    ASSUME WTInv, NEW t \in Threads, SearchPin(t)
    PROVE  WTInv'
<1>1. StateOK /\ PlaceOK(t) /\ SearchOK(t)
  BY DEF WTInv
<1>2. loc[t].cursor \in Threads /\ waiting_for[loc[t].cursor] \in Resources \cup {Nobody}
  BY <1>1 DEF StateOK, SearchOK, SearchPin, Locals
<1>3. /\ loc[t] \in Locals /\ loc'[t] = [loc[t] EXCEPT !.last = Nobody, !.ret = "OK"]
      /\ pin'[t] = waiting_for[loc[t].cursor]
      /\ pc[t] = "search" /\ pc'[t] = IF pin'[t] = Nobody THEN "return" ELSE "locked"
  BY <1>1 DEF StateOK, SearchPin, Goto
<1>4. /\ loc'[t] \in Locals
      /\ \A u \in Threads \ {t} : loc'[u] = loc[u]
  BY <1>1, <1>3 DEF StateOK, Locals, SearchPin
<1>5. /\ loc'[t].stack = loc[t].stack /\ loc'[t].last = Nobody /\ loc'[t].ret = "OK"
      /\ loc'[t].released = loc[t].released /\ loc'[t].base = loc[t].base
      /\ loc'[t].cursor = loc[t].cursor /\ loc'[t].blocker = loc[t].blocker
      /\ loc'[t].id = loc[t].id
  BY <1>3 DEF Locals
<1>6. StateOK'
  BY <1>1, <1>2, <1>4 DEF StateOK, SearchPin, Goto, graph, Places
<1>7. Plain(t)
  BY <1>1, <1>4, <1>5 DEF Plain, SearchPin, Goto, StateOK, Deleting
<1>8. PlaceOK(t)'
  BY <1>1, <1>3, <1>5 DEF PlaceOK, SearchPin, StateOK, Searching, Releasing, graph
<1>9. SearchOK(t)'
  BY <1>1, <1>3, <1>5, PathKept DEF SearchPin
<1>10. SleepOK(t)'
  <2>1. loc[t].base = 0 /\ loc[t].stack = <<>> => waiting_for[loc[t].cursor] # Nobody
    BY <1>1, <1>3 DEF SearchOK, Root, PlaceOK, Searching
  <2> QED
    BY <1>3, <1>5, <2>1 DEF SleepOK
<1>11. KeptFor(t) = {} /\ KeptFor(t)' = {}
  BY <1>3, <1>5 DEF KeptFor
<1>12. ASSUME NEW r \in Resources
       PROVE  readers'[r] = readers[r] - Count(loc[t], pc[t], KeptFor(t), r)
                              + Count(loc'[t], pc'[t], KeptFor(t)', r)
  <2>1. readers'[r] = readers[r] /\ readers[r] \in Int /\ r # Nobody
    BY <1>1, WTAssumption DEF StateOK, SearchPin
  <2>2. Cardinality(FramesOf(loc[t].stack, r)) \in Nat
    BY <1>3, FrameCount
  <2> QED
    BY <1>3, <1>5, <1>11, <2>1, <2>2 DEF Count
<1> QED
  BY <1>6, <1>7, <1>8, <1>9, <1>10, <1>12, SearchStep

LEMMA SearchRetryStep ==
    ASSUME WTInv, NEW t \in Threads, SearchRetry(t)
    PROVE  WTInv'
<1>1. StateOK /\ PlaceOK(t) /\ SearchOK(t)
  BY DEF WTInv
<1>2. loc[t] \in Locals /\ loc' = loc /\ pc[t] = "locked" /\ pc'[t] = "search"
  BY <1>1 DEF StateOK, SearchRetry, Goto
<1>3. StateOK'
  BY <1>1 DEF StateOK, SearchRetry, Goto, graph, Places
<1>4. Plain(t)
  BY <1>1 DEF Plain, SearchRetry, Goto, StateOK, Deleting
<1>5. PlaceOK(t)'
  BY <1>1, <1>2 DEF PlaceOK, SearchRetry, StateOK, Searching, Releasing, graph
<1>6. SearchOK(t)'
  BY <1>1, <1>2, PathKept DEF SearchRetry
<1>7. SleepOK(t)'
  BY <1>2 DEF SleepOK
<1>8. KeptFor(t) = {} /\ KeptFor(t)' = {}
  BY <1>2 DEF KeptFor
<1>9. ASSUME NEW r \in Resources
      PROVE  readers'[r] = readers[r] - Count(loc[t], pc[t], KeptFor(t), r)
                             + Count(loc'[t], pc'[t], KeptFor(t)', r)
  <2>1. readers'[r] = readers[r] /\ readers[r] \in Int
    BY <1>1 DEF StateOK, SearchRetry
  <2>2. Cardinality(FramesOf(loc[t].stack, r)) \in Nat
    BY <1>2, FrameCount
  <2> QED
    BY <1>2, <1>8, <2>1, <2>2 DEF Count
<1> QED
  BY <1>3, <1>4, <1>5, <1>6, <1>7, <1>9, SearchStep

LEMMA AwakeStep ==
    ASSUME WTInv, NEW t \in Threads, Awake(t)
    PROVE  WTInv'
<1>1. StateOK /\ PlaceOK(t)
  BY DEF WTInv
<1>2. PICK timeout \in BOOLEAN :
        LET again == timeout /\ ~killed[t] /\ ~loc[t].long
        IN  /\ loc' = [loc EXCEPT ![t] =
                         IF again THEN [@ EXCEPT !.base = 0, !.cursor = t]
                         ELSE [@ EXCEPT !.ret = IF timeout THEN "TIMEOUT" ELSE "OK"]]
            /\ Goto(t, IF again THEN "search" ELSE "stop")
  BY DEF Awake
<1> DEFINE again == timeout /\ ~killed[t] /\ ~loc[t].long
<1>3. /\ loc[t] \in Locals
      /\ loc'[t] = IF again THEN [loc[t] EXCEPT !.base = 0, !.cursor = t]
                   ELSE [loc[t] EXCEPT !.ret = IF timeout THEN "TIMEOUT" ELSE "OK"]
      /\ pc'[t] = IF again THEN "search" ELSE "stop"
      /\ \A u \in Threads \ {t} : pc'[u] = pc[u] /\ loc'[u] = loc[u]
  BY <1>1, <1>2 DEF StateOK, Goto
<1>4. loc'[t] \in Locals
  <2>1. CASE again
    BY <1>3, <2>1 DEF Locals
  <2>2. CASE ~again
    <3>1. PICK r \in {"TIMEOUT", "OK"} : loc'[t] = [loc[t] EXCEPT !.ret = r]
      BY <1>3, <2>2
    <3> QED
      BY <1>3, <3>1 DEF Locals
  <2> QED
    BY <2>1, <2>2
<1>5. /\ loc'[t].stack = loc[t].stack /\ loc'[t].released = loc[t].released
      /\ loc'[t].id = loc[t].id /\ again => loc'[t].base = 0 /\ loc'[t].cursor = t
  BY <1>3 DEF Locals
<1> HIDE DEF again
<1>6. /\ UNCHANGED <<graph, readers, killed, weight, pin, lock, waits>>
      /\ mutex = Nobody /\ mutex' = t /\ pc[t] \in {"asleep", "woken"}
  BY DEF Awake
<1>7. StateOK'
  <2>1. loc' \in [Threads -> Locals] /\ pc' \in [Threads -> Places]
    BY <1>1, <1>2, <1>3, <1>4 DEF StateOK, Goto, Places
  <2> QED
    BY <1>1, <1>6, <2>1 DEF StateOK, graph
<1>8. Plain(t)
  BY <1>3, <1>5, <1>6, WTAssumption DEF Plain, Deleting
<1>9. PlaceOK(t)'
  BY <1>1, <1>3, <1>5, <1>6 DEF PlaceOK, Searching, Releasing, graph
<1>10. SleepOK(t)'
  BY <1>3 DEF SleepOK
<1>11. loc[t].stack = <<>>
  BY <1>6, NoSlots DEF WTInv, SearchOK, Searching
<1>12. SearchOK(t)'
  <2>1. \A k \in 1..Len(<<>>) : FALSE
    OBVIOUS
  <2> QED
    BY <1>3, <1>5, <1>11, <2>1, WTAssumption DEF SearchOK, Root
<1>13. KeptFor(t) = {} /\ KeptFor(t)' = {}
  BY <1>3, <1>6 DEF KeptFor
<1>14. ASSUME NEW r \in Resources
       PROVE  readers'[r] = readers[r] - Count(loc[t], pc[t], KeptFor(t), r)
                              + Count(loc'[t], pc'[t], KeptFor(t)', r)
  <2>1. readers'[r] = readers[r] /\ readers[r] \in Int
    BY <1>1, <1>6 DEF StateOK
  <2>2. Cardinality(FramesOf(loc[t].stack, r)) \in Nat
    BY <1>3, FrameCount
  <2> QED
    BY <1>3, <1>5, <1>6, <1>13, <2>1, <2>2 DEF Count
<1> QED
  BY <1>7, <1>8, <1>9, <1>10, <1>12, <1>14, SearchStep

(* The owners of the resource of the blocker are looked at.  Either way    *)
(* the resource is locked once more, for the return or for the new frame.  *)
LEMMA SearchOwnersStep ==
    ASSUME WTInv, NEW t \in Threads, SearchOwners(t)
    PROVE  WTInv'
<1> DEFINE rc == pin[t]
           l == loc[t]
           f == [blocker |-> l.cursor, rc |-> rc, i |-> 1, ret |-> "OK"]
           Found == /\ t \in ToSet(owners[rc])
                    /\ loc' = [loc EXCEPT ![t].victim = t, ![t].ret = "DEADLOCK", ![t].last = rc]
                    /\ Goto(t, "return")
           None == /\ owners[rc] = <<>>
                   /\ loc' = [loc EXCEPT ![t].ret = "OK", ![t].last = rc]
                   /\ Goto(t, "return")
           Down == /\ owners[rc] # <<>> /\ t \notin ToSet(owners[rc])
                   /\ loc' = [loc EXCEPT ![t].stack = Append(@, f), ![t].cursor = owners[rc][1]]
                   /\ Goto(t, "search")
<1>1. StateOK /\ PlaceOK(t) /\ SearchOK(t)
  BY DEF WTInv
<1>2. /\ pc[t] = "locked" /\ waiting_for[l.cursor] = rc
      /\ readers' = [readers EXCEPT ![rc] = @ + 1]
      /\ pin' = [pin EXCEPT ![t] = Nobody]
      /\ UNCHANGED <<graph, killed, weight, lock, mutex, waits>>
      /\ Found \/ None \/ Down
  BY DEF SearchOwners
<1>3. /\ rc \in Resources /\ l \in Locals /\ l.cursor \in Threads /\ l.stack \in Seq(Frame)
      /\ owners[rc] \in Seq(Threads)
  BY <1>1, <1>2 DEF StateOK, SearchOK, Locals
<1>4. f \in Frame
  BY <1>3 DEF Frame
<1>5. /\ Found => loc'[t] = [l EXCEPT !.victim = t, !.ret = "DEADLOCK", !.last = rc]
      /\ None => loc'[t] = [l EXCEPT !.ret = "OK", !.last = rc]
      /\ Down => loc'[t] = [l EXCEPT !.stack = Append(l.stack, f), !.cursor = owners[rc][1]]
      /\ \A u \in Threads \ {t} : loc'[u] = loc[u] /\ pc'[u] = pc[u] /\ pin'[u] = pin[u]
      /\ pc'[t] = IF Down THEN "search" ELSE "return"
  <2>1. loc \in [Threads -> Locals] /\ pc \in [Threads -> Places]
        /\ pin \in [Threads -> Resources \cup {Nobody}]
    BY <1>1 DEF StateOK
  <2>2. ~(Found /\ Down) /\ ~(None /\ Down)
    OBVIOUS
  <2> QED
    BY <1>2, <2>1, <2>2 DEF Goto
<1>6. /\ owners[rc] # <<>> => owners[rc][1] \in Threads /\ Len(owners[rc]) \in Nat \ {0}
      /\ Found => owners[rc] # <<>> /\ ~Down /\ ~None
      /\ None => ~Down
      /\ Down => owners[rc] # <<>> /\ t \notin ToSet(owners[rc])
  BY <1>3, EmptyList
<1>16. loc' = [loc EXCEPT ![t] = loc'[t]] /\ pc' = [pc EXCEPT ![t] = pc'[t]]
  BY <1>1, <1>2 DEF StateOK, Goto
<1> HIDE DEF f, Found, None, Down
<1>7. loc'[t] \in Locals
  <2>1. CASE Found
    BY <1>3, <1>5, <2>1 DEF Locals
  <2>2. CASE None
    BY <1>3, <1>5, <2>2 DEF Locals
  <2>3. CASE Down
    <3>1. Append(l.stack, f) \in Seq(Frame) /\ owners[rc][1] \in Threads
      BY <1>3, <1>4, <1>6, <2>3
    <3>2. loc'[t] = [l EXCEPT !.stack = Append(l.stack, f), !.cursor = owners[rc][1]]
      BY <1>5, <2>3
    <3> QED
      BY <1>3, <3>1, <3>2 DEF Locals
  <2> QED
    BY <1>2, <2>1, <2>2, <2>3
<1>8. /\ loc'[t].released = l.released /\ loc'[t].base = l.base /\ loc'[t].blocker = l.blocker
      /\ loc'[t].id = l.id
      /\ ~Down => /\ loc'[t].stack = l.stack /\ loc'[t].cursor = l.cursor /\ loc'[t].last = rc
                  /\ IF Found THEN loc'[t].ret = "DEADLOCK" /\ loc'[t].victim = t
                     ELSE loc'[t].ret = "OK"
      /\ Down => loc'[t].stack = Append(l.stack, f) /\ loc'[t].cursor = owners[rc][1]
  <2>1. CASE Found
    <3>1. loc'[t] = [l EXCEPT !.ret = "DEADLOCK", !.victim = t, !.last = rc] /\ ~Down
      BY <1>5, <1>6, <2>1
    <3> QED
      BY <1>3, <2>1, <3>1 DEF Locals
  <2>2. CASE None
    <3>1. loc'[t] = [l EXCEPT !.ret = "OK", !.last = rc] /\ ~Down /\ ~Found
      BY <1>5, <1>6, <2>2
    <3> QED
      BY <1>3, <3>1 DEF Locals
  <2>3. CASE Down
    <3>1. loc'[t] = [l EXCEPT !.stack = Append(l.stack, f), !.cursor = owners[rc][1]]
      BY <1>5, <2>3
    <3> QED
      BY <1>3, <2>3, <3>1 DEF Locals
  <2> QED
    BY <1>2, <2>1, <2>2, <2>3
<1>9. StateOK'
  <2>1. loc' \in [Threads -> Locals]
    BY <1>1, <1>7, <1>16 DEF StateOK
  <2>2. pc' \in [Threads -> Places]
    BY <1>1, <1>5, <1>16 DEF StateOK, Places
  <2>3. readers' \in [Resources -> Int] /\ pin' \in [Threads -> Resources \cup {Nobody}]
    BY <1>1, <1>2, <1>3 DEF StateOK
  <2>4. UNCHANGED <<graph, killed, weight, lock, mutex, waits>>
    BY <1>2
  <2> QED
    BY <1>1, <2>1, <2>2, <2>3, <2>4 DEF StateOK, graph
<1>11. Plain(t)
  BY <1>2, <1>5, <1>8 DEF Plain, Deleting
<1>12. PlaceOK(t)'
  BY <1>1, <1>2, <1>5, <1>8 DEF PlaceOK, Searching, Releasing, graph
<1>13. SleepOK(t)'
  BY <1>2, <1>3, <1>5, <1>6, <1>8, WTAssumption DEF SleepOK, graph
<1>14. SearchOK(t)'
  <2>1. CASE ~Down
    <3>1. UNCHANGED <<owners, waiting_for>>
      BY <1>2 DEF graph
    <3>2. \A k \in 1..Len(l.stack) : FrameOK(t, k)'
      BY <1>1, <1>8, <2>1, <3>1 DEF SearchOK, FrameOK
    <3>3. waiting_for[t] # Nobody
      BY <1>1, <1>2 DEF PlaceOK, Searching
    <3>4. Root(t)' = Root(t)
      BY <1>8 DEF Root
    <3> QED
      BY <1>1, <1>2, <1>3, <1>5, <1>8, <2>1, <3>1, <3>2, <3>3, <3>4, WTAssumption DEF SearchOK
  <2>2. CASE Down
    <3>1. UNCHANGED <<owners, waiting_for>>
      BY <1>2 DEF graph
    <3>0. Len(l.stack) \in Nat
      BY <1>3
    <3> PICK n \in Nat : n = Len(l.stack)
      BY <3>0
    <3> DEFINE s == loc'[t].stack
    <3>2. /\ n \in Nat /\ Len(s) = n + 1 /\ s[n + 1] = f /\ \A k \in 1..n : s[k] = l.stack[k]
      BY <1>3, <1>4, <1>8, <2>2
    <3>3. f.blocker = l.cursor /\ f.rc = rc /\ f.i = 1
      BY DEF f
    <3>4. owners[rc] # <<>> /\ t \notin ToSet(owners[rc])
      BY <1>6, <2>2
    <3> HIDE DEF s
    <3>5. ASSUME NEW k \in 1..n PROVE FrameOK(t, k)'
      <4>1. FrameOK(t, k) /\ k # Len(s)
        BY <1>1, <3>2 DEF SearchOK
      <4>2. s[k] = l.stack[k] /\ (IF k = n THEN l.cursor ELSE l.stack[k + 1].blocker) = s[k + 1].blocker
        BY <3>2, <3>3
      <4> QED
        BY <3>1, <4>1, <4>2 DEF FrameOK, s
    <3>6. FrameOK(t, n + 1)'
      BY <1>2, <1>6, <1>8, <2>2, <3>1, <3>2, <3>3, <3>4 DEF FrameOK, s
    <3>7. \A k \in 1..Len(s) : FrameOK(t, k)'
      BY <3>2, <3>5, <3>6
    <3>8. s # <<>> /\ s[1].blocker = Root(t)
      <4>1. CASE n = 0
        <5>0. Len(l.stack) = 0 /\ n + 1 = 1
          BY <4>1
        <5>1. l.stack = <<>>
          BY <1>3, <5>0, EmptySeq
        <5>2. Root(t) = l.cursor
          BY <1>1, <1>2, <5>1 DEF SearchOK
        <5> QED
          <6>1. s[1] = f
            BY <3>2, <5>0, Zenon
          <6>2. s # <<>>
            BY <3>2, <5>0, EmptySeq
          <6> QED
            BY <3>3, <5>2, <6>1, <6>2
      <4>2. CASE n # 0
        <5>1. l.stack # <<>>
          BY <4>2
        <5>2. Root(t) = l.stack[1].blocker
          BY <1>1, <1>2, <5>1 DEF SearchOK
        <5> QED
          BY <3>2, <4>2, <5>2
      <4> QED
        BY <4>1, <4>2
    <3>9. Root(t)' = Root(t)
      BY <1>8 DEF Root
    <3>10. loc'[t].cursor # Nobody
      BY <1>6, <1>8, <2>2, <3>4, WTAssumption
    <3> QED
      BY <1>5, <2>2, <3>7, <3>8, <3>9, <3>10 DEF SearchOK, s
  <2> QED
    BY <2>1, <2>2
<1>15. ASSUME NEW r \in Resources
       PROVE  readers'[r] = readers[r] - Count(loc[t], pc[t], KeptFor(t), r)
                              + Count(loc'[t], pc'[t], KeptFor(t)', r)
  <2>1. KeptFor(t) = {} /\ KeptFor(t)' = {}
    BY <1>2, <1>5, <1>8 DEF KeptFor
  <2>2. readers[r] \in Int /\ readers'[r] = readers[r] + (IF rc = r THEN 1 ELSE 0)
    BY <1>1, <1>2 DEF StateOK
  <2>3. Cardinality(FramesOf(l.stack, r)) \in Nat
    BY <1>3, FrameCount
  <2>4. CASE ~Down
    BY <1>2, <1>5, <1>8, <2>1, <2>2, <2>3, <2>4 DEF Count
  <2>5. CASE Down
    <3>1. Cardinality(FramesOf(Append(l.stack, f), r))
            = Cardinality(FramesOf(l.stack, r)) + (IF f.rc = r THEN 1 ELSE 0)
      BY <1>3, <1>4, FramesPush
    <3>2. f.rc = rc
      BY DEF f
    <3>3. pc[t] = "locked" /\ pc'[t] = "search" /\ loc'[t].stack = Append(l.stack, f)
      BY <1>2, <1>5, <1>8, <2>5
    <3> QED
      BY <2>1, <2>2, <2>3, <3>1, <3>2, <3>3 DEF Count
  <2> QED
    BY <2>4, <2>5
<1> QED
  BY <1>9, <1>11, <1>12, <1>13, <1>14, <1>15, SearchStep

(* The innermost frame of the search of t.                                 *)
LEMMA TopFrame ==
    ASSUME WTInv, NEW t \in Threads, loc[t].stack # <<>>
    PROVE  LET f == Last(loc[t].stack)
           IN  /\ f \in Frame /\ f.rc \in Resources /\ f.blocker \in Threads /\ f.i \in Nat \ {0}
               /\ f.ret \in {"OK", "DEPTH_EXCEEDED"}
               /\ waiting_for[f.blocker] = f.rc
               /\ f.i <= Len(owners[f.rc]) /\ owners[f.rc] \in Seq(Threads)
               /\ owners[f.rc][f.i] = loc[t].cursor /\ t \notin ToSet(owners[f.rc])
               /\ loc[t].cursor # t /\ owners[f.rc] # <<>>
<1> DEFINE f == Last(loc[t].stack)
           n == Len(loc[t].stack)
<1>1. loc[t].stack \in Seq(Frame) /\ owners \in [Resources -> Seq(Threads)]
  BY DEF WTInv, StateOK, Locals
<1>2. f \in Frame /\ n \in Nat \ {0} /\ f = loc[t].stack[n]
  BY <1>1, FrontIsPop
<1>3. FrameOK(t, n)
  BY <1>2 DEF WTInv, SearchOK
<1> HIDE DEF n
<1>4. /\ waiting_for[f.blocker] = f.rc
      /\ f.i <= Len(owners[f.rc]) /\ t \notin ToSet(owners[f.rc])
      /\ owners[f.rc][f.i] = loc[t].cursor
  BY <1>2, <1>3 DEF FrameOK, n
<1> HIDE DEF f
<1>5. /\ f.rc \in Resources /\ f.blocker \in Threads /\ f.i \in Nat \ {0}
      /\ f.ret \in {"OK", "DEPTH_EXCEEDED"}
  BY <1>2 DEF Frame
<1>6. owners[f.rc] \in Seq(Threads)
  BY <1>1, <1>5
<1>7. f.i \in DOMAIN owners[f.rc]
  BY <1>4, <1>5, <1>6
<1>8. loc[t].cursor \in ToSet(owners[f.rc])
  BY <1>4, <1>7 DEF ToSet
<1>9. owners[f.rc] # <<>>
  BY <1>6, <1>8, EmptyList
<1> QED
  BY <1>2, <1>4, <1>5, <1>6, <1>8, <1>9 DEF f

(* A call for the last owner of a frame returns from the frame.            *)
LEMMA PathPopped ==
    ASSUME WTInv, NEW t \in Threads, loc[t].stack # <<>>, UNCHANGED graph,
           pc[t] = "return", pc'[t] = "return",
           loc'[t].stack = Front(loc[t].stack), loc'[t].cursor = Last(loc[t].stack).blocker,
           loc'[t].last = Last(loc[t].stack).rc,
           loc'[t].base = loc[t].base, loc'[t].blocker = loc[t].blocker,
           loc'[t].ret = "DEADLOCK" =>
             loc'[t].victim # Nobody /\ waiting_for[loc'[t].victim] # Nobody
    PROVE  SearchOK(t)' /\ SleepOK(t)'
<1>0. Len(loc[t].stack) \in Nat
  BY DEF WTInv, StateOK, Locals
<1> PICK n \in Nat : n = Len(loc[t].stack)
  BY <1>0
<1> PICK f : f = Last(loc[t].stack)
  OBVIOUS
<1>1. /\ loc[t].stack \in Seq(Frame) /\ SearchOK(t)
  BY DEF WTInv, StateOK, Locals
<1>2. /\ n \in Nat \ {0} /\ f = loc[t].stack[n]
      /\ Len(Front(loc[t].stack)) = n - 1 /\ Front(loc[t].stack) \in Seq(Frame)
      /\ \A i \in 1..(n - 1) : Front(loc[t].stack)[i] = loc[t].stack[i]
  BY <1>1, FrontIsPop
<1>3. /\ f.rc \in Resources /\ f.blocker \in Threads /\ waiting_for[f.blocker] = f.rc
      /\ owners[f.rc] # <<>>
  BY TopFrame
<1>4. UNCHANGED <<owners, waiting_for>>
  BY DEF graph
<1>5. ASSUME NEW k \in 1..(n - 1) PROVE FrameOK(t, k)'
  <2>1. FrameOK(t, k) /\ k # n
    BY <1>1, <1>2 DEF SearchOK
  <2>2. IF k = n - 1 THEN f = loc[t].stack[k + 1]
        ELSE Front(loc[t].stack)[k + 1] = loc[t].stack[k + 1]
    <3>1. CASE k = n - 1
      <4>1. k + 1 = n
        BY <3>1
      <4> QED
        BY <1>2, <3>1, <4>1, Zenon
    <3>2. CASE k # n - 1
      <4>1. k + 1 \in 1..(n - 1)
        BY <1>2, <3>2
      <4> QED
        BY <1>2, <3>2, <4>1
    <3> QED
      BY <3>1, <3>2
  <2> QED
    BY <1>2, <1>4, <2>1, <2>2 DEF FrameOK
<1>6. (IF Front(loc[t].stack) = <<>> THEN f.blocker ELSE Front(loc[t].stack)[1].blocker) = Root(t)
  <2>1. loc[t].stack[1].blocker = Root(t)
    BY <1>1 DEF SearchOK
  <2>2. CASE Front(loc[t].stack) = <<>>
    <3>1. n = 1
      BY <1>2, <2>2, EmptySeq
    <3> QED
      BY <1>2, <2>1, <2>2, <3>1
  <2>3. CASE Front(loc[t].stack) # <<>>
    <3>1. 1 \in 1..(n - 1)
      BY <1>2, <2>3, EmptySeq
    <3> QED
      BY <1>2, <2>1, <2>3, <3>1
  <2> QED
    BY <2>2, <2>3
<1>7. Root(t)' = Root(t)
  BY DEF Root
<1>8. SearchOK(t)'
  BY <1>2, <1>3, <1>4, <1>5, <1>6, <1>7, WTAssumption DEF SearchOK
<1>9. SleepOK(t)'
  BY <1>3, <1>4, WTAssumption DEF SleepOK
<1> QED
  BY <1>8, <1>9

(* ... and for another owner goes on with the next one.                    *)
LEMMA PathTurned ==
    ASSUME WTInv, NEW t \in Threads, loc[t].stack # <<>>, UNCHANGED graph,
           pc[t] = "return", pc'[t] = "search",
           NEW f, f = Last(loc[t].stack), f.i < Len(owners[f.rc]),
           NEW g \in Frame, g.blocker = f.blocker, g.rc = f.rc, g.i = f.i + 1,
           loc'[t].stack = Append(Front(loc[t].stack), g),
           loc'[t].cursor = owners[f.rc][f.i + 1],
           loc'[t].base = loc[t].base, loc'[t].blocker = loc[t].blocker
    PROVE  SearchOK(t)'
<1>0. Len(loc[t].stack) \in Nat
  BY DEF WTInv, StateOK, Locals
<1> PICK n \in Nat : n = Len(loc[t].stack)
  BY <1>0
<1>1. /\ loc[t].stack \in Seq(Frame) /\ SearchOK(t)
  BY DEF WTInv, StateOK, Locals
<1>2. /\ n \in Nat \ {0} /\ f = loc[t].stack[n]
      /\ Len(Front(loc[t].stack)) = n - 1 /\ Front(loc[t].stack) \in Seq(Frame)
      /\ \A i \in 1..(n - 1) : Front(loc[t].stack)[i] = loc[t].stack[i]
  BY <1>1, FrontIsPop
<1>3. /\ f.rc \in Resources /\ f.blocker \in Threads /\ waiting_for[f.blocker] = f.rc
      /\ owners[f.rc] \in Seq(Threads) /\ t \notin ToSet(owners[f.rc]) /\ f.i \in Nat \ {0}
  BY TopFrame
<1>4. UNCHANGED <<owners, waiting_for>>
  BY DEF graph
<1> DEFINE s == loc'[t].stack
<1>5. /\ Len(s) = n /\ s[n] = g /\ s # <<>>
      /\ \A i \in 1..(n - 1) : s[i] = loc[t].stack[i]
  <2>1. /\ Len(Append(Front(loc[t].stack), g)) = n
        /\ Append(Front(loc[t].stack), g)[n] = g
        /\ Append(Front(loc[t].stack), g) # <<>>
        /\ \A i \in 1..(n - 1) : Append(Front(loc[t].stack), g)[i] = Front(loc[t].stack)[i]
    <3>1. PICK q \in Seq(Frame) : q = Front(loc[t].stack) /\ Len(q) = n - 1
      BY <1>2
    <3>2. /\ Len(Append(q, g)) = Len(q) + 1 /\ Append(q, g)[Len(q) + 1] = g
          /\ Append(q, g) # <<>> /\ \A i \in 1..Len(q) : Append(q, g)[i] = q[i]
      OBVIOUS
    <3>3. (n - 1) + 1 = n
      BY <1>2
    <3> QED
      BY <3>1, <3>2, <3>3
  <2> QED
    BY <1>2, <2>1
<1> HIDE DEF s
<1>6. \A i \in 1..n : s[i].blocker = loc[t].stack[i].blocker
  BY <1>2, <1>5
<1>7. ASSUME NEW k \in 1..n PROVE FrameOK(t, k)'
  <2>1. CASE k = n
    <3>1. loc'[t].stack[n] = g /\ n = Len(loc'[t].stack)
      BY <1>5 DEF s
    <3>2. /\ waiting_for'[g.blocker] = g.rc /\ g.i <= Len(owners'[g.rc])
          /\ t \notin ToSet(owners'[g.rc]) /\ owners'[g.rc][g.i] = loc'[t].cursor
      BY <1>3, <1>4
    <3>3. FrameOK(t, n)'
      BY <3>1, <3>2 DEF FrameOK
    <3> QED
      BY <2>1, <3>3
  <2>2. CASE k # n
    <3>1. FrameOK(t, k) /\ k \in 1..(n - 1) /\ k + 1 \in 1..n
      BY <1>1, <1>2, <2>2 DEF SearchOK
    <3> QED
      BY <1>4, <1>5, <1>6, <2>2, <3>1 DEF FrameOK, s
  <2> QED
    BY <2>1, <2>2
<1>8. s[1].blocker = Root(t)
  BY <1>1, <1>2, <1>6 DEF SearchOK
<1>9. Root(t)' = Root(t)
  BY DEF Root
<1>10. loc'[t].cursor # Nobody
  <2>1. owners[f.rc][f.i + 1] \in Threads
    BY <1>3
  <2> QED
    BY <2>1, WTAssumption
<1> QED
  BY <1>5, <1>7, <1>8, <1>9, <1>10 DEF SearchOK, s

LEMMA NextFrame ==
    ASSUME NEW f \in Frame, NEW ret \in {"OK", "DEPTH_EXCEEDED"}
    PROVE  LET g == [f EXCEPT !.i = @ + 1, !.ret = ret]
           IN  g \in Frame /\ g.rc = f.rc /\ g.blocker = f.blocker /\ g.i = f.i + 1
<1>1. f.i + 1 \in Nat \ {0}
  BY DEF Frame
<1>2. PICK j : j = f.i + 1
  OBVIOUS
<1>3. [f EXCEPT !.i = @ + 1, !.ret = ret] = [f EXCEPT !.i = j, !.ret = ret]
  BY <1>2, Zenon
<1>4. j \in Nat \ {0}
  BY <1>1, <1>2
<1>5. LET g == [f EXCEPT !.i = j, !.ret = ret]
      IN  g \in Frame /\ g.rc = f.rc /\ g.blocker = f.blocker /\ g.i = j
  BY <1>4 DEF Frame
<1> QED
  BY <1>2, <1>3, <1>5, Zenon

LEMMA ReturnNoneStep ==
    ASSUME WTInv, NEW t \in Threads, ReturnNone(t)
    PROVE  WTInv'
<1> PICK l : l = loc[t]
  OBVIOUS
<1> PICK f : f = Last(l.stack)
  OBVIOUS
<1> PICK ret : ret = IF l.ret = "DEPTH_EXCEEDED" THEN l.ret ELSE f.ret
  OBVIOUS
<1> DEFINE g == [f EXCEPT !.i = @ + 1, !.ret = ret]
           more == f.i < Len(owners[f.rc])
<1>1. StateOK /\ PlaceOK(t) /\ SearchOK(t)
  BY DEF WTInv
<1>2. /\ pc[t] = "return" /\ l.stack # <<>> /\ l.ret # "DEADLOCK"
      /\ readers' = Unlocked(readers, l.last)
      /\ UNCHANGED <<graph, killed, weight, pin, lock, mutex, waits>>
      /\ IF more
         THEN /\ loc' = [loc EXCEPT ![t].stack = Append(Front(@), g),
                                    ![t].cursor = owners[f.rc][f.i + 1]]
              /\ Goto(t, "search")
         ELSE /\ loc' = [loc EXCEPT ![t].stack = Front(@), ![t].cursor = f.blocker,
                                    ![t].last = f.rc, ![t].ret = ret]
              /\ UNCHANGED pc
  BY DEF ReturnNone
<1>3. /\ f \in Frame /\ f.rc \in Resources /\ f.blocker \in Threads /\ f.i \in Nat \ {0}
      /\ owners[f.rc] \in Seq(Threads) /\ f.ret \in {"OK", "DEPTH_EXCEEDED"}
  BY <1>2, TopFrame
<1>4. l \in Locals /\ l.stack \in Seq(Frame) /\ ret \in {"OK", "DEPTH_EXCEEDED"}
      /\ l.last \in Resources \cup {Nobody}
  BY <1>1, <1>3 DEF StateOK, Locals
<1>5. Front(l.stack) \in Seq(Frame)
  BY <1>2, <1>4, FrontIsPop
<1>6. g \in Frame /\ g.rc = f.rc /\ g.blocker = f.blocker /\ g.i = f.i + 1
  BY <1>3, <1>4, NextFrame
<1> HIDE DEF g, more
<1>7. /\ more => /\ loc'[t] = [l EXCEPT !.stack = Append(Front(l.stack), g),
                                        !.cursor = owners[f.rc][f.i + 1]]
                 /\ pc'[t] = "search"
      /\ ~more => /\ loc'[t] = [l EXCEPT !.stack = Front(l.stack), !.cursor = f.blocker,
                                         !.last = f.rc, !.ret = ret]
                  /\ pc'[t] = "return"
      /\ \A u \in Threads \ {t} : loc'[u] = loc[u] /\ pc'[u] = pc[u]
      /\ loc' = [loc EXCEPT ![t] = loc'[t]] /\ pc' = [pc EXCEPT ![t] = pc'[t]]
  <2>1. loc \in [Threads -> Locals] /\ pc \in [Threads -> Places]
    BY <1>1 DEF StateOK
  <2>2. CASE more
    <3>1. /\ loc' = [loc EXCEPT ![t].stack = Append(Front(@), g),
                                ![t].cursor = owners[f.rc][f.i + 1]]
          /\ pc' = [pc EXCEPT ![t] = "search"]
      BY <1>2, <2>2 DEF Goto
    <3> QED
      BY <2>1, <2>2, <3>1
  <2>3. CASE ~more
    <3>1. /\ loc' = [loc EXCEPT ![t].stack = Front(@), ![t].cursor = f.blocker,
                                ![t].last = f.rc, ![t].ret = ret]
          /\ pc' = pc /\ pc[t] = "return"
      BY <1>2, <2>3
    <3> QED
      BY <2>1, <2>3, <3>1
  <2> QED
    BY <2>2, <2>3
<1>8. more => owners[f.rc][f.i + 1] \in Threads
  BY <1>3 DEF more
<1>9. Append(Front(l.stack), g) \in Seq(Frame)
  BY <1>5, <1>6
<1>10. /\ loc'[t] \in Locals
       /\ loc'[t].released = l.released /\ loc'[t].base = l.base /\ loc'[t].blocker = l.blocker
       /\ loc'[t].id = l.id
       /\ more => loc'[t].stack = Append(Front(l.stack), g)
                  /\ loc'[t].cursor = owners[f.rc][f.i + 1]
       /\ ~more => /\ loc'[t].stack = Front(l.stack) /\ loc'[t].cursor = f.blocker
                   /\ loc'[t].last = f.rc /\ loc'[t].ret = ret
  <2>1. CASE more
    BY <1>4, <1>7, <1>8, <1>9, <2>1 DEF Locals
  <2>2. CASE ~more
    <3>1. PICK s \in Seq(Frame), c \in Threads, r \in Resources :
             s = Front(l.stack) /\ c = f.blocker /\ r = f.rc
      BY <1>3, <1>4, <1>5 DEF Frame
    <3>2. loc'[t] = [l EXCEPT !.stack = s, !.cursor = c, !.last = r, !.ret = ret]
      BY <1>7, <2>2, <3>1
    <3>3. ret \in {"OK", "DEPTH_EXCEEDED", "DEADLOCK", "TIMEOUT"}
      BY <1>3, <1>4 DEF Locals
    <3> QED
      BY <1>4, <2>2, <3>1, <3>2, <3>3 DEF Locals
  <2> QED
    BY <2>1, <2>2
<1>11. StateOK'
  <2>1. loc' \in [Threads -> Locals]
    BY <1>1, <1>7, <1>10 DEF StateOK
  <2>2. pc' \in [Threads -> Places]
    BY <1>1, <1>7 DEF StateOK, Places
  <2>3. readers' \in [Resources -> Int]
    BY <1>1, <1>2, <1>4, UnlockedProperties DEF StateOK
  <2>4. UNCHANGED <<graph, killed, weight, pin, lock, mutex, waits>>
    BY <1>2
  <2> QED
    BY <1>1, <2>1, <2>2, <2>3, <2>4 DEF StateOK, graph
<1>12. pc'[t] = IF more THEN "search" ELSE "return"
  BY <1>7
<1>13. Plain(t)
  BY <1>2, <1>7, <1>10, <1>12 DEF Plain, Deleting
<1>14. PlaceOK(t)'
  <2>1. UNCHANGED <<graph, pin, lock, mutex>>
    BY <1>2
  <2> QED
    BY <1>1, <1>2, <1>10, <1>12, <2>1 DEF PlaceOK, Searching, Releasing, graph
<1>15. SearchOK(t)' /\ SleepOK(t)'
  <2>1. UNCHANGED graph
    BY <1>2
  <2>2. CASE more
    <3>1. SearchOK(t)'
      BY <1>2, <1>6, <1>10, <1>12, <2>1, <2>2, PathTurned DEF more
    <3> QED
      BY <1>12, <2>2, <3>1 DEF SleepOK
  <2>3. CASE ~more
    BY <1>2, <1>4, <1>10, <1>12, <2>1, <2>3, PathPopped
  <2> QED
    BY <2>2, <2>3
<1>16. ASSUME NEW r \in Resources
       PROVE  readers'[r] = readers[r] - Count(loc[t], pc[t], KeptFor(t), r)
                              + Count(loc'[t], pc'[t], KeptFor(t)', r)
  <2>1. KeptFor(t) = {}
    BY <1>2 DEF KeptFor
  <2>2. KeptFor(t)' = {}
    BY <1>4, <1>10, <1>12 DEF KeptFor
  <2>3. readers[r] \in Int /\ readers'[r] = readers[r] - (IF l.last = r THEN 1 ELSE 0)
    <3>1. readers \in [Resources -> Int] /\ readers' = Unlocked(readers, l.last)
      BY <1>1, <1>2 DEF StateOK
    <3> QED
      BY <1>4, <3>1, UnlockedProperties
  <2>4. /\ Cardinality(FramesOf(l.stack, r)) \in Nat
        /\ Cardinality(FramesOf(Front(l.stack), r))
             = Cardinality(FramesOf(l.stack, r)) - (IF f.rc = r THEN 1 ELSE 0)
    BY <1>2, <1>4, FramesPop, FramesFinite
  <2>5. Cardinality(FramesOf(Append(Front(l.stack), g), r)) = Cardinality(FramesOf(l.stack, r))
    <3>1. Cardinality(FramesOf(Append(Front(l.stack), g), r))
            = Cardinality(FramesOf(Front(l.stack), r)) + (IF g.rc = r THEN 1 ELSE 0)
      BY <1>5, <1>6, FramesPush
    <3> QED
      BY <1>6, <2>4, <3>1
  <2>6. CASE more
    <3>1. pc[t] = "return" /\ pc'[t] = "search" /\ loc'[t].stack = Append(Front(l.stack), g)
      BY <1>2, <1>10, <1>12, <2>6
    <3> QED
      BY <2>1, <2>2, <2>3, <2>4, <2>5, <3>1 DEF Count
  <2>7. CASE ~more
    BY <1>2, <1>10, <1>12, <2>1, <2>2, <2>3, <2>4, <2>7 DEF Count
  <2> QED
    BY <2>6, <2>7
<1> QED
  BY <1>11, <1>13, <1>14, <1>15, <1>16, SearchStep

(* change_victim, when the resource of the thread found is still locked    *)
(* for the last return: it becomes the resource of the victim, and the one *)
(* of the victim before it is unlocked.                                    *)
LEMMA ChangeVictim ==
    ASSUME WTInv, NEW t \in Threads, pc[t] = "return", loc[t].ret = "DEADLOCK",
           NEW found \in Threads \ {t}, waiting_for[found] = loc[t].last, NEW v,
           v = change_victim(found, loc[t], readers, t)
    PROVE  /\ v.l \in Locals /\ v.rs \in [Resources -> Int]
           /\ v.l.stack = loc[t].stack /\ v.l.base = loc[t].base /\ v.l.blocker = loc[t].blocker
           /\ v.l.ret = "DEADLOCK" /\ v.l.released = loc[t].released /\ v.l.id = loc[t].id
           /\ v.l.declared = loc[t].declared /\ v.l.long = loc[t].long
           /\ v.l.victim \in Threads /\ waiting_for[v.l.victim] \in Resources
           /\ v.l.last \in Resources \cup {Nobody}
           /\ \A r \in Resources :
                Unlocked(v.rs, v.l.last)[r]
                  = readers[r] - (IF loc[t].last = r THEN 1 ELSE 0)
                               - (IF loc[t].victim # t /\ waiting_for[loc[t].victim] = r
                                  THEN 1 ELSE 0)
                               + (IF v.l.victim # t /\ waiting_for[v.l.victim] = r
                                  THEN 1 ELSE 0)
<1> PICK l : l = loc[t]
  OBVIOUS
<1>1. /\ l \in Locals /\ readers \in [Resources -> Int]
      /\ l.victim \in Threads /\ waiting_for[l.victim] \in Resources
      /\ l.last \in Resources /\ l.ret = "DEADLOCK"
  BY DEF WTInv, StateOK, SearchOK, Locals
<1>2. CASE weight[found] < weight[l.victim]
  <2>1. /\ v.l = [l EXCEPT !.victim = found, !.last = Nobody]
        /\ v.rs = IF l.victim = t THEN readers ELSE Unlocked(readers, waiting_for[l.victim])
    BY <1>2 DEF change_victim
  <2>2. /\ v.l \in Locals /\ v.l.victim = found /\ v.l.last = Nobody
        /\ v.l.stack = l.stack /\ v.l.base = l.base /\ v.l.blocker = l.blocker
        /\ v.l.ret = "DEADLOCK" /\ v.l.released = l.released /\ v.l.id = l.id
        /\ v.l.declared = l.declared /\ v.l.long = l.long
    BY <1>1, <2>1 DEF Locals
  <2>3. /\ v.rs \in [Resources -> Int]
        /\ \A r \in Resources :
             v.rs[r] = readers[r] - (IF l.victim # t /\ waiting_for[l.victim] = r THEN 1 ELSE 0)
    BY <1>1, <2>1, UnlockedProperties
  <2>4. \A r \in Resources : Unlocked(v.rs, v.l.last)[r] = v.rs[r]
    BY <2>2 DEF Unlocked
  <2> QED
    BY <1>1, <2>2, <2>3, <2>4
<1>3. CASE ~(weight[found] < weight[l.victim])
  <2>1. v.l = l /\ v.rs = readers
    BY <1>3 DEF change_victim
  <2>2. \A r \in Resources : Unlocked(readers, l.last)[r] = readers[r] - (IF l.last = r THEN 1 ELSE 0)
    BY <1>1, UnlockedProperties
  <2> QED
    BY <1>1, <2>1, <2>2
<1> QED
  BY <1>2, <1>3

LEMMA ReturnDeadlockStep ==
    ASSUME WTInv, NEW t \in Threads, ReturnDeadlock(t)
    PROVE  WTInv'
<1> PICK l : l = loc[t]
  OBVIOUS
<1> PICK f : f = Last(l.stack)
  OBVIOUS
<1> PICK v : v = change_victim(l.cursor, l, readers, t)
  OBVIOUS
<1>1. StateOK /\ PlaceOK(t) /\ SearchOK(t)
  BY DEF WTInv
<1>2. /\ pc[t] = "return" /\ l.stack # <<>> /\ l.ret = "DEADLOCK"
      /\ readers' = Unlocked(v.rs, v.l.last)
      /\ loc' = [loc EXCEPT ![t] = [v.l EXCEPT !.stack = Front(@), !.cursor = f.blocker,
                                               !.last = f.rc]]
      /\ UNCHANGED <<graph, killed, weight, pin, lock, mutex, pc, waits>>
  BY DEF ReturnDeadlock
<1>3. f \in Frame /\ f.rc \in Resources /\ f.blocker \in Threads /\ l.cursor # t
  BY <1>2, TopFrame
<1>4. l \in Locals /\ l.stack \in Seq(Frame) /\ l.cursor \in Threads
      /\ waiting_for[l.cursor] = l.last
  BY <1>1, <1>2 DEF StateOK, Locals, SearchOK
<1>5. /\ v.l \in Locals /\ v.rs \in [Resources -> Int]
      /\ v.l.stack = l.stack /\ v.l.base = l.base /\ v.l.blocker = l.blocker
      /\ v.l.ret = "DEADLOCK" /\ v.l.released = l.released /\ v.l.id = l.id
      /\ v.l.victim \in Threads /\ waiting_for[v.l.victim] \in Resources
      /\ v.l.last \in Resources \cup {Nobody}
      /\ \A r \in Resources :
           Unlocked(v.rs, v.l.last)[r]
             = readers[r] - (IF l.last = r THEN 1 ELSE 0)
                          - (IF l.victim # t /\ waiting_for[l.victim] = r THEN 1 ELSE 0)
                          + (IF v.l.victim # t /\ waiting_for[v.l.victim] = r THEN 1 ELSE 0)
  BY <1>2, <1>3, <1>4, ChangeVictim
<1>6. Front(l.stack) \in Seq(Frame)
  BY <1>2, <1>4, FrontIsPop
<1>7. PICK m : m = v.l
  OBVIOUS
<1>8. /\ loc'[t] = [m EXCEPT !.stack = Front(l.stack), !.cursor = f.blocker, !.last = f.rc]
      /\ loc' = [loc EXCEPT ![t] = loc'[t]]
      /\ \A u \in Threads \ {t} : loc'[u] = loc[u] /\ pc'[u] = pc[u]
  <2>1. loc \in [Threads -> Locals] /\ pc' = pc
    BY <1>1, <1>2 DEF StateOK
  <2>2. loc' = [loc EXCEPT ![t] = [m EXCEPT !.stack = Front(l.stack), !.cursor = f.blocker,
                                            !.last = f.rc]]
    BY <1>2, <1>5, <1>7, Zenon
  <2> QED
    BY <2>1, <2>2
<1>9. m \in Locals /\ m.base = l.base /\ m.blocker = l.blocker /\ m.id = l.id
      /\ m.ret = "DEADLOCK" /\ m.released = l.released
  BY <1>5, <1>7
<1>10. /\ loc'[t] \in Locals
       /\ loc'[t].released = l.released /\ loc'[t].base = l.base /\ loc'[t].blocker = l.blocker
       /\ loc'[t].id = l.id /\ loc'[t].ret = "DEADLOCK" /\ loc'[t].victim = m.victim
       /\ loc'[t].stack = Front(l.stack) /\ loc'[t].cursor = f.blocker /\ loc'[t].last = f.rc
  BY <1>3, <1>6, <1>8, <1>9 DEF Locals
<1>11. StateOK'
  <2>1. loc' \in [Threads -> Locals]
    BY <1>1, <1>8, <1>10 DEF StateOK
  <2>2. readers' \in [Resources -> Int]
    BY <1>2, <1>5, UnlockedProperties
  <2>3. UNCHANGED <<graph, killed, weight, pin, lock, mutex, pc, waits>>
    BY <1>2
  <2> QED
    BY <1>1, <2>1, <2>2, <2>3 DEF StateOK, graph
<1>12. UNCHANGED <<graph, pin, lock, mutex, pc>>
  BY <1>2
<1>13. Plain(t)
  BY <1>2, <1>8, <1>10, <1>12 DEF Plain, Deleting
<1>14. PlaceOK(t)'
  BY <1>1, <1>2, <1>10, <1>12 DEF PlaceOK, Searching, Releasing, graph
<1>15. m.victim \in Threads /\ waiting_for[m.victim] \in Resources /\ Nobody \notin Resources
       /\ Nobody \notin Threads
  BY <1>5, <1>7, WTAssumption
<1>16. SearchOK(t)' /\ SleepOK(t)'
  BY <1>2, <1>10, <1>12, <1>15, PathPopped
<1>17. ASSUME NEW r \in Resources
       PROVE  readers'[r] = readers[r] - Count(loc[t], pc[t], KeptFor(t), r)
                              + Count(loc'[t], pc'[t], KeptFor(t)', r)
  <2>1. KeptFor(t) = IF l.victim # t THEN {waiting_for[l.victim]} ELSE {}
    BY <1>2 DEF KeptFor
  <2>2. KeptFor(t)' = IF m.victim # t THEN {waiting_for[m.victim]} ELSE {}
    BY <1>2, <1>10, <1>12 DEF KeptFor, graph
  <2>3. /\ readers[r] \in Int
        /\ readers'[r]
             = readers[r] - (IF l.last = r THEN 1 ELSE 0)
                          - (IF l.victim # t /\ waiting_for[l.victim] = r THEN 1 ELSE 0)
                          + (IF m.victim # t /\ waiting_for[m.victim] = r THEN 1 ELSE 0)
    <3>1. readers[r] \in Int
      BY <1>1 DEF StateOK
    <3>2. readers'[r] = Unlocked(v.rs, v.l.last)[r]
      BY <1>2
    <3> QED
      BY <1>5, <1>7, <3>1, <3>2
  <2>4. /\ Cardinality(FramesOf(l.stack, r)) \in Nat
        /\ Cardinality(FramesOf(Front(l.stack), r))
             = Cardinality(FramesOf(l.stack, r)) - (IF f.rc = r THEN 1 ELSE 0)
    BY <1>2, <1>4, FramesPop, FramesFinite
  <2>5. Count(l, pc[t], KeptFor(t), r)
          = Cardinality(FramesOf(l.stack, r)) + (IF l.last = r THEN 1 ELSE 0)
            + (IF l.victim # t /\ waiting_for[l.victim] = r THEN 1 ELSE 0)
    BY <1>2, <2>1, <2>4 DEF Count
  <2>6. Count(loc'[t], pc'[t], KeptFor(t)', r)
          = Cardinality(FramesOf(l.stack, r))
            + (IF m.victim # t /\ waiting_for[m.victim] = r THEN 1 ELSE 0)
    BY <1>2, <1>10, <1>12, <2>2, <2>4 DEF Count
  <2> QED
    BY <2>3, <2>4, <2>5, <2>6
<1> QED
  BY <1>11, <1>13, <1>14, <1>16, <1>17, SearchStep

(* What the caller makes of the answer.                                    *)
LEMMA AnsweredProperties ==
    ASSUME NEW l \in Locals, l.stack = <<>>, l.released = {}, l.base = 1 => l.blocker \in Threads,
           NEW ret \in {"OK", "FREE_TO_GO", "DEADLOCK"}, NEW a, a = Answered(l, ret)
    PROVE  /\ a[2] \in Locals /\ a[2].stack = <<>> /\ a[2].released = {} /\ a[2].id = l.id
           /\ a[1] \in {"declared", "test", "stop"}
           /\ a[1] = "test" => l.base = 0 /\ ret = "OK"
<1>1. CASE l.base = 1 /\ ret = "OK"
  <2>1. /\ a[1] = "declared"
        /\ a[2] = [Idle EXCEPT !.declared = l.declared \cup {l.blocker}, !.id = l.id]
    BY <1>1 DEF Answered
  <2>2. l.declared \cup {l.blocker} \in SUBSET Threads /\ l.id \in Ids \cup {Nobody}
    BY <1>1 DEF Locals
  <2>3. a[2] \in Locals /\ a[2].stack = <<>> /\ a[2].released = {} /\ a[2].id = l.id
    BY <2>1, <2>2, IdleLocals DEF Idle, Locals
  <2> QED
    BY <2>1, <2>3
<1>2. CASE l.base = 0 /\ ret = "OK"
  <2>1. /\ a[1] = IF timeout_long > timeout_short THEN "test" ELSE "stop"
        /\ a[2] = [Idle EXCEPT !.declared = l.declared, !.id = l.id, !.long = TRUE,
                               !.ret = "TIMEOUT"]
    BY <1>2 DEF Answered
  <2>2. l.declared \in SUBSET Threads /\ l.id \in Ids \cup {Nobody}
    BY DEF Locals
  <2>3. a[2] \in Locals /\ a[2].stack = <<>> /\ a[2].released = {} /\ a[2].id = l.id
    BY <2>1, <2>2, IdleLocals DEF Idle, Locals
  <2> QED
    BY <1>2, <2>1, <2>3
<1>3. CASE ret = "FREE_TO_GO"
  <2>1. a = <<"stop", [l EXCEPT !.ret = "OK"]>>
    BY <1>3 DEF Answered
  <2> QED
    BY <2>1 DEF Locals
<1>4. CASE ret = "DEADLOCK"
  <2>1. a = <<"stop", [l EXCEPT !.ret = "DEADLOCK"]>>
    BY <1>4 DEF Answered
  <2> QED
    BY <2>1 DEF Locals
<1>5. l.base \in {0, 1}
  BY DEF Locals
<1> QED
  BY <1>1, <1>2, <1>3, <1>4, <1>5

(* The end of the search: what is left locked is the resource of a victim  *)
(* that is still to be killed.                                             *)
LEMMA DeadlockStep ==
    ASSUME WTInv, NEW t \in Threads, Deadlock(t)
    PROVE  WTInv'
<1> PICK l : l = loc[t]
  OBVIOUS
<1>v. PICK v : v = IF l.ret = "DEADLOCK" /\ l.base = 1
                 THEN change_victim(l.blocker, l, readers, t) ELSE [l |-> l, rs |-> readers]
  OBVIOUS
<1>f. PICK free \in BOOLEAN : free = (l.base = 0 /\ l.ret = "OK" /\ l.last # Nobody /\ owners[l.last] = <<>>)
  OBVIOUS
<1>r. PICK ret : ret = IF free THEN "FREE_TO_GO" ELSE IF l.ret = "DEADLOCK" THEN l.ret ELSE "OK"
  OBVIOUS
<1>k. PICK kill \in BOOLEAN : kill = (ret = "DEADLOCK" /\ v.l.victim # t)
  OBVIOUS
<1>a. PICK a : a = Answered(v.l, ret)
  OBVIOUS
<1>1. StateOK /\ PlaceOK(t) /\ SearchOK(t) /\ SleepOK(t)
  BY DEF WTInv
<1>2. /\ pc[t] = "return" /\ l.stack = <<>>
      /\ readers' = Unlocked(v.rs, v.l.last)
      /\ loc' = [loc EXCEPT ![t] = IF kill THEN [v.l EXCEPT !.last = Nobody] ELSE a[2]]
      /\ lock' = IF kill THEN lock ELSE AnsweredLock(l, ret)
      /\ Goto(t, IF kill THEN "kill" ELSE a[1])
      /\ UNCHANGED <<graph, killed, weight, pin, mutex, waits>>
  BY <1>v, <1>f, <1>r, <1>k, <1>a, Zenon DEF Deadlock
<1>3. /\ l \in Locals /\ l.released = {} /\ l.base \in {0, 1} /\ l.last \in Resources \cup {Nobody}
      /\ l.cursor = Root(t) /\ waiting_for[t] # Nobody
      /\ l.base = 1 => l.blocker \in Threads \ {t} /\ lock[l.blocker] = t
      /\ l.base = 0 => mutex = t
      /\ l.last # Nobody => waiting_for[l.cursor] = l.last
      /\ l.ret = "DEADLOCK" => /\ l.last \in Resources /\ l.victim \in Threads
                               /\ waiting_for[l.victim] \in Resources
  BY <1>1, <1>2 DEF StateOK, PlaceOK, SearchOK, Locals, Searching, Releasing
<1>4. ret \in {"OK", "FREE_TO_GO", "DEADLOCK"} /\ (ret = "DEADLOCK" <=> l.ret = "DEADLOCK")
  BY <1>f, <1>r
<1>5. /\ v.l \in Locals /\ v.rs \in [Resources -> Int] /\ v.l.last \in Resources \cup {Nobody}
      /\ v.l.stack = <<>> /\ v.l.base = l.base /\ v.l.blocker = l.blocker /\ v.l.released = {}
      /\ v.l.id = l.id
      /\ l.ret = "DEADLOCK" => v.l.victim \in Threads /\ waiting_for[v.l.victim] \in Resources
      /\ \A r \in Resources :
           Unlocked(v.rs, v.l.last)[r]
             = readers[r] - (IF l.last = r THEN 1 ELSE 0)
                          - (IF l.ret = "DEADLOCK" /\ l.victim # t /\ waiting_for[l.victim] = r
                             THEN 1 ELSE 0)
                          + (IF l.ret = "DEADLOCK" /\ v.l.victim # t /\ waiting_for[v.l.victim] = r
                             THEN 1 ELSE 0)
  <2>1. CASE l.ret = "DEADLOCK" /\ l.base = 1
    <3>1. v = change_victim(l.blocker, l, readers, t)
      BY <1>v, <2>1
    <3>2. l.blocker \in Threads \ {t} /\ waiting_for[l.blocker] = l.last
      BY <1>3, <2>1, WTAssumption DEF Root
    <3>3. /\ v.l \in Locals /\ v.rs \in [Resources -> Int] /\ v.l.last \in Resources \cup {Nobody}
          /\ v.l.stack = l.stack /\ v.l.base = l.base /\ v.l.blocker = l.blocker
          /\ v.l.released = l.released /\ v.l.id = l.id
          /\ v.l.victim \in Threads /\ waiting_for[v.l.victim] \in Resources
          /\ \A r \in Resources :
               Unlocked(v.rs, v.l.last)[r]
                 = readers[r] - (IF l.last = r THEN 1 ELSE 0)
                              - (IF l.victim # t /\ waiting_for[l.victim] = r THEN 1 ELSE 0)
                              + (IF v.l.victim # t /\ waiting_for[v.l.victim] = r THEN 1 ELSE 0)
      BY <1>2, <2>1, <3>1, <3>2, ChangeVictim
    <3> QED
      BY <1>2, <1>3, <2>1, <3>3
  <2>2. CASE ~(l.ret = "DEADLOCK" /\ l.base = 1)
    <3>1. v.l = l /\ v.rs = readers /\ readers \in [Resources -> Int]
      BY <1>v, <1>1, <2>2 DEF StateOK
    <3>2. \A r \in Resources :
             Unlocked(readers, l.last)[r] = readers[r] - (IF l.last = r THEN 1 ELSE 0)
      BY <1>3, <3>1, UnlockedProperties
    <3> QED
      BY <1>2, <1>3, <3>1, <3>2
  <2> QED
    BY <2>1, <2>2
<1>6. /\ a[2] \in Locals /\ a[2].stack = <<>> /\ a[2].released = {} /\ a[2].id = l.id
      /\ a[1] \in {"declared", "test", "stop"}
      /\ a[1] = "test" => l.base = 0 /\ ret = "OK"
  <2>1. v.l.base = 1 => v.l.blocker \in Threads
    BY <1>3, <1>5
  <2>2. /\ a[2] \in Locals /\ a[2].stack = <<>> /\ a[2].released = {} /\ a[2].id = v.l.id
        /\ a[1] \in {"declared", "test", "stop"}
        /\ a[1] = "test" => v.l.base = 0 /\ ret = "OK"
    BY <1>a, <1>4, <1>5, <2>1, AnsweredProperties
  <2> QED
    BY <1>5, <2>2
<1>7. PICK m : m = v.l
  OBVIOUS
<1>8. /\ loc'[t] = IF kill THEN [m EXCEPT !.last = Nobody] ELSE a[2]
      /\ pc'[t] = IF kill THEN "kill" ELSE a[1]
      /\ loc' = [loc EXCEPT ![t] = loc'[t]] /\ pc' = [pc EXCEPT ![t] = pc'[t]]
      /\ \A u \in Threads \ {t} : loc'[u] = loc[u] /\ pc'[u] = pc[u]
  <2>1. loc \in [Threads -> Locals] /\ pc \in [Threads -> Places]
    BY <1>1 DEF StateOK
  <2> QED
    BY <1>2, <1>7, <2>1 DEF Goto
<1>9. m \in Locals /\ m.stack = <<>> /\ m.base = l.base /\ m.blocker = l.blocker
      /\ m.released = {} /\ m.id = l.id
  BY <1>5, <1>7
<1>10. /\ loc'[t] \in Locals /\ loc'[t].stack = <<>> /\ loc'[t].released = {} /\ loc'[t].id = l.id
       /\ kill => /\ loc'[t].base = l.base /\ loc'[t].blocker = l.blocker
                  /\ loc'[t].victim = m.victim
  <2>1. CASE kill
    BY <1>8, <1>9, <2>1 DEF Locals
  <2>2. CASE ~kill
    BY <1>6, <1>8, <2>2
  <2> QED
    BY <2>1, <2>2
<1>11. /\ lock' \in [Threads -> Threads \cup {Nobody}]
       /\ \A u \in Threads \ {t}, x \in Threads : lock[x] = u => lock'[x] = u
       /\ kill => lock' = lock
  <2>1. lock \in [Threads -> Threads \cup {Nobody}]
    BY <1>1 DEF StateOK
  <2> QED
    BY <1>2, <1>3, <2>1 DEF AnsweredLock
<1>12. UNCHANGED <<graph, killed, weight, pin, mutex, waits>>
  BY <1>2
<1>13. StateOK'
  <2>1. loc' \in [Threads -> Locals]
    BY <1>1, <1>8, <1>10 DEF StateOK
  <2>2. pc' \in [Threads -> Places]
    BY <1>1, <1>6, <1>8 DEF StateOK, Places
  <2>3. readers' \in [Resources -> Int]
    BY <1>2, <1>5, UnlockedProperties
  <2> QED
    BY <1>1, <1>11, <1>12, <2>1, <2>2, <2>3 DEF StateOK, graph
<1>14. Plain(t)
  <2>1. pc[t] \notin Deleting /\ pc'[t] \notin Deleting /\ loc'[t].released = loc[t].released
    BY <1>2, <1>3, <1>6, <1>8, <1>10 DEF Deleting
  <2> QED
    BY <1>8, <1>11, <1>12, <2>1 DEF Plain
<1>15. PlaceOK(t)'
  <2>1. waiting_for[t] # Nobody /\ rcid[waiting_for[t]] = l.id
    BY <1>1, <1>3 DEF PlaceOK
  <2>2. CASE kill
    <3>1. /\ pc'[t] = "kill" /\ loc'[t].base = l.base /\ loc'[t].blocker = l.blocker
          /\ loc'[t].released = {} /\ loc'[t].id = l.id /\ lock' = lock
          /\ UNCHANGED <<graph, mutex>>
      BY <1>8, <1>10, <1>11, <1>12, <2>2
    <3> QED
      BY <1>3, <2>1, <3>1 DEF PlaceOK, Searching, Releasing, graph
  <2>3. CASE ~kill
    BY <1>3, <1>6, <1>8, <1>10, <1>12, <2>1, <2>3 DEF PlaceOK, Searching, Releasing, graph
  <2> QED
    BY <2>2, <2>3
<1>16. kill => m.victim \in Threads \ {t} /\ waiting_for[m.victim] \in Resources
  BY <1>k, <1>4, <1>5, <1>7
<1>17. SearchOK(t)'
  <2>1. \A k \in 1..Len(<<>>) : FALSE
    OBVIOUS
  <2> QED
    BY <1>6, <1>8, <1>10, <1>12, <1>16, <2>1, WTAssumption DEF SearchOK, graph
<1>18. SleepOK(t)'
  <2>1. l.base = 0 => l.last # Nobody /\ waiting_for[t] = l.last
    BY <1>1, <1>2, <1>3 DEF SleepOK, Root
  <2>2. l.base = 0 /\ ~free => owners[waiting_for[t]] # <<>>
    BY <1>f, <1>1, <1>2, <2>1 DEF SleepOK
  <2>3. kill => ~free
    BY <1>f, <1>r, <1>k
  <2>4. ret = "OK" => ~free
    BY <1>r
  <2> QED
    BY <1>6, <1>8, <1>10, <1>12, <2>2, <2>3, <2>4 DEF SleepOK, graph
<1>19. ASSUME NEW r \in Resources
       PROVE  readers'[r] = readers[r] - Count(loc[t], pc[t], KeptFor(t), r)
                              + Count(loc'[t], pc'[t], KeptFor(t)', r)
  <2>1. KeptFor(t) = IF l.ret = "DEADLOCK" /\ l.victim # t THEN {waiting_for[l.victim]} ELSE {}
    BY <1>2 DEF KeptFor
  <2>2. KeptFor(t)' = IF kill THEN {waiting_for[m.victim]} ELSE {}
    BY <1>6, <1>8, <1>10, <1>12 DEF KeptFor, graph
  <2>3. readers[r] \in Int
    BY <1>1 DEF StateOK
  <2>4. kill <=> (l.ret = "DEADLOCK" /\ m.victim # t)
    BY <1>k, <1>4, <1>7
  <2>5. readers'[r]
          = readers[r] - (IF l.last = r THEN 1 ELSE 0)
                       - (IF l.ret = "DEADLOCK" /\ l.victim # t /\ waiting_for[l.victim] = r
                          THEN 1 ELSE 0)
                       + (IF kill /\ waiting_for[m.victim] = r THEN 1 ELSE 0)
    <3>1. readers'[r] = Unlocked(v.rs, v.l.last)[r]
      BY <1>2
    <3> QED
      BY <1>5, <1>7, <2>4, <3>1
  <2>6. Cardinality(FramesOf(l.stack, r)) \in Nat
    BY <1>3, FrameCount
  <2>7. Count(l, pc[t], KeptFor(t), r)
          = Cardinality(FramesOf(l.stack, r)) + (IF l.last = r THEN 1 ELSE 0)
            + (IF l.ret = "DEADLOCK" /\ l.victim # t /\ waiting_for[l.victim] = r THEN 1 ELSE 0)
    BY <1>2, <2>1, <2>6 DEF Count
  <2>8. Count(loc'[t], pc'[t], KeptFor(t)', r)
          = Cardinality(FramesOf(l.stack, r)) + (IF kill /\ waiting_for[m.victim] = r THEN 1 ELSE 0)
    <3>1. pc'[t] # "return" /\ loc'[t].stack = l.stack
      BY <1>2, <1>6, <1>8, <1>10
    <3> QED
      BY <2>2, <2>6, <3>1 DEF Count
  <2> QED
    BY <2>3, <2>5, <2>6, <2>7, <2>8
<1> QED
  BY <1>13, <1>14, <1>15, <1>17, <1>18, <1>19, SearchStep

(* The victim still waits, and its waiters are woken.                      *)
LEMMA KillStep ==
    ASSUME WTInv, NEW t \in Threads, Kill(t)
    PROVE  WTInv'
<1> PICK l : l = loc[t]
  OBVIOUS
<1>a. PICK a : a = Answered(l, "OK")
  OBVIOUS
<1>1. StateOK /\ PlaceOK(t) /\ SearchOK(t) /\ SleepOK(t)
  BY DEF WTInv
<1>2. /\ pc[t] = "kill"
      /\ killed' = [killed EXCEPT ![l.victim] = TRUE]
      /\ readers' = Unlocked(readers, waiting_for[l.victim])
      /\ pc' = [Woken(waiting_for[l.victim]) EXCEPT ![t] = a[1]]
      /\ loc' = [loc EXCEPT ![t] = a[2]]
      /\ lock' = AnsweredLock(l, "OK")
      /\ UNCHANGED <<graph, weight, pin, mutex, waits>>
  BY <1>a DEF Kill
<1>3. /\ l \in Locals /\ l.released = {} /\ l.base \in {0, 1} /\ l.stack = <<>>
      /\ waiting_for[t] # Nobody /\ rcid[waiting_for[t]] = l.id
      /\ l.base = 1 => l.blocker \in Threads \ {t} /\ lock[l.blocker] = t
      /\ l.base = 0 => mutex = t
      /\ l.victim \in Threads \ {t} /\ waiting_for[l.victim] \in Resources
  BY <1>1, <1>2 DEF StateOK, PlaceOK, SearchOK, Locals, Searching, Releasing
<1>4. /\ a[2] \in Locals /\ a[2].stack = <<>> /\ a[2].released = {} /\ a[2].id = l.id
      /\ a[1] \in {"declared", "test", "stop"}
      /\ a[1] = "test" => l.base = 0
  BY <1>a, <1>3, AnsweredProperties
<1>5. /\ loc'[t] = a[2] /\ pc'[t] = a[1]
      /\ \A u \in Threads \ {t} : loc'[u] = loc[u]
      /\ \A u \in Threads \ {t} : pc'[u] = pc[u] \/ (pc[u] = "asleep" /\ pc'[u] = "woken")
      /\ pc' \in [Threads -> Places]
  <2>1. loc \in [Threads -> Locals] /\ pc \in [Threads -> Places]
    BY <1>1 DEF StateOK
  <2> QED
    BY <1>2, <1>4, <2>1 DEF Woken, Places
<1>6. /\ lock' \in [Threads -> Threads \cup {Nobody}]
      /\ \A u \in Threads \ {t}, x \in Threads : lock[x] = u => lock'[x] = u
  <2>1. lock \in [Threads -> Threads \cup {Nobody}]
    BY <1>1 DEF StateOK
  <2> QED
    BY <1>2, <1>3, <2>1 DEF AnsweredLock
<1>7. UNCHANGED <<graph, weight, pin, mutex, waits>>
  BY <1>2
<1>8. StateOK'
  <2>1. loc' \in [Threads -> Locals] /\ killed' \in [Threads -> BOOLEAN]
    BY <1>1, <1>2, <1>4 DEF StateOK
  <2>2. readers' \in [Resources -> Int]
    BY <1>1, <1>2, <1>3, UnlockedProperties DEF StateOK
  <2> QED
    BY <1>1, <1>5, <1>6, <1>7, <2>1, <2>2 DEF StateOK, graph
<1>9. Plain(t)
  <2>1. pc[t] \notin Deleting /\ pc'[t] \notin Deleting /\ loc'[t].released = loc[t].released
    BY <1>2, <1>3, <1>4, <1>5 DEF Deleting
  <2> QED
    BY <1>5, <1>6, <1>7, <2>1 DEF Plain
<1>10. PlaceOK(t)'
  BY <1>3, <1>4, <1>5, <1>7 DEF PlaceOK, Searching, Releasing, graph
<1>11. SearchOK(t)'
  <2>1. \A k \in 1..Len(<<>>) : FALSE
    OBVIOUS
  <2> QED
    BY <1>4, <1>5, <2>1 DEF SearchOK
<1>12. SleepOK(t)'
  BY <1>1, <1>2, <1>4, <1>5, <1>7 DEF SleepOK, graph
<1>13. ASSUME NEW r \in Resources
       PROVE  readers'[r] = readers[r] - Count(loc[t], pc[t], KeptFor(t), r)
                              + Count(loc'[t], pc'[t], KeptFor(t)', r)
  <2>1. KeptFor(t) = {waiting_for[l.victim]}
    BY <1>2 DEF KeptFor
  <2>2. KeptFor(t)' = {}
    BY <1>4, <1>5 DEF KeptFor
  <2>3. /\ readers[r] \in Int
        /\ readers'[r] = readers[r] - (IF waiting_for[l.victim] = r THEN 1 ELSE 0)
    <3>1. readers \in [Resources -> Int] /\ readers' = Unlocked(readers, waiting_for[l.victim])
      BY <1>1, <1>2 DEF StateOK
    <3> QED
      BY <1>3, <3>1, UnlockedProperties
  <2>4. Cardinality(FramesOf(l.stack, r)) \in Nat
    BY <1>3, FrameCount
  <2>5. pc[t] = "kill" /\ pc'[t] # "return" /\ loc'[t].stack = l.stack
    BY <1>2, <1>3, <1>4, <1>5
  <2> QED
    BY <2>1, <2>2, <2>3, <2>4, <2>5 DEF Count
<1> QED
  BY <1>8, <1>9, <1>10, <1>11, <1>12, <1>13, SearchStep

-----------------------------------------------------------------------------
(* The steps that change the graph, none of them within a search.          *)
LEMMA EdgeStep ==
    ASSUME WTInv, StateOK', NEW t \in Threads, OthersKept(t), UNCHANGED readers,
           pc[t] \notin Searching, pc'[t] \notin {"return", "kill"}, loc'[t].stack = <<>>,
           PlaceOK(t)', SearchOK(t)', SleepOK(t)', HashOK', \A r \in Resources : EdgesOK(r)'
    PROVE  WTInv'
<1>1. ASSUME NEW r \in Resources
      PROVE  readers'[r] = readers[r] - Cardinality(Slots(t, r)) + Cardinality(Slots(t, r)')
  <2>1. Slots(t, r) = {}
    BY NoSlots
  <2>2. Slots(t, r)' = {}
    BY DEF Slots, KeptFor
  <2>3. readers[r] \in Int
    BY DEF WTInv, StateOK
  <2> QED
    BY <2>1, <2>2, <2>3, FS_EmptySet
<1> QED
  BY <1>1, Step

LEMMA NoSearch ==
    ASSUME NEW t, pc'[t] \notin Searching, loc'[t].stack = <<>>
    PROVE  SearchOK(t)'
  BY DEF SearchOK, Searching

(* An object that is not in use has neither waiters nor owners.            *)
LEMMA NotInUse ==
    ASSUME WTInv, NEW r \in Resources, state[r] # "ACTIVE"
    PROVE  /\ owners[r] = <<>> /\ waiter_count[r] = 0
           /\ \A u \in Threads : waiting_for[u] # r /\ r \notin Owned(u)
<1>1. EdgesOK(r) /\ owners[r] \in Seq(Threads)
  BY DEF WTInv, StateOK
<1>2. \A u \in Threads : waiting_for[u] # r /\ r \notin Owned(u)
  BY <1>1 DEF EdgesOK
<1>3. {u \in Threads : waiting_for[u] = r} = {} /\ ToSet(owners[r]) = {}
  BY <1>1, <1>2 DEF EdgesOK
<1>4. owners[r] = <<>>
  BY <1>1, <1>3, EmptyList
<1>5. waiter_count[r] = 0
  BY <1>1, <1>3, FS_EmptySet DEF EdgesOK
<1> QED
  BY <1>2, <1>4, <1>5

(* An object of the hash that is available is in nobody's use.             *)
LEMMA AvailableIsFree ==
    ASSUME WTInv, NEW r \in Available
    PROVE  r \in Resources /\ state[r] = "FREE"
<1>1. r \in Resources /\ \A i \in Ids : hash[i] # r
  BY DEF Available
<1>2. EdgesOK(r) /\ state[r] \in {"ACTIVE", "FREE"}
  BY <1>1 DEF WTInv, StateOK
<1> QED
  BY <1>1, <1>2 DEF EdgesOK

LEMMA InsertStep ==
    ASSUME WTInv, NEW t \in Threads, Insert(t)
    PROVE  WTInv'
<1> PICK i : i = loc[t].id
  OBVIOUS
<1>1. StateOK /\ PlaceOK(t) /\ HashOK /\ i \in Ids /\ pc[t] = "insert"
  BY DEF WTInv, Insert, PlaceOK
<1>2. /\ pc' = [pc EXCEPT ![t] = "search_hash"]
      /\ UNCHANGED <<readers, killed, weight, pin, lock, mutex, loc, waits>>
  BY DEF Insert, Goto
<1>3. /\ pc'[t] = "search_hash" /\ pc' \in [Threads -> Places]
      /\ \A u \in Threads \ {t} : pc'[u] = pc[u]
  BY <1>1, <1>2 DEF StateOK, Places
<1>4. loc[t].stack = <<>> /\ pc[t] \notin Searching
  BY <1>1, NoSlots DEF WTInv, SearchOK, Searching
<1>5. CASE hash[i] # Nobody
  <2>1. UNCHANGED graph
    BY <1>5 DEF Insert
  <2>2. StateOK'
    BY <1>1, <1>2, <1>3, <2>1 DEF StateOK, graph
  <2>3. Plain(t)
    BY <1>1, <1>2, <1>3, <2>1 DEF Plain, Deleting
  <2>4. PlaceOK(t)'
    BY <1>1, <1>2, <1>3, <2>1 DEF PlaceOK, Searching, Releasing, graph
  <2>5. SleepOK(t)'
    BY <1>3 DEF SleepOK
  <2>6. UNCHANGED <<readers, loc>> /\ pc'[t] \notin Searching
    BY <1>2, <1>3 DEF Searching
  <2> QED
    BY <1>4, <2>2, <2>3, <2>4, <2>5, <2>6, QuietStep
<1>6. CASE hash[i] = Nobody
  <2>1. PICK r \in Available :
          /\ hash' = [hash EXCEPT ![i] = r]
          /\ rcid' = [rcid EXCEPT ![r] = i]
          /\ state' = [state EXCEPT ![r] = "ACTIVE"]
          /\ owners' = [owners EXCEPT ![r] = <<>>]
          /\ waiter_count' = [waiter_count EXCEPT ![r] = 0]
          /\ UNCHANGED <<waiting_for, my_resources>>
    BY <1>6 DEF Insert
  <2>2. /\ r \in Resources /\ state[r] = "FREE" /\ owners[r] = <<>> /\ waiter_count[r] = 0
        /\ \A u \in Threads : waiting_for[u] # r /\ r \notin Owned(u)
        /\ \A j \in Ids : hash[j] # r
        /\ \A u \in Threads : pin[u] # r
    BY AvailableIsFree, NotInUse DEF Available
  <2>3. UNCHANGED <<owners, waiter_count>>
    BY <1>1, <2>1, <2>2 DEF StateOK
  <2>4. StateOK'
    BY <1>1, <1>2, <1>3, <2>1, <2>2, <2>3 DEF StateOK
  <2>5. OthersKept(t)
    BY <1>1, <1>2, <1>3, <2>1, <2>2, <2>3 DEF OthersKept, Same, StateOK
  <2>6. PlaceOK(t)'
    BY <1>1, <1>2, <1>3, <2>1 DEF PlaceOK, Searching, Releasing
  <2>7. SleepOK(t)'
    BY <1>3 DEF SleepOK
  <2>8. HashOK'
    <3>1. \A u \in Threads : pc'[u] \in Deleting <=> pc[u] \in Deleting
      BY <1>1, <1>3 DEF Deleting
    <3>2. \A j \in Ids : hash'[j] = (IF j = i THEN r ELSE hash[j]) /\ hash[j] # r
      BY <1>1, <2>1, <2>2 DEF StateOK
    <3>3. \A x \in Resources : x # r => rcid'[x] = rcid[x] /\ state'[x] = state[x]
      BY <1>1, <2>1 DEF StateOK
    <3>4. rcid'[r] = i /\ state'[r] = "ACTIVE" /\ UNCHANGED loc
      BY <1>1, <1>2, <2>1, <2>2 DEF StateOK
    <3>5. \A j \in Ids : hash[j] # Nobody => hash[j] \in Resources
      BY <1>1 DEF StateOK
    <3> QED
      BY <1>1, <1>6, <3>1, <3>2, <3>3, <3>4, <3>5 DEF HashOK
  <2>9. ASSUME NEW x \in Resources PROVE EdgesOK(x)'
    <3>1. \A u \in Threads : Owned(u)' = Owned(u)
      BY <1>2, <2>1 DEF Owned
    <3>2. EdgesOK(x)
      BY DEF WTInv
    <3>3. CASE x # r
      <4>1. rcid'[x] = rcid[x] /\ state'[x] = state[x] /\ rcid[x] \in Ids \cup {Nobody}
        BY <1>1, <2>1, <3>3 DEF StateOK
      <4>2. state[x] = "ACTIVE" => rcid[x] \in Ids /\ hash'[rcid[x]] = x
        BY <1>1, <1>6, <2>1, <3>2, WTAssumption DEF EdgesOK, StateOK
      <4> QED
        BY <2>1, <2>3, <3>1, <3>2, <4>1, <4>2 DEF EdgesOK
    <3>4. CASE x = r
      <4>1. rcid'[r] = i /\ state'[r] = "ACTIVE" /\ hash'[i] = r
        BY <1>1, <2>1, <2>2 DEF StateOK
      <4>2. EdgesOK(r)'
        BY <1>1, <2>1, <2>3, <3>1, <3>2, <3>4, <4>1 DEF EdgesOK
      <4> QED
        BY <3>4, <4>2
    <3> QED
      BY <3>3, <3>4
  <2>10. loc'[t].stack = <<>> /\ UNCHANGED readers /\ pc'[t] \notin Searching
         /\ pc'[t] \notin {"return", "kill"}
    BY <1>2, <1>3, <1>4 DEF Searching
  <2>11. SearchOK(t)'
    BY <2>10, NoSearch
  <2> QED
    BY <1>4, <2>4, <2>5, <2>6, <2>7, <2>8, <2>9, <2>10, <2>11, EdgeStep
<1> QED
  BY <1>5, <1>6

LEMMA RegisterStep ==
    ASSUME WTInv, NEW t \in Threads, Register(t)
    PROVE  WTInv'
<1>f. PICK first \in BOOLEAN : first = (waiting_for[t] = Nobody)
  OBVIOUS
<1>r. PICK rc : rc = IF first THEN pin[t] ELSE waiting_for[t]
  OBVIOUS
<1>b. PICK b : b = loc[t].blocker
  OBVIOUS
<1>1. StateOK /\ PlaceOK(t) /\ HashOK
  BY DEF WTInv
<1>2. /\ pc[t] = "register" /\ readers[rc] = 0 /\ state[rc] = "ACTIVE"
      /\ waiting_for' = [waiting_for EXCEPT ![t] = rc]
      /\ waiter_count' = [waiter_count EXCEPT ![rc] = IF first THEN @ + 1 ELSE @]
      /\ killed' = [killed EXCEPT ![t] = IF first THEN FALSE ELSE @]
      /\ pin' = [pin EXCEPT ![t] = Nobody]
      /\ IF b \in ToSet(owners[rc])
         THEN UNCHANGED <<owners, my_resources>>
         ELSE /\ my_resources' = [my_resources EXCEPT ![b] = @ \cup {rc}]
              /\ owners' = [owners EXCEPT ![rc] = Append(@, b)]
      /\ loc' = [loc EXCEPT ![t].base = 1, ![t].cursor = b]
      /\ pc' = [pc EXCEPT ![t] = "search"]
      /\ UNCHANGED <<rcid, state, hash, readers, weight, lock, mutex, waits>>
  BY <1>f, <1>r, <1>b DEF Register, Goto, WriteLockable
<1>3. /\ rc \in Resources /\ b \in Threads \ {t} /\ lock[b] = t /\ loc[t].id \in Ids
      /\ rcid[rc] = loc[t].id /\ loc[t].released = {}
      /\ waiting_for[t] = IF first THEN Nobody ELSE rc
  BY <1>f, <1>r, <1>b, <1>1, <1>2 DEF StateOK, PlaceOK, Releasing
<1>4. loc[b].released = {}
  <2>1. PlaceOK(b)
    BY <1>3 DEF WTInv
  <2> QED
    BY <1>3, <2>1 DEF PlaceOK
<1>5. /\ owners[rc] \in Seq(Threads) /\ EdgesOK(rc)
  BY <1>1, <1>3 DEF StateOK, WTInv
<1>6. PICK os \in Seq(Threads) : os = IF b \in ToSet(owners[rc]) THEN owners[rc]
                                      ELSE Append(owners[rc], b)
  <2>1. Append(owners[rc], b) \in Seq(Threads)
    BY <1>3, <1>5
  <2> QED
    BY <1>5, <2>1
<1>7. /\ ToSet(os) = ToSet(owners[rc]) \cup {b} /\ IsInjective(os)
  <2>1. IsInjective(owners[rc])
    BY <1>5 DEF EdgesOK
  <2> QED
    BY <1>3, <1>5, <1>6, <2>1, PushProperties
<1>8. PICK ms \in [Threads -> SUBSET Resources] :
         ms = IF b \in ToSet(owners[rc]) THEN my_resources
              ELSE [my_resources EXCEPT ![b] = @ \cup {rc}]
  BY <1>1, <1>3 DEF StateOK
<1>9. owners' = [owners EXCEPT ![rc] = os] /\ my_resources' = ms
  <2>1. owners \in [Resources -> Seq(Threads)]
    BY <1>1 DEF StateOK
  <2>2. CASE b \in ToSet(owners[rc])
    BY <1>2, <1>3, <1>6, <1>8, <2>1, <2>2
  <2>3. CASE b \notin ToSet(owners[rc])
    BY <1>2, <1>3, <1>6, <1>8, <2>1, <2>3
  <2> QED
    BY <2>2, <2>3
<1>10. ms = [my_resources EXCEPT ![b] = @ \cup {rc}]
  <2>1. my_resources \in [Threads -> SUBSET Resources]
    BY <1>1 DEF StateOK
  <2>2. b \in ToSet(owners[rc]) => rc \in my_resources[b]
    BY <1>5 DEF EdgesOK, Owned
  <2> QED
    BY <1>3, <1>8, <2>1, <2>2
<1>11. loc[t] \in Locals /\ loc'[t] = [loc[t] EXCEPT !.base = 1, !.cursor = b]
       /\ \A u \in Threads \ {t} : loc'[u] = loc[u]
  BY <1>1, <1>2 DEF StateOK
<1>12. /\ loc'[t] \in Locals /\ loc'[t].stack = loc[t].stack /\ loc'[t].base = 1
       /\ loc'[t].cursor = b /\ loc'[t].blocker = b /\ loc'[t].released = {}
       /\ loc'[t].id = loc[t].id
  BY <1>b, <1>3, <1>11 DEF Locals
<1>13. loc[t].stack = <<>> /\ pc[t] \notin Searching /\ pc'[t] = "search"
       /\ \A u \in Threads \ {t} : pc'[u] = pc[u] /\ waiting_for'[u] = waiting_for[u]
                                   /\ pin'[u] = pin[u]
  BY <1>1, <1>2, NoSlots DEF WTInv, SearchOK, Searching, StateOK
<1>14. waiting_for'[t] = rc
  BY <1>1, <1>2 DEF StateOK
<1>15. /\ \A x \in Resources : x # rc => owners'[x] = owners[x] /\ waiter_count'[x] = waiter_count[x]
       /\ owners'[rc] = os /\ waiter_count'[rc] = waiter_count[rc] + (IF first THEN 1 ELSE 0)
       /\ \A u \in Threads : my_resources'[u] = my_resources[u] \cup (IF u = b THEN {rc} ELSE {})
  <2>1. my_resources \in [Threads -> SUBSET Resources] /\ waiter_count \in [Resources -> Int]
        /\ owners \in [Resources -> Seq(Threads)]
    BY <1>1 DEF StateOK
  <2> QED
    BY <1>2, <1>3, <1>9, <1>10, <2>1
<1>16. UNCHANGED <<rcid, state, hash, readers, weight, lock, mutex, waits>>
  BY <1>2
<1>17. StateOK'
  <2>1. loc' \in [Threads -> Locals] /\ pc' \in [Threads -> Places]
    BY <1>1, <1>2, <1>11, <1>12 DEF StateOK, Places
  <2>2. owners' \in [Resources -> Seq(Threads)] /\ my_resources' \in [Threads -> SUBSET Resources]
    BY <1>1, <1>6, <1>8, <1>9 DEF StateOK
  <2>3. waiter_count' \in [Resources -> Int] /\ killed' \in [Threads -> BOOLEAN]
        /\ waiting_for' \in [Threads -> Resources \cup {Nobody}]
        /\ pin' \in [Threads -> Resources \cup {Nobody}]
    <3>1. /\ waiter_count \in [Resources -> Int] /\ killed \in [Threads -> BOOLEAN]
          /\ waiting_for \in [Threads -> Resources \cup {Nobody}]
          /\ pin \in [Threads -> Resources \cup {Nobody}]
      BY <1>1 DEF StateOK
    <3>2. waiter_count' \in [Resources -> Int]
      BY <1>2, <1>3, <3>1
    <3>3. killed' \in [Threads -> BOOLEAN]
      BY <1>2, <3>1
    <3> QED
      BY <1>2, <1>3, <3>1, <3>2, <3>3
  <2> QED
    BY <1>1, <1>16, <2>1, <2>2, <2>3 DEF StateOK
<1>18. OthersKept(t)
  <2>1. os # <<>> \/ owners[rc] = <<>>
    BY <1>5, <1>6, <1>7, EmptyList
  <2>2. \A x \in Resources : readers[x] # 0 => owners'[x] = owners[x]
                                               /\ (waiting_for[t] = x => waiting_for'[t] = x)
    BY <1>2, <1>3, <1>14, <1>15, WTAssumption
  <2>3. \A x \in Resources : owners[x] # <<>> => owners'[x] # <<>>
    BY <1>15, <2>1
  <2> QED
    BY <1>11, <1>13, <1>15, <1>16, <2>2, <2>3 DEF OthersKept, Same
<1>19. PlaceOK(t)'
  BY <1>3, <1>12, <1>13, <1>14, <1>16, WTAssumption DEF PlaceOK, Searching, Releasing
<1>20. SearchOK(t)'
  <2>1. \A k \in 1..Len(<<>>) : FALSE
    OBVIOUS
  <2> QED
    BY <1>3, <1>12, <1>13, <2>1, WTAssumption DEF SearchOK, Root
<1>21. SleepOK(t)'
  BY <1>13 DEF SleepOK
<1>22. HashOK'
  <2>1. \A u \in Threads : /\ pc'[u] \in Deleting <=> pc[u] \in Deleting
                           /\ pc[u] \in Deleting => loc'[u].id = loc[u].id
    BY <1>2, <1>11, <1>13 DEF Deleting
  <2> QED
    BY <1>1, <1>16, <2>1 DEF HashOK
<1>23. ASSUME NEW x \in Resources PROVE EdgesOK(x)'
  <2>1. EdgesOK(x)
    BY DEF WTInv
  <2>2. \A u \in Threads : Owned(u)' = Owned(u) \cup (IF u = b THEN {rc} ELSE {})
    <3>1. \A u \in Threads : loc'[u].released = loc[u].released
      BY <1>3, <1>11, <1>12
    <3> QED
      BY <1>4, <1>15, <3>1 DEF Owned
  <2>3. CASE x # rc
    <3>1. {u \in Threads : waiting_for'[u] = x} = {u \in Threads : waiting_for[u] = x}
      BY <1>3, <1>13, <1>14, <2>3, WTAssumption
    <3>2. \A u \in Threads : x \in Owned(u)' <=> x \in Owned(u)
      BY <2>2, <2>3
    <3>3. \A u \in Threads : waiting_for'[u] = x <=> waiting_for[u] = x
      BY <3>1
    <3> QED
      BY <1>15, <1>16, <2>1, <2>3, <3>1, <3>2, <3>3 DEF EdgesOK
  <2>4. CASE x = rc
    <3>1. waiter_count'[rc] = Cardinality({u \in Threads : waiting_for'[u] = rc})
      <4> DEFINE W == {u \in Threads : waiting_for[u] = rc}
      <4>1. IsFiniteSet(W) /\ waiter_count[rc] = Cardinality(W)
        BY <1>5, WTAssumption, FS_Subset DEF EdgesOK
      <4>2. {u \in Threads : waiting_for'[u] = rc} = W \cup {t}
        BY <1>13, <1>14
      <4>3. t \in W <=> ~first
        BY <1>3, WTAssumption
      <4> HIDE DEF W
      <4>4. Cardinality(W \cup {t}) = Cardinality(W) + (IF first THEN 1 ELSE 0)
            /\ Cardinality(W) \in Nat
        BY <4>1, <4>3, FS_AddElement, FS_CardinalityType
      <4> QED
        BY <1>15, <4>1, <4>2, <4>4
    <3>2. ToSet(owners'[rc]) = {u \in Threads : rc \in Owned(u)'}
      <4>1. ToSet(owners[rc]) = {u \in Threads : rc \in Owned(u)}
        BY <1>5 DEF EdgesOK
      <4> QED
        BY <1>3, <1>7, <1>15, <2>2, <4>1
    <3>3. EdgesOK(rc)'
      BY <1>2, <1>5, <1>7, <1>15, <1>16, <3>1, <3>2 DEF EdgesOK
    <3> QED
      BY <2>4, <3>3
  <2> QED
    BY <2>3, <2>4
<1>24. loc'[t].stack = <<>> /\ pc'[t] \notin {"return", "kill"} /\ UNCHANGED readers
  BY <1>12, <1>13, <1>16
<1> QED
  BY <1>13, <1>17, <1>18, <1>19, <1>20, <1>21, <1>22, <1>23, <1>24, EdgeStep

(* An object that lost its last waiter or owner: whoever made it FREE is   *)
(* the one that takes it out of the hash.                                  *)
LEMMA FreedHash ==
    ASSUME WTInv, NEW t \in Threads, NEW rc \in Resources, state[rc] = "ACTIVE",
           NEW b \in BOOLEAN, UNCHANGED <<hash, rcid>>,
           state' = [state EXCEPT ![rc] = IF b THEN "FREE" ELSE @],
           \A u \in Threads \ {t} : loc'[u].id = loc[u].id
                                    /\ (pc'[u] \in Deleting <=> pc[u] \in Deleting),
           pc[t] \notin Deleting, pc'[t] \in Deleting <=> b, b => loc'[t].id = rcid[rc]
    PROVE  HashOK'
<1>1. /\ HashOK /\ state \in [Resources -> {"ACTIVE", "FREE"}]
      /\ hash \in [Ids -> Resources \cup {Nobody}] /\ EdgesOK(rc)
  BY DEF WTInv, StateOK
<1>2. rcid[rc] \in Ids /\ hash[rcid[rc]] = rc /\ rc # Nobody
  BY <1>1, WTAssumption DEF EdgesOK
<1>3. \A r \in Resources : state'[r] = IF r = rc /\ b THEN "FREE" ELSE state[r]
  BY <1>1
<1>4. \A i \in Ids : hash[i] # Nobody => hash[i] \in Resources /\ rcid[hash[i]] = i
  BY <1>1 DEF HashOK
<1>5. \A i \in Ids : hash'[i] # Nobody => rcid'[hash'[i]] = i
  BY <1>4
<1>6. ASSUME NEW i \in Ids, hash[i] # Nobody, state'[hash[i]] = "FREE"
      PROVE  \E u \in Threads : pc'[u] \in Deleting /\ loc'[u].id = i
  <2>1. CASE hash[i] = rc /\ b
    BY <1>4, <1>6, <2>1
  <2>2. CASE ~(hash[i] = rc /\ b)
    <3>1. state[hash[i]] = "FREE"
      BY <1>3, <1>4, <1>6, <2>2
    <3>2. PICK u \in Threads : pc[u] \in Deleting /\ loc[u].id = i
      BY <1>1, <1>6, <3>1 DEF HashOK
    <3> QED
      BY <3>2
  <2> QED
    BY <2>1, <2>2
<1>7. ASSUME NEW u \in Threads \ {t}, pc'[u] \in Deleting
      PROVE  /\ loc[u].id \in Ids /\ hash[loc[u].id] # Nobody
             /\ state[hash[loc[u].id]] = "FREE" /\ state'[hash[loc[u].id]] = "FREE"
             /\ loc[u].id # rcid[rc]
             /\ \A x \in Threads \ {u} : pc[x] \in Deleting => loc[x].id # loc[u].id
  <2>1. /\ loc[u].id \in Ids /\ hash[loc[u].id] # Nobody /\ state[hash[loc[u].id]] = "FREE"
        /\ \A x \in Threads \ {u} : pc[x] \in Deleting => loc[x].id # loc[u].id
    BY <1>1, <1>7 DEF HashOK
  <2>2. loc[u].id # rcid[rc]
    BY <1>2, <2>1
  <2>3. state'[hash[loc[u].id]] = "FREE"
    BY <1>3, <1>4, <2>1
  <2> QED
    BY <2>1, <2>2, <2>3
<1>8. ASSUME NEW u \in Threads, pc'[u] \in Deleting
      PROVE  /\ loc'[u].id \in Ids /\ hash'[loc'[u].id] # Nobody
             /\ state'[hash'[loc'[u].id]] = "FREE"
             /\ \A x \in Threads \ {u} : pc'[x] \in Deleting => loc'[x].id # loc'[u].id
  <2>1. CASE u = t
    <3>1. b /\ loc'[t].id = rcid[rc] /\ state'[rc] = "FREE"
      BY <1>3, <1>8, <2>1
    <3>2. \A x \in Threads \ {t} : pc'[x] \in Deleting => loc'[x].id # rcid[rc]
      BY <1>7
    <3> QED
      BY <1>2, <2>1, <3>1, <3>2
  <2>2. CASE u # t
    <3>1. \A x \in Threads \ {u, t} : pc'[x] \in Deleting => loc'[x].id # loc'[u].id
      BY <1>7, <1>8, <2>2
    <3>2. pc'[t] \in Deleting => loc'[t].id # loc'[u].id
      BY <1>7, <1>8, <2>2
    <3> QED
      BY <1>7, <1>8, <2>2, <3>1, <3>2
  <2> QED
    BY <2>1, <2>2
<1>9. UNCHANGED hash
  OBVIOUS
<1> QED
  BY <1>5, <1>6, <1>8, <1>9 DEF HashOK

LEMMA StopWaitingStep ==
    ASSUME WTInv, NEW t \in Threads, StopWaiting(t)
    PROVE  WTInv'
<1> PICK rc : rc = waiting_for[t]
  OBVIOUS
<1>b. PICK b \in BOOLEAN : b = Unused(owners[rc], waiter_count[rc] - 1)
  BY DEF Unused
<1>1. StateOK /\ PlaceOK(t) /\ HashOK
  BY DEF WTInv
<1>2. /\ pc[t] \in {"stop", "register"} /\ rc # Nobody /\ readers[rc] = 0
      /\ owners' = [owners EXCEPT ![rc] = owners[rc]]
      /\ waiter_count' = [waiter_count EXCEPT ![rc] = waiter_count[rc] - 1]
      /\ state' = [state EXCEPT ![rc] = IF b THEN "FREE" ELSE @]
      /\ waiting_for' = [waiting_for EXCEPT ![t] = Nobody]
      /\ loc' = [loc EXCEPT ![t].ret = IF killed[t] THEN "DEADLOCK" ELSE @]
      /\ pc' = [pc EXCEPT ![t] = IF b THEN "delete" ELSE "stopped"]
      /\ UNCHANGED <<rcid, hash, my_resources, readers, killed, weight, pin, lock, mutex, waits>>
  BY <1>b, <1>1 DEF StopWaiting, Freed, Goto, WriteLockable, PlaceOK
<1>3. rc \in Resources /\ rcid[rc] = loc[t].id /\ loc[t].released = {}
  BY <1>1, <1>2 DEF StateOK, PlaceOK, Releasing
<1>4. EdgesOK(rc) /\ state[rc] = "ACTIVE"
  BY <1>3 DEF WTInv, EdgesOK
<1>5. loc[t] \in Locals
      /\ loc'[t] = [loc[t] EXCEPT !.ret = IF killed[t] THEN "DEADLOCK" ELSE loc[t].ret]
      /\ \A u \in Threads \ {t} : loc'[u] = loc[u]
  BY <1>1, <1>2 DEF StateOK
<1>6. /\ loc'[t] \in Locals /\ loc'[t].stack = loc[t].stack /\ loc'[t].released = {}
      /\ loc'[t].id = loc[t].id
  BY <1>3, <1>5 DEF Locals
<1>7. /\ loc[t].stack = <<>> /\ pc[t] \notin Searching
      /\ pc'[t] = IF b THEN "delete" ELSE "stopped"
      /\ \A u \in Threads \ {t} : pc'[u] = pc[u] /\ waiting_for'[u] = waiting_for[u]
      /\ waiting_for'[t] = Nobody
  BY <1>1, <1>2, NoSlots DEF WTInv, SearchOK, Searching, StateOK
<1>8. owners' = owners
  BY <1>1, <1>2 DEF StateOK
<1>9. UNCHANGED <<rcid, hash, my_resources, readers, killed, weight, pin, lock, mutex, waits>>
  BY <1>2
<1>10. StateOK'
  <2>1. loc' \in [Threads -> Locals] /\ pc' \in [Threads -> Places]
    BY <1>1, <1>2, <1>5, <1>6 DEF StateOK, Places
  <2>2. waiter_count' \in [Resources -> Int] /\ state' \in [Resources -> {"ACTIVE", "FREE"}]
    BY <1>1, <1>2, <1>3 DEF StateOK
  <2>3. waiting_for' \in [Threads -> Resources \cup {Nobody}]
    BY <1>1, <1>2 DEF StateOK
  <2> QED
    BY <1>1, <1>8, <1>9, <2>1, <2>2, <2>3 DEF StateOK
<1>11. OthersKept(t)
  BY <1>2, <1>5, <1>7, <1>8, <1>9 DEF OthersKept, Same
<1>12. PlaceOK(t)'
  BY <1>6, <1>7 DEF PlaceOK, Searching, Releasing
<1>13. SleepOK(t)'
  BY <1>7 DEF SleepOK
<1>14. HashOK'
  <2>1. pc'[t] \in Deleting <=> b
    BY <1>7 DEF Deleting
  <2>2. pc[t] \notin Deleting
    BY <1>2 DEF Deleting
  <2>3. b => loc'[t].id = rcid[rc]
    BY <1>3, <1>6
  <2> QED
    BY <1>2, <1>3, <1>4, <1>5, <1>7, <2>1, <2>2, <2>3, FreedHash
<1>15. ASSUME NEW x \in Resources PROVE EdgesOK(x)'
  <2>1. EdgesOK(x)
    BY DEF WTInv
  <2>2. \A u \in Threads : Owned(u)' = Owned(u)
    BY <1>3, <1>5, <1>6, <1>9 DEF Owned
  <2>3. CASE x # rc
    <3>1. {u \in Threads : waiting_for'[u] = x} = {u \in Threads : waiting_for[u] = x}
      BY <1>7, <2>3, WTAssumption
    <3>2. \A u \in Threads : waiting_for'[u] = x <=> waiting_for[u] = x
      BY <3>1
    <3>3. waiter_count'[x] = waiter_count[x] /\ state'[x] = state[x]
      BY <1>1, <1>2, <2>3 DEF StateOK
    <3> QED
      BY <1>8, <1>9, <2>1, <2>2, <3>1, <3>2, <3>3 DEF EdgesOK
  <2>4. CASE x = rc
    <3> DEFINE W == {u \in Threads : waiting_for[u] = rc}
    <3>1. IsFiniteSet(W) /\ waiter_count[rc] = Cardinality(W) /\ t \in W
      BY <1>4, WTAssumption, FS_Subset DEF EdgesOK
    <3>2. {u \in Threads : waiting_for'[u] = rc} = W \ {t}
      BY <1>3, <1>7, WTAssumption
    <3>3. Cardinality(W \ {t}) = Cardinality(W) - 1 /\ IsFiniteSet(W \ {t})
      BY <3>1, FS_RemoveElement
    <3> HIDE DEF W
    <3>4. waiter_count'[rc] = Cardinality(W) - 1 /\ state'[rc] = IF b THEN "FREE" ELSE "ACTIVE"
      BY <1>1, <1>2, <1>3, <1>4, <3>1 DEF StateOK
    <3>5. ASSUME b PROVE W \ {t} = {} /\ owners[rc] = <<>>
      BY <1>b, <3>1, <3>3, <3>5, FS_EmptySet DEF Unused
    <3>6. ASSUME b, NEW u \in Threads PROVE waiting_for'[u] # rc /\ rc \notin Owned(u)'
      <4>1. ToSet(owners[rc]) = {}
        BY <3>5, <3>6, EmptyList
      <4> QED
        BY <1>4, <2>2, <3>2, <3>5, <3>6, <4>1 DEF EdgesOK
    <3>7. EdgesOK(rc)'
      BY <1>4, <1>8, <1>9, <2>2, <3>2, <3>3, <3>4, <3>6 DEF EdgesOK
    <3> QED
      BY <2>4, <3>7
  <2> QED
    BY <2>3, <2>4
<1>16. loc'[t].stack = <<>> /\ pc'[t] \notin Searching /\ pc'[t] \notin {"return", "kill"}
       /\ UNCHANGED readers
  BY <1>6, <1>7, <1>9 DEF Searching
<1>17. SearchOK(t)'
  BY <1>16, NoSearch
<1> QED
  BY <1>7, <1>10, <1>11, <1>12, <1>13, <1>14, <1>15, <1>16, <1>17, EdgeStep

LEMMA DeleteStep ==
    ASSUME WTInv, NEW t \in Threads,
           Delete(t, "delete", "stopped") \/ Delete(t, "release_delete", "releasing")
    PROVE  WTInv'
<1> PICK i : i = loc[t].id
  OBVIOUS
<1>1. StateOK /\ PlaceOK(t) /\ HashOK
  BY DEF WTInv
<1>2. /\ hash' = [hash EXCEPT ![i] = Nobody]
      /\ UNCHANGED <<rcid, state, owners, waiter_count, waiting_for, my_resources, readers,
                     killed, weight, pin, lock, mutex, loc, waits>>
      /\ \/ pc[t] = "delete" /\ pc' = [pc EXCEPT ![t] = "stopped"]
         \/ pc[t] = "release_delete" /\ pc' = [pc EXCEPT ![t] = "releasing"]
  BY DEF Delete, Goto
<1>3. /\ \/ pc[t] = "delete" /\ pc'[t] = "stopped"
         \/ pc[t] = "release_delete" /\ pc'[t] = "releasing"
      /\ pc' \in [Threads -> Places]
      /\ \A u \in Threads \ {t} : pc'[u] = pc[u]
  BY <1>1, <1>2 DEF StateOK, Places
<1>4. /\ i \in Ids /\ hash[i] \in Resources /\ state[hash[i]] = "FREE"
      /\ \A u \in Threads \ {t} : pc[u] \in Deleting => loc[u].id # i
  BY <1>1, <1>3 DEF HashOK, Deleting, StateOK
<1>5. \A j \in Ids : hash'[j] = IF j = i THEN Nobody ELSE hash[j]
  BY <1>1, <1>2 DEF StateOK
<1>6. UNCHANGED <<rcid, state, owners, waiter_count, waiting_for, my_resources, readers,
                  killed, weight, pin, lock, mutex, loc, waits>>
  BY <1>2
<1>7. StateOK'
  <2>1. hash' \in [Ids -> Resources \cup {Nobody}]
    BY <1>1, <1>2 DEF StateOK
  <2> QED
    BY <1>1, <1>3, <1>6, <2>1 DEF StateOK
<1>8. OthersKept(t)
  BY <1>3, <1>6 DEF OthersKept, Same
<1>9. PlaceOK(t)'
  BY <1>1, <1>3, <1>6 DEF PlaceOK, Searching, Releasing
<1>10. SleepOK(t)'
  BY <1>3 DEF SleepOK
<1>11. HashOK'
  <2>1. \A u \in Threads : pc'[u] \in Deleting <=> (u # t /\ pc[u] \in Deleting)
    BY <1>3 DEF Deleting
  <2>2. ASSUME NEW j \in Ids, hash'[j] # Nobody, state[hash'[j]] = "FREE"
        PROVE  \E u \in Threads : pc'[u] \in Deleting /\ loc[u].id = j
    <3>1. j # i /\ hash'[j] = hash[j]
      BY <1>5, <2>2
    <3>2. PICK u \in Threads : pc[u] \in Deleting /\ loc[u].id = j
      BY <1>1, <2>2, <3>1 DEF HashOK
    <3> QED
      BY <2>1, <3>1, <3>2
  <2>3. ASSUME NEW u \in Threads, pc'[u] \in Deleting
        PROVE  /\ loc[u].id \in Ids /\ hash'[loc[u].id] # Nobody
               /\ state[hash'[loc[u].id]] = "FREE"
               /\ \A x \in Threads \ {u} : pc'[x] \in Deleting => loc[x].id # loc[u].id
    <3>1. u # t /\ pc[u] \in Deleting /\ loc[u].id # i
      BY <1>4, <2>1, <2>3
    <3> QED
      BY <1>1, <1>5, <2>1, <3>1 DEF HashOK
  <2>4. \A j \in Ids : hash'[j] # Nobody => rcid[hash'[j]] = j
    BY <1>1, <1>5 DEF HashOK
  <2> QED
    BY <1>6, <2>2, <2>3, <2>4 DEF HashOK
<1>12. ASSUME NEW x \in Resources PROVE EdgesOK(x)'
  <2>1. EdgesOK(x)
    BY DEF WTInv
  <2>2. \A u \in Threads : Owned(u)' = Owned(u)
    BY <1>6 DEF Owned
  <2>3. state[x] = "ACTIVE" => rcid[x] \in Ids /\ hash'[rcid[x]] = x
    BY <1>4, <1>5, <2>1 DEF EdgesOK
  <2> QED
    BY <1>6, <2>1, <2>2, <2>3 DEF EdgesOK
<1>13. pc[t] \notin Searching /\ pc'[t] \notin Searching /\ pc'[t] \notin {"return", "kill"}
  BY <1>3 DEF Searching
<1>14. loc'[t].stack = <<>> /\ UNCHANGED readers
  BY <1>6, <1>13 DEF WTInv, SearchOK, Searching
<1>15. SearchOK(t)'
  BY <1>13, <1>14, NoSearch
<1> QED
  BY <1>7, <1>8, <1>9, <1>10, <1>11, <1>12, <1>13, <1>14, <1>15, EdgeStep

LEMMA ReleaseOneStep ==
    ASSUME WTInv, NEW t \in Threads, ReleaseOne(t)
    PROVE  WTInv'
<1>1. StateOK /\ PlaceOK(t) /\ HashOK /\ pc[t] = "releasing"
  BY DEF WTInv, ReleaseOne
<1>2. PICK rc \in loc[t].todo :
        LET os == Only(owners[rc], Threads \ {t})
        IN  /\ WriteLockable(rc)
            /\ Freed(rc, os, waiter_count[rc])
            /\ loc' = [u \in Threads |->
                         IF u = t
                         THEN [loc[t] EXCEPT !.todo = @ \ {rc}, !.released = @ \cup {rc},
                                             !.id = rcid[rc]]
                         ELSE IF waiting_for[u] = rc
                         THEN [loc[u] EXCEPT !.declared = @ \ {t}] ELSE loc[u]]
            /\ pc' = [u \in Threads |->
                        IF u = t
                        THEN IF Unused(os, waiter_count[rc]) THEN "release_delete" ELSE pc[t]
                        ELSE IF os = <<>> THEN Woken(rc)[u] ELSE pc[u]]
  BY DEF ReleaseOne
<1>o. PICK os : os = Only(owners[rc], Threads \ {t})
  OBVIOUS
<1>b. PICK b \in BOOLEAN : b = Unused(os, waiter_count[rc])
  BY DEF Unused
<1>3. /\ readers[rc] = 0
      /\ owners' = [owners EXCEPT ![rc] = os]
      /\ waiter_count' = [waiter_count EXCEPT ![rc] = waiter_count[rc]]
      /\ state' = [state EXCEPT ![rc] = IF b THEN "FREE" ELSE @]
      /\ loc'[t] = [loc[t] EXCEPT !.todo = @ \ {rc}, !.released = @ \cup {rc}, !.id = rcid[rc]]
      /\ pc'[t] = IF b THEN "release_delete" ELSE "releasing"
      /\ \A u \in Threads \ {t} : loc'[u] = IF waiting_for[u] = rc
                                            THEN [loc[u] EXCEPT !.declared = @ \ {t}] ELSE loc[u]
      /\ \A u \in Threads \ {t} : pc'[u] = IF os = <<>> THEN Woken(rc)[u] ELSE pc[u]
      /\ loc' = [u \in Threads |-> loc'[u]] /\ pc' = [u \in Threads |-> pc'[u]]
  BY <1>1, <1>2, <1>o, <1>b DEF Freed, WriteLockable
<1>4. UNCHANGED <<rcid, hash, waiting_for, my_resources, readers, killed, weight, pin, lock,
                  mutex, waits>>
  BY DEF ReleaseOne
<1>5. /\ loc[t].todo \subseteq my_resources[t] \ loc[t].released /\ mutex = t /\ lock[t] = t
      /\ waiting_for[t] = Nobody /\ rc \in Resources
      /\ rc \in my_resources[t] /\ rc \notin loc[t].released
  BY <1>1, <1>2 DEF PlaceOK, Releasing, StateOK
<1>6. rc \in Owned(t)
  BY <1>5 DEF Owned
<1>7. EdgesOK(rc) /\ state[rc] = "ACTIVE" /\ rcid[rc] \in Ids /\ owners[rc] \in Seq(Threads)
  BY <1>1, <1>5, <1>6 DEF WTInv, EdgesOK, StateOK
<1>8. os \in Seq(Threads) /\ ToSet(os) = ToSet(owners[rc]) \ {t} /\ IsInjective(os)
  <2>1. IsInjective(owners[rc]) /\ ToSet(owners[rc]) \subseteq Threads
    BY <1>7, EmptyList DEF EdgesOK
  <2>2. os \in Seq(Threads) /\ ToSet(os) = ToSet(owners[rc]) \cap (Threads \ {t}) /\ IsInjective(os)
    BY <1>7, <1>o, <2>1, OnlyProperties
  <2> QED
    BY <2>1, <2>2
<1>9. PICK todo \in SUBSET Resources, released \in SUBSET Resources :
         todo = loc[t].todo \ {rc} /\ released = loc[t].released \cup {rc}
  BY <1>1, <1>5 DEF StateOK, Locals
<1>10. loc[t] \in Locals
       /\ loc'[t] = [loc[t] EXCEPT !.todo = todo, !.released = released, !.id = rcid[rc]]
  BY <1>1, <1>3, <1>9, Zenon DEF StateOK
<1>11. /\ loc'[t] \in Locals /\ loc'[t].stack = loc[t].stack /\ loc'[t].id = rcid[rc]
       /\ loc'[t].todo = todo /\ loc'[t].released = released
  BY <1>7, <1>10 DEF Locals
<1>12. ASSUME NEW u \in Threads \ {t} PROVE loc'[u] \in Locals /\ Same(loc'[u], loc[u])
  <2>1. loc[u] \in Locals
    BY <1>1 DEF StateOK
  <2>2. CASE waiting_for[u] = rc
    <3>1. PICK d \in SUBSET Threads : d = loc[u].declared \ {t}
      BY <2>1 DEF Locals
    <3>2. loc'[u] = [loc[u] EXCEPT !.declared = d]
      BY <1>3, <2>2, <3>1
    <3> QED
      BY <2>1, <3>2 DEF Locals, Same
  <2>3. CASE waiting_for[u] # rc
    BY <1>3, <2>1, <2>3 DEF Same
  <2> QED
    BY <2>2, <2>3
<1>13. /\ loc[t].stack = <<>> /\ pc[t] \notin Searching
  BY <1>1, NoSlots DEF WTInv, SearchOK, Searching
<1>14. \A u \in Threads \ {t} :
          /\ pc'[u] = pc[u] \/ (pc[u] = "asleep" /\ pc'[u] = "woken")
          /\ os = <<>> /\ waiting_for[u] = rc => pc'[u] # "asleep"
  BY <1>3 DEF Woken
<1>15. waiter_count' = waiter_count
  BY <1>1, <1>3 DEF StateOK
<1>16. StateOK'
  <2>1. loc' \in [Threads -> Locals]
    BY <1>3, <1>11, <1>12
  <2>2. pc' \in [Threads -> Places]
    <3>1. ASSUME NEW u \in Threads PROVE pc'[u] \in Places
      <4>1. pc[u] \in Places /\ "woken" \in Places
        BY <1>1 DEF StateOK, Places
      <4>2. CASE u = t
        BY <1>3, <4>2 DEF Places
      <4> QED
        BY <1>14, <4>1, <4>2
    <3> QED
      BY <1>3, <3>1
  <2>3. owners' \in [Resources -> Seq(Threads)] /\ state' \in [Resources -> {"ACTIVE", "FREE"}]
    BY <1>1, <1>3, <1>8 DEF StateOK
  <2> QED
    BY <1>1, <1>4, <1>15, <2>1, <2>2, <2>3 DEF StateOK
<1>17. \A x \in Resources : owners'[x] = IF x = rc THEN os ELSE owners[x]
  BY <1>1, <1>3 DEF StateOK
<1>18. OthersKept(t)
  <2>1. \A x \in Resources : readers[x] # 0 => owners'[x] = owners[x]
    BY <1>3, <1>17
  <2>2. \A x \in Resources : owners[x] # <<>> /\ owners'[x] = <<>> =>
           \A u \in Threads \ {t} : waiting_for[u] = x => pc'[u] # "asleep"
    BY <1>14, <1>17
  <2> QED
    BY <1>4, <1>5, <1>12, <1>14, <2>1, <2>2 DEF OthersKept
<1>19. PlaceOK(t)'
  <2>1. todo \subseteq my_resources[t] \ released
    BY <1>5, <1>9
  <2> QED
    BY <1>3, <1>4, <1>5, <1>11, <2>1 DEF PlaceOK, Searching, Releasing
<1>20. SleepOK(t)'
  BY <1>3 DEF SleepOK
<1>21. HashOK'
  <2>1. pc'[t] \in Deleting <=> b
    BY <1>3 DEF Deleting
  <2>2. pc[t] \notin Deleting
    BY <1>1 DEF Deleting
  <2>3. \A u \in Threads \ {t} : loc'[u].id = loc[u].id
                                 /\ (pc'[u] \in Deleting <=> pc[u] \in Deleting)
    BY <1>12, <1>14 DEF Same, Deleting
  <2> QED
    BY <1>3, <1>4, <1>5, <1>7, <1>11, <2>1, <2>2, <2>3, FreedHash
<1>22. ASSUME NEW x \in Resources PROVE EdgesOK(x)'
  <2>1. EdgesOK(x)
    BY DEF WTInv
  <2>2. \A u \in Threads : Owned(u)' = Owned(u) \ (IF u = t THEN {rc} ELSE {})
    BY <1>4, <1>9, <1>11, <1>12 DEF Owned, Same
  <2>3. CASE x # rc
    <3>1. \A u \in Threads : x \in Owned(u)' <=> x \in Owned(u)
      BY <2>2, <2>3
    <3>2. owners'[x] = owners[x] /\ state'[x] = state[x]
      BY <1>1, <1>3, <1>17, <2>3 DEF StateOK
    <3> QED
      BY <1>4, <1>15, <2>1, <3>1, <3>2 DEF EdgesOK
  <2>4. CASE x = rc
    <3>1. ToSet(os) = {u \in Threads : rc \in Owned(u)'}
      <4>1. ToSet(owners[rc]) = {u \in Threads : rc \in Owned(u)}
        BY <1>7 DEF EdgesOK
      <4> QED
        BY <1>8, <2>2, <4>1
    <3>2. state'[rc] = IF b THEN "FREE" ELSE "ACTIVE"
      <4>1. /\ state \in [Resources -> {"ACTIVE", "FREE"}] /\ state[rc] = "ACTIVE"
            /\ state' = [state EXCEPT ![rc] = IF b THEN "FREE" ELSE @]
        BY <1>1, <1>3, <1>7 DEF StateOK
      <4> QED
        BY <1>5, <4>1
    <3>3. ASSUME b, NEW u \in Threads PROVE waiting_for[u] # rc /\ rc \notin Owned(u)'
      <4>1. os = <<>> /\ waiter_count[rc] = 0
        BY <1>b, <3>3 DEF Unused
      <4>2. ToSet(os) = {}
        BY <4>1, EmptyList
      <4>3. {y \in Threads : waiting_for[y] = rc} = {}
        <5>1. IsFiniteSet({y \in Threads : waiting_for[y] = rc})
          BY WTAssumption, FS_Subset
        <5> QED
          BY <1>7, <4>1, <5>1, FS_EmptySet DEF EdgesOK
      <4> QED
        BY <3>1, <4>2, <4>3
    <3>4. EdgesOK(rc)'
      BY <1>4, <1>5, <1>7, <1>8, <1>15, <1>17, <3>1, <3>2, <3>3 DEF EdgesOK
    <3> QED
      BY <2>4, <3>4
  <2> QED
    BY <2>3, <2>4
<1>23. /\ loc'[t].stack = <<>> /\ pc'[t] \notin Searching /\ pc'[t] \notin {"return", "kill"}
       /\ UNCHANGED readers
  BY <1>3, <1>4, <1>11, <1>13 DEF Searching
<1>24. SearchOK(t)'
  BY <1>23, NoSearch
<1> QED
  BY <1>13, <1>16, <1>18, <1>19, <1>20, <1>21, <1>22, <1>23, <1>24, EdgeStep

LEMMA ReleasedStep ==
    ASSUME WTInv, NEW t \in Threads, Released(t)
    PROVE  WTInv'
<1>1. StateOK /\ PlaceOK(t) /\ HashOK
  BY DEF WTInv
<1>2. /\ pc[t] = "releasing"
      /\ my_resources' = [my_resources EXCEPT ![t] = @ \ loc[t].released]
      /\ lock' = [lock EXCEPT ![t] = Nobody] /\ mutex' = Nobody
      /\ loc' = [loc EXCEPT ![t] = Idle]
      /\ pc' = [pc EXCEPT ![t] = "idle"]
      /\ UNCHANGED <<rcid, state, owners, waiter_count, hash, waiting_for, readers, killed, weight,
                     pin, waits>>
  BY DEF Released, Goto
<1>3. mutex = t /\ lock[t] = t /\ waiting_for[t] = Nobody
  BY <1>1, <1>2 DEF PlaceOK, Releasing
<1>4. /\ loc'[t] = Idle /\ pc'[t] = "idle" /\ Idle.stack = <<>> /\ Idle.released = {}
      /\ my_resources'[t] = my_resources[t] \ loc[t].released
      /\ \A u \in Threads \ {t} : /\ loc'[u] = loc[u] /\ pc'[u] = pc[u]
                                  /\ my_resources'[u] = my_resources[u]
      /\ \A u \in Threads \ {t}, x \in Threads : lock[x] = u => lock'[x] = u
  BY <1>1, <1>2, <1>3 DEF StateOK, Idle
<1>5. StateOK'
  <2>1. my_resources' \in [Threads -> SUBSET Resources]
    BY <1>1, <1>2 DEF StateOK
  <2> QED
    BY <1>1, <1>2, <2>1, IdleLocals DEF StateOK, Places
<1>6. OthersKept(t)
  BY <1>2, <1>3, <1>4 DEF OthersKept, Same
<1>7. PlaceOK(t)'
  BY <1>2, <1>3, <1>4 DEF PlaceOK, Searching, Releasing
<1>8. SleepOK(t)'
  BY <1>4 DEF SleepOK
<1>9. HashOK'
  <2>1. \A u \in Threads : /\ pc'[u] \in Deleting <=> pc[u] \in Deleting
                           /\ pc[u] \in Deleting => loc'[u].id = loc[u].id
    BY <1>2, <1>4 DEF Deleting
  <2> QED
    BY <1>1, <1>2, <2>1 DEF HashOK
<1>10. ASSUME NEW x \in Resources PROVE EdgesOK(x)'
  <2>1. EdgesOK(x)
    BY DEF WTInv
  <2>2. \A u \in Threads : Owned(u)' = Owned(u)
    BY <1>4 DEF Owned
  <2> QED
    BY <1>2, <2>1, <2>2 DEF EdgesOK
<1>11. pc[t] \notin Searching /\ pc'[t] \notin Searching /\ pc'[t] \notin {"return", "kill"}
       /\ loc'[t].stack = <<>> /\ UNCHANGED readers
  BY <1>2, <1>4 DEF Searching
<1>12. SearchOK(t)'
  BY <1>11, NoSearch
<1> QED
  BY <1>5, <1>6, <1>7, <1>8, <1>9, <1>10, <1>11, <1>12, EdgeStep

-----------------------------------------------------------------------------
LEMMA InitInv == Init => WTInv
<1> SUFFICES ASSUME Init PROVE WTInv
  OBVIOUS
<1>1. StateOK
  <2>1. weight \in [Threads -> Nat] /\ 0 \in 0..MaxWaits
    BY WTAssumption DEF Init
  <2>2. <<>> \in Seq(Threads)
    OBVIOUS
  <2> QED
    BY <2>1, <2>2, IdleLocals DEF Init, StateOK, Places
<1>2. /\ Idle.stack = <<>> /\ Idle.released = {}
      /\ \A t \in Threads : pc[t] = "idle" /\ loc[t] = Idle /\ waiting_for[t] = Nobody
                            /\ my_resources[t] = {}
  BY DEF Init, Idle
<1>3. HashOK
  BY <1>2 DEF Init, HashOK, Deleting
<1>4. ASSUME NEW t \in Threads PROVE PlaceOK(t) /\ SearchOK(t) /\ SleepOK(t)
  <2>1. \A k \in 1..Len(<<>>) : FALSE
    OBVIOUS
  <2> QED
    BY <1>2, <2>1 DEF PlaceOK, SearchOK, SleepOK, Searching, Releasing
<1>5. ASSUME NEW r \in Resources PROVE EdgesOK(r) /\ readers[r] = Cardinality(Holders(r))
  <2>1. r # Nobody
    BY WTAssumption
  <2>2. {t \in Threads : waiting_for[t] = r} = {} /\ {t \in Threads : r \in Owned(t)} = {}
    BY <1>2, <2>1 DEF Owned
  <2>3. EdgesOK(r)
    BY <2>2, EmptyList, FS_EmptySet DEF Init, EdgesOK
  <2>4. \A t \in Threads : Slots(t, r) = {}
    BY <1>2 DEF Slots, KeptFor
  <2>5. Holders(r) = {}
    BY <2>4 DEF Holders
  <2> QED
    BY <2>3, <2>5, FS_EmptySet DEF Init
<1> QED
  BY <1>1, <1>3, <1>4, <1>5 DEF WTInv

LEMMA StutterInv == WTInv /\ UNCHANGED vars => WTInv'
<1> SUFFICES ASSUME WTInv, UNCHANGED vars PROVE WTInv'
  OBVIOUS
<1>1. UNCHANGED <<rcid, state, owners, waiter_count, hash, waiting_for, my_resources, readers,
                  killed, weight, pin, lock, mutex, pc, loc, waits>>
  BY DEF vars, graph
<1>2. StateOK' /\ HashOK'
  BY <1>1 DEF WTInv, StateOK, HashOK
<1>3. ASSUME NEW t \in Threads PROVE PlaceOK(t)' /\ SearchOK(t)' /\ SleepOK(t)'
  <2>1. PlaceOK(t) /\ SearchOK(t) /\ SleepOK(t)
    BY DEF WTInv
  <2>2. PlaceOK(t)' /\ SleepOK(t)'
    BY <1>1, <2>1 DEF PlaceOK, SleepOK
  <2>3. \A k \in 1..Len(loc[t].stack) : FrameOK(t, k)'
    BY <1>1, <2>1 DEF SearchOK, FrameOK
  <2> QED
    BY <1>1, <2>1, <2>2, <2>3 DEF SearchOK, Root
<1>4. ASSUME NEW r \in Resources PROVE EdgesOK(r)' /\ readers'[r] = Cardinality(Holders(r)')
  <2>1. EdgesOK(r) /\ readers[r] = Cardinality(Holders(r))
    BY DEF WTInv
  <2>2. \A t \in Threads : Owned(t)' = Owned(t) /\ Slots(t, r)' = Slots(t, r)
    BY <1>1 DEF Owned, Slots, KeptFor
  <2>3. Holders(r)' = Holders(r)
    BY <2>2 DEF Holders
  <2> QED
    BY <1>1, <2>1, <2>2, <2>3 DEF EdgesOK
<1> QED
  BY <1>2, <1>3, <1>4 DEF WTInv

(* The inductive invariant: the edges and the hash agree, every thread has *)
(* the mutexes of its place, the frames of a search are locked and are the *)
(* path it took, and there is an owner from the last look at the owners to *)
(* the end of the wait.                                                    *)
THEOREM WTInvariant == Spec => []WTInv
<1>1. WTInv /\ [Next]_vars => WTInv'
  <2> SUFFICES ASSUME WTInv, [Next]_vars PROVE WTInv'
    OBVIOUS
  <2>1. CASE Terminating
    BY <2>1, StutterInv DEF Terminating
  <2>2. ASSUME NEW t \in Threads,
               \/ Declare(t) \/ SearchHash(t) \/ Insert(t) \/ RegisterRetry(t) \/ Register(t)
               \/ SearchTooDeep(t) \/ SearchPin(t) \/ SearchRetry(t) \/ SearchOwners(t)
               \/ ReturnNone(t) \/ ReturnDeadlock(t) \/ Deadlock(t) \/ Kill(t)
        PROVE  WTInv'
    BY <2>2, DeclareStep, SearchHashStep, InsertStep, RegisterRetryStep, RegisterStep,
       SearchTooDeepStep, SearchPinStep, SearchRetryStep, SearchOwnersStep,
       ReturnNoneStep, ReturnDeadlockStep, DeadlockStep, KillStep
  <2>3. ASSUME NEW t \in Threads,
               \/ TimedWait(t) \/ CheckOwners(t) \/ TestKilled(t) \/ Block(t)
               \/ Awake(t) \/ StopWaiting(t) \/ DeleteStopped(t)
               \/ Stopped(t) \/ ReleaseLock(t) \/ ReleaseMutex(t) \/ ReleaseOne(t)
               \/ DeleteReleased(t) \/ Released(t)
        PROVE  WTInv'
    BY <2>3, TimedWaitStep, CheckOwnersStep, TestKilledStep, BlockStep, AwakeStep,
       StopWaitingStep, DeleteStep, StoppedStep, ReleaseLockStep, ReleaseMutexStep,
       ReleaseOneStep, ReleasedStep DEF DeleteStopped, DeleteReleased
  <2>4. CASE UNCHANGED vars
    BY <2>4, StutterInv
  <2> QED
    BY <2>1, <2>2, <2>3, <2>4 DEF Next
<1> QED
  BY <1>1, InitInv, PTL DEF Spec

(* The two ends of every edge of the wait-for graph agree, whatever a      *)
(* thread waits for or owns is ACTIVE and in the hash, and a FREE object   *)
(* in the hash is taken out by exactly one thread.                         *)
THEOREM GraphIsConsistent == Spec => []GraphConsistent
<1>1. WTInv => GraphConsistent
  <2> SUFFICES ASSUME WTInv PROVE GraphConsistent
    OBVIOUS
  <2>1. TypeOK
    <3>1. ASSUME NEW r \in Resources
          PROVE  waiter_count[r] \in 0..Cardinality(Threads) /\ readers[r] \in Nat
      <4> DEFINE W == {t \in Threads : waiting_for[t] = r}
      <4>1. IsFiniteSet(W) /\ Cardinality(W) <= Cardinality(Threads)
        BY WTAssumption, FS_Subset
      <4>2. Cardinality(W) \in Nat /\ Cardinality(Threads) \in Nat
        BY <4>1, WTAssumption, FS_CardinalityType
      <4>3. waiter_count[r] = Cardinality(W)
        BY DEF WTInv, EdgesOK
      <4>4. readers[r] \in Nat
        <5> DEFINE S == [u \in Threads |-> Slots(u, r)]
        <5>1. Holders(r) = Pairs(S)
          BY DEF Holders, Pairs
        <5>2. \A u \in Threads : IsFiniteSet(S[u])
          BY SlotsFinite DEF WTInv
        <5>3. Cardinality(Pairs(S)) \in Nat
          BY <5>2, PairsFinite
        <5> QED
          BY <5>1, <5>3 DEF WTInv
      <4> HIDE DEF W
      <4> QED
        BY <4>1, <4>2, <4>3, <4>4
    <3>2. waiter_count \in [Resources -> 0..Cardinality(Threads)] /\ readers \in [Resources -> Nat]
      BY <3>1 DEF WTInv, StateOK
    <3> QED
      BY <3>2 DEF WTInv, StateOK, TypeOK
  <2>2. \A r \in Resources :
          /\ waiter_count[r] = Cardinality({t \in Threads : waiting_for[t] = r})
          /\ ToSet(owners[r]) = {t \in Threads : r \in Owned(t)}
          /\ IsInjective(owners[r])
    BY DEF WTInv, EdgesOK
  <2>3. ASSUME NEW t \in Threads, NEW r \in Owned(t) \cup {waiting_for[t]}, r # Nobody
        PROVE  InUse(r)
    <3>1. r \in Resources
      BY <2>3 DEF WTInv, StateOK, Owned
    <3>2. EdgesOK(r)
      BY <3>1 DEF WTInv
    <3> QED
      BY <3>2 DEF EdgesOK, InUse
  <2>4. ASSUME NEW i \in Ids, hash[i] # Nobody, state[hash[i]] = "FREE"
        PROVE  Cardinality({t \in Threads : pc[t] \in {"delete", "release_delete"}
                                            /\ loc[t].id = i}) = 1
    <3>1. PICK t \in Threads : pc[t] \in Deleting /\ loc[t].id = i
      BY <2>4 DEF WTInv, HashOK
    <3>2. \A u \in Threads : pc[u] \in Deleting /\ loc[u].id = i => u = t
      BY <3>1 DEF WTInv, HashOK
    <3>3. {u \in Threads : pc[u] \in {"delete", "release_delete"} /\ loc[u].id = i} = {t}
      BY <3>1, <3>2 DEF Deleting
    <3> QED
      BY <3>3, FS_Singleton
  <2> QED
    BY <2>1, <2>2, <2>3, <2>4 DEF GraphConsistent
<1> QED
  BY <1>1, WTInvariant, PTL

(* Every read lock of a resource belongs to a frame of a search, to its    *)
(* last return or to its victim, and the victim of a cycle still waits, so *)
(* that deadlock_search leaves no lock behind.                             *)
THEOREM SearchLocksAccounted == Spec => []SearchLocks
<1>1. WTInv => SearchLocks
  <2> SUFFICES ASSUME WTInv PROVE SearchLocks
    OBVIOUS
  <2>1. ASSUME NEW t \in Threads PROVE Nobody \notin KeptFor(t)
    BY WTAssumption, VictimSlot DEF KeptFor
  <2> QED
    BY <2>1 DEF SearchLocks, WTInv
<1> QED
  BY <1>1, WTInvariant, PTL

(* A thread asleep in wt_thd_cond_timedwait has an owner to wait for: the  *)
(* broadcast of the last owner is never lost.                              *)
THEOREM NobodySleepsForNobody == Spec => []SleepsForSomebody
<1>1. WTInv => SleepsForSomebody
  BY DEF WTInv, SleepOK, SleepsForSomebody
<1> QED
  BY <1>1, WTInvariant, PTL
=============================================================================
