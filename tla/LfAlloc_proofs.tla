--------------------------- MODULE LfAlloc_proofs ---------------------------
(***************************************************************************)
(* Proofs about the lock-free allocator, for any number of threads,        *)
(* objects and elements of the pinbox.                                     *)
(*                                                                         *)
(* The invariant has two layers.  BoxInv is about the pinbox: the elements *)
(* nobody has form the list that starts at pinstack_top_ver, and what a    *)
(* thread read of that list is still true when its compare-and-swap finds  *)
(* the version unchanged.  NodeInv is about the objects: a function at     *)
(* gives every object its place, the objects of a place form the list that *)
(* starts at its pointer, and a pin that was checked keeps its object from *)
(* being chained.                                                          *)
(***************************************************************************)
EXTENDS LfAlloc, ListFacts

-----------------------------------------------------------------------------
(* The invariant of the pinbox. *)

(* Threads that may pop an element from the stack, or take a new one *)
Getters == {t \in Threads : pc[t] \in {"get_loop", "get_cas"}}

(* The element a thread owns or is about to own, 0 if none *)
Mine(t) == IF pins[t] # 0 THEN pins[t]
           ELSE IF pc[t] = "get_init" THEN local[t].index ELSE 0

(* Threads that will give an element back *)
Putters == Getters \cup {t \in Threads : Mine(t) # 0}

Unused == {e \in Elements : e <= pinsInArray /\ \A t \in Threads : Mine(t) # e}

Version(tv) == tv \div LF_PINBOX_MAX_PINS

Locals == [node : Pointers, next : Pointers \cup {0} \cup Elements,
           topVer : 0 .. Wrap - 1,
           index : 0 .. LF_PINBOX_MAX_PINS, addr : BOOLEAN,
           npins : 0 .. MaxInArray + 1, scan : 0 .. LF_PINBOX_MAX_PINS,
           granary : SUBSET Nodes,
           list : Pointers, first : Pointers, last : Pointers,
           caller : {"idle", "put_loop"}]

GetPC == {"get_loop", "get_cas", "get_init"}

(* What a thread knows of the pinbox *)
BoxThread(t) ==
    /\ pc[t] \in GetPC => pins[t] = 0
    /\ pc[t] \notin GetPC \cup {"idle"} => pins[t] # 0
    /\ pc[t] \in {"put_loop", "put_link", "put_cas"} => local[t].caller = "put_loop"
    /\ local[t].caller = "put_loop" => local[t].index = pins[t] /\ pins[t] # 0
    /\ pc[t] = "get_init" => local[t].index \in Elements
    /\ pc[t] \in {"get_loop", "get_cas", "put_link", "put_cas"} => local[t].topVer <= topVer
    /\ pc[t] = "get_cas" =>
          /\ local[t].index \in Elements /\ local[t].next \in {0} \cup Elements
          /\ local[t].index = Index(local[t].topVer)
          /\ local[t].topVer = topVer => local[t].next = link[local[t].index]
    /\ pins[t] # 0 /\ pc[t] \notin {"put_link", "put_cas"} => link[pins[t]] = pins[t]
    /\ pc[t] = "put_cas" => link[pins[t]] = Index(local[t].topVer)
    /\ Mine(t) <= pinsInArray

BoxInv ==
    /\ topVer \in 0 .. Wrap - 1
    /\ Version(topVer) + Cardinality(Getters) + Cardinality(Putters)
          < MaxVersion + 2 * Cardinality(Threads)
    /\ pinsInArray \in Nat
    /\ pinsInArray + Cardinality(Getters) <= MaxInArray
    /\ link \in [Elements -> {0} \cup Elements]
    /\ pc \in [Threads -> PC]
    /\ pins \in [Threads -> {0} \cup Elements]
    /\ local \in [Threads -> Locals]
    /\ \A t \in Threads : BoxThread(t)
    /\ \A t, u \in Threads : Mine(t) = Mine(u) /\ Mine(t) # 0 => t = u
    /\ IsList(link, Index(topVer), 0, Unused)

-----------------------------------------------------------------------------
(* The invariant of the objects. *)

Kinds == {"fresh", "stack", "held", "swept", "chained", "purgatory"}

Places == Kinds \X (Threads \cup Elements \cup {0})

At(at, kind, who) == {n \in Nodes : at[n] = <<kind, who>>}

(* first -> ... -> last, whatever the word of the last object says *)
IsChain(f, first, last, A) ==
    IF last = Null THEN A = {}
    ELSE last \in A /\ IsList([f EXCEPT ![last] = Null], first, Null, A)

StackOK(at) ==
    /\ fresh = At(at, "fresh", 0)
    /\ IsList(freeptr, top, Null, At(at, "stack", 0))

PurgatoryOK(at, e) ==
    /\ IsList(freeptr, purgatory[e], Null, At(at, "purgatory", e))
    /\ purgatoryCount[e] = Cardinality(At(at, "purgatory", e))

ThreadOK(at, t) ==
    /\ Held(t) = At(at, "held", t)
    /\ IsList(freeptr, local[t].list, Null, At(at, "swept", t))
    /\ IsChain(freeptr, local[t].first, local[t].last, At(at, "chained", t))

(* Every object has a place, and the list of a place has the objects there. *)
PlacesOK(at) ==
    /\ at \in [Nodes -> Places]
    /\ \A n \in Nodes :
         /\ at[n][1] \in {"fresh", "stack"} => at[n][2] = 0
         /\ at[n][1] \in {"held", "swept", "chained"} => at[n][2] \in Threads
         /\ at[n][1] = "purgatory" => at[n][2] \in Elements
    /\ StackOK(at)
    /\ \A e \in Elements : PurgatoryOK(at, e)
    /\ \A t \in Threads : ThreadOK(at, t)

NewPC == {"new_top", "new_pin", "new_check", "new_malloc", "new_next", "new_cas", "new_unpin"}

PushPC == {"push_link", "push_cas"}

(* What a thread knows of its element and of the lists in its hands *)
NodeThread(t) ==
    /\ pc[t] \in {"new_check", "new_malloc", "new_next", "new_cas"} => pin[pins[t]] = local[t].node
    /\ pc[t] = "new_malloc" => local[t].node = Null
    /\ pc[t] \in {"new_next", "new_cas"} => local[t].node # Null
    /\ pc[t] = "new_cas" => local[t].next \in Pointers
    /\ pins[t] # 0 /\ pc[t] \notin NewPC => pin[pins[t]] = Null
    /\ pc[t] # "sweep" => local[t].list = Null
    /\ pc[t] \notin PushPC \cup {"sweep"} => local[t].last = Null
    /\ pc[t] \in PushPC => local[t].last # Null
    /\ pc[t] = "push_cas" => freeptr[local[t].last] = local[t].node
    /\ pc[t] \in {"put_link", "put_cas"} => purgatory[pins[t]] = Null
    /\ pc[t] \in {"harvest", "sweep"} => local[t].scan >= 1

(* The object t pinned and then saw on the stack is not in a chain, and    *)
(* while it stayed on the stack its successor did not change.              *)
Pinning(t) == pc[t] \in {"new_next", "new_cas"}

Unchained(at, t) ==
    Pinning(t) =>
       /\ at[local[t].node][1] # "chained"
       /\ pc[t] = "new_cas" /\ at[local[t].node] = <<"stack", 0>>
             => freeptr[local[t].node] = local[t].next

(* And the scan of u, when it has the object in its purgatory, has met the *)
(* pin or will.                                                            *)
Noticed(at, t, u) ==
    Pinning(t) =>
       /\ at[local[t].node] = <<"purgatory", pins[u]>> /\ pc[u] = "harvest" /\ local[u].addr
             => /\ pins[t] < Limit(local[u].npins)
                /\ pins[t] < local[u].scan => local[t].node \in local[u].granary
       /\ at[local[t].node] = <<"swept", u>>
             => IF local[u].addr THEN local[t].node \in local[u].granary
                ELSE local[u].list = local[t].node => local[u].scan <= pins[t]

NodeTypes ==
    /\ top \in Pointers
    /\ freeptr \in [Nodes -> Pointers]
    /\ pin \in [Elements -> Pointers]
    /\ purgatory \in [Elements -> Pointers]
    /\ purgatoryCount \in [Elements -> Nat]
    /\ objects \in [Threads -> SUBSET Nodes]

Unowned ==
    \A e \in Elements : (\A t \in Threads : pins[t] # e) => pin[e] = Null /\ purgatory[e] = Null

NodeInv(at) ==
    /\ NodeTypes
    /\ PlacesOK(at)
    /\ \A t \in Threads : NodeThread(t)
    /\ Unowned
    /\ \A t \in Threads : Unchained(at, t)
    /\ \A t, u \in Threads : Noticed(at, t, u)

LfInv == BoxInv /\ \E at \in [Nodes -> Places] : NodeInv(at)


-----------------------------------------------------------------------------
(* Reach finds the members of a list, and no others.                       *)
LEMMA ListReach ==
    ASSUME NEW f, NEW h, NEW z, NEW A, IsFiniteSet(DOMAIN f), A \subseteq DOMAIN f,
           z \notin DOMAIN f, IsList(f, h, z, A)
    PROVE  Reach(f, h) \ {z} = A
<1>1. PICK s \in Seq(A) : IsListing(s, f, h, z, A)
  BY DEF IsList
<1> DEFINE n == Len(s)
           D == DOMAIN f
           W(k) == {x \in A \cup {z} : (\E i \in 1..n : i <= k + 1 /\ x = s[i]) \/ (x = z /\ n <= k)}
           w == [k \in Nat |-> W(k)]
<1>2. n \in Nat /\ DOMAIN s = 1..n /\ \A i \in 1..n : s[i] \in A
  OBVIOUS
<1>3. /\ A = {s[i] : i \in 1..n} /\ h = IF n = 0 THEN z ELSE s[1]
      /\ \A i \in 1..n : f[s[i]] = IF i = n THEN z ELSE s[i + 1]
  <2>1. s = <<>> <=> n = 0
    OBVIOUS
  <2> QED
    BY <1>1, <1>2, <2>1 DEF IsListing, ToSet
<1> HIDE DEF n
<1>4. W(0) = {h}
  <2>1. CASE n = 0
    BY <1>3, <2>1
  <2>2. CASE n # 0
    <3>1. 1 \in 1..n /\ ~(n <= 0) /\ \A i \in 1..n : i <= 0 + 1 => i = 1
      BY <1>2, <2>2
    <3>2. h = s[1] /\ h \in A
      BY <1>2, <1>3, <2>2, <3>1
    <3>3. h \in W(0)
      <4>1. 1 \in 1..n /\ 1 <= 0 + 1
        BY <3>1
      <4> QED
        BY <3>2, <4>1
    <3>4. ASSUME NEW x \in W(0) PROVE x = h
      BY <3>1, <3>2
    <3> QED
      <4> HIDE DEF W
      <4> QED
        BY <3>3, <3>4
  <2> QED
    BY <2>1, <2>2
<1>5. ASSUME NEW k \in Nat
      PROVE  W(k + 1) = W(k) \cup {f[m] : m \in W(k) \cap D}
  <2>1. ASSUME NEW x \in W(k) PROVE x \in W(k + 1)
    <3>1. n <= k => n <= k + 1
      BY <1>2
    <3>2. \A i \in 1..n : i <= k + 1 => i <= (k + 1) + 1
      BY <1>2
    <3> QED
      BY <3>1, <3>2
  <2>2. ASSUME NEW m \in W(k) \cap D PROVE f[m] \in W(k + 1)
    <3>1. PICK i \in 1..n : i <= k + 1 /\ m = s[i]
      OBVIOUS
    <3>2. CASE i = n
      <4>1. f[m] = z /\ n <= k + 1
        BY <1>3, <3>1, <3>2
      <4> QED
        BY <4>1
    <3>3. CASE i # n
      <4>1. i + 1 \in 1..n /\ i + 1 <= (k + 1) + 1
        BY <1>2, <3>1, <3>3
      <4>2. f[m] = s[i + 1] /\ s[i + 1] \in A
        BY <1>2, <1>3, <3>1, <3>3, <4>1
      <4> QED
        BY <4>1, <4>2
    <3> QED
      BY <3>2, <3>3
  <2>3. ASSUME NEW x \in W(k + 1), x \notin W(k) PROVE \E m \in W(k) \cap D : x = f[m]
    <3>1. CASE \E i \in 1..n : i <= (k + 1) + 1 /\ x = s[i]
      <4>1. PICK i \in 1..n : i <= (k + 1) + 1 /\ x = s[i]
        BY <3>1
      <4>2. ~(i <= k + 1) /\ x \in A
        BY <1>2, <2>3, <4>1
      <4>3. i - 1 \in 1..n /\ i - 1 <= k + 1 /\ i - 1 # n /\ (i - 1) + 1 = i
        BY <1>2, <4>1, <4>2
      <4>4. f[s[i - 1]] = x /\ s[i - 1] \in A
        BY <1>2, <1>3, <4>1, <4>3
      <4>5. s[i - 1] \in W(k) \cap D
        BY <4>3, <4>4
      <4> QED
        BY <4>4, <4>5
    <3>2. CASE x = z /\ n <= k + 1
      <4>1. n = k + 1
        BY <1>2, <2>3, <3>2
      <4>2. n \in 1..n /\ n <= k + 1
        BY <1>2, <4>1
      <4>3. f[s[n]] = z /\ s[n] \in A
        BY <1>2, <1>3, <4>2
      <4>4. s[n] \in W(k) \cap D
        BY <4>2, <4>3
      <4> QED
        BY <3>2, <4>3, <4>4
    <3> QED
      BY <2>3, <3>1, <3>2
  <2> QED
    <3> HIDE DEF W
    <3> QED
      BY <2>1, <2>2, <2>3
<1> HIDE DEF W
<1>6. w = [k \in Nat |-> IF k = 0 THEN {h}
                         ELSE w[k - 1] \cup {f[m] : m \in w[k - 1] \cap D}]
  <2>1. ASSUME NEW k \in Nat, k # 0
        PROVE  w[k] = w[k - 1] \cup {f[m] : m \in w[k - 1] \cap D}
    <3>1. k - 1 \in Nat /\ (k - 1) + 1 = k
      BY <2>1
    <3>2. W(k) = W(k - 1) \cup {f[m] : m \in W(k - 1) \cap D}
      BY <1>5, <3>1
    <3> QED
      BY <3>1, <3>2
  <2>2. w[0] = {h}
    BY <1>4
  <2>3. ASSUME NEW k \in Nat
        PROVE  w[k] = IF k = 0 THEN {h} ELSE w[k - 1] \cup {f[m] : m \in w[k - 1] \cap D}
    BY <2>1, <2>2
  <2>4. w = [k \in Nat |-> w[k]]
    OBVIOUS
  <2> HIDE DEF w
  <2> QED
    BY <2>3, <2>4
<1> DEFINE v == CHOOSE v : v = [k \in Nat |-> IF k = 0 THEN {h}
                               ELSE v[k - 1] \cup {f[m] : m \in v[k - 1] \cap D}]
<1>7. v = [k \in Nat |-> IF k = 0 THEN {h}
                         ELSE v[k - 1] \cup {f[m] : m \in v[k - 1] \cap D}]
  <2> HIDE DEF w
  <2> QED
    BY <1>6
<1>8. Reach(f, h) = v[Cardinality(D)]
  BY DEF Reach
<1> HIDE DEF v
<1>9. Nat \subseteq {k \in Nat : v[k] = W(k)}
  <2> DEFINE T == {k \in Nat : v[k] = W(k)}
  <2>1. 0 \in T
    BY <1>4, <1>7
  <2>2. ASSUME NEW k \in Nat, k \in T PROVE k + 1 \in T
    <3>1. k + 1 \in Nat /\ k + 1 # 0 /\ (k + 1) - 1 = k
      OBVIOUS
    <3>2. v[k + 1] = v[k] \cup {f[m] : m \in v[k] \cap D}
      BY <1>7, <3>1
    <3>3. v[k + 1] = W(k + 1)
      BY <1>5, <2>2, <3>2
    <3> QED
      BY <3>3
  <2> HIDE DEF T
  <2>3. Nat \subseteq T
    BY <2>1, <2>2, SetInduction
  <2> QED
    BY <2>3 DEF T
<1>10. Cardinality(D) \in Nat /\ n <= Cardinality(D)
  <2>1. s \in Injection(1..n, D)
    <3>1. IsInjective(s)
      BY <1>1 DEF IsListing
    <3>2. s \in [1..n -> D]
      BY <1>2
    <3> QED
      BY <1>2, <3>1, <3>2 DEF Injection, IsInjective
  <2>2. IsFiniteSet(1..n) /\ Cardinality(1..n) = n
    <3>1. 1 \in Int /\ n \in Int
      BY <1>2
    <3> QED
      BY <1>2, <3>1, FS_Interval
  <2>3. Cardinality(1..n) <= Cardinality(D)
    BY <2>1, <2>2, FS_Injection
  <2> QED
    BY <2>2, <2>3, FS_CardinalityType
<1>11. W(Cardinality(D)) \ {z} = A
  <2>1. \A i \in 1..n : i <= Cardinality(D) + 1
    BY <1>2, <1>10
  <2> QED
    BY <1>3, <2>1 DEF W
<1> QED
  BY <1>8, <1>9, <1>10, <1>11

-----------------------------------------------------------------------------
(* The parts of pinstack_top_ver. *)
M == LF_PINBOX_MAX_PINS

LEMMA Parts ==
    ASSUME NEW tv \in Nat
    PROVE  /\ Index(tv) \in 0 .. M - 1 /\ Version(tv) \in Nat
           /\ tv = M * Version(tv) + Index(tv)
<1>1. M \in Nat /\ M > 0
  BY SizeAssumption DEF M
<1>2. tv % M \in 0 .. M - 1 /\ tv \div M \in Nat /\ tv = M * (tv \div M) + (tv % M)
  BY <1>1
<1> QED
  BY <1>2 DEF Index, Version, M

LEMMA PartsUnique ==
    ASSUME NEW q \in Nat, NEW r \in 0 .. M - 1, NEW a \in Nat, NEW b \in 0 .. M - 1,
           M * q + r = M * a + b
    PROVE  q = a /\ r = b
<1>1. M \in Nat /\ M > 0
  BY SizeAssumption DEF M
<1> HIDE DEF M
<1>2. M * (q - a) = b - r
  <2>1. M * (q - a) = M * q - M * a
    BY <1>1
  <2>2. M * q \in Nat /\ M * a \in Nat
    BY <1>1
  <2> QED
    BY <1>1, <2>1, <2>2
<1>3. ASSUME q > a PROVE FALSE
  <2>1. M * (q - a) >= M
    BY <1>1, <1>3
  <2> QED
    BY <1>1, <1>2, <2>1
<1>4. ASSUME q < a PROVE FALSE
  <2>1. M * (q - a) <= -M
    <3>1. q - a \in Int /\ q - a <= -1
      BY <1>4
    <3> QED
      BY <1>1, <3>1
  <2> QED
    BY <1>1, <1>2, <2>1
<1>5. q = a
  BY <1>3, <1>4
<1>6. M * q \in Nat
  BY <1>1
<1> QED
  BY <1>1, <1>5, <1>6

(* A compare-and-swap that succeeds moves to the next version: the word    *)
(* grows, and its index is the one that was put into it.                   *)
LEMMA PoppedValue ==
    ASSUME NEW tv \in Nat, NEW next \in 0 .. M - 1, Version(tv) + 1 < Versions
    PROVE  /\ Popped(tv, Index(tv), next) \in 0 .. Wrap - 1
           /\ Popped(tv, Index(tv), next) > tv
           /\ Index(Popped(tv, Index(tv), next)) = next
           /\ Version(Popped(tv, Index(tv), next)) = Version(tv) + 1
<1>1. M \in Nat /\ M > 0 /\ Versions \in Nat
  BY SizeAssumption DEF M
<1>2. /\ Index(tv) \in 0 .. M - 1 /\ Version(tv) \in Nat
      /\ tv = M * Version(tv) + Index(tv)
  BY Parts
<1>3. PICK q \in Nat : q = Version(tv)
  BY <1>2
<1>4. PICK i \in 0 .. M - 1 : i = Index(tv)
  BY <1>2
<1>5. PICK p \in Nat : p = M * (q + 1) + next
  BY <1>1
<1>6. tv - i + next + M = p
  <2>1. M * (q + 1) = M * q + M /\ M * q \in Nat
    BY <1>1
  <2>2. tv = M * q + i
    BY <1>2, <1>3, <1>4
  <2> QED
    BY <1>1, <1>5, <2>1, <2>2
<1>7. p < M * Versions
  <2>1. q + 2 <= Versions
    BY <1>1, <1>3
  <2>2. M * (q + 2) <= M * Versions
    BY <1>1, <2>1
  <2>3. M * (q + 2) = M * (q + 1) + M /\ M * (q + 1) \in Nat
    BY <1>1
  <2> QED
    BY <1>1, <1>5, <2>2, <2>3
<1>8. Wrap = M * Versions /\ M * Versions \in Nat
  BY <1>1 DEF Wrap, M
<1>9. p % Wrap = p
  <2>1. Wrap \in Nat /\ p < Wrap
    BY <1>7, <1>8
  <2> QED
    BY <2>1
<1>10. Popped(tv, i, next) = p
  BY <1>6, <1>9 DEF Popped, M
<1>11. p > tv
  BY <1>1, <1>6
<1>12. Index(p) = next /\ Version(p) = q + 1
  <2>1. Index(p) \in 0 .. M - 1 /\ Version(p) \in Nat /\ p = M * Version(p) + Index(p)
    BY Parts
  <2>2. M * Version(p) + Index(p) = M * (q + 1) + next
    BY <1>5, <2>1
  <2> QED
    BY <2>1, <2>2, PartsUnique
<1> QED
  BY <1>3, <1>4, <1>7, <1>8, <1>10, <1>11, <1>12

LEMMA SmallVersion ==
    ASSUME NEW tv \in Nat, tv < MaxVersion * LF_PINBOX_MAX_PINS
    PROVE  Version(tv) < MaxVersion
<1>1. M \in Nat /\ M > 0 /\ MaxVersion \in Nat
  BY SizeAssumption DEF M
<1>2. /\ Index(tv) \in 0 .. M - 1 /\ Version(tv) \in Nat
      /\ tv = M * Version(tv) + Index(tv) /\ tv < MaxVersion * M
  BY Parts DEF M
<1>3. PICK q \in Nat : q = Version(tv)
  BY <1>2
<1>4. ASSUME q >= MaxVersion PROVE FALSE
  <2>1. M * q >= MaxVersion * M
    BY <1>1, <1>4
  <2>2. M * q \in Nat /\ MaxVersion * M \in Nat
    BY <1>1
  <2> QED
    BY <1>2, <1>3, <2>1, <2>2
<1> QED
  BY <1>1, <1>3, <1>4


-----------------------------------------------------------------------------
(* The pinbox. *)
LEMMA Sizes ==
    /\ M \in Nat /\ M > 1 /\ Elements = 1 .. M - 1 /\ 0 \notin Elements
    /\ Versions \in Nat /\ MaxVersion \in Nat /\ MaxInArray \in Nat
    /\ Wrap \in Nat /\ Wrap > 0
    /\ Cardinality(Threads) \in Nat
<1>1. M \in Nat /\ M > 1 /\ Versions \in Nat /\ Versions > 0 /\ MaxVersion \in Nat /\ MaxInArray \in Nat
  BY SizeAssumption DEF M
<1>2. Wrap \in Nat /\ Wrap > 0
  <2>1. Wrap = M * Versions
    BY DEF Wrap, M
  <2> QED
    BY <1>1, <2>1
<1>3. Elements = 1 .. M - 1 /\ 0 \notin Elements
  BY <1>1 DEF Elements, M
<1> QED
  BY <1>1, <1>2, <1>3, FiniteAssumption, FS_CardinalityType

LEMMA Counting ==
    /\ IsFiniteSet(Getters) /\ Cardinality(Getters) \in 0 .. Cardinality(Threads)
    /\ IsFiniteSet(Putters) /\ Cardinality(Putters) \in 0 .. Cardinality(Threads)
<1>1. Getters \subseteq Threads /\ Putters \subseteq Threads
  BY DEF Getters, Putters
<1>2. ASSUME NEW S, S \subseteq Threads
      PROVE  IsFiniteSet(S) /\ Cardinality(S) \in 0 .. Cardinality(Threads)
  <2>1. IsFiniteSet(S) /\ Cardinality(S) <= Cardinality(Threads)
    BY <1>2, FiniteAssumption, FS_Subset
  <2>2. Cardinality(S) \in Nat /\ Cardinality(Threads) \in Nat
    BY <2>1, FiniteAssumption, FS_CardinalityType
  <2> QED
    BY <2>1, <2>2
<1> QED
  BY <1>1, <1>2

LEMMA BoxTypes ==
    ASSUME BoxInv
    PROVE  /\ topVer \in Nat /\ topVer <= Wrap - 1 /\ pinsInArray \in Nat
           /\ Index(topVer) \in 0 .. M - 1 /\ Index(topVer) \in {0} \cup Elements
           /\ Version(topVer) \in Nat
           /\ \A t \in Threads :
                /\ pc[t] \in PC /\ pins[t] \in {0} \cup Elements /\ local[t] \in Locals
                /\ local[t].topVer \in Nat /\ local[t].index \in 0 .. M
                /\ Index(local[t].topVer) \in {0} \cup Elements
                /\ Mine(t) \in {0} \cup Elements
                /\ pins[t] # 0 => Mine(t) = pins[t]
           /\ 0 \notin Unused
<1>1. topVer \in Nat /\ topVer <= Wrap - 1 /\ pinsInArray \in Nat
  BY Sizes DEF BoxInv
<1>2. Index(topVer) \in 0 .. M - 1 /\ Version(topVer) \in Nat
  BY <1>1, Parts
<1>3. ASSUME NEW t \in Threads
      PROVE  /\ pc[t] \in PC /\ pins[t] \in {0} \cup Elements /\ local[t] \in Locals
             /\ local[t].topVer \in Nat /\ local[t].index \in 0 .. M
             /\ Index(local[t].topVer) \in {0} \cup Elements
             /\ Mine(t) \in {0} \cup Elements
             /\ pins[t] # 0 => Mine(t) = pins[t]
  <2>1. pc[t] \in PC /\ pins[t] \in {0} \cup Elements /\ local[t] \in Locals
    BY DEF BoxInv
  <2>2. local[t].topVer \in 0 .. Wrap - 1 /\ local[t].index \in 0 .. M
    BY <2>1 DEF Locals, M
  <2>3. local[t].topVer \in Nat
    BY <2>2, Sizes
  <2>4. Index(local[t].topVer) \in 0 .. M - 1
    BY <2>3, Parts
  <2>5. Index(local[t].topVer) \in {0} \cup Elements
    BY <2>4, Sizes
  <2>6. BoxThread(t)
    BY DEF BoxInv
  <2>7. Mine(t) \in {0} \cup Elements /\ (pins[t] # 0 => Mine(t) = pins[t])
    BY <2>1, <2>6 DEF Mine, BoxThread
  <2> QED
    BY <2>1, <2>2, <2>3, <2>5, <2>7
<1>4. Index(topVer) \in {0} \cup Elements
  BY <1>2, Sizes
<1> QED
  BY <1>1, <1>2, <1>3, <1>4, Sizes DEF Unused

(* What the other threads know of the pinbox stays true when the version   *)
(* does not go back and nobody writes the link of an element of theirs or  *)
(* of an unused one.                                                       *)
LEMMA OtherThread ==
    ASSUME BoxInv, NEW u \in Threads,
           pc'[u] = pc[u], local'[u] = local[u], pins'[u] = pins[u],
           pinsInArray' \in Nat, pinsInArray' >= pinsInArray,
           topVer' \in Nat, topVer' >= topVer,
           \A e \in Elements : link'[e] = link[e] \/ \E t \in Threads \ {u} : Mine(t) = e
    PROVE  BoxThread(u)' /\ Mine(u)' = Mine(u)
<1>1. /\ topVer \in Nat /\ pinsInArray \in Nat /\ 0 \notin Elements
      /\ Index(topVer) \in {0} \cup Elements
      /\ pins[u] \in {0} \cup Elements /\ local[u].topVer \in Nat
      /\ (pins[u] # 0 => Mine(u) = pins[u]) /\ 0 \notin Unused /\ Mine(u) \in {0} \cup Elements
  BY BoxTypes, Sizes
<1>2. Mine(u)' = Mine(u)
  BY DEF Mine
<1>3. BoxThread(u)
  BY DEF BoxInv
<1>4. pins[u] # 0 => link'[pins[u]] = link[pins[u]]
  <2> SUFFICES ASSUME pins[u] # 0 PROVE link'[pins[u]] = link[pins[u]]
    OBVIOUS
  <2>1. pins[u] \in Elements /\ Mine(u) = pins[u]
    BY <1>1
  <2>2. \A t \in Threads \ {u} : Mine(t) # pins[u]
    BY <2>1 DEF BoxInv
  <2> QED
    BY <2>1, <2>2
<1>5. ASSUME pc[u] = "get_cas", local[u].topVer = topVer'
      PROVE  local[u].next = link'[local[u].index]
  <2>1. local[u].topVer <= topVer /\ local[u].index \in Elements /\ local[u].index = Index(local[u].topVer)
    BY <1>3, <1>5 DEF BoxThread
  <2>2. local[u].topVer = topVer
    BY <1>1, <1>5, <2>1
  <2>3. local[u].next = link[local[u].index]
    BY <1>3, <1>5, <2>2 DEF BoxThread
  <2>4. local[u].index \in Unused
    <3>1. IsList(link, Index(topVer), 0, Unused)
      BY DEF BoxInv
    <3>2. Index(topVer) # 0
      BY <1>1, <2>1, <2>2
    <3> QED
      BY <1>1, <2>1, <2>2, <3>1, <3>2, ListEnds
  <2>5. \A t \in Threads : Mine(t) # local[u].index
    BY <2>4 DEF Unused
  <2> QED
    BY <2>1, <2>3, <2>5
<1>6. Mine(u) <= pinsInArray'
  <2>1. Mine(u) <= pinsInArray
    BY <1>3 DEF BoxThread
  <2>2. Mine(u) \in Nat
    BY <1>1, Sizes
  <2> QED
    BY <1>1, <2>1, <2>2
<1>7. pc[u] \in {"get_loop", "get_cas", "put_link", "put_cas"} => local[u].topVer <= topVer'
  <2>1. pc[u] \in {"get_loop", "get_cas", "put_link", "put_cas"} => local[u].topVer <= topVer
    BY <1>3 DEF BoxThread
  <2> QED
    BY <1>1, <2>1
<1>8. /\ pc[u] \in GetPC => pins[u] = 0
      /\ pc[u] \notin GetPC \cup {"idle"} => pins[u] # 0
      /\ pc[u] \in {"put_loop", "put_link", "put_cas"} => local[u].caller = "put_loop"
      /\ local[u].caller = "put_loop" => local[u].index = pins[u] /\ pins[u] # 0
      /\ pc[u] = "get_init" => local[u].index \in Elements
      /\ pc[u] = "get_cas" =>
            /\ local[u].index \in Elements /\ local[u].next \in {0} \cup Elements
            /\ local[u].index = Index(local[u].topVer)
      /\ pins[u] # 0 /\ pc[u] \notin {"put_link", "put_cas"} => link[pins[u]] = pins[u]
      /\ pc[u] = "put_cas" => link[pins[u]] = Index(local[u].topVer)
  BY <1>3 DEF BoxThread
<1>9. pc[u] = "put_cas" => pins[u] # 0
  BY <1>8 DEF GetPC
<1> QED
  BY <1>2, <1>4, <1>5, <1>6, <1>7, <1>8, <1>9 DEF BoxThread, Index


LEMMA ThreadSet ==
    ASSUME NEW S, S \subseteq Threads
    PROVE  /\ IsFiniteSet(S) /\ Cardinality(S) \in Nat /\ Cardinality(S) <= Cardinality(Threads)
           /\ \A t \in S : /\ Cardinality(S \ {t}) = Cardinality(S) - 1
                           /\ Cardinality(S \ {t}) \in Nat
<1>1. IsFiniteSet(S) /\ Cardinality(S) <= Cardinality(Threads)
  BY FiniteAssumption, FS_Subset
<1>2. Cardinality(S) \in Nat
  BY <1>1, FS_CardinalityType
<1>3. ASSUME NEW t \in S
      PROVE  Cardinality(S \ {t}) = Cardinality(S) - 1 /\ Cardinality(S \ {t}) \in Nat
  <2>1. IsFiniteSet(S \ {t}) /\ Cardinality(S \ {t}) = Cardinality(S) - 1
    BY <1>1, FS_RemoveElement
  <2> QED
    BY <2>1, FS_CardinalityType
<1> QED
  BY <1>1, <1>2, <1>3

(* A step of t keeps the invariant of the pinbox if t's own part of it     *)
(* holds after the step, the version does not go back, only the link of    *)
(* t's element is written and a new element of t was unused or is new.     *)
LEMMA BoxStep ==
    ASSUME BoxInv, NEW t \in Threads, NEW p \in PC, NEW l \in Locals, NEW q \in {0} \cup Elements,
           pc' = [pc EXCEPT ![t] = p], local' = [local EXCEPT ![t] = l],
           pins' = [pins EXCEPT ![t] = q],
           pinsInArray' \in Nat, pinsInArray' >= pinsInArray,
           topVer' \in 0 .. Wrap - 1, topVer' >= topVer,
           link' \in [Elements -> {0} \cup Elements],
           \A e \in Elements : link'[e] = link[e] \/ Mine(t) = e,
           BoxThread(t)',
           Mine(t)' # 0 => Mine(t)' = Mine(t) \/ Mine(t)' \in Unused \/ Mine(t)' > pinsInArray,
           Version(topVer') + Cardinality(Getters') + Cardinality(Putters')
              < MaxVersion + 2 * Cardinality(Threads),
           pinsInArray' + Cardinality(Getters') <= MaxInArray,
           IsList(link', Index(topVer'), 0, Unused')
    PROVE  BoxInv' /\ \A u \in Threads \ {t} : Mine(u)' = Mine(u)
<1>1. /\ pc' \in [Threads -> PC] /\ local' \in [Threads -> Locals]
      /\ pins' \in [Threads -> {0} \cup Elements]
  BY DEF BoxInv
<1>2. ASSUME NEW u \in Threads \ {t}
      PROVE  pc'[u] = pc[u] /\ local'[u] = local[u] /\ pins'[u] = pins[u]
  BY DEF BoxInv
<1>3. topVer' \in Nat
  BY Sizes
<1>4. ASSUME NEW u \in Threads \ {t}
      PROVE  BoxThread(u)' /\ Mine(u)' = Mine(u)
  <2>1. \A e \in Elements : link'[e] = link[e] \/ \E v \in Threads \ {u} : Mine(v) = e
    OBVIOUS
  <2>2. u \in Threads /\ pc'[u] = pc[u] /\ local'[u] = local[u] /\ pins'[u] = pins[u]
    BY <1>2
  <2> QED
    BY <1>3, <2>1, <2>2, OtherThread
<1>5. \A u \in Threads : BoxThread(u)'
  BY <1>4
<1>6. ASSUME NEW u \in Threads, NEW v \in Threads, Mine(u)' = Mine(v)', Mine(u)' # 0
      PROVE  u = v
  <2>1. ASSUME NEW w \in Threads \ {t}, Mine(w)' = Mine(t)', Mine(t)' # 0 PROVE FALSE
    <3>1. Mine(w) = Mine(t)' /\ Mine(w) # 0
      BY <1>4, <2>1
    <3>2. Mine(w) # Mine(t)
      BY <3>1 DEF BoxInv
    <3>3. Mine(w) <= pinsInArray
      BY DEF BoxInv, BoxThread
    <3>4. Mine(w) \notin Unused
      BY DEF Unused
    <3>5. Mine(w) > pinsInArray
      BY <2>1, <3>1, <3>2, <3>4
    <3>6. Mine(w) \in Nat /\ pinsInArray \in Nat
      BY BoxTypes, Sizes
    <3> QED
      BY <3>3, <3>5, <3>6
  <2>2. CASE u # t /\ v # t
    BY <1>4, <1>6, <2>2 DEF BoxInv
  <2>3. CASE u # t /\ v = t
    BY <1>6, <2>1, <2>3
  <2>4. CASE u = t /\ v # t
    BY <1>6, <2>1, <2>4
  <2> QED
    BY <2>2, <2>3, <2>4
<1>7. /\ topVer' \in 0 .. Wrap - 1 /\ pinsInArray' \in Nat
      /\ link' \in [Elements -> {0} \cup Elements]
  OBVIOUS
<1> QED
  BY <1>1, <1>4, <1>5, <1>6, <1>7 DEF BoxInv, Index, Version

(* The steps of a thread that has pins and is not giving them back leave   *)
(* the pinbox alone.                                                       *)
LEMMA BoxFrame ==
    ASSUME BoxInv, NEW t \in Threads, NEW p \in PC, NEW l \in Locals,
           UNCHANGED <<topVer, pinsInArray, link, pins>>,
           pc' = [pc EXCEPT ![t] = p], local' = [local EXCEPT ![t] = l],
           pins[t] # 0, p \notin GetPC, pc[t] \notin {"put_link", "put_cas"},
           p \notin {"put_link", "put_cas"},
           p = "put_loop" => l.caller = "put_loop",
           l.caller = "put_loop" => l.index = pins[t]
    PROVE  BoxInv' /\ \A u \in Threads : Mine(u)' = Mine(u)
<1>1. pc'[t] = p /\ local'[t] = l /\ pins'[t] = pins[t] /\ pins' = [pins EXCEPT ![t] = pins[t]]
  BY DEF BoxInv
<1>2. \A u \in Threads \ {t} : pc'[u] = pc[u] /\ local'[u] = local[u]
  BY DEF BoxInv
<1>3. BoxThread(t) /\ pc[t] \notin GetPC
  BY DEF BoxInv, BoxThread
<1>4. Mine(t)' = Mine(t) /\ Mine(t) = pins[t]
  BY <1>1 DEF Mine
<1>5. \A u \in Threads : Mine(u)' = Mine(u)
  BY <1>2, <1>4 DEF Mine
<1>6. BoxThread(t)'
  <2>1. link[pins[t]] = pins[t] /\ Mine(t) <= pinsInArray
    BY <1>3 DEF BoxThread
  <2> QED
    BY <1>1, <1>3, <1>4, <2>1 DEF BoxThread, GetPC
<1>7. Getters' = Getters /\ Putters' = Putters /\ Unused' = Unused
  <2>1. ASSUME NEW u \in Threads
        PROVE  pc'[u] \in {"get_loop", "get_cas"} <=> pc[u] \in {"get_loop", "get_cas"}
    BY <1>1, <1>2, <1>3 DEF GetPC
  <2>2. Getters' = Getters
    BY <2>1 DEF Getters
  <2> QED
    BY <1>5, <2>2 DEF Putters, Unused
<1>8. /\ Version(topVer') + Cardinality(Getters') + Cardinality(Putters')
              < MaxVersion + 2 * Cardinality(Threads)
      /\ pinsInArray' + Cardinality(Getters') <= MaxInArray
      /\ IsList(link', Index(topVer'), 0, Unused')
      /\ link' \in [Elements -> {0} \cup Elements]
      /\ topVer' \in 0 .. Wrap - 1 /\ pinsInArray' \in Nat
  BY <1>7 DEF BoxInv
<1>9. topVer' >= topVer /\ pinsInArray' >= pinsInArray /\ pins[t] \in {0} \cup Elements
  BY BoxTypes
<1>10. BoxInv'
  BY <1>1, <1>4, <1>6, <1>8, <1>9, BoxStep
<1> QED
  BY <1>5, <1>10

LEMMA BoxInit ==
    ASSUME Init
    PROVE  BoxInv
<1>1. NoLocals \in Locals
  <2>1. /\ 0 \in 0 .. Wrap - 1 /\ 0 \in 0 .. LF_PINBOX_MAX_PINS /\ 0 \in 0 .. MaxInArray + 1
    BY Sizes DEF M
  <2> QED
    BY <2>1 DEF NoLocals, Locals, Pointers
<1>2. \A t \in Threads : Mine(t) = 0 /\ pc[t] = "idle" /\ pins[t] = 0 /\ local[t] = NoLocals
  BY DEF Init, Mine
<1>3. Getters = {} /\ Putters = {} /\ Unused = {}
  <2>1. Getters = {}
    BY <1>2 DEF Getters
  <2>2. \A e \in Elements : ~(e <= 0)
    BY Sizes
  <2> QED
    BY <1>2, <2>1, <2>2 DEF Putters, Unused, Init
<1>4. Cardinality({}) = 0
  BY FS_EmptySet
<1>5. Index(0) = 0 /\ Version(0) = 0
  <2>1. Index(0) \in 0 .. M - 1 /\ Version(0) \in Nat /\ 0 = M * Version(0) + Index(0)
    BY Parts
  <2>2. M * 0 + 0 = M * Version(0) + Index(0) /\ 0 \in Nat /\ 0 \in 0 .. M - 1
    BY <2>1, Sizes
  <2> QED
    BY <2>1, <2>2, PartsUnique
<1>6. \A t \in Threads : BoxThread(t)
  <2>1. NoLocals.caller = "idle"
    BY DEF NoLocals
  <2> QED
    BY <1>2, <2>1 DEF BoxThread, GetPC, Init
<1>7. IsList(link, Index(topVer), 0, Unused)
  <2>1. Index(topVer) = 0
    BY <1>5 DEF Init
  <2> QED
    BY <1>3, <2>1, EmptyIsList
<1>8. 0 + 0 + 0 < MaxVersion + 2 * Cardinality(Threads) /\ 0 + 0 <= MaxInArray /\ 0 \in 0 .. Wrap - 1
  <2>1. MaxVersion >= 1
    BY SizeAssumption
  <2> QED
    BY <2>1, Sizes
<1>9. Version(topVer) + Cardinality(Getters) + Cardinality(Putters) = 0 + 0 + 0
  BY <1>3, <1>4, <1>5 DEF Init
<1>10. /\ pc \in [Threads -> PC] /\ pins \in [Threads -> {0} \cup Elements]
       /\ local \in [Threads -> Locals] /\ link \in [Elements -> {0} \cup Elements]
       /\ topVer = 0 /\ pinsInArray = 0
  BY <1>1 DEF Init, PC
<1> QED
  BY <1>2, <1>3, <1>4, <1>6, <1>7, <1>8, <1>9, <1>10 DEF BoxInv


-----------------------------------------------------------------------------
(* The steps of get_pins and put_pins. *)
LEMMA NoLocalsType == NoLocals \in Locals /\ NoLocals.caller = "idle"
<1>1. /\ 0 \in 0 .. Wrap - 1 /\ 0 \in 0 .. LF_PINBOX_MAX_PINS /\ 0 \in 0 .. MaxInArray + 1
  BY Sizes DEF M
<1> QED
  BY <1>1 DEF NoLocals, Locals, Pointers

LEMMA BoxGetPins ==
    ASSUME BoxInv, NEW t \in Threads, GetPins(t)
    PROVE  BoxInv'
<1> USE DEF Set, Goto, boxVars
<1>1. PICK l \in Locals : l = [local[t] EXCEPT !.topVer = topVer] /\ l.topVer = topVer /\ l.caller = local[t].caller
  <2>1. local[t] \in Locals /\ topVer \in 0 .. Wrap - 1
    BY DEF BoxInv
  <2>2. [local[t] EXCEPT !.topVer = topVer] \in Locals
    BY <2>1 DEF Locals
  <2>3. PICK l \in Locals : l = [local[t] EXCEPT !.topVer = topVer]
    BY <2>2
  <2>4. l.topVer = topVer /\ l.caller = local[t].caller
    BY <2>1, <2>3 DEF Locals
  <2> QED
    BY <2>3, <2>4
<1>2. /\ pc[t] = "idle" /\ pins[t] = 0 /\ topVer < MaxVersion * LF_PINBOX_MAX_PINS
      /\ pinsInArray + Cardinality(Threads) < MaxInArray
      /\ local' = [local EXCEPT ![t] = l] /\ pc' = [pc EXCEPT ![t] = "get_loop"]
      /\ UNCHANGED <<topVer, pinsInArray, link, pins>>
  BY <1>1 DEF GetPins
<1>3. pc'[t] = "get_loop" /\ local'[t] = l /\ pins'[t] = 0 /\ pins' = [pins EXCEPT ![t] = 0]
  BY <1>2 DEF BoxInv
<1>4. \A u \in Threads \ {t} : pc'[u] = pc[u] /\ local'[u] = local[u]
  BY <1>2 DEF BoxInv
<1>5. Mine(t)' = 0 /\ Mine(t) = 0
  BY <1>2, <1>3 DEF Mine
<1>6. \A u \in Threads : Mine(u)' = Mine(u)
  BY <1>2, <1>4, <1>5 DEF Mine
<1>7. Unused' = Unused
  BY <1>2, <1>6 DEF Unused
<1>8. BoxThread(t)'
  <2>1. topVer \in Nat /\ pinsInArray \in Nat
    BY BoxTypes
  <2>2. BoxThread(t)
    BY DEF BoxInv
  <2>3. l.caller # "put_loop"
    BY <1>1, <1>2, <2>2 DEF BoxThread
  <2>4. l.topVer <= topVer /\ 0 <= pinsInArray
    BY <1>1, <2>1
  <2> QED
    BY <1>2, <1>3, <1>5, <2>3, <2>4 DEF BoxThread, GetPC
<1>9. /\ Cardinality(Getters') \in Nat /\ Cardinality(Getters') <= Cardinality(Threads)
      /\ Cardinality(Putters') \in Nat /\ Cardinality(Putters') <= Cardinality(Threads)
  <2>1. Getters' \subseteq Threads /\ Putters' \subseteq Threads
    BY DEF Getters, Putters
  <2> QED
    BY <2>1, ThreadSet
<1>10. Version(topVer) \in Nat /\ Version(topVer) < MaxVersion /\ topVer \in Nat /\ pinsInArray \in Nat
  <2>1. topVer \in Nat /\ Version(topVer) \in Nat /\ pinsInArray \in Nat
    BY BoxTypes
  <2> QED
    BY <1>2, <2>1, SmallVersion
<1>11. /\ Version(topVer') + Cardinality(Getters') + Cardinality(Putters')
            < MaxVersion + 2 * Cardinality(Threads)
       /\ pinsInArray' + Cardinality(Getters') <= MaxInArray
  BY <1>2, <1>9, <1>10, Sizes
<1>12. /\ IsList(link', Index(topVer'), 0, Unused') /\ link' \in [Elements -> {0} \cup Elements]
       /\ topVer' \in 0 .. Wrap - 1 /\ topVer' >= topVer /\ pinsInArray' \in Nat
       /\ pinsInArray' >= pinsInArray
  BY <1>2, <1>7, <1>10 DEF BoxInv
<1>13. "get_loop" \in PC /\ 0 \in {0} \cup Elements
  BY DEF PC
<1> QED
  BY <1>2, <1>3, <1>5, <1>8, <1>11, <1>12, <1>13, BoxStep

LEMMA BoxGetPinsNew ==
    ASSUME BoxInv, NEW t \in Threads, GetPinsNew(t)
    PROVE  BoxInv'
<1> USE DEF Set, Goto
<1>1. /\ pc[t] = "get_loop" /\ pinsInArray' = pinsInArray + 1
      /\ UNCHANGED <<topVer, link, pins>>
  BY DEF GetPinsNew
<1>2. /\ topVer \in Nat /\ pinsInArray \in Nat /\ Version(topVer) \in Nat
      /\ BoxThread(t) /\ local[t] \in Locals /\ topVer \in 0 .. Wrap - 1
      /\ \A u \in Threads : Mine(u) \in Nat /\ Mine(u) <= pinsInArray
  <2>1. \A u \in Threads : BoxThread(u)
    BY DEF BoxInv
  <2>2. \A u \in Threads : Mine(u) \in Nat
    BY BoxTypes, Sizes
  <2> QED
    BY <2>1, <2>2, BoxTypes DEF BoxInv, BoxThread
<1>3. pins[t] = 0 /\ pins' = [pins EXCEPT ![t] = 0] /\ pins'[t] = 0
  BY <1>1, <1>2 DEF BoxThread, GetPC, BoxInv
<1>4. Mine(t) = 0 /\ t \in Getters /\ t \in Putters
  BY <1>1, <1>3 DEF Mine, Getters, Putters
<1>5. Getters \subseteq Threads /\ Putters \subseteq Threads
  BY DEF Getters, Putters
<1>6. /\ Cardinality(Getters \ {t}) = Cardinality(Getters) - 1
      /\ Cardinality(Putters \ {t}) = Cardinality(Putters) - 1
      /\ Cardinality(Getters) \in Nat /\ Cardinality(Putters) \in Nat
  BY <1>4, <1>5, ThreadSet
<1>7. link' \in [Elements -> {0} \cup Elements] /\ topVer' >= topVer /\ pinsInArray' \in Nat
      /\ pinsInArray' >= pinsInArray /\ topVer' \in 0 .. Wrap - 1
  BY <1>1, <1>2 DEF BoxInv
<1>8. CASE pinsInArray + 1 >= LF_PINBOX_MAX_PINS
  <2>1. local' = [local EXCEPT ![t] = NoLocals] /\ pc' = [pc EXCEPT ![t] = "idle"]
    BY <1>8 DEF GetPinsNew
  <2>2. local'[t] = NoLocals /\ pc'[t] = "idle" /\ NoLocals \in Locals /\ "idle" \in PC
    BY <2>1, NoLocalsType DEF BoxInv, PC
  <2>3. \A u \in Threads \ {t} : pc'[u] = pc[u] /\ local'[u] = local[u]
    BY <2>1 DEF BoxInv
  <2>4. Mine(t)' = 0
    BY <1>3, <2>2 DEF Mine
  <2>5. \A u \in Threads : Mine(u)' = Mine(u)
    BY <1>1, <1>4, <2>3, <2>4 DEF Mine
  <2>6. Unused' = Unused
    <3>1. \A e \in Elements : e <= pinsInArray + 1 /\ e <= pinsInArray
      BY <1>2, <1>8, Sizes DEF M
    <3> QED
      BY <1>1, <2>5, <3>1 DEF Unused
  <2>7. Getters' = Getters \ {t}
    BY <2>2, <2>3 DEF Getters
  <2>8. Putters' = Putters \ {t}
    BY <1>4, <2>5, <2>7 DEF Putters
  <2>9. BoxThread(t)'
    BY <1>2, <1>3, <1>7, <2>2, <2>4, NoLocalsType DEF BoxThread, GetPC
  <2>10. /\ Version(topVer) + Cardinality(Getters) + Cardinality(Putters)
             < MaxVersion + 2 * Cardinality(Threads)
         /\ pinsInArray + Cardinality(Getters) <= MaxInArray
    BY DEF BoxInv
  <2>11. /\ Version(topVer') + Cardinality(Getters') + Cardinality(Putters')
             < MaxVersion + 2 * Cardinality(Threads)
         /\ pinsInArray' + Cardinality(Getters') <= MaxInArray
    <3>1. Cardinality(Getters') = Cardinality(Getters) - 1 /\ Cardinality(Putters') = Cardinality(Putters) - 1
      BY <1>6, <2>7, <2>8
    <3>2. Version(topVer') = Version(topVer) /\ MaxVersion \in Nat /\ MaxInArray \in Nat
      BY <1>1, Sizes
    <3>3. Cardinality(Threads) \in Nat
      BY Sizes
    <3> QED
      BY <1>1, <1>2, <1>6, <2>10, <3>1, <3>2, <3>3
  <2>12. IsList(link', Index(topVer'), 0, Unused')
    BY <1>1, <2>6 DEF BoxInv
  <2> QED
    BY <1>1, <1>3, <1>7, <2>1, <2>2, <2>4, <2>9, <2>11, <2>12, BoxStep
<1>9. CASE ~(pinsInArray + 1 >= LF_PINBOX_MAX_PINS)
  <2> DEFINE e == pinsInArray + 1
  <2>0. e \in Elements /\ e \in 0 .. LF_PINBOX_MAX_PINS /\ e # 0 /\ e > pinsInArray
    BY <1>2, <1>9, Sizes DEF M
  <2>v. PICK l \in Locals : l = [local[t] EXCEPT !.index = e] /\ l.index = e /\ l.caller = local[t].caller
    <3> HIDE DEF e
    <3>1. [local[t] EXCEPT !.index = e] \in Locals
      BY <1>2, <2>0 DEF Locals
    <3>2. PICK l \in Locals : l = [local[t] EXCEPT !.index = e]
      BY <3>1
    <3>3. l.index = e /\ l.caller = local[t].caller
      BY <1>2, <3>2 DEF Locals
    <3> QED
      BY <3>2, <3>3
  <2>1. local' = [local EXCEPT ![t] = l] /\ pc' = [pc EXCEPT ![t] = "get_init"]
    BY <1>9, <2>v DEF GetPinsNew
  <2>2. local'[t] = l /\ pc'[t] = "get_init" /\ "get_init" \in PC
    BY <2>1 DEF BoxInv, PC
  <2>3. \A u \in Threads \ {t} : pc'[u] = pc[u] /\ local'[u] = local[u]
    BY <2>1 DEF BoxInv
  <2>4. Mine(t)' = e
    BY <1>3, <2>2, <2>v DEF Mine
  <2>5. \A u \in Threads \ {t} : Mine(u)' = Mine(u)
    BY <1>1, <2>3 DEF Mine
  <2> HIDE DEF e
  <2>6. Unused' = Unused
    <3>0. e = pinsInArray + 1
      BY DEF e
    <3>1. \A d \in Elements : d <= pinsInArray + 1 /\ d # e <=> d <= pinsInArray
      BY <1>2, <3>0, Sizes
    <3>2. \A d \in Elements : (d <= pinsInArray + 1 /\ \A u \in Threads : Mine(u)' # d)
                          <=> (d <= pinsInArray /\ \A u \in Threads : Mine(u) # d)
      <4>1. \A d \in Elements : Mine(t) # d
        BY <1>4, Sizes
      <4> QED
        BY <2>4, <2>5, <3>1, <4>1
    <3> QED
      BY <1>1, <3>2 DEF Unused
  <2>7. Getters' = Getters \ {t}
    BY <2>2, <2>3 DEF Getters
  <2>8. Putters' = Putters
    BY <1>4, <2>0, <2>4, <2>5, <2>7 DEF Putters
  <2>9. BoxThread(t)'
    <3>1. l.caller # "put_loop"
      BY <1>2, <1>3, <2>v DEF BoxThread
    <3>2. e <= pinsInArray'
      BY <1>1, <1>2 DEF e
    <3> QED
      BY <1>3, <2>0, <2>2, <2>4, <2>v, <3>1, <3>2 DEF BoxThread, GetPC
  <2>10. /\ Version(topVer) + Cardinality(Getters) + Cardinality(Putters)
             < MaxVersion + 2 * Cardinality(Threads)
         /\ pinsInArray + Cardinality(Getters) <= MaxInArray
    BY DEF BoxInv
  <2>11. /\ Version(topVer') + Cardinality(Getters') + Cardinality(Putters')
             < MaxVersion + 2 * Cardinality(Threads)
         /\ pinsInArray' + Cardinality(Getters') <= MaxInArray
    <3>1. Cardinality(Getters') = Cardinality(Getters) - 1 /\ Cardinality(Putters') = Cardinality(Putters)
      BY <1>6, <2>7, <2>8
    <3>2. Version(topVer') = Version(topVer) /\ MaxVersion \in Nat /\ MaxInArray \in Nat
      BY <1>1, Sizes
    <3>3. Cardinality(Threads) \in Nat
      BY Sizes
    <3> QED
      BY <1>1, <1>2, <1>6, <2>10, <3>1, <3>2, <3>3
  <2>12. IsList(link', Index(topVer'), 0, Unused')
    BY <1>1, <2>6 DEF BoxInv
  <2> QED
    BY <1>1, <1>3, <1>7, <2>0, <2>1, <2>2, <2>4, <2>9, <2>11, <2>12, BoxStep
<1> QED
  BY <1>8, <1>9


(* A step that takes and gives no element. *)
LEMMA BoxQuiet ==
    ASSUME BoxInv, NEW t \in Threads, NEW p \in PC, NEW l \in Locals, NEW q \in {0} \cup Elements,
           pc' = [pc EXCEPT ![t] = p], local' = [local EXCEPT ![t] = l],
           pins' = [pins EXCEPT ![t] = q], UNCHANGED <<topVer, pinsInArray>>,
           link' \in [Elements -> {0} \cup Elements],
           \A e \in Elements : link'[e] = link[e] \/ Mine(t) = e,
           Mine(t)' = Mine(t), BoxThread(t)',
           p \in {"get_loop", "get_cas"} <=> pc[t] \in {"get_loop", "get_cas"}
    PROVE  BoxInv'
<1>1. pc'[t] = p
  BY DEF BoxInv
<1>2. \A u \in Threads \ {t} : pc'[u] = pc[u] /\ local'[u] = local[u] /\ pins'[u] = pins[u]
  BY DEF BoxInv
<1>3. \A u \in Threads : Mine(u)' = Mine(u)
  BY <1>2 DEF Mine
<1>4. Getters' = Getters
  BY <1>1, <1>2 DEF Getters
<1>5. Putters' = Putters /\ Unused' = Unused
  BY <1>3, <1>4 DEF Putters, Unused
<1>6. IsList(link', Index(topVer'), 0, Unused')
  <2>1. IsList(link, Index(topVer), 0, Unused)
    BY DEF BoxInv
  <2>2. \A e \in Unused : link'[e] = link[e]
    BY DEF Unused
  <2>3. IsList(link', Index(topVer), 0, Unused)
    BY <2>1, <2>2, ListFrame
  <2> QED
    BY <1>5, <2>3
<1>7. /\ topVer' \in 0 .. Wrap - 1 /\ pinsInArray' \in Nat
      /\ Version(topVer') + Cardinality(Getters') + Cardinality(Putters')
             < MaxVersion + 2 * Cardinality(Threads)
      /\ pinsInArray' + Cardinality(Getters') <= MaxInArray
  BY <1>4, <1>5 DEF BoxInv
<1>8. topVer' >= topVer /\ pinsInArray' >= pinsInArray
  BY BoxTypes
<1> QED
  BY <1>6, <1>7, <1>8, BoxStep

LEMMA BoxGetPinsRead ==
    ASSUME BoxInv, NEW t \in Threads, GetPinsRead(t)
    PROVE  BoxInv'
<1> USE DEF Set, Goto, boxVars
<1>1. BoxThread(t) /\ local[t] \in Locals /\ link \in [Elements -> {0} \cup Elements]
  BY DEF BoxInv
<1>2. pc[t] = "get_loop" /\ pins[t] = 0 /\ Mine(t) = 0 /\ UNCHANGED <<topVer, pinsInArray, link, pins>>
  BY <1>1 DEF GetPinsRead, BoxThread, GetPC, Mine
<1>3. PICK e \in Elements : e = Index(local[t].topVer)
  BY BoxTypes DEF GetPinsRead
<1>4. e \in 0 .. LF_PINBOX_MAX_PINS /\ link[e] \in {0} \cup Elements
  BY <1>1, Sizes DEF M
<1>5. [local[t] EXCEPT !.index = e, !.next = link[e]] \in Locals
  BY <1>1, <1>4 DEF Locals
<1>6. PICK l \in Locals : l = [local[t] EXCEPT !.index = e, !.next = link[e]]
  BY <1>5
<1>7. l.index = e /\ l.next = link[e] /\ l.topVer = local[t].topVer /\ l.caller = local[t].caller
  BY <1>1, <1>6 DEF Locals
<1>8. local' = [local EXCEPT ![t] = l] /\ pc' = [pc EXCEPT ![t] = "get_cas"]
  BY <1>3, <1>6 DEF GetPinsRead
<1>9. local'[t] = l /\ pc'[t] = "get_cas" /\ pins' = [pins EXCEPT ![t] = 0] /\ pins'[t] = 0 /\ "get_cas" \in PC
  BY <1>2, <1>8 DEF BoxInv, PC
<1>10. Mine(t)' = 0
  BY <1>9 DEF Mine
<1>11. BoxThread(t)'
  <2>1. l.caller # "put_loop" /\ l.topVer <= topVer /\ 0 <= pinsInArray
    BY <1>1, <1>2, <1>7 DEF BoxThread
  <2> QED
    BY <1>2, <1>3, <1>4, <1>7, <1>9, <1>10, <2>1 DEF BoxThread, GetPC
<1> QED
  BY <1>1, <1>2, <1>8, <1>9, <1>10, <1>11, BoxQuiet

(* The version was unchanged: the element on top is unused, and what       *)
(* becomes the top is its successor.                                       *)
LEMMA BoxGetPinsCas ==
    ASSUME BoxInv, NEW t \in Threads, GetPinsCas(t)
    PROVE  BoxInv'
<1> USE DEF Set, Goto
<1>1. BoxThread(t) /\ local[t] \in Locals /\ link \in [Elements -> {0} \cup Elements] /\ topVer \in 0 .. Wrap - 1
  BY DEF BoxInv
<1>2. pc[t] = "get_cas" /\ pins[t] = 0 /\ Mine(t) = 0 /\ UNCHANGED <<pinsInArray, link, pins>>
  BY <1>1 DEF GetPinsCas, BoxThread, GetPC, Mine
<1>3. pins' = [pins EXCEPT ![t] = 0] /\ pins'[t] = 0
  BY <1>2 DEF BoxInv
<1>4. PICK l \in Locals : l = local[t]
  BY <1>1
<1>5. /\ l.index \in Elements /\ l.next \in {0} \cup Elements /\ l.index = Index(l.topVer)
      /\ l.topVer = topVer => l.next = link[l.index]
      /\ l.caller # "put_loop" /\ 0 <= pinsInArray
  BY <1>1, <1>2, <1>4 DEF BoxThread
<1>6. CASE topVer = l.topVer
  <2>1. /\ topVer' = Popped(topVer, Index(topVer), l.next)
        /\ local' = [local EXCEPT ![t] = l] /\ pc' = [pc EXCEPT ![t] = "get_init"]
    BY <1>4, <1>5, <1>6 DEF GetPinsCas
  <2>2. local'[t] = l /\ pc'[t] = "get_init" /\ "get_init" \in PC
    BY <2>1 DEF BoxInv, PC
  <2>3. \A u \in Threads \ {t} : pc'[u] = pc[u] /\ local'[u] = local[u]
    BY <2>1 DEF BoxInv
  <2>4. Mine(t)' = l.index
    BY <1>3, <2>2 DEF Mine
  <2>5. \A u \in Threads \ {t} : Mine(u)' = Mine(u)
    BY <1>2, <2>3 DEF Mine
  <2>6. PICK e \in Elements : e = l.index
    BY <1>5
  <2>7. IsList(link, e, 0, Unused) /\ e = Index(topVer) /\ e # 0 /\ 0 \notin Unused
    BY <1>5, <1>6, <2>6, Sizes, BoxTypes DEF BoxInv
  <2>8. e \in Unused /\ IsList(link, l.next, 0, Unused \ {e})
    BY <1>5, <1>6, <2>6, <2>7, ListPop
  <2>9. Unused' = Unused \ {e}
    <3>1. \A d \in Elements : (\A u \in Threads : Mine(u)' # d) <=> d # e /\ \A u \in Threads : Mine(u) # d
      <4>1. \A d \in Elements : Mine(t) # d
        BY <1>2, Sizes
      <4> QED
        BY <2>4, <2>5, <2>6, <4>1
    <3> QED
      BY <1>2, <3>1 DEF Unused
  <2>10. /\ t \in Getters /\ Getters' = Getters \ {t}
         /\ t \in Putters /\ Putters' = Putters
    <3>1. t \in Getters /\ Getters' = Getters \ {t}
      BY <1>2, <2>2, <2>3 DEF Getters
    <3> QED
      BY <2>4, <2>5, <2>6, <2>7, <3>1 DEF Putters
  <2>11. /\ Cardinality(Getters') = Cardinality(Getters) - 1
         /\ Cardinality(Getters') \in Nat /\ Cardinality(Getters) \in Nat
         /\ Cardinality(Putters) - 1 \in Nat /\ Cardinality(Putters) \in Nat
    <3>1. Getters \subseteq Threads /\ Putters \subseteq Threads
      BY DEF Getters, Putters
    <3>2. Cardinality(Putters \ {t}) = Cardinality(Putters) - 1 /\ Cardinality(Putters \ {t}) \in Nat
      BY <2>10, <3>1, ThreadSet
    <3>3. Cardinality(Getters \ {t}) = Cardinality(Getters) - 1 /\ Cardinality(Getters \ {t}) \in Nat
      BY <2>10, <3>1, ThreadSet
    <3>4. Cardinality(Getters) \in Nat /\ Cardinality(Putters) \in Nat
      BY <3>1, ThreadSet
    <3> QED
      BY <2>10, <3>2, <3>3, <3>4
  <2>12. /\ Version(topVer) + Cardinality(Getters) + Cardinality(Putters)
             < MaxVersion + 2 * Cardinality(Threads)
         /\ pinsInArray + Cardinality(Getters) <= MaxInArray
         /\ Version(topVer) \in Nat /\ topVer \in Nat /\ pinsInArray \in Nat
    BY BoxTypes DEF BoxInv
  <2>13. Version(topVer) + 1 < Versions
    <3>1. /\ MaxVersion \in Nat /\ Cardinality(Threads) \in Nat /\ Versions \in Nat
          /\ MaxVersion + 2 * Cardinality(Threads) <= Versions
      BY Sizes, VersionAssumption
    <3>2. Cardinality(Getters) >= 1 /\ Cardinality(Putters) >= 1
      BY <2>11
    <3> QED
      BY <2>11, <2>12, <3>1, <3>2
  <2>14. /\ topVer' \in 0 .. Wrap - 1 /\ topVer' > topVer /\ Index(topVer') = l.next
         /\ Version(topVer') = Version(topVer) + 1
    <3>1. l.next \in 0 .. M - 1
      BY <1>5, Sizes
    <3> QED
      BY <2>1, <2>12, <2>13, <3>1, PoppedValue
  <2>15. /\ Version(topVer') + Cardinality(Getters') + Cardinality(Putters')
             < MaxVersion + 2 * Cardinality(Threads)
         /\ pinsInArray' + Cardinality(Getters') <= MaxInArray
    <3>1. MaxVersion \in Nat /\ Cardinality(Threads) \in Nat /\ MaxInArray \in Nat
      BY Sizes
    <3>2. Cardinality(Putters') = Cardinality(Putters)
      BY <2>10
    <3> QED
      BY <1>2, <2>11, <2>12, <2>14, <3>1, <3>2
  <2>16. BoxThread(t)'
    <3>1. e <= pinsInArray
      BY <2>8 DEF Unused
    <3> QED
      BY <1>2, <1>3, <1>5, <2>2, <2>4, <2>6, <3>1 DEF BoxThread, GetPC
  <2>17. IsList(link', Index(topVer'), 0, Unused')
    BY <1>2, <2>8, <2>9, <2>14
  <2>18. topVer' >= topVer /\ pinsInArray' \in Nat /\ pinsInArray' >= pinsInArray
    <3>1. topVer' \in Nat
      BY <2>14, Sizes
    <3> QED
      BY <1>2, <2>12, <2>14, <3>1
  <2> QED
    BY <1>1, <1>2, <1>3, <2>1, <2>2, <2>4, <2>6, <2>8, <2>14, <2>15, <2>16, <2>17, <2>18, BoxStep
<1>7. CASE topVer # l.topVer
  <2>0. [NoLocals EXCEPT !.topVer = topVer] \in Locals
    BY <1>1, NoLocalsType DEF Locals
  <2>v. PICK m \in Locals : m = [NoLocals EXCEPT !.topVer = topVer]
    BY <2>0
  <2>1. m.topVer = topVer /\ m.caller = "idle"
    BY <2>v, NoLocalsType DEF NoLocals
  <2>2. /\ topVer' = topVer
        /\ local' = [local EXCEPT ![t] = m] /\ pc' = [pc EXCEPT ![t] = "get_loop"]
    BY <1>4, <1>7, <2>v DEF GetPinsCas
  <2>3. local'[t] = m /\ pc'[t] = "get_loop" /\ "get_loop" \in PC
    BY <2>2 DEF BoxInv, PC
  <2>4. Mine(t)' = 0
    BY <1>3, <2>3 DEF Mine
  <2>5. topVer <= topVer
    BY BoxTypes
  <2>6. BoxThread(t)'
    BY <1>2, <1>3, <1>5, <2>1, <2>2, <2>3, <2>4, <2>5 DEF BoxThread, GetPC
  <2> QED
    BY <1>1, <1>2, <1>3, <2>2, <2>3, <2>4, <2>6, BoxQuiet
<1> QED
  BY <1>6, <1>7


LEMMA BoxGetPinsInit ==
    ASSUME BoxInv, NEW t \in Threads, GetPinsInit(t)
    PROVE  BoxInv'
<1> USE DEF Set, Goto
<1>1. BoxThread(t) /\ local[t] \in Locals /\ link \in [Elements -> {0} \cup Elements]
  BY DEF BoxInv
<1>2. PICK e \in Elements : e = local[t].index
  BY <1>1 DEF GetPinsInit, BoxThread
<1>3. /\ pc[t] = "get_init" /\ pins[t] = 0 /\ UNCHANGED <<topVer, pinsInArray>>
      /\ link' = [link EXCEPT ![e] = e] /\ pins' = [pins EXCEPT ![t] = e]
      /\ local' = [local EXCEPT ![t] = NoLocals] /\ pc' = [pc EXCEPT ![t] = "idle"]
  BY <1>1, <1>2 DEF GetPinsInit, BoxThread, GetPC
<1>4. e # 0 /\ Mine(t) = e
  BY <1>2, <1>3, Sizes DEF Mine
<1>5. /\ local'[t] = NoLocals /\ pc'[t] = "idle" /\ pins'[t] = e /\ "idle" \in PC /\ NoLocals \in Locals
      /\ link' \in [Elements -> {0} \cup Elements] /\ link'[e] = e
      /\ \A d \in Elements \ {e} : link'[d] = link[d]
  BY <1>1, <1>3, NoLocalsType DEF BoxInv, PC
<1>6. Mine(t)' = e
  BY <1>4, <1>5 DEF Mine
<1>7. BoxThread(t)'
  <2>1. e <= pinsInArray
    BY <1>1, <1>4 DEF BoxThread
  <2> QED
    BY <1>3, <1>4, <1>5, <1>6, <2>1, NoLocalsType DEF BoxThread, GetPC
<1> QED
  BY <1>3, <1>4, <1>5, <1>6, <1>7, BoxQuiet

LEMMA BoxPutPinsRead ==
    ASSUME BoxInv, NEW t \in Threads, PutPinsRead(t)
    PROVE  BoxInv'
<1> USE DEF Set, Goto, boxVars
<1>1. BoxThread(t) /\ local[t] \in Locals /\ link \in [Elements -> {0} \cup Elements] /\ topVer \in 0 .. Wrap - 1
  BY DEF BoxInv
<1>2. PICK l \in Locals : l = [local[t] EXCEPT !.topVer = topVer]
  <2>1. [local[t] EXCEPT !.topVer = topVer] \in Locals
    BY <1>1 DEF Locals
  <2> QED
    BY <2>1
<1>3. l.topVer = topVer /\ l.caller = local[t].caller /\ l.index = local[t].index
  BY <1>1, <1>2 DEF Locals
<1>4. /\ pc[t] = "put_loop" /\ UNCHANGED <<topVer, pinsInArray, link, pins>>
      /\ local' = [local EXCEPT ![t] = l] /\ pc' = [pc EXCEPT ![t] = "put_link"]
  BY <1>2 DEF PutPinsRead
<1>5. /\ local'[t] = l /\ pc'[t] = "put_link" /\ pins'[t] = pins[t] /\ "put_link" \in PC
      /\ pins' = [pins EXCEPT ![t] = pins[t]] /\ pins[t] \in {0} \cup Elements
  BY <1>4 DEF BoxInv, PC
<1>6. pins[t] # 0 /\ l.caller = "put_loop" /\ l.index = pins[t] /\ Mine(t) <= pinsInArray
  BY <1>1, <1>3, <1>4 DEF BoxThread
<1>7. Mine(t)' = Mine(t)
  BY <1>5, <1>6 DEF Mine
<1>8. topVer <= topVer
  BY BoxTypes
<1>9. BoxThread(t)'
  BY <1>3, <1>4, <1>5, <1>6, <1>7, <1>8 DEF BoxThread, GetPC
<1> QED
  BY <1>1, <1>4, <1>5, <1>7, <1>9, BoxQuiet

LEMMA BoxPutPinsLink ==
    ASSUME BoxInv, NEW t \in Threads, PutPinsLink(t)
    PROVE  BoxInv'
<1> USE DEF Goto
<1>1. BoxThread(t) /\ local[t] \in Locals /\ link \in [Elements -> {0} \cup Elements]
  BY DEF BoxInv
<1>2. PICK i \in {0} \cup Elements : i = Index(local[t].topVer)
  BY BoxTypes
<1>3. pc[t] = "put_link" /\ pins[t] # 0 /\ pins[t] \in {0} \cup Elements
  BY <1>1 DEF PutPinsLink, BoxThread, GetPC, BoxInv
<1>4. PICK e \in Elements : e = pins[t]
  BY <1>3
<1>5. /\ UNCHANGED <<topVer, pinsInArray, pins, local>>
      /\ link' = [link EXCEPT ![e] = i]
      /\ pc' = [pc EXCEPT ![t] = "put_cas"]
  BY <1>2, <1>4 DEF PutPinsLink
<1>6. /\ local'[t] = local[t] /\ pc'[t] = "put_cas" /\ pins'[t] = pins[t] /\ "put_cas" \in PC
      /\ pins' = [pins EXCEPT ![t] = pins[t]] /\ local' = [local EXCEPT ![t] = local[t]]
      /\ link' \in [Elements -> {0} \cup Elements] /\ link'[e] = i
      /\ \A d \in Elements \ {e} : link'[d] = link[d]
  BY <1>1, <1>5 DEF BoxInv, PC
<1>7. Mine(t)' = Mine(t) /\ Mine(t) = e
  BY <1>3, <1>4, <1>6 DEF Mine
<1>8. BoxThread(t)'
  <2>1. /\ local[t].caller = "put_loop" /\ local[t].index = pins[t] /\ Mine(t) <= pinsInArray
        /\ local[t].topVer <= topVer
    BY <1>1, <1>3 DEF BoxThread
  <2> QED
    BY <1>2, <1>3, <1>4, <1>5, <1>6, <1>7, <2>1 DEF BoxThread, GetPC
<1>9. \A d \in Elements : link'[d] = link[d] \/ Mine(t) = d
  BY <1>6, <1>7
<1>10. PICK l \in Locals : l = local[t]
  BY <1>1
<1>11. /\ local' = [local EXCEPT ![t] = l] /\ pins' = [pins EXCEPT ![t] = e]
       /\ pc' = [pc EXCEPT ![t] = "put_cas"] /\ UNCHANGED <<topVer, pinsInArray>>
       /\ link' \in [Elements -> {0} \cup Elements] /\ "put_cas" \in PC /\ e \in {0} \cup Elements
       /\ "put_cas" \in {"get_loop", "get_cas"} <=> pc[t] \in {"get_loop", "get_cas"}
       /\ Mine(t)' = Mine(t)
  BY <1>3, <1>4, <1>5, <1>6, <1>7, <1>10
<1> QED
  BY <1>8, <1>9, <1>11, BoxQuiet

LEMMA BoxPutPinsCas ==
    ASSUME BoxInv, NEW t \in Threads, PutPinsCas(t)
    PROVE  BoxInv'
<1> USE DEF Set, Goto
<1>1. BoxThread(t) /\ local[t] \in Locals /\ link \in [Elements -> {0} \cup Elements] /\ topVer \in 0 .. Wrap - 1
  BY DEF BoxInv
<1>2. pc[t] = "put_cas" /\ pins[t] # 0 /\ pins[t] \in {0} \cup Elements /\ UNCHANGED <<pinsInArray, link>>
  BY <1>1 DEF PutPinsCas, BoxThread, GetPC, BoxInv
<1>3. PICK e \in Elements : e = pins[t]
  BY <1>2
<1>4. PICK l \in Locals : l = local[t]
  BY <1>1
<1>5. /\ l.caller = "put_loop" /\ l.index = e /\ Mine(t) = e /\ e <= pinsInArray
      /\ link[e] = Index(l.topVer) /\ e # 0
  BY <1>1, <1>2, <1>3, <1>4 DEF BoxThread, Mine
<1>6. CASE topVer = l.topVer
  <2>1. /\ topVer' = Popped(topVer, Index(topVer), e)
        /\ pins' = [pins EXCEPT ![t] = 0]
        /\ local' = [local EXCEPT ![t] = NoLocals] /\ pc' = [pc EXCEPT ![t] = "idle"]
    BY <1>3, <1>4, <1>5, <1>6 DEF PutPinsCas
  <2>2. /\ local'[t] = NoLocals /\ pc'[t] = "idle" /\ pins'[t] = 0 /\ "idle" \in PC
        /\ NoLocals \in Locals /\ 0 \in {0} \cup Elements
    BY <2>1, NoLocalsType DEF BoxInv, PC
  <2>3. \A u \in Threads \ {t} : pc'[u] = pc[u] /\ local'[u] = local[u] /\ pins'[u] = pins[u]
    BY <2>1 DEF BoxInv
  <2>4. Mine(t)' = 0
    BY <2>2 DEF Mine
  <2>5. \A u \in Threads \ {t} : Mine(u)' = Mine(u)
    BY <2>3 DEF Mine
  <2>6. e \notin Unused /\ 0 \notin Unused /\ IsList(link, Index(topVer), 0, Unused) /\ link[e] = Index(topVer)
    BY <1>5, <1>6, BoxTypes DEF Unused, BoxInv
  <2>7. IsList(link, e, 0, Unused \cup {e})
    BY <1>5, <2>6, ListPush
  <2>8. Unused' = Unused \cup {e}
    <3>1. \A u \in Threads \ {t} : Mine(u) # e
      BY <1>5 DEF BoxInv
    <3>2. \A d \in Elements : (\A u \in Threads : Mine(u)' # d) <=> d = e \/ \A u \in Threads : Mine(u) # d
      <4>1. \A d \in Elements : d # 0
        BY Sizes
      <4> QED
        BY <1>5, <2>4, <2>5, <3>1, <4>1
    <3> QED
      BY <1>2, <1>5, <3>2 DEF Unused
  <2>9. t \in Putters /\ Getters' = Getters /\ Putters' = Putters \ {t}
    <3>1. Getters' = Getters /\ t \notin Getters
      BY <1>2, <2>2, <2>3 DEF Getters
    <3> QED
      BY <1>5, <2>4, <2>5, <3>1 DEF Putters
  <2>10. /\ Cardinality(Putters') = Cardinality(Putters) - 1
         /\ Cardinality(Putters') \in Nat /\ Cardinality(Putters) \in Nat
         /\ Cardinality(Getters) \in Nat
    <3>1. Getters \subseteq Threads /\ Putters \subseteq Threads
      BY DEF Getters, Putters
    <3>2. Cardinality(Putters \ {t}) = Cardinality(Putters) - 1 /\ Cardinality(Putters \ {t}) \in Nat
      BY <2>9, <3>1, ThreadSet
    <3>3. Cardinality(Getters) \in Nat /\ Cardinality(Putters) \in Nat
      BY <3>1, ThreadSet
    <3> QED
      BY <2>9, <3>2, <3>3
  <2>11. /\ Version(topVer) + Cardinality(Getters) + Cardinality(Putters)
             < MaxVersion + 2 * Cardinality(Threads)
         /\ pinsInArray + Cardinality(Getters) <= MaxInArray
         /\ Version(topVer) \in Nat /\ topVer \in Nat /\ pinsInArray \in Nat
    BY BoxTypes DEF BoxInv
  <2>12. Version(topVer) + 1 < Versions
    <3>1. /\ MaxVersion \in Nat /\ Cardinality(Threads) \in Nat /\ Versions \in Nat
          /\ MaxVersion + 2 * Cardinality(Threads) <= Versions
      BY Sizes, VersionAssumption
    <3>2. Cardinality(Putters) >= 1
      BY <2>10
    <3> QED
      BY <2>10, <2>11, <3>1, <3>2
  <2>13. /\ topVer' \in 0 .. Wrap - 1 /\ topVer' > topVer /\ Index(topVer') = e
         /\ Version(topVer') = Version(topVer) + 1
    <3>1. e \in 0 .. M - 1
      BY Sizes
    <3> QED
      BY <2>1, <2>11, <2>12, <3>1, PoppedValue
  <2>14. /\ Version(topVer') + Cardinality(Getters') + Cardinality(Putters')
             < MaxVersion + 2 * Cardinality(Threads)
         /\ pinsInArray' + Cardinality(Getters') <= MaxInArray
    <3>1. MaxVersion \in Nat /\ Cardinality(Threads) \in Nat /\ MaxInArray \in Nat
      BY Sizes
    <3>2. Cardinality(Getters') = Cardinality(Getters)
      BY <2>9
    <3> QED
      BY <1>2, <2>10, <2>11, <2>13, <3>1, <3>2
  <2>15. BoxThread(t)'
    <3>1. 0 <= pinsInArray
      BY <2>11
    <3> QED
      BY <1>2, <2>2, <2>4, <3>1, NoLocalsType DEF BoxThread, GetPC
  <2>16. IsList(link', Index(topVer'), 0, Unused')
    BY <1>2, <2>7, <2>8, <2>13
  <2>17. topVer' >= topVer /\ pinsInArray' \in Nat /\ pinsInArray' >= pinsInArray
    <3>1. topVer' \in Nat
      BY <2>13, Sizes
    <3> QED
      BY <1>2, <2>11, <2>13, <3>1
  <2> QED
    BY <1>1, <1>2, <2>1, <2>2, <2>4, <2>13, <2>14, <2>15, <2>16, <2>17, BoxStep
<1>7. CASE topVer # l.topVer
  <2>0. [l EXCEPT !.topVer = topVer] \in Locals
    BY <1>1 DEF Locals
  <2>v. PICK m \in Locals : m = [l EXCEPT !.topVer = topVer]
    BY <2>0
  <2>1. m.topVer = topVer /\ m.caller = l.caller /\ m.index = l.index
    BY <2>v DEF Locals
  <2>2. /\ topVer' = topVer /\ pins' = pins
        /\ local' = [local EXCEPT ![t] = m] /\ pc' = [pc EXCEPT ![t] = "put_link"]
    BY <1>4, <1>7, <2>v DEF PutPinsCas
  <2>3. /\ local'[t] = m /\ pc'[t] = "put_link" /\ "put_link" \in PC
        /\ pins'[t] = e /\ pins' = [pins EXCEPT ![t] = e] /\ e \in {0} \cup Elements
    BY <1>3, <2>2 DEF BoxInv, PC
  <2>4. Mine(t)' = e
    BY <1>5, <2>3 DEF Mine
  <2>5. topVer <= topVer
    BY BoxTypes
  <2>6. BoxThread(t)'
    BY <1>2, <1>5, <2>1, <2>2, <2>3, <2>4, <2>5 DEF BoxThread, GetPC
  <2> QED
    BY <1>1, <1>2, <1>5, <2>2, <2>3, <2>4, <2>6, BoxQuiet
<1> QED
  BY <1>6, <1>7


-----------------------------------------------------------------------------
(* The places of the objects. *)
Placed(at) ==
    /\ at \in [Nodes -> Places]
    /\ \A n \in Nodes :
         /\ at[n][1] \in {"fresh", "stack"} => at[n][2] = 0
         /\ at[n][1] \in {"held", "swept", "chained"} => at[n][2] \in Threads
         /\ at[n][1] = "purgatory" => at[n][2] \in Elements

LEMMA PlaceOf ==
    ASSUME NEW at, Placed(at), NEW n \in Nodes
    PROVE  \E k \in Kinds, w \in Threads \cup Elements \cup {0} :
              /\ at[n] = <<k, w>> /\ at[n][1] = k
              /\ k \in {"fresh", "stack"} => w = 0
              /\ k \in {"held", "swept", "chained"} => w \in Threads
              /\ k = "purgatory" => w \in Elements
<1>1. at[n] \in Places
  BY DEF Placed
<1>2. PICK k \in Kinds, w \in Threads \cup Elements \cup {0} : at[n] = <<k, w>>
  BY <1>1 DEF Places
<1>3. at[n][1] = k /\ at[n][2] = w
  BY <1>2
<1> QED
  BY <1>2, <1>3 DEF Placed

(* One object goes to another place. *)
Shift(at, at2, n, p) ==
    at2 \in [Nodes -> Places] /\ at2[n] = p /\ \A m \in Nodes \ {n} : at2[m] = at[m]

LEMMA ShiftExists ==
    ASSUME NEW at, Placed(at), NEW n \in Nodes, NEW k \in Kinds,
           NEW w \in Threads \cup Elements \cup {0}
    PROVE  \E at2 : Shift(at, at2, n, <<k, w>>)
<1>1. at \in [Nodes -> Places] /\ <<k, w>> \in Places
  BY DEF Placed, Places
<1>2. PICK at2 : at2 = [at EXCEPT ![n] = <<k, w>>]
  OBVIOUS
<1> QED
  BY <1>1, <1>2 DEF Shift

LEMMA ShiftPlaced ==
    ASSUME NEW at, Placed(at), NEW n \in Nodes, NEW k \in Kinds,
           NEW w \in Threads \cup Elements \cup {0},
           k \in {"fresh", "stack"} => w = 0,
           k \in {"held", "swept", "chained"} => w \in Threads,
           k = "purgatory" => w \in Elements,
           NEW at2, Shift(at, at2, n, <<k, w>>)
    PROVE  Placed(at2)
<1>1. at2[n][1] = k /\ at2[n][2] = w
  BY DEF Shift
<1> QED
  BY <1>1 DEF Placed, Shift

(* The objects only t can reach *)
Private(at, t) == At(at, "held", t) \cup At(at, "swept", t) \cup At(at, "chained", t)

(* A step of t that changes its own lists, the stack and the purgatory of  *)
(* its element.                                                            *)
LEMMA PlacesStep ==
    ASSUME NEW at, NEW at2, PlacesOK(at), Placed(at2), NEW t \in Threads,
           NEW e, pins[t] = e,
           freeptr \in [Nodes -> Pointers], freeptr' \in [Nodes -> Pointers],
           StackOK(at2)', ThreadOK(at2, t)', e \in Elements => PurgatoryOK(at2, e)',
           \A n \in Nodes \ Private(at, t) : freeptr'[n] = freeptr[n],
           \A d \in Elements \ {e} : /\ purgatory'[d] = purgatory[d]
                                     /\ purgatoryCount'[d] = purgatoryCount[d]
                                     /\ At(at2, "purgatory", d) = At(at, "purgatory", d),
           \A u \in Threads \ {t} : /\ pc'[u] = pc[u] /\ local'[u] = local[u] /\ objects'[u] = objects[u]
                                    /\ At(at2, "held", u) = At(at, "held", u)
                                    /\ At(at2, "swept", u) = At(at, "swept", u)
                                    /\ At(at2, "chained", u) = At(at, "chained", u)
    PROVE  PlacesOK(at2)'
<1>1. ASSUME NEW d \in Elements \ {e} PROVE PurgatoryOK(at2, d)'
  <2>1. PICK S : S = At(at, "purgatory", d)
    OBVIOUS
  <2>2. IsList(freeptr, purgatory[d], Null, S) /\ purgatoryCount[d] = Cardinality(S)
    BY <2>1 DEF PlacesOK, PurgatoryOK
  <2>3. S \subseteq Nodes \ Private(at, t)
    BY <2>1 DEF At, Private
  <2>4. IsList(freeptr', purgatory[d], Null, S)
    BY <2>2, <2>3, ListFrame
  <2>5. purgatory'[d] = purgatory[d] /\ purgatoryCount'[d] = purgatoryCount[d] /\ At(at2, "purgatory", d) = S
    BY <1>1, <2>1
  <2> QED
    BY <2>2, <2>4, <2>5 DEF PurgatoryOK
<1>2. ASSUME NEW u \in Threads \ {t} PROVE ThreadOK(at2, u)'
  <2>0. /\ pc'[u] = pc[u] /\ local'[u] = local[u] /\ objects'[u] = objects[u]
        /\ ThreadOK(at, u) /\ u # t
    BY DEF PlacesOK
  <2>1. PICK S, C, H : S = At(at, "swept", u) /\ C = At(at, "chained", u) /\ H = At(at, "held", u)
    OBVIOUS
  <2>2. /\ Held(u) = H /\ IsList(freeptr, local[u].list, Null, S)
        /\ IsChain(freeptr, local[u].first, local[u].last, C)
    BY <2>0, <2>1 DEF ThreadOK
  <2>3. S \subseteq Nodes \ Private(at, t) /\ C \subseteq Nodes \ Private(at, t)
    BY <2>0, <2>1 DEF At, Private
  <2>4. IsList(freeptr', local[u].list, Null, S)
    BY <2>2, <2>3, ListFrame
  <2>5. IsChain(freeptr', local[u].first, local[u].last, C)
    <3>1. CASE local[u].last = Null
      BY <2>2, <3>1 DEF IsChain
    <3>2. CASE local[u].last # Null
      <4>1. PICK z, h : z = local[u].last /\ h = local[u].first
        OBVIOUS
      <4>2. z \in C /\ IsList([freeptr EXCEPT ![z] = Null], h, Null, C)
        BY <2>2, <3>2, <4>1 DEF IsChain
      <4>3. PICK f, g : f = [freeptr EXCEPT ![z] = Null] /\ g = [freeptr' EXCEPT ![z] = Null]
        OBVIOUS
      <4>4. \A x \in C : g[x] = f[x]
        <5>1. \A x \in C : x \in Nodes /\ freeptr'[x] = freeptr[x]
          BY <2>3
        <5> QED
          BY <4>3, <5>1
      <4>5. IsList(g, h, Null, C)
        <5>1. IsList(f, h, Null, C)
          BY <4>2, <4>3
        <5> QED
          BY <4>4, <5>1, ListFrame
      <4> QED
        BY <3>2, <4>1, <4>2, <4>3, <4>5 DEF IsChain
    <3> QED
      BY <3>1, <3>2
  <2>6. Held(u)' = H
    BY <2>0, <2>2 DEF Held
  <2>7. At(at2, "swept", u) = S /\ At(at2, "chained", u) = C /\ At(at2, "held", u) = H
    BY <1>2, <2>1
  <2> QED
    BY <2>0, <2>4, <2>5, <2>6, <2>7 DEF ThreadOK
<1> QED
  BY <1>1, <1>2 DEF PlacesOK, Placed


(* The places a step of t may move an object between *)
Own(t) == {<<"held", t>>, <<"swept", t>>, <<"chained", t>>, <<"purgatory", pins[t]>>,
           <<"stack", 0>>, <<"fresh", 0>>}

(* An object t moves stays with t, and gets on the stack from its chain. *)
Carried(at, at2, t) ==
    \A n \in Nodes :
       \/ at2[n] = at[n]
       \/ /\ at[n] \in Own(t) /\ at2[n] \in Own(t) \ {<<"fresh", 0>>}
          /\ at2[n] = <<"stack", 0>> => at[n] = <<"chained", t>>

LEMMA OtherPins ==
    ASSUME BoxInv, NEW t \in Threads, NEW u \in Threads \ {t}, pins[u] # 0
    PROVE  pins[u] # pins[t] /\ pins[u] \in Elements
<1>1. pins[u] \in Elements /\ Mine(u) = pins[u] /\ (pins[t] # 0 => Mine(t) = pins[t])
  BY BoxTypes
<1> QED
  BY <1>1 DEF BoxInv

LEMMA PinnedNode ==
    ASSUME BoxInv, NEW t \in Threads, NodeThread(t), Pinning(t)
    PROVE  local[t].node \in Nodes /\ pins[t] \in Elements /\ pin[pins[t]] = local[t].node
<1>1. local[t].node \in Pointers
  <2>1. local[t] \in Locals
    BY DEF BoxInv
  <2> QED
    BY <2>1 DEF Locals
<1>2. local[t].node # Null /\ pin[pins[t]] = local[t].node
  BY DEF NodeThread, Pinning
<1>3. pins[t] # 0
  <2>1. BoxThread(t)
    BY DEF BoxInv
  <2> QED
    BY <2>1 DEF BoxThread, GetPC, Pinning
<1> QED
  BY <1>1, <1>2, <1>3, BoxTypes DEF Pointers

(* The pins of the other threads work while t moves its objects, if t      *)
(* notices them before it chains an object.                                *)
LEMMA NodeStep ==
    ASSUME BoxInv, NEW at, NEW at2, NodeInv(at), NEW t \in Threads,
           \A u \in Threads \ {t} : pc'[u] = pc[u] /\ local'[u] = local[u] /\ pins'[u] = pins[u],
           NodeTypes', PlacesOK(at2)', Unowned', NodeThread(t)',
           \A e \in Elements \ {pins[t]} : pin'[e] = pin[e] /\ purgatory'[e] = purgatory[e],
           \A n \in Nodes \ Private(at, t) : freeptr'[n] = freeptr[n],
           Carried(at, at2, t),
           \A v \in Threads \ {t} : Pinning(v) => at2[local[v].node] # <<"chained", t>>,
           \A v \in Threads \ {t} : Noticed(at2, v, t)',
           Unchained(at2, t)', \A u \in Threads : Noticed(at2, t, u)'
    PROVE  NodeInv(at2)'
<1>0. \A n \in Nodes :
         \/ at2[n] = at[n]
         \/ at2[n] \in {<<"held", t>>, <<"purgatory", pins[t]>>, <<"swept", t>>, <<"chained", t>>}
         \/ at[n][1] = "chained" /\ at2[n] = <<"stack", 0>>
  BY DEF Carried, Own
<1>1. ASSUME NEW v \in Threads \ {t} PROVE NodeThread(v)' /\ Unchained(at2, v)'
  <2>1. /\ pc'[v] = pc[v] /\ local'[v] = local[v] /\ pins'[v] = pins[v]
        /\ NodeThread(v) /\ BoxThread(v) /\ v # t
    BY DEF NodeInv, BoxInv
  <2>2. pins[v] # 0 => pin'[pins[v]] = pin[pins[v]] /\ purgatory'[pins[v]] = purgatory[pins[v]]
    BY OtherPins
  <2>3. pc[v] \notin GetPC \cup {"idle"} => pins[v] # 0
    BY <2>1 DEF BoxThread
  <2>4. local[v].last # Null => freeptr'[local[v].last] = freeptr[local[v].last]
    <3> SUFFICES ASSUME local[v].last # Null PROVE freeptr'[local[v].last] = freeptr[local[v].last]
      OBVIOUS
    <3>1. local[v].last \in At(at, "chained", v)
      BY DEF NodeInv, PlacesOK, ThreadOK, IsChain
    <3>2. local[v].last \in Nodes \ Private(at, t)
      BY <2>1, <3>1 DEF At, Private
    <3> QED
      BY <3>2
  <2>5. NodeThread(v)'
    <3>1. /\ pc[v] \in {"new_check", "new_malloc", "new_next", "new_cas", "put_link", "put_cas"}
                => /\ pin'[pins[v]] = pin[pins[v]] /\ purgatory'[pins[v]] = purgatory[pins[v]]
          /\ pc[v] = "push_cas" => freeptr'[local[v].last] = freeptr[local[v].last]
      <4>1. pc[v] = "push_cas" => local[v].last # Null
        BY <2>1 DEF NodeThread, PushPC
      <4> QED
        BY <2>2, <2>3, <2>4, <4>1 DEF GetPC
    <3> QED
      BY <2>1, <2>2, <3>1 DEF NodeThread
  <2>6. ASSUME Pinning(v)
        PROVE  /\ at2[local[v].node][1] # "chained"
               /\ pc[v] = "new_cas" /\ at2[local[v].node] = <<"stack", 0>>
                     => freeptr'[local[v].node] = local[v].next
    <3>1. PICK n \in Nodes : n = local[v].node
      BY <2>1, <2>6, PinnedNode
    <3>2. at[n][1] # "chained" /\ at2[n] # <<"chained", t>>
      BY <2>6, <3>1 DEF NodeInv, Unchained
    <3>3. at2[n][1] # "chained"
      BY <1>0, <3>2
    <3>4. at2[n] = <<"stack", 0>> => at[n] = <<"stack", 0>>
      BY <1>0, <3>2
    <3>5. at[n] = <<"stack", 0>> => n \in Nodes \ Private(at, t)
      BY DEF Private, At
    <3>6. pc[v] = "new_cas" /\ at[n] = <<"stack", 0>> => freeptr[n] = local[v].next
      BY <2>6, <3>1 DEF NodeInv, Unchained
    <3> QED
      BY <3>1, <3>3, <3>4, <3>5, <3>6
  <2>7. Unchained(at2, v)'
    BY <2>1, <2>6 DEF Unchained, Pinning
  <2> QED
    BY <2>5, <2>7
<1>2. ASSUME NEW v \in Threads \ {t}, NEW u \in Threads \ {t} PROVE Noticed(at2, v, u)'
  <2>1. /\ pc'[v] = pc[v] /\ local'[v] = local[v] /\ pins'[v] = pins[v]
        /\ pc'[u] = pc[u] /\ local'[u] = local[u] /\ pins'[u] = pins[u]
        /\ u # t /\ NodeThread(v) /\ Noticed(at, v, u) /\ BoxThread(u)
    BY DEF NodeInv, BoxInv
  <2>2. CASE ~Pinning(v)
    BY <2>1, <2>2 DEF Noticed, Pinning
  <2>3. CASE Pinning(v)
    <3>1. PICK n \in Nodes : n = local[v].node
      BY <2>1, <2>3, PinnedNode
    <3>2. pc[u] = "harvest" => pins[u] # pins[t]
      <4>1. pc[u] = "harvest" => pins[u] # 0
        BY <2>1 DEF BoxThread, GetPC
      <4> QED
        BY <4>1, OtherPins
    <3>3. pc[u] = "harvest" /\ at2[n] = <<"purgatory", pins[u]>> => at[n] = <<"purgatory", pins[u]>>
      BY <1>0, <3>2
    <3>4. at2[n] = <<"swept", u>> => at[n] = <<"swept", u>>
      BY <1>0, <2>1
    <3> QED
      BY <2>1, <2>3, <3>1, <3>3, <3>4 DEF Noticed, Pinning
  <2> QED
    BY <2>2, <2>3
<1>3. \A v \in Threads : NodeThread(v)' /\ Unchained(at2, v)'
  BY <1>1
<1>4. \A v, u \in Threads : Noticed(at2, v, u)'
  BY <1>2
<1> QED
  BY <1>3, <1>4 DEF NodeInv

(* A thread that neither holds a pin it checked nor scans has nothing to   *)
(* notice.                                                                 *)
LEMMA NothingToNotice ==
    ASSUME NEW at, NEW t \in Threads,
           pc'[t] \notin {"new_next", "new_cas", "harvest"},
           \A n \in Nodes : at[n] # <<"swept", t>>,
           \A v \in Threads \ {t} : Pinning(v)' => local'[v].node \in Nodes
    PROVE  /\ Unchained(at, t)' /\ \A u \in Threads : Noticed(at, t, u)'
           /\ \A v \in Threads \ {t} : Noticed(at, v, t)'
BY DEF Unchained, Noticed, Pinning


LEMMA AtNodes ==
    ASSUME NEW at, NEW k, NEW w
    PROVE  At(at, k, w) \subseteq Nodes /\ Null \notin At(at, k, w)
BY NullAssumption DEF At

LEMMA NoneSwept ==
    ASSUME NEW at, NEW t \in Threads, ThreadOK(at, t), local[t].list = Null
    PROVE  \A n \in Nodes : at[n] # <<"swept", t>>
<1>1. PICK S : S = At(at, "swept", t)
  OBVIOUS
<1>2. Null \notin S /\ IsList(freeptr, Null, Null, S)
  BY <1>1, AtNodes DEF ThreadOK
<1>3. S = {}
  BY <1>2, ListEnds
<1> QED
  BY <1>1, <1>3 DEF At

(* A step of t that moves no object. *)
LEMMA QuietStep ==
    ASSUME BoxInv, NEW at, NodeInv(at), NEW t \in Threads,
           UNCHANGED <<top, freeptr, fresh, purgatory, purgatoryCount>>,
           \A u \in Threads \ {t} :
              pc'[u] = pc[u] /\ local'[u] = local[u] /\ pins'[u] = pins[u] /\ objects'[u] = objects[u],
           local'[t].list = local[t].list, local'[t].last = local[t].last,
           local[t].last # Null => local'[t].first = local[t].first,
           Held(t)' = Held(t),
           pin' \in [Elements -> Pointers], objects' \in [Threads -> SUBSET Nodes],
           \A e \in Elements \ {pins[t]} : pin'[e] = pin[e],
           Unowned', NodeThread(t)',
           \A v \in Threads \ {t} : Noticed(at, v, t)',
           Unchained(at, t)', \A u \in Threads : Noticed(at, t, u)'
    PROVE  NodeInv(at)'
<1>1. NodeTypes'
  BY DEF NodeInv, NodeTypes
<1>2. PlacesOK(at) /\ NodeTypes /\ Placed(at)
  BY DEF NodeInv, PlacesOK, Placed
<1>3. PlacesOK(at)'
  <2>1. ASSUME NEW u \in Threads PROVE ThreadOK(at, u)'
    <3>1. CASE u = t
      BY <1>2, <3>1 DEF PlacesOK, ThreadOK, IsChain
    <3>2. CASE u # t
      <4>1. pc'[u] = pc[u] /\ local'[u] = local[u] /\ objects'[u] = objects[u]
        BY <3>2
      <4>2. Held(u)' = Held(u)
        BY <4>1 DEF Held
      <4> QED
        BY <1>2, <4>1, <4>2 DEF PlacesOK, ThreadOK
    <3> QED
      BY <3>1, <3>2
  <2>2. StackOK(at)' /\ \A e \in Elements : PurgatoryOK(at, e)'
    BY <1>2 DEF PlacesOK, StackOK, PurgatoryOK
  <2> QED
    BY <1>2, <2>1, <2>2 DEF PlacesOK
<1>4. /\ Carried(at, at, t)
      /\ \A n \in Nodes \ Private(at, t) : freeptr'[n] = freeptr[n]
      /\ \A e \in Elements \ {pins[t]} : pin'[e] = pin[e] /\ purgatory'[e] = purgatory[e]
  BY DEF Carried
<1>5. ASSUME NEW v \in Threads \ {t}, Pinning(v) PROVE at[local[v].node] # <<"chained", t>>
  BY <1>5 DEF NodeInv, Unchained
<1> QED
  BY <1>1, <1>3, <1>4, <1>5, NodeStep

(* And neither scans nor relies on its pin afterwards. *)
LEMMA CalmStep ==
    ASSUME BoxInv, NEW at, NodeInv(at), NEW t \in Threads,
           UNCHANGED <<top, freeptr, fresh, purgatory, purgatoryCount>>,
           \A u \in Threads \ {t} :
              pc'[u] = pc[u] /\ local'[u] = local[u] /\ pins'[u] = pins[u] /\ objects'[u] = objects[u],
           local[t].list = Null, local'[t].list = Null, local'[t].last = local[t].last,
           local[t].last # Null => local'[t].first = local[t].first,
           Held(t)' = Held(t),
           pin' \in [Elements -> Pointers], objects' \in [Threads -> SUBSET Nodes],
           \A e \in Elements \ {pins[t]} : pin'[e] = pin[e],
           Unowned', NodeThread(t)',
           pc'[t] \notin {"new_next", "new_cas", "harvest"}
    PROVE  NodeInv(at)'
<1>1. ThreadOK(at, t)
  BY DEF NodeInv, PlacesOK
<1>2. \A n \in Nodes : at[n] # <<"swept", t>>
  BY <1>1, NoneSwept
<1>3. ASSUME NEW v \in Threads \ {t}, Pinning(v)' PROVE local'[v].node \in Nodes
  <2>1. Pinning(v) /\ local'[v] = local[v] /\ NodeThread(v)
    BY <1>3 DEF Pinning, NodeInv
  <2> QED
    BY <2>1, PinnedNode
<1>4. /\ Unchained(at, t)' /\ \A u \in Threads : Noticed(at, t, u)'
      /\ \A v \in Threads \ {t} : Noticed(at, v, t)'
  BY <1>2, <1>3, NothingToNotice
<1> QED
  BY <1>4, QuietStep

LEMMA UnownedFrame ==
    ASSUME Unowned, NEW t \in Threads, UNCHANGED <<pins, purgatory>>,
           \A e \in Elements \ {pins[t]} : pin'[e] = pin[e]
    PROVE  Unowned'
BY DEF Unowned


-----------------------------------------------------------------------------
(* The steps that move no object. *)
LEMMA PlainStep ==
    ASSUME BoxInv, NEW at, NodeInv(at), NEW t \in Threads,
           UNCHANGED <<top, freeptr, fresh, purgatory, purgatoryCount, pin, objects>>,
           \A u \in Threads \ {t} : pc'[u] = pc[u] /\ local'[u] = local[u] /\ pins'[u] = pins[u],
           pc[t] \notin PushPC \cup {"sweep", "new_unpin"},
           pc'[t] \notin PushPC \cup {"harvest", "sweep", "new_check", "new_malloc", "new_next",
                                      "new_cas", "new_unpin"},
           local'[t].list = Null, local'[t].last = Null, Unowned',
           pins'[t] # 0 /\ pc'[t] \notin NewPC => pin[pins'[t]] = Null,
           pc'[t] \in {"put_link", "put_cas"} => purgatory[pins'[t]] = Null
    PROVE  NodeInv(at)'
<1>1. NodeThread(t) /\ NodeTypes
  BY DEF NodeInv
<1>2. local[t].list = Null /\ local[t].last = Null
  BY <1>1 DEF NodeThread
<1>3. Held(t)' = Held(t)
  BY DEF Held
<1>4. NodeThread(t)'
  BY DEF NodeThread, PushPC
<1>5. pin' \in [Elements -> Pointers] /\ objects' \in [Threads -> SUBSET Nodes]
  BY <1>1 DEF NodeTypes
<1> QED
  BY <1>2, <1>3, <1>4, <1>5, CalmStep

LEMMA NodeGet ==
    ASSUME BoxInv, NEW at, NodeInv(at), NEW t \in Threads,
           GetPins(t) \/ GetPinsNew(t) \/ GetPinsRead(t) \/ GetPinsCas(t)
    PROVE  NodeInv(at)'
<1> USE DEF Set, Goto, stackVars, elVars
<1>1. /\ UNCHANGED <<top, freeptr, fresh, purgatory, purgatoryCount, pin, pins, objects>>
      /\ pc[t] \in GetPC \cup {"idle"}
  BY DEF GetPins, GetPinsNew, GetPinsRead, GetPinsCas, GetPC
<1>2. /\ pc \in [Threads -> PC] /\ local \in [Threads -> Locals] /\ BoxThread(t)
      /\ NodeThread(t) /\ Unowned
  BY DEF BoxInv, NodeInv
<1>3. local[t] \in Locals /\ local[t].list = Null /\ local[t].last = Null
  BY <1>1, <1>2 DEF NodeThread, GetPC, PushPC
<1>4. NoLocals.list = Null /\ NoLocals.last = Null
  BY DEF NoLocals
<1>5. \E p \in GetPC \cup {"idle"} : \E l :
         /\ pc' = [pc EXCEPT ![t] = p] /\ local' = [local EXCEPT ![t] = l]
         /\ l.list = Null /\ l.last = Null
  <2>1. CASE GetPins(t)
    <3>1. PICK l : l = [local[t] EXCEPT !.topVer = topVer]
      OBVIOUS
    <3>2. l.list = Null /\ l.last = Null
      BY <1>3, <3>1 DEF Locals
    <3> QED
      BY <2>1, <3>1, <3>2 DEF GetPins, GetPC
  <2>2. CASE GetPinsNew(t)
    <3>1. PICK l : l = [local[t] EXCEPT !.index = pinsInArray + 1]
      OBVIOUS
    <3>2. l.list = Null /\ l.last = Null
      BY <1>3, <3>1 DEF Locals
    <3> QED
      BY <1>4, <2>2, <3>1, <3>2 DEF GetPinsNew, GetPC
  <2>3. CASE GetPinsRead(t)
    <3>1. PICK l : l = [local[t] EXCEPT !.index = Index(local[t].topVer),
                                        !.next = link[Index(local[t].topVer)]]
      OBVIOUS
    <3>2. l.list = Null /\ l.last = Null
      BY <1>3, <3>1 DEF Locals
    <3> QED
      BY <2>3, <3>1, <3>2 DEF GetPinsRead, GetPC
  <2>4. CASE GetPinsCas(t)
    <3>1. PICK l : l = [NoLocals EXCEPT !.topVer = topVer]
      OBVIOUS
    <3>2. l.list = Null /\ l.last = Null
      BY <3>1 DEF NoLocals
    <3> QED
      BY <1>3, <2>4, <3>1, <3>2 DEF GetPinsCas, GetPC
  <2> QED
    BY <2>1, <2>2, <2>3, <2>4
<1>6. PICK p \in GetPC \cup {"idle"}, l \in {local'[t]} :
         /\ pc' = [pc EXCEPT ![t] = p] /\ local' = [local EXCEPT ![t] = l]
         /\ l.list = Null /\ l.last = Null
  BY <1>2, <1>5
<1>7. /\ pc'[t] = p /\ local'[t] = l
      /\ \A u \in Threads \ {t} : pc'[u] = pc[u] /\ local'[u] = local[u] /\ pins'[u] = pins[u]
  BY <1>1, <1>2, <1>6
<1>8. Unowned'
  BY <1>1, <1>2, UnownedFrame
<1>9. pins[t] # 0 => pin[pins[t]] = Null
  BY <1>1, <1>2 DEF NodeThread, NewPC, GetPC
<1>10. /\ p \notin PushPC \cup {"harvest", "sweep", "new_check", "new_malloc", "new_next", "new_cas", "new_unpin"}
       /\ p \notin {"put_link", "put_cas"} /\ pc[t] \notin PushPC \cup {"sweep", "new_unpin"}
  BY <1>1 DEF GetPC, PushPC
<1> QED
  BY <1>1, <1>6, <1>7, <1>8, <1>9, <1>10, PlainStep

LEMMA NodeGetPinsInit ==
    ASSUME BoxInv, NEW at, NodeInv(at), NEW t \in Threads, GetPinsInit(t)
    PROVE  NodeInv(at)'
<1> USE DEF Set, Goto, stackVars
<1>1. BoxThread(t) /\ pc \in [Threads -> PC] /\ pins \in [Threads -> {0} \cup Elements] /\ local \in [Threads -> Locals]
  BY DEF BoxInv
<1>2. PICK e \in Elements : e = local[t].index
  BY <1>1 DEF GetPinsInit, BoxThread
<1>3. /\ pc[t] = "get_init" /\ pins[t] = 0 /\ UNCHANGED <<top, freeptr, fresh, purgatory, pin, objects>>
      /\ purgatoryCount' = [purgatoryCount EXCEPT ![e] = 0] /\ pins' = [pins EXCEPT ![t] = e]
      /\ local' = [local EXCEPT ![t] = NoLocals] /\ pc' = [pc EXCEPT ![t] = "idle"]
  BY <1>1, <1>2 DEF GetPinsInit, BoxThread, GetPC
<1>4. Mine(t) = e /\ e # 0
  BY <1>2, <1>3, Sizes DEF Mine
<1>5. pin[e] = Null /\ purgatory[e] = Null
  <2>1. ASSUME NEW u \in Threads PROVE pins[u] # e
    <3>1. CASE u = t
      BY <1>3, <1>4, <3>1
    <3>2. CASE u # t
      BY <1>4, <3>2, BoxTypes DEF BoxInv
    <3> QED
      BY <3>1, <3>2
  <2> QED
    BY <2>1 DEF NodeInv, Unowned
<1>6. purgatoryCount' = purgatoryCount
  <2>1. PICK S : S = At(at, "purgatory", e)
    OBVIOUS
  <2>2. IsList(freeptr, Null, Null, S) /\ purgatoryCount[e] = Cardinality(S) /\ Null \notin S
    BY <1>5, <2>1, AtNodes DEF NodeInv, PlacesOK, PurgatoryOK
  <2>3. S = {}
    BY <2>2, ListEnds
  <2>4. purgatoryCount[e] = 0 /\ purgatoryCount \in [Elements -> Nat]
    BY <2>2, <2>3, FS_EmptySet DEF NodeInv, NodeTypes
  <2> QED
    BY <1>3, <2>4
<1>7. /\ pc'[t] = "idle" /\ local'[t] = NoLocals /\ pins'[t] = e
      /\ \A u \in Threads \ {t} : pc'[u] = pc[u] /\ local'[u] = local[u] /\ pins'[u] = pins[u]
  BY <1>1, <1>3
<1>8. Unowned'
  <2> SUFFICES ASSUME NEW d \in Elements, \A u \in Threads : pins'[u] # d
               PROVE  pin[d] = Null /\ purgatory[d] = Null
    BY <1>3 DEF Unowned
  <2>1. \A u \in Threads : pins[u] # d
    BY <1>3, <1>7, Sizes
  <2> QED
    BY <2>1 DEF NodeInv, Unowned
<1>9. NoLocals.list = Null /\ NoLocals.last = Null
  BY DEF NoLocals
<1>10. /\ pc[t] \notin PushPC \cup {"sweep", "new_unpin"}
       /\ "idle" \notin PushPC \cup {"harvest", "sweep", "new_check", "new_malloc", "new_next", "new_cas", "new_unpin"}
  BY <1>3 DEF PushPC
<1> QED
  BY <1>3, <1>5, <1>6, <1>7, <1>8, <1>9, <1>10, PlainStep


LEMMA NodeSet ==
    ASSUME NEW S, S \subseteq Nodes
    PROVE  /\ IsFiniteSet(S) /\ Cardinality(S) \in 0 .. Cardinality(Nodes)
           /\ Cardinality(S) = 0 <=> S = {}
           /\ \A n \in Nodes \ S : Cardinality(S \cup {n}) = Cardinality(S) + 1
<1>1. IsFiniteSet(S) /\ Cardinality(S) <= Cardinality(Nodes) /\ Cardinality(Nodes) \in Nat
  BY FiniteAssumption, FS_Subset, FS_CardinalityType
<1>2. Cardinality(S) \in Nat
  BY <1>1, FS_CardinalityType
<1>3. Cardinality(S) = 0 <=> S = {}
  BY <1>1, FS_EmptySet
<1>4. ASSUME NEW n \in Nodes \ S PROVE Cardinality(S \cup {n}) = Cardinality(S) + 1
  BY <1>1, FS_AddElement
<1> QED
  BY <1>1, <1>2, <1>3, <1>4

LEMMA EmptyPurgatory ==
    ASSUME NEW at, NEW e, PurgatoryOK(at, e)
    PROVE  purgatoryCount[e] = 0 <=> purgatory[e] = Null
<1>1. PICK S : S = At(at, "purgatory", e)
  OBVIOUS
<1>2. /\ IsList(freeptr, purgatory[e], Null, S) /\ purgatoryCount[e] = Cardinality(S)
      /\ Null \notin S /\ S \subseteq Nodes
  BY <1>1, AtNodes DEF PurgatoryOK
<1>3. purgatory[e] = Null <=> S = {}
  BY <1>2, ListEnds
<1> QED
  BY <1>2, <1>3, NodeSet

(* What a step of a thread with pins leaves of pc, local and pins. *)
LEMMA Others ==
    ASSUME BoxInv, NEW t \in Threads, NEW p, NEW l, pins' = pins,
           pc' = [pc EXCEPT ![t] = p], local' = [local EXCEPT ![t] = l]
    PROVE  /\ pc'[t] = p /\ local'[t] = l /\ pins'[t] = pins[t]
           /\ \A u \in Threads \ {t} : pc'[u] = pc[u] /\ local'[u] = local[u] /\ pins'[u] = pins[u]
BY DEF BoxInv

LEMMA NodePut ==
    ASSUME BoxInv, NEW at, NodeInv(at), NEW t \in Threads,
           PutPins(t) \/ PutPinsFlush(t) \/ PutPinsRead(t) \/ PutPinsLink(t)
    PROVE  NodeInv(at)'
<1> USE DEF Set, Goto, stackVars, elVars
<1>1. /\ UNCHANGED <<top, freeptr, fresh, purgatory, purgatoryCount, pin, pins, objects>>
      /\ pc[t] \in {"idle", "put_loop", "put_link"}
  BY DEF PutPins, PutPinsFlush, PutPinsRead, PutPinsLink
<1>2. BoxThread(t) /\ NodeThread(t) /\ Unowned /\ local[t] \in Locals
  BY DEF BoxInv, NodeInv
<1>3. local[t].list = Null /\ local[t].last = Null /\ pins[t] # 0 /\ pin[pins[t]] = Null
  <2>1. pins[t] # 0
    BY <1>2 DEF PutPins, PutPinsFlush, PutPinsRead, PutPinsLink, BoxThread, GetPC
  <2> QED
    BY <1>1, <1>2, <2>1 DEF NodeThread, PushPC, NewPC
<1>4. PurgatoryOK(at, pins[t])
  BY <1>3, BoxTypes DEF NodeInv, PlacesOK
<1>5. \E p \in {"put_loop", "real_free", "put_link", "put_cas"} : \E l :
         /\ pc' = [pc EXCEPT ![t] = p] /\ local' = [local EXCEPT ![t] = l]
         /\ l.list = Null /\ l.last = Null
         /\ p \in {"put_link", "put_cas"} => purgatory[pins[t]] = Null
  <2>1. CASE PutPins(t)
    <3>1. PICK l : l = [local[t] EXCEPT !.index = link[pins[t]], !.caller = "put_loop"]
      OBVIOUS
    <3>2. l.list = Null /\ l.last = Null
      BY <1>2, <1>3, <3>1 DEF Locals
    <3> QED
      BY <2>1, <3>1, <3>2 DEF PutPins
  <2>2. CASE PutPinsFlush(t)
    <3>1. local' = [local EXCEPT ![t] = local[t]]
      BY <2>2 DEF PutPinsFlush, BoxInv
    <3> QED
      BY <1>3, <2>2, <3>1 DEF PutPinsFlush
  <2>3. CASE PutPinsRead(t)
    <3>1. PICK l : l = [local[t] EXCEPT !.topVer = topVer]
      OBVIOUS
    <3>2. l.list = Null /\ l.last = Null
      BY <1>2, <1>3, <3>1 DEF Locals
    <3>3. purgatory[pins[t]] = Null
      BY <1>4, <2>3, EmptyPurgatory DEF PutPinsRead
    <3> QED
      BY <2>3, <3>1, <3>2, <3>3 DEF PutPinsRead
  <2>4. CASE PutPinsLink(t)
    <3>1. local' = [local EXCEPT ![t] = local[t]]
      BY <2>4 DEF PutPinsLink, BoxInv
    <3>2. purgatory[pins[t]] = Null
      BY <1>2, <2>4 DEF NodeThread, PutPinsLink
    <3> QED
      BY <1>3, <2>4, <3>1, <3>2 DEF PutPinsLink
  <2> QED
    BY <2>1, <2>2, <2>3, <2>4
<1>6. PICK p \in {"put_loop", "real_free", "put_link", "put_cas"}, l \in {local'[t]} :
         /\ pc' = [pc EXCEPT ![t] = p] /\ local' = [local EXCEPT ![t] = l]
         /\ l.list = Null /\ l.last = Null
         /\ p \in {"put_link", "put_cas"} => purgatory[pins[t]] = Null
  BY <1>5 DEF BoxInv
<1>7. /\ pc'[t] = p /\ local'[t] = l /\ pins'[t] = pins[t]
      /\ \A u \in Threads \ {t} : pc'[u] = pc[u] /\ local'[u] = local[u] /\ pins'[u] = pins[u]
  BY <1>1, <1>6, Others
<1>8. Unowned'
  BY <1>1, <1>2, UnownedFrame
<1>9. /\ p \notin PushPC \cup {"harvest", "sweep", "new_check", "new_malloc", "new_next", "new_cas", "new_unpin"}
      /\ pc[t] \notin PushPC \cup {"sweep", "new_unpin"}
  BY <1>1 DEF PushPC
<1> QED
  BY <1>1, <1>3, <1>6, <1>7, <1>8, <1>9, PlainStep

LEMMA NodePutPinsCas ==
    ASSUME BoxInv, NEW at, NodeInv(at), NEW t \in Threads, PutPinsCas(t)
    PROVE  NodeInv(at)'
<1> USE DEF Set, Goto, stackVars, elVars
<1>1. /\ UNCHANGED <<top, freeptr, fresh, purgatory, purgatoryCount, pin, objects>>
      /\ pc[t] = "put_cas"
  BY DEF PutPinsCas
<1>2. /\ BoxThread(t) /\ NodeThread(t) /\ Unowned /\ local[t] \in Locals /\ pc \in [Threads -> PC]
      /\ local \in [Threads -> Locals] /\ pins \in [Threads -> {0} \cup Elements]
  BY DEF BoxInv, NodeInv
<1>3. /\ local[t].list = Null /\ local[t].last = Null /\ pins[t] # 0 /\ pin[pins[t]] = Null
      /\ purgatory[pins[t]] = Null
  BY <1>1, <1>2 DEF NodeThread, PushPC, NewPC, BoxThread, GetPC
<1>4. PICK l : l = local[t]
  OBVIOUS
<1>5. NoLocals.list = Null /\ NoLocals.last = Null
  BY DEF NoLocals
<1>6. CASE topVer = l.topVer
  <2>1. /\ pins' = [pins EXCEPT ![t] = 0]
        /\ local' = [local EXCEPT ![t] = NoLocals] /\ pc' = [pc EXCEPT ![t] = "idle"]
    BY <1>4, <1>6 DEF PutPinsCas
  <2>2. /\ local'[t] = NoLocals /\ pc'[t] = "idle" /\ pins'[t] = 0
        /\ \A u \in Threads \ {t} : pc'[u] = pc[u] /\ local'[u] = local[u] /\ pins'[u] = pins[u]
    BY <1>2, <2>1
  <2>3. Unowned'
    <3> SUFFICES ASSUME NEW d \in Elements, \A u \in Threads : pins'[u] # d
                 PROVE  pin[d] = Null /\ purgatory[d] = Null
      BY <1>1 DEF Unowned
    <3>1. CASE d = pins[t]
      BY <1>3, <3>1
    <3>2. CASE d # pins[t]
      <4>1. \A u \in Threads : pins[u] # d
        BY <2>2, <3>2
      <4> QED
        BY <1>2, <4>1 DEF Unowned
    <3> QED
      BY <3>1, <3>2
  <2>4. /\ pc[t] \notin PushPC \cup {"sweep", "new_unpin"}
        /\ "idle" \notin PushPC \cup {"harvest", "sweep", "new_check", "new_malloc", "new_next", "new_cas", "new_unpin"}
    BY <1>1 DEF PushPC
  <2> QED
    BY <1>1, <1>5, <2>2, <2>3, <2>4, PlainStep
<1>7. CASE topVer # l.topVer
  <2>v. PICK m : m = [l EXCEPT !.topVer = topVer]
    OBVIOUS
  <2>1. m.list = Null /\ m.last = Null
    BY <1>2, <1>3, <1>4, <2>v DEF Locals
  <2>2. /\ pins' = pins
        /\ local' = [local EXCEPT ![t] = m] /\ pc' = [pc EXCEPT ![t] = "put_link"]
    BY <1>4, <1>7, <2>v DEF PutPinsCas
  <2>3. /\ local'[t] = m /\ pc'[t] = "put_link" /\ pins'[t] = pins[t]
        /\ \A u \in Threads \ {t} : pc'[u] = pc[u] /\ local'[u] = local[u] /\ pins'[u] = pins[u]
    BY <2>2, Others
  <2>4. Unowned'
    BY <1>1, <1>2, <2>2, UnownedFrame
  <2>5. /\ pc[t] \notin PushPC \cup {"sweep", "new_unpin"}
        /\ "put_link" \notin PushPC \cup {"harvest", "sweep", "new_check", "new_malloc", "new_next", "new_cas", "new_unpin"}
    BY <1>1 DEF PushPC
  <2> QED
    BY <1>1, <1>3, <2>1, <2>3, <2>4, <2>5, PlainStep
<1> QED
  BY <1>6, <1>7

LEMMA BoxPut ==
    ASSUME BoxInv, NEW t \in Threads, PutPins(t) \/ PutPinsFlush(t)
    PROVE  BoxInv'
<1> USE DEF Set, Goto, boxVars
<1>1. BoxThread(t) /\ local[t] \in Locals /\ local \in [Threads -> Locals] /\ pins[t] \in {0} \cup Elements
  BY DEF BoxInv
<1>2. pins[t] # 0 /\ UNCHANGED <<topVer, pinsInArray, link, pins>> /\ pc[t] \in {"idle", "put_loop"}
  BY <1>1 DEF PutPins, PutPinsFlush, BoxThread, GetPC
<1>3. link[pins[t]] = pins[t]
  BY <1>1, <1>2 DEF BoxThread
<1>4. CASE PutPins(t)
  <2>1. PICK e \in 0 .. LF_PINBOX_MAX_PINS : e = pins[t]
    BY <1>1, Sizes DEF M
  <2>2. [local[t] EXCEPT !.index = e, !.caller = "put_loop"] \in Locals
    BY <1>1 DEF Locals
  <2>3. PICK l \in Locals : l = [local[t] EXCEPT !.index = e, !.caller = "put_loop"]
    BY <2>2
  <2>4. l.index = e /\ l.caller = "put_loop"
    BY <1>1, <2>3 DEF Locals
  <2>5. local' = [local EXCEPT ![t] = l] /\ pc' = [pc EXCEPT ![t] = "put_loop"]
    BY <1>3, <1>4, <2>1, <2>3 DEF PutPins
  <2>6. "put_loop" \in PC /\ "put_loop" \notin GetPC
    BY DEF PC, GetPC
  <2> QED
    BY <1>2, <2>1, <2>4, <2>5, <2>6, BoxFrame
<1>5. CASE PutPinsFlush(t)
  <2>1. PICK l \in Locals : l = local[t]
    BY <1>1
  <2>2. local' = [local EXCEPT ![t] = l] /\ pc' = [pc EXCEPT ![t] = "real_free"]
    BY <1>1, <1>5, <2>1 DEF PutPinsFlush
  <2>3. "real_free" \in PC /\ "real_free" \notin GetPC
    BY DEF PC, GetPC
  <2>4. l.caller = "put_loop" => l.index = pins[t]
    BY <1>1, <2>1 DEF BoxThread
  <2> QED
    BY <1>2, <2>2, <2>3, <2>4, BoxFrame
<1> QED
  BY <1>4, <1>5


-----------------------------------------------------------------------------
(* The steps of _lf_alloc_new. *)
LEMMA NotScanning ==
    ASSUME BoxInv, NEW at, NodeInv(at), NEW t \in Threads, pc'[t] # "harvest",
           NEW at2, \A n \in Nodes : at2[n] # <<"swept", t>>,
           \A v \in Threads \ {t} : pc'[v] = pc[v] /\ local'[v] = local[v]
    PROVE  \A v \in Threads \ {t} : Noticed(at2, v, t)'
<1> SUFFICES ASSUME NEW v \in Threads \ {t} PROVE Noticed(at2, v, t)'
  OBVIOUS
<1>1. CASE Pinning(v)'
  <2>1. Pinning(v) /\ local'[v] = local[v] /\ NodeThread(v)
    BY <1>1 DEF Pinning, NodeInv
  <2>2. local'[v].node \in Nodes
    BY <2>1, PinnedNode
  <2> QED
    BY <2>2 DEF Noticed
<1>2. CASE ~Pinning(v)'
  BY <1>2 DEF Noticed
<1> QED
  BY <1>1, <1>2

LEMMA StepNewTop ==
    ASSUME BoxInv, NEW at, NodeInv(at), NEW t \in Threads, NewTop(t)
    PROVE  BoxInv' /\ NodeInv(at)'
<1> USE DEF Set, Goto, stackVars, elVars, boxVars
<1>1. /\ BoxThread(t) /\ NodeThread(t) /\ Unowned /\ top \in Pointers
      /\ pins[t] \in {0} \cup Elements
  BY DEF BoxInv, NodeInv, NodeTypes
<1>2. /\ UNCHANGED <<top, freeptr, fresh, purgatory, purgatoryCount, pin, pins, objects>>
      /\ UNCHANGED <<topVer, pinsInArray, link>>
      /\ pc[t] \in {"idle", "new_top"} /\ pins[t] # 0
  BY <1>1 DEF NewTop, BoxThread, GetPC
<1>3. [NoLocals EXCEPT !.node = top] \in Locals
  BY <1>1, NoLocalsType DEF Locals
<1>4. PICK l \in Locals : l = [NoLocals EXCEPT !.node = top]
  BY <1>3
<1>5. l.list = Null /\ l.last = Null /\ l.caller = "idle"
  BY <1>4 DEF NoLocals
<1>6. local' = [local EXCEPT ![t] = l] /\ pc' = [pc EXCEPT ![t] = "new_pin"]
  BY <1>4 DEF NewTop
<1>7. /\ pc'[t] = "new_pin" /\ local'[t] = l /\ pins'[t] = pins[t]
      /\ \A u \in Threads \ {t} : pc'[u] = pc[u] /\ local'[u] = local[u] /\ pins'[u] = pins[u]
  BY <1>2, <1>6, Others
<1>8. "new_pin" \in PC /\ "new_pin" \notin GetPC /\ "new_pin" \in NewPC
  BY DEF PC, GetPC, NewPC
<1>9. BoxInv'
  BY <1>2, <1>5, <1>6, <1>8, BoxFrame
<1>10. Unowned'
  BY <1>1, <1>2, UnownedFrame
<1>11. /\ "new_pin" \notin PushPC \cup {"harvest", "sweep", "new_check", "new_malloc", "new_next", "new_cas", "new_unpin"}
       /\ pc[t] \notin PushPC \cup {"sweep", "new_unpin"}
  BY <1>2 DEF PushPC
<1>12. NodeInv(at)'
  BY <1>2, <1>5, <1>7, <1>8, <1>10, <1>11, PlainStep
<1> QED
  BY <1>9, <1>12

(* The facts every step of _lf_alloc_new that keeps local starts from *)
LEMMA NewFacts ==
    ASSUME BoxInv, NEW at, NodeInv(at), NEW t \in Threads, pc[t] \in NewPC
    PROVE  /\ BoxThread(t) /\ NodeThread(t) /\ Unowned /\ NodeTypes /\ local[t] \in Locals
           /\ pins[t] \in Elements /\ pins[t] # 0
           /\ local[t].list = Null /\ local[t].last = Null
           /\ local[t].caller = "put_loop" => local[t].index = pins[t]
           /\ local[t].node \in Pointers
           /\ local' = local => local' = [local EXCEPT ![t] = local[t]]
           /\ \A n \in Nodes : at[n] # <<"swept", t>>
<1>1. BoxThread(t) /\ NodeThread(t) /\ Unowned /\ NodeTypes /\ local[t] \in Locals /\ ThreadOK(at, t)
  BY DEF BoxInv, NodeInv, PlacesOK
<1>2. pins[t] # 0
  BY <1>1 DEF BoxThread, GetPC, NewPC
<1>3. local[t].list = Null /\ local[t].last = Null
  BY <1>1 DEF NodeThread, NewPC, PushPC
<1>4. local[t].node \in Pointers
  BY <1>1 DEF Locals
<1>5. local' = local => local' = [local EXCEPT ![t] = local[t]]
  BY DEF BoxInv
<1>6. \A n \in Nodes : at[n] # <<"swept", t>>
  BY <1>1, <1>3, NoneSwept
<1> QED
  BY <1>1, <1>2, <1>3, <1>4, <1>5, <1>6, BoxTypes DEF BoxThread

LEMMA StepNewPin ==
    ASSUME BoxInv, NEW at, NodeInv(at), NEW t \in Threads, NewPin(t)
    PROVE  BoxInv' /\ NodeInv(at)'
<1> USE DEF Set, Goto, stackVars, elVars, boxVars
<1>1. /\ pc[t] = "new_pin" /\ pc[t] \in NewPC
      /\ UNCHANGED <<top, freeptr, fresh, purgatory, purgatoryCount, pins, objects, local>>
      /\ UNCHANGED <<topVer, pinsInArray, link>>
      /\ pc' = [pc EXCEPT ![t] = "new_check"]
  BY DEF NewPin, NewPC
<1>2. /\ NodeThread(t) /\ Unowned /\ NodeTypes /\ local[t] \in Locals
      /\ pins[t] \in Elements /\ pins[t] # 0 /\ local[t].list = Null /\ local[t].last = Null
      /\ local[t].caller = "put_loop" => local[t].index = pins[t]
      /\ local[t].node \in Pointers /\ local' = [local EXCEPT ![t] = local[t]]
  BY <1>1, NewFacts
<1>3. PICK e \in Elements : e = pins[t]
  BY <1>2
<1>4. PICK n \in Pointers : n = local[t].node
  BY <1>2
<1>5. pin' = [pin EXCEPT ![e] = n] /\ pin \in [Elements -> Pointers]
  BY <1>2, <1>3, <1>4 DEF NewPin, NodeTypes
<1>6. pin' \in [Elements -> Pointers] /\ pin'[e] = n /\ \A d \in Elements \ {e} : pin'[d] = pin[d]
  BY <1>5
<1>7. PICK l \in Locals : l = local[t]
  BY <1>2
<1>8. /\ pc'[t] = "new_check" /\ local'[t] = local[t] /\ pins'[t] = pins[t]
      /\ \A u \in Threads \ {t} : pc'[u] = pc[u] /\ local'[u] = local[u] /\ pins'[u] = pins[u]
  BY <1>1, <1>2, Others
<1>9. BoxInv'
  <2>1. "new_check" \in PC /\ "new_check" \notin GetPC
    BY DEF PC, GetPC
  <2> QED
    BY <1>1, <1>2, <1>7, <2>1, BoxFrame
<1>10. Unowned'
  BY <1>1, <1>2, <1>3, <1>6, UnownedFrame
<1>11. Held(t)' = Held(t) /\ objects' \in [Threads -> SUBSET Nodes]
  BY <1>1, <1>2, <1>8 DEF Held, NodeTypes
<1>12. NodeThread(t)'
  BY <1>2, <1>3, <1>4, <1>6, <1>8 DEF NodeThread, PushPC, NewPC
<1>13. NodeInv(at)'
  BY <1>1, <1>2, <1>3, <1>6, <1>8, <1>10, <1>11, <1>12, CalmStep
<1> QED
  BY <1>9, <1>13

(* top still shows the object after the pin was set: it is on the stack,   *)
(* in nobody's purgatory.                                                  *)
LEMMA StepNewCheck ==
    ASSUME BoxInv, NEW at, NodeInv(at), NEW t \in Threads, NewCheck(t)
    PROVE  BoxInv' /\ NodeInv(at)'
<1> USE DEF Set, Goto, stackVars, elVars, boxVars
<1>1. /\ pc[t] = "new_check" /\ pc[t] \in NewPC
      /\ UNCHANGED <<top, freeptr, fresh, purgatory, purgatoryCount, pin, pins, objects, local>>
      /\ UNCHANGED <<topVer, pinsInArray, link>>
  BY DEF NewCheck, NewPC
<1>2. /\ NodeThread(t) /\ Unowned /\ NodeTypes /\ local[t] \in Locals
      /\ pins[t] \in Elements /\ pins[t] # 0 /\ local[t].list = Null /\ local[t].last = Null
      /\ local[t].caller = "put_loop" => local[t].index = pins[t]
      /\ local[t].node \in Pointers /\ local' = [local EXCEPT ![t] = local[t]]
      /\ \A n \in Nodes : at[n] # <<"swept", t>>
  BY <1>1, NewFacts
<1>3. PICK p \in {"new_top", "new_malloc", "new_next"} :
         /\ pc' = [pc EXCEPT ![t] = p]
         /\ p = "new_malloc" => local[t].node = Null
         /\ p = "new_next" => local[t].node = top /\ top # Null
  <2>1. CASE local[t].node # top
    BY <2>1 DEF NewCheck
  <2>2. CASE local[t].node = top /\ top = Null
    BY <2>2 DEF NewCheck
  <2>3. CASE local[t].node = top /\ top # Null
    BY <2>3 DEF NewCheck
  <2> QED
    BY <2>1, <2>2, <2>3
<1>4. /\ pc'[t] = p /\ local'[t] = local[t] /\ pins'[t] = pins[t]
      /\ \A u \in Threads \ {t} : pc'[u] = pc[u] /\ local'[u] = local[u] /\ pins'[u] = pins[u]
  BY <1>1, <1>2, <1>3, Others
<1>5. BoxInv'
  <2>1. p \in PC /\ p \notin GetPC /\ p \notin {"put_link", "put_cas", "put_loop"}
    BY DEF PC, GetPC
  <2>2. PICK l \in Locals : l = local[t]
    BY <1>2
  <2> QED
    BY <1>1, <1>2, <1>3, <2>1, <2>2, BoxFrame
<1>6. Unowned'
  BY <1>1, <1>2, UnownedFrame
<1>7. Held(t)' = Held(t) /\ objects' \in [Threads -> SUBSET Nodes] /\ pin' \in [Elements -> Pointers]
  BY <1>1, <1>2, <1>4 DEF Held, NodeTypes
<1>8. NodeThread(t)'
  BY <1>1, <1>2, <1>3, <1>4 DEF NodeThread, PushPC, NewPC
<1>9. CASE p # "new_next"
  <2>1. p \notin {"new_next", "new_cas", "harvest"}
    BY <1>9
  <2> QED
    BY <1>1, <1>2, <1>4, <1>5, <1>6, <1>7, <1>8, <2>1, CalmStep
<1>10. CASE p = "new_next"
  <2>1. PICK n : n = top
    OBVIOUS
  <2>2. n \in Nodes /\ at[n] = <<"stack", 0>> /\ local'[t].node = n
    <3>1. PICK S : S = At(at, "stack", 0)
      OBVIOUS
    <3>2. IsList(freeptr, n, Null, S) /\ Null \notin S /\ n # Null
      BY <1>3, <1>10, <2>1, <3>1, AtNodes DEF NodeInv, PlacesOK, StackOK
    <3>3. n \in S
      BY <3>2, ListEnds
    <3> QED
      BY <1>3, <1>4, <1>10, <2>1, <3>1, <3>3 DEF At
  <2>3. at[n][1] # "chained"
    BY <2>2
  <2>4. Unchained(at, t)'
    BY <1>4, <1>10, <2>2, <2>3 DEF Unchained
  <2>5. \A u \in Threads : Noticed(at, t, u)'
    BY <2>2 DEF Noticed
  <2>6. \A v \in Threads \ {t} : Noticed(at, v, t)'
    BY <1>2, <1>4, <1>10, NotScanning
  <2>7. NodeInv(at)'
    BY <1>1, <1>2, <1>4, <1>6, <1>7, <1>8, <2>4, <2>5, <2>6, QuietStep
  <2> QED
    BY <1>5, <2>7
<1> QED
  BY <1>9, <1>10


LEMMA StepNewNext ==
    ASSUME BoxInv, NEW at, NodeInv(at), NEW t \in Threads, NewNext(t)
    PROVE  BoxInv' /\ NodeInv(at)'
<1> USE DEF Set, Goto, stackVars, elVars, boxVars
<1>1. /\ pc[t] = "new_next" /\ pc[t] \in NewPC
      /\ UNCHANGED <<top, freeptr, fresh, purgatory, purgatoryCount, pin, pins, objects>>
      /\ UNCHANGED <<topVer, pinsInArray, link>>
      /\ pc' = [pc EXCEPT ![t] = "new_cas"]
  BY DEF NewNext, NewPC
<1>2. /\ NodeThread(t) /\ Unowned /\ NodeTypes /\ local[t] \in Locals
      /\ pins[t] \in Elements /\ pins[t] # 0 /\ local[t].list = Null /\ local[t].last = Null
      /\ local[t].caller = "put_loop" => local[t].index = pins[t]
      /\ \A n \in Nodes : at[n] # <<"swept", t>>
  BY <1>1, NewFacts
<1>3. Pinning(t) /\ Unchained(at, t) /\ \A u \in Threads : Noticed(at, t, u)
  BY <1>1 DEF Pinning, NodeInv
<1>4. PICK n \in Nodes : n = local[t].node
  BY <1>2, <1>3, PinnedNode
<1>5. PICK x \in Pointers : x = freeptr[n]
  BY <1>2 DEF NodeTypes
<1>6. [local[t] EXCEPT !.next = x] \in Locals
  BY <1>2 DEF Locals
<1>7. PICK l \in Locals : l = [local[t] EXCEPT !.next = x]
  BY <1>6
<1>8. /\ l.next = x /\ l.node = n /\ l.list = Null /\ l.last = Null /\ l.caller = local[t].caller
      /\ l.index = local[t].index
  BY <1>2, <1>4, <1>7 DEF Locals
<1>9. local' = [local EXCEPT ![t] = l]
  BY <1>4, <1>5, <1>7 DEF NewNext
<1>10. /\ pc'[t] = "new_cas" /\ local'[t] = l /\ pins'[t] = pins[t]
       /\ \A u \in Threads \ {t} : pc'[u] = pc[u] /\ local'[u] = local[u] /\ pins'[u] = pins[u]
  BY <1>1, <1>9, Others
<1>11. BoxInv'
  <2>1. "new_cas" \in PC /\ "new_cas" \notin GetPC
    BY DEF PC, GetPC
  <2> QED
    BY <1>1, <1>2, <1>8, <1>9, <2>1, BoxFrame
<1>12. Unowned'
  BY <1>1, <1>2, UnownedFrame
<1>13. Held(t)' = Held(t) /\ objects' \in [Threads -> SUBSET Nodes] /\ pin' \in [Elements -> Pointers]
  BY <1>1, <1>2, <1>10 DEF Held, NodeTypes
<1>14. NodeThread(t)'
  <2>1. pin[pins[t]] = n /\ n # Null
    BY <1>2, <1>3, <1>4, PinnedNode, NullAssumption
  <2> QED
    BY <1>1, <1>8, <1>10, <2>1 DEF NodeThread, PushPC, NewPC
<1>15. Unchained(at, t)'
  <2>1. at[n][1] # "chained"
    BY <1>3, <1>4 DEF Unchained
  <2> QED
    BY <1>1, <1>5, <1>8, <1>10, <2>1 DEF Unchained
<1>16. ASSUME NEW u \in Threads PROVE Noticed(at, t, u)'
  <2>1. CASE u = t
    BY <1>2, <1>8, <1>10, <2>1 DEF Noticed
  <2>2. CASE u # t
    <3>1. pc'[u] = pc[u] /\ local'[u] = local[u] /\ pins'[u] = pins[u] /\ Noticed(at, t, u)
      BY <1>3, <1>10, <2>2
    <3> QED
      BY <1>3, <1>4, <1>8, <1>10, <3>1 DEF Noticed
  <2> QED
    BY <2>1, <2>2
<1>17. \A v \in Threads \ {t} : Noticed(at, v, t)'
  BY <1>2, <1>10, NotScanning
<1>18. NodeInv(at)'
  BY <1>1, <1>2, <1>8, <1>10, <1>12, <1>13, <1>14, <1>15, <1>16, <1>17, QuietStep
<1> QED
  BY <1>11, <1>18

LEMMA StepNewUnpin ==
    ASSUME BoxInv, NEW at, NodeInv(at), NEW t \in Threads, NewUnpin(t)
    PROVE  BoxInv' /\ NodeInv(at)'
<1> USE DEF Set, Goto, stackVars, elVars, boxVars
<1>1. /\ pc[t] = "new_unpin" /\ pc[t] \in NewPC
      /\ UNCHANGED <<top, freeptr, fresh, purgatory, purgatoryCount, pins>>
      /\ UNCHANGED <<topVer, pinsInArray, link>>
      /\ pc' = [pc EXCEPT ![t] = "idle"] /\ local' = [local EXCEPT ![t] = NoLocals]
  BY DEF NewUnpin, NewPC
<1>2. /\ NodeThread(t) /\ Unowned /\ NodeTypes /\ local[t] \in Locals
      /\ pins[t] \in Elements /\ pins[t] # 0 /\ local[t].list = Null /\ local[t].last = Null
      /\ local[t].node \in Pointers
  BY <1>1, NewFacts
<1>3. PICK e \in Elements : e = pins[t]
  BY <1>2
<1>4. pin' = [pin EXCEPT ![e] = Null] /\ pin \in [Elements -> Pointers] /\ Null \in Pointers
  BY <1>2, <1>3 DEF NewUnpin, NodeTypes, Pointers
<1>5. pin' \in [Elements -> Pointers] /\ pin'[e] = Null /\ \A d \in Elements \ {e} : pin'[d] = pin[d]
  BY <1>4
<1>6. PICK N \in SUBSET Nodes : N = {local[t].node} \ {Null}
  BY <1>2 DEF Pointers
<1>7. /\ objects \in [Threads -> SUBSET Nodes]
      /\ objects' = [objects EXCEPT ![t] = objects[t] \cup N]
  BY <1>2, <1>6 DEF NewUnpin, NodeTypes
<1>8. /\ objects' \in [Threads -> SUBSET Nodes] /\ objects'[t] = objects[t] \cup N
      /\ \A u \in Threads \ {t} : objects'[u] = objects[u]
  BY <1>7
<1>9. /\ pc'[t] = "idle" /\ local'[t] = NoLocals /\ pins'[t] = pins[t]
      /\ \A u \in Threads \ {t} : pc'[u] = pc[u] /\ local'[u] = local[u] /\ pins'[u] = pins[u]
  BY <1>1, Others
<1>10. BoxInv'
  <2>1. "idle" \in PC /\ "idle" \notin GetPC
    BY DEF PC, GetPC
  <2> QED
    BY <1>1, <1>2, <2>1, NoLocalsType, BoxFrame
<1>11. Unowned'
  BY <1>1, <1>2, <1>3, <1>5, UnownedFrame
<1>12. Held(t)' = Held(t)
  BY <1>1, <1>6, <1>8, <1>9 DEF Held
<1>13. NodeThread(t)' /\ NoLocals.list = Null /\ NoLocals.last = Null
  <2>1. NoLocals.list = Null /\ NoLocals.last = Null
    BY DEF NoLocals
  <2> QED
    BY <1>3, <1>5, <1>9, <2>1 DEF NodeThread, PushPC, NewPC
<1>14. NodeInv(at)'
  BY <1>1, <1>2, <1>3, <1>5, <1>8, <1>9, <1>11, <1>12, <1>13, CalmStep
<1> QED
  BY <1>10, <1>14

-----------------------------------------------------------------------------
(* The steps that move objects.  Moved says how: an available object to a  *)
(* user, a user's object to a purgatory, objects among the retired ones,   *)
(* or the objects of a chain to the stack.                                 *)
Retired == {"swept", "chained", "purgatory"}

Moved(at, at2) ==
    \/ \E n \in Nodes, t \in Threads :
          at[n] \in {<<"fresh", 0>>, <<"stack", 0>>} /\ Shift(at, at2, n, <<"held", t>>)
    \/ \E n \in Nodes, t \in Threads, e \in Elements :
          at[n] = <<"held", t>> /\ Shift(at, at2, n, <<"purgatory", e>>)
    \/ \A n \in Nodes : at2[n] = at[n] \/ (at[n][1] \in Retired /\ at2[n][1] \in Retired)
    \/ \A n \in Nodes : at2[n] = at[n] \/ (at[n][1] = "chained" /\ at2[n] = <<"stack", 0>>)

LEMMA NotMoved ==
    ASSUME NEW at
    PROVE  Moved(at, at)
BY DEF Moved

(* What all of them use of the invariant *)
LEMMA NodeFacts ==
    ASSUME BoxInv, NEW at, NodeInv(at), NEW t \in Threads
    PROVE  /\ NodeThread(t) /\ BoxThread(t) /\ Unowned /\ NodeTypes /\ local[t] \in Locals
           /\ Placed(at) /\ PlacesOK(at) /\ StackOK(at) /\ ThreadOK(at, t)
           /\ \A e \in Elements : PurgatoryOK(at, e)
           /\ freeptr \in [Nodes -> Pointers] /\ objects \in [Threads -> SUBSET Nodes]
           /\ pin \in [Elements -> Pointers]
           /\ \A v \in Threads : Pinning(v) => local[v].node \in Nodes /\ at[local[v].node][1] # "chained"
<1>1. ASSUME NEW v \in Threads, Pinning(v)
      PROVE  local[v].node \in Nodes /\ at[local[v].node][1] # "chained"
  <2>1. NodeThread(v) /\ Unchained(at, v)
    BY DEF NodeInv
  <2> QED
    BY <1>1, <2>1, PinnedNode DEF Unchained
<1> QED
  BY <1>1 DEF NodeInv, BoxInv, PlacesOK, Placed, NodeTypes


LEMMA MoveStep ==
    ASSUME BoxInv, NEW at, NodeInv(at), NEW at2, Placed(at2), NEW t \in Threads,
           NEW e \in Elements, pins[t] = e, UNCHANGED <<pins, pin>>,
           \A u \in Threads \ {t} : pc'[u] = pc[u] /\ local'[u] = local[u] /\ objects'[u] = objects[u],
           NodeTypes', StackOK(at2)', ThreadOK(at2, t)', PurgatoryOK(at2, e)', NodeThread(t)',
           \A d \in Elements \ {e} : purgatory'[d] = purgatory[d] /\ purgatoryCount'[d] = purgatoryCount[d],
           \A n \in Nodes \ Private(at, t) : freeptr'[n] = freeptr[n],
           Carried(at, at2, t), ~Pinning(t)',
           \A v \in Threads \ {t} : Pinning(v) => at2[local[v].node] # <<"chained", t>>,
           \A v \in Threads \ {t} : Noticed(at2, v, t)'
    PROVE  NodeInv(at2)'
<1>1. PlacesOK(at) /\ freeptr \in [Nodes -> Pointers] /\ Unowned
  BY NodeFacts
<1>2. freeptr' \in [Nodes -> Pointers]
  BY DEF NodeTypes
<1>3. ASSUME NEW k, NEW w, <<k, w>> \notin Own(t)
      PROVE  At(at2, k, w) = At(at, k, w)
  BY <1>3 DEF At, Carried
<1>4. ASSUME NEW d \in Elements \ {e}
      PROVE  At(at2, "purgatory", d) = At(at, "purgatory", d)
  <2>1. <<"purgatory", d>> \notin Own(t)
    BY DEF Own
  <2> QED
    BY <1>3, <2>1
<1>5. ASSUME NEW u \in Threads \ {t}
      PROVE  /\ At(at2, "held", u) = At(at, "held", u)
             /\ At(at2, "swept", u) = At(at, "swept", u)
             /\ At(at2, "chained", u) = At(at, "chained", u)
  <2>1. <<"held", u>> \notin Own(t) /\ <<"swept", u>> \notin Own(t) /\ <<"chained", u>> \notin Own(t)
    BY DEF Own
  <2> QED
    BY <1>3, <2>1
<1>6. PlacesOK(at2)'
  BY <1>1, <1>2, <1>4, <1>5, PlacesStep
<1>7. Unowned'
  <2> SUFFICES ASSUME NEW d \in Elements, \A u \in Threads : pins'[u] # d
               PROVE  pin'[d] = Null /\ purgatory'[d] = Null
    BY DEF Unowned
  <2>1. d # e /\ \A u \in Threads : pins[u] # d
    OBVIOUS
  <2> QED
    BY <1>1, <2>1 DEF Unowned
<1>9. Unchained(at2, t)' /\ \A u \in Threads : Noticed(at2, t, u)'
  BY DEF Unchained, Noticed
<1>10. /\ \A u \in Threads \ {t} : pc'[u] = pc[u] /\ local'[u] = local[u] /\ pins'[u] = pins[u]
       /\ \A d \in Elements \ {pins[t]} : pin'[d] = pin[d] /\ purgatory'[d] = purgatory[d]
  OBVIOUS
<1> QED
  BY <1>6, <1>7, <1>9, <1>10, NodeStep

(* The moves of one object a step makes *)
LEMMA MoveHeld ==
    ASSUME NEW at, Placed(at), NEW n \in Nodes, NEW t \in Threads,
           at[n] \in {<<"fresh", 0>>, <<"stack", 0>>},
           NEW at2, Shift(at, at2, n, <<"held", t>>)
    PROVE  /\ Placed(at2) /\ at2[n] = <<"held", t>> /\ \A m \in Nodes \ {n} : at2[m] = at[m]
           /\ At(at2, "held", t) = At(at, "held", t) \cup {n}
           /\ at[n] = <<"fresh", 0>> => /\ At(at2, "fresh", 0) = At(at, "fresh", 0) \ {n}
                                        /\ At(at2, "stack", 0) = At(at, "stack", 0)
           /\ at[n] = <<"stack", 0>> => /\ At(at2, "stack", 0) = At(at, "stack", 0) \ {n}
                                        /\ At(at2, "fresh", 0) = At(at, "fresh", 0)
           /\ At(at2, "swept", t) = At(at, "swept", t) /\ At(at2, "chained", t) = At(at, "chained", t)
           /\ \A e : At(at2, "purgatory", e) = At(at, "purgatory", e)
<1>1. PICK k \in Kinds : k = "held"
  BY DEF Kinds
<1>2. PICK w \in Threads \cup Elements \cup {0} : w = t
  OBVIOUS
<1>3. /\ Shift(at, at2, n, <<k, w>>)
      /\ k \notin {"fresh", "stack"} /\ w \in Threads /\ k # "purgatory"
  BY <1>1, <1>2
<1>4. Placed(at2)
  BY <1>3, ShiftPlaced
<1>5. at2[n] = <<"held", t>> /\ at2[n] # <<"fresh", 0>> /\ at2[n] # <<"stack", 0>>
  BY DEF Shift
<1> QED
  BY <1>4, <1>5 DEF At, Shift

(* A caller of _lf_alloc_new gets object n, new or from the stack. *)
LEMMA TakeNode ==
    ASSUME BoxInv, NEW at, NodeInv(at), NEW t \in Threads, pc[t] \in {"new_malloc", "new_cas"},
           NEW n \in Nodes, at[n] \in {<<"fresh", 0>>, <<"stack", 0>>},
           NEW at2, Shift(at, at2, n, <<"held", t>>),
           UNCHANGED <<freeptr, purgatory, purgatoryCount, pin, pins, objects>>, top' \in Pointers,
           NEW l \in Locals, l.node = n, l.list = Null, l.last = Null,
           pc' = [pc EXCEPT ![t] = "new_unpin"], local' = [local EXCEPT ![t] = l],
           StackOK(at2)'
    PROVE  NodeInv(at2)' /\ Moved(at, at2)
<1>0. pc[t] \in NewPC /\ pins[t] # 0
  <2>1. BoxThread(t)
    BY DEF BoxInv
  <2> QED
    BY <2>1 DEF NewPC, BoxThread, GetPC
<1>1. /\ NodeThread(t) /\ NodeTypes /\ Placed(at) /\ ThreadOK(at, t) /\ \A d \in Elements : PurgatoryOK(at, d)
      /\ local[t].list = Null /\ local[t].last = Null /\ \A m \in Nodes : at[m] # <<"swept", t>>
      /\ \A v \in Threads : Pinning(v) => local[v].node \in Nodes /\ at[local[v].node][1] # "chained"
  <2>1. /\ NodeThread(t) /\ NodeTypes /\ Placed(at) /\ ThreadOK(at, t) /\ \A d \in Elements : PurgatoryOK(at, d)
        /\ \A v \in Threads : Pinning(v) => local[v].node \in Nodes /\ at[local[v].node][1] # "chained"
    BY NodeFacts
  <2>2. local[t].list = Null /\ local[t].last = Null
    BY <2>1 DEF NodeThread, PushPC
  <2>3. \A m \in Nodes : at[m] # <<"swept", t>>
    BY <2>1, <2>2, NoneSwept
  <2> QED
    BY <2>1, <2>2, <2>3
<1>2. PICK e \in Elements : e = pins[t]
  BY <1>0, NewFacts
<1>3. /\ pc'[t] = "new_unpin" /\ local'[t] = l /\ pins'[t] = pins[t]
      /\ \A u \in Threads \ {t} : pc'[u] = pc[u] /\ local'[u] = local[u] /\ pins'[u] = pins[u]
  BY Others
<1>5. /\ Placed(at2) /\ at2[n] = <<"held", t>> /\ \A m \in Nodes \ {n} : at2[m] = at[m]
      /\ At(at2, "held", t) = At(at, "held", t) \cup {n}
      /\ At(at2, "swept", t) = At(at, "swept", t) /\ At(at2, "chained", t) = At(at, "chained", t)
      /\ At(at2, "purgatory", e) = At(at, "purgatory", e)
  BY <1>1, MoveHeld
<1>7. ThreadOK(at2, t)'
  <2>1. n # Null
    BY NullAssumption
  <2>2. Held(t)' = Held(t) \cup {n}
    BY <1>3, <2>1 DEF Held
  <2> QED
    BY <1>1, <1>3, <1>5, <2>2 DEF ThreadOK, IsChain
<1>8. PurgatoryOK(at2, e)'
  BY <1>1, <1>5 DEF PurgatoryOK
<1>9. NodeTypes' /\ NodeThread(t)' /\ ~Pinning(t)'
  BY <1>1, <1>3 DEF NodeTypes, NodeThread, PushPC, NewPC, Pinning
<1>10. Carried(at, at2, t)
  BY <1>5 DEF Carried, Own
<1>11. ASSUME NEW v \in Threads \ {t}, Pinning(v) PROVE at2[local[v].node] # <<"chained", t>>
  <2>1. local[v].node \in Nodes /\ at[local[v].node][1] # "chained"
    BY <1>1, <1>11
  <2> QED
    BY <1>5, <2>1
<1>12. \A v \in Threads \ {t} : Noticed(at2, v, t)'
  <2>1. \A m \in Nodes : at2[m] # <<"swept", t>>
    BY <1>1, <1>5
  <2> QED
    BY <1>3, <2>1, NotScanning
<1>13. NodeInv(at2)'
  BY <1>2, <1>3, <1>5, <1>7, <1>8, <1>9, <1>10, <1>11, <1>12, MoveStep
<1> QED
  BY <1>13 DEF Moved

LEMMA StepNewMalloc ==
    ASSUME BoxInv, NEW at, NodeInv(at), NEW t \in Threads, NewMalloc(t)
    PROVE  BoxInv' /\ \E at2 : NodeInv(at2)' /\ Moved(at, at2)
<1> USE DEF Set, Goto, stackVars, elVars, boxVars
<1>1. /\ pc[t] = "new_malloc" /\ pc[t] \in NewPC
      /\ UNCHANGED <<top, freeptr, purgatory, purgatoryCount, pin, pins, objects>>
      /\ UNCHANGED <<topVer, pinsInArray, link>>
      /\ pc' = [pc EXCEPT ![t] = "new_unpin"]
  BY DEF NewMalloc, NewPC
<1>2. /\ NodeThread(t) /\ Unowned /\ NodeTypes /\ local[t] \in Locals
      /\ pins[t] \in Elements /\ pins[t] # 0 /\ local[t].list = Null /\ local[t].last = Null
      /\ local[t].caller = "put_loop" => local[t].index = pins[t]
      /\ Placed(at) /\ StackOK(at)
  BY <1>1, NewFacts, NodeFacts
<1>3. "new_unpin" \in PC /\ "new_unpin" \notin GetPC
  BY DEF PC, GetPC
<1>4. CASE \E n \in fresh : /\ fresh' = fresh \ {n}
                            /\ local' = [local EXCEPT ![t] = [local[t] EXCEPT !.node = n]]
  <2>1. PICK n \in fresh : /\ fresh' = fresh \ {n}
                           /\ local' = [local EXCEPT ![t] = [local[t] EXCEPT !.node = n]]
    BY <1>4
  <2>2. n \in Nodes /\ at[n] = <<"fresh", 0>>
    BY <1>2 DEF StackOK, At
  <2>3. [local[t] EXCEPT !.node = n] \in Locals
    BY <1>2, <2>2 DEF Locals, Pointers
  <2>4. PICK l \in Locals : l = [local[t] EXCEPT !.node = n]
    BY <2>3
  <2>5. l.node = n /\ l.list = Null /\ l.last = Null /\ l.caller = local[t].caller /\ l.index = local[t].index
    BY <1>2, <2>4 DEF Locals
  <2>6. local' = [local EXCEPT ![t] = l]
    BY <2>1, <2>4
  <2>7. BoxInv'
    BY <1>1, <1>2, <1>3, <2>5, <2>6, BoxFrame
  <2>8. PICK at2 : Shift(at, at2, n, <<"held", t>>)
    <3>1. "held" \in Kinds
      BY DEF Kinds
    <3> QED
      BY <1>2, <2>2, <3>1, ShiftExists
  <2>9. StackOK(at2)'
    <3>3. At(at2, "fresh", 0) = At(at, "fresh", 0) \ {n} /\ At(at2, "stack", 0) = At(at, "stack", 0)
      BY <1>2, <2>2, <2>8, MoveHeld
    <3> QED
      BY <1>1, <1>2, <2>1, <3>3 DEF StackOK
  <2>10. top' \in Pointers
    BY <1>1, <1>2 DEF NodeTypes
  <2>11. NodeInv(at2)' /\ Moved(at, at2)
    BY <1>1, <2>2, <2>5, <2>6, <2>8, <2>9, <2>10, TakeNode
  <2> QED
    BY <2>7, <2>11
<1>5. CASE fresh = {} /\ UNCHANGED <<fresh, local>>
  <2>1. local' = [local EXCEPT ![t] = local[t]]
    BY <1>5 DEF BoxInv
  <2>2. /\ pc'[t] = "new_unpin" /\ local'[t] = local[t] /\ pins'[t] = pins[t]
        /\ \A u \in Threads \ {t} : pc'[u] = pc[u] /\ local'[u] = local[u] /\ pins'[u] = pins[u]
    BY <1>1, <2>1, Others
  <2>3. BoxInv'
    <3>1. PICK l \in Locals : l = local[t]
      BY <1>2
    <3> QED
      BY <1>1, <1>2, <1>3, <2>1, <3>1, BoxFrame
  <2>4. Held(t)' = Held(t)
    <3>1. local[t].node = Null
      BY <1>1, <1>2 DEF NodeThread
    <3> QED
      BY <1>1, <2>2, <3>1 DEF Held
  <2>5. NodeThread(t)' /\ Unowned' /\ pin' \in [Elements -> Pointers] /\ objects' \in [Threads -> SUBSET Nodes]
    <3>1. Unowned'
      BY <1>1, <1>2, UnownedFrame
    <3> QED
      BY <1>1, <1>2, <2>2, <3>1 DEF NodeThread, PushPC, NewPC, NodeTypes
  <2>6. NodeInv(at)'
    BY <1>1, <1>2, <1>5, <2>2, <2>4, <2>5, CalmStep
  <2> QED
    BY <2>3, <2>6, NotMoved
<1> QED
  BY <1>4, <1>5 DEF NewMalloc

(* The compare-and-swap of _lf_alloc_new: what was read of the object is   *)
(* still its successor.                                                    *)
LEMMA StepNewCas ==
    ASSUME BoxInv, NEW at, NodeInv(at), NEW t \in Threads, NewCas(t)
    PROVE  BoxInv' /\ \E at2 : NodeInv(at2)' /\ Moved(at, at2)
<1> USE DEF Set, Goto, stackVars, elVars, boxVars
<1>1. /\ pc[t] = "new_cas" /\ pc[t] \in NewPC
      /\ UNCHANGED <<freeptr, fresh, purgatory, purgatoryCount, pin, pins, objects, local>>
      /\ UNCHANGED <<topVer, pinsInArray, link>>
  BY DEF NewCas, NewPC
<1>2. /\ NodeThread(t) /\ Unowned /\ NodeTypes /\ local[t] \in Locals
      /\ pins[t] \in Elements /\ pins[t] # 0 /\ local[t].list = Null /\ local[t].last = Null
      /\ local[t].caller = "put_loop" => local[t].index = pins[t]
      /\ Placed(at) /\ StackOK(at) /\ local' = [local EXCEPT ![t] = local[t]]
  BY <1>1, NewFacts, NodeFacts
<1>3. PICK l \in Locals : l = local[t]
  BY <1>2
<1>4. PICK n \in Nodes : n = local[t].node
  <2>1. Pinning(t)
    BY <1>1 DEF Pinning
  <2> QED
    BY <1>2, <2>1, PinnedNode
<1>5. CASE top = n
  <2>1. top' = local[t].next /\ pc' = [pc EXCEPT ![t] = "new_unpin"]
    BY <1>4, <1>5 DEF NewCas
  <2>2. "new_unpin" \in PC /\ "new_unpin" \notin GetPC
    BY DEF PC, GetPC
  <2>3. BoxInv'
    BY <1>1, <1>2, <1>3, <2>1, <2>2, BoxFrame
  <2>4. PICK S : S = At(at, "stack", 0)
    OBVIOUS
  <2>5. IsList(freeptr, n, Null, S) /\ Null \notin S /\ n # Null
    BY <1>2, <1>5, <2>4, AtNodes, NullAssumption DEF StackOK
  <2>6. n \in S /\ IsList(freeptr, freeptr[n], Null, S \ {n})
    BY <2>5, ListPop
  <2>7. at[n] = <<"stack", 0>>
    BY <2>4, <2>6 DEF At
  <2>8. freeptr[n] = local[t].next
    BY <1>1, <1>4, <2>7 DEF NodeInv, Unchained, Pinning
  <2>9. top' \in Pointers
    BY <1>1, <1>2, <2>1 DEF NodeThread
  <2>10. PICK at2 : Shift(at, at2, n, <<"held", t>>)
    <3>1. "held" \in Kinds
      BY DEF Kinds
    <3> QED
      BY <1>2, <2>2, <3>1, ShiftExists
  <2>11. StackOK(at2)'
    <3>3. At(at2, "fresh", 0) = At(at, "fresh", 0) /\ At(at2, "stack", 0) = S \ {n}
      BY <1>2, <2>4, <2>7, <2>10, MoveHeld
    <3> QED
      BY <1>1, <1>2, <2>1, <2>6, <2>8, <3>3 DEF StackOK
  <2>12. NodeInv(at2)' /\ Moved(at, at2)
    <3>1. l.node = n /\ l.list = Null /\ l.last = Null /\ local' = [local EXCEPT ![t] = l]
      BY <1>2, <1>3, <1>4
    <3> QED
      BY <1>1, <2>1, <2>7, <2>9, <2>10, <2>11, <3>1, TakeNode
  <2> QED
    BY <2>3, <2>12
<1>6. CASE top # n
  <2>1. top' = top /\ pc' = [pc EXCEPT ![t] = "new_top"]
    BY <1>4, <1>6 DEF NewCas
  <2>2. "new_top" \in PC /\ "new_top" \notin GetPC /\ "new_top" \in NewPC
    BY DEF PC, GetPC, NewPC
  <2>3. BoxInv'
    BY <1>1, <1>2, <1>3, <2>1, <2>2, BoxFrame
  <2>4. /\ pc'[t] = "new_top" /\ local'[t] = local[t] /\ pins'[t] = pins[t]
        /\ \A u \in Threads \ {t} : pc'[u] = pc[u] /\ local'[u] = local[u] /\ pins'[u] = pins[u]
    BY <1>1, <1>2, <2>1, Others
  <2>5. /\ "new_top" \notin PushPC \cup {"harvest", "sweep", "new_check", "new_malloc", "new_next", "new_cas", "new_unpin"}
        /\ pc[t] \notin PushPC \cup {"sweep", "new_unpin"}
    BY <1>1 DEF PushPC
  <2>6. Unowned'
    BY <1>1, <1>2, UnownedFrame
  <2>7. NodeInv(at)'
    BY <1>1, <1>2, <2>1, <2>2, <2>4, <2>5, <2>6, PlainStep
  <2> QED
    BY <2>3, <2>7, NotMoved
<1> QED
  BY <1>5, <1>6


-----------------------------------------------------------------------------
(* The steps of _lf_pinbox_free and _lf_pinbox_real_free. *)

(* The lists t does not own alone survive what it does to its objects. *)
LEMMA SharedLists ==
    ASSUME NEW at, PlacesOK(at), NEW t \in Threads,
           \A n \in Nodes \ Private(at, t) : freeptr'[n] = freeptr[n]
    PROVE  /\ IsList(freeptr', top, Null, At(at, "stack", 0))
           /\ \A e \in Elements : IsList(freeptr', purgatory[e], Null, At(at, "purgatory", e))
<1>1. ASSUME NEW k \in {"stack", "purgatory"}, NEW w, NEW h, IsList(freeptr, h, Null, At(at, k, w))
      PROVE  IsList(freeptr', h, Null, At(at, k, w))
  <2>1. PICK S : S = At(at, k, w)
    OBVIOUS
  <2>2. S \subseteq Nodes \ Private(at, t)
    BY <2>1 DEF At, Private
  <2>3. IsList(freeptr, h, Null, S)
    BY <1>1, <2>1
  <2>4. IsList(freeptr', h, Null, S)
    BY <2>2, <2>3, ListFrame
  <2> QED
    BY <2>1, <2>4
<1>2. IsList(freeptr, top, Null, At(at, "stack", 0))
  BY DEF PlacesOK, StackOK
<1>3. \A e \in Elements : IsList(freeptr, purgatory[e], Null, At(at, "purgatory", e))
  BY DEF PlacesOK, PurgatoryOK
<1> QED
  BY <1>1, <1>2, <1>3

(* add_to_purgatory on the element of t *)
LEMMA Added ==
    ASSUME NEW at, PlacesOK(at), NodeTypes, NEW t \in Threads, NEW e \in Elements,
           NEW n \in Nodes, at[n] \in {<<"held", t>>, <<"swept", t>>},
           AddToPurgatory(e, n, purgatory[e], purgatoryCount[e]), UNCHANGED <<top, fresh>>,
           NEW at2, Shift(at, at2, n, <<"purgatory", e>>)
    PROVE  /\ Placed(at2) /\ StackOK(at2)' /\ PurgatoryOK(at2, e)'
           /\ freeptr' \in [Nodes -> Pointers] /\ purgatory' \in [Elements -> Pointers]
           /\ purgatoryCount' \in [Elements -> Nat]
           /\ \A d \in Elements \ {e} : purgatory'[d] = purgatory[d] /\ purgatoryCount'[d] = purgatoryCount[d]
           /\ \A m \in Nodes \ {n} : freeptr'[m] = freeptr[m]
           /\ \A m \in Nodes \ Private(at, t) : freeptr'[m] = freeptr[m]
           /\ at[n] = <<"held", t>> => /\ At(at2, "held", t) = At(at, "held", t) \ {n}
                                       /\ At(at2, "swept", t) = At(at, "swept", t)
           /\ at[n] = <<"swept", t>> => /\ At(at2, "swept", t) = At(at, "swept", t) \ {n}
                                        /\ At(at2, "held", t) = At(at, "held", t)
           /\ At(at2, "chained", t) = At(at, "chained", t)
<1>1. PICK h \in Pointers : h = purgatory[e]
  BY DEF NodeTypes
<1>2. PICK c \in Nat : c = purgatoryCount[e]
  BY DEF NodeTypes
<1>3. /\ freeptr' = [freeptr EXCEPT ![n] = h] /\ purgatory' = [purgatory EXCEPT ![e] = n]
      /\ purgatoryCount' = [purgatoryCount EXCEPT ![e] = c + 1]
  BY <1>1, <1>2 DEF AddToPurgatory
<1>4. /\ freeptr \in [Nodes -> Pointers] /\ purgatory \in [Elements -> Pointers]
      /\ purgatoryCount \in [Elements -> Nat] /\ n \in Pointers
  BY DEF NodeTypes, Pointers
<1>5. /\ freeptr' \in [Nodes -> Pointers] /\ purgatory' \in [Elements -> Pointers]
      /\ purgatoryCount' \in [Elements -> Nat]
      /\ \A d \in Elements \ {e} : purgatory'[d] = purgatory[d] /\ purgatoryCount'[d] = purgatoryCount[d]
      /\ \A m \in Nodes \ {n} : freeptr'[m] = freeptr[m]
      /\ freeptr'[n] = h /\ purgatory'[e] = n /\ purgatoryCount'[e] = c + 1
  BY <1>3, <1>4
<1>6. n \in Private(at, t) /\ n \notin At(at, "purgatory", e) /\ n \notin At(at, "stack", 0)
      /\ n \notin At(at, "fresh", 0)
  BY DEF Private, At
<1>7. \A m \in Nodes \ Private(at, t) : freeptr'[m] = freeptr[m]
  BY <1>5, <1>6
<1>8. Placed(at2)
  <2>1. PICK k \in Kinds : k = "purgatory"
    BY DEF Kinds
  <2>2. PICK w \in Threads \cup Elements \cup {0} : w = e
    OBVIOUS
  <2>3. Shift(at, at2, n, <<k, w>>) /\ k \notin {"fresh", "stack", "held", "swept", "chained"} /\ w \in Elements
    BY <2>1, <2>2
  <2>4. Placed(at)
    BY DEF Placed, PlacesOK
  <2> QED
    BY <2>3, <2>4, ShiftPlaced
<1>9. /\ At(at2, "purgatory", e) = At(at, "purgatory", e) \cup {n}
      /\ At(at2, "stack", 0) = At(at, "stack", 0) /\ At(at2, "fresh", 0) = At(at, "fresh", 0)
      /\ At(at2, "chained", t) = At(at, "chained", t)
      /\ at[n] = <<"held", t>> => /\ At(at2, "held", t) = At(at, "held", t) \ {n}
                                  /\ At(at2, "swept", t) = At(at, "swept", t)
      /\ at[n] = <<"swept", t>> => /\ At(at2, "swept", t) = At(at, "swept", t) \ {n}
                                   /\ At(at2, "held", t) = At(at, "held", t)
  <2>1. at2[n] = <<"purgatory", e>> /\ \A m \in Nodes \ {n} : at2[m] = at[m]
    BY DEF Shift
  <2> QED
    BY <2>1 DEF At
<1>10. StackOK(at2)'
  <2>1. IsList(freeptr', top, Null, At(at, "stack", 0))
    BY <1>7, SharedLists
  <2>2. fresh = At(at, "fresh", 0)
    BY DEF PlacesOK, StackOK
  <2> QED
    BY <1>9, <2>1, <2>2 DEF StackOK
<1>11. PurgatoryOK(at2, e)'
  <2>1. PICK S : S = At(at, "purgatory", e)
    OBVIOUS
  <2>2. IsList(freeptr', h, Null, S) /\ c = Cardinality(S)
    BY <1>1, <1>2, <1>7, <2>1, SharedLists DEF PlacesOK, PurgatoryOK
  <2>3. n \notin S /\ Null \notin S /\ n # Null /\ S \subseteq Nodes
    BY <1>6, <2>1, AtNodes, NullAssumption
  <2>4. IsList(freeptr', n, Null, S \cup {n})
    BY <1>5, <2>2, <2>3, ListPush
  <2>5. Cardinality(S \cup {n}) = c + 1
    BY <2>2, <2>3, NodeSet
  <2> QED
    BY <1>5, <1>9, <2>1, <2>4, <2>5 DEF PurgatoryOK
<1> QED
  BY <1>5, <1>7, <1>8, <1>9, <1>10, <1>11

LEMMA StepFree ==
    ASSUME BoxInv, NEW at, NodeInv(at), NEW t \in Threads, Free(t)
    PROVE  BoxInv' /\ \E at2 : NodeInv(at2)' /\ Moved(at, at2)
<1> USE DEF Set, Goto, boxVars
<1>1. /\ pc[t] = "idle" /\ pins[t] # 0
      /\ UNCHANGED <<top, fresh, pin, pins, local>> /\ UNCHANGED <<topVer, pinsInArray, link>>
  BY DEF Free
<1>2. /\ NodeThread(t) /\ BoxThread(t) /\ NodeTypes /\ local[t] \in Locals
      /\ Placed(at) /\ PlacesOK(at) /\ ThreadOK(at, t) /\ objects \in [Threads -> SUBSET Nodes]
      /\ \A v \in Threads : Pinning(v) => local[v].node \in Nodes /\ at[local[v].node][1] # "chained"
  BY NodeFacts
<1>3. PICK e \in Elements : e = pins[t]
  BY <1>1, BoxTypes
<1>4. PICK n \in objects[t] : /\ AddToPurgatory(e, n, purgatory[e], purgatoryCount[e])
                              /\ objects' = [objects EXCEPT ![t] = objects[t] \ {n}]
  BY <1>3 DEF Free
<1>5. PICK p \in {"idle", "real_free"} : pc' = [pc EXCEPT ![t] = p]
  BY DEF Free
<1>6. local' = [local EXCEPT ![t] = local[t]]
  BY <1>1 DEF BoxInv
<1>7. /\ pc'[t] = p /\ local'[t] = local[t] /\ pins'[t] = pins[t]
      /\ \A u \in Threads \ {t} : pc'[u] = pc[u] /\ local'[u] = local[u] /\ pins'[u] = pins[u]
  BY <1>1, <1>5, <1>6, Others
<1>8. BoxInv'
  <2>1. p \in PC /\ p \notin GetPC /\ p \notin {"put_link", "put_cas", "put_loop"}
    BY DEF PC, GetPC
  <2>2. PICK l \in Locals : l = local[t]
    BY <1>2
  <2>3. l.caller = "put_loop" => l.index = pins[t]
    BY <1>2, <2>2 DEF BoxThread
  <2> QED
    BY <1>1, <1>5, <1>6, <2>1, <2>2, <2>3, BoxFrame
<1>9. /\ n \in Nodes /\ objects' \in [Threads -> SUBSET Nodes] /\ objects'[t] = objects[t] \ {n}
      /\ \A u \in Threads \ {t} : objects'[u] = objects[u]
  BY <1>2, <1>4
<1>10. local[t].list = Null /\ local[t].last = Null /\ pin[pins[t]] = Null
  BY <1>1, <1>2 DEF NodeThread, PushPC, NewPC
<1>11. Held(t) = objects[t] /\ Held(t)' = objects'[t]
  BY <1>1, <1>7 DEF Held
<1>12. at[n] = <<"held", t>>
  BY <1>2, <1>4, <1>11 DEF ThreadOK, At
<1>13. PICK at2 : Shift(at, at2, n, <<"purgatory", e>>)
  <2>1. "purgatory" \in Kinds
    BY DEF Kinds
  <2> QED
    BY <1>2, <1>9, <2>1, ShiftExists
<1>14. /\ Placed(at2) /\ StackOK(at2)' /\ PurgatoryOK(at2, e)'
       /\ freeptr' \in [Nodes -> Pointers] /\ purgatory' \in [Elements -> Pointers]
       /\ purgatoryCount' \in [Elements -> Nat]
       /\ \A d \in Elements \ {e} : purgatory'[d] = purgatory[d] /\ purgatoryCount'[d] = purgatoryCount[d]
       /\ \A m \in Nodes \ {n} : freeptr'[m] = freeptr[m]
       /\ \A m \in Nodes \ Private(at, t) : freeptr'[m] = freeptr[m]
       /\ At(at2, "held", t) = At(at, "held", t) \ {n}
       /\ At(at2, "swept", t) = At(at, "swept", t) /\ At(at2, "chained", t) = At(at, "chained", t)
  BY <1>1, <1>2, <1>4, <1>9, <1>12, <1>13, Added
<1>15. ThreadOK(at2, t)'
  <2>1. PICK S : S = At(at, "swept", t)
    OBVIOUS
  <2>2. IsList(freeptr, Null, Null, S) /\ S \subseteq Nodes \ {n}
    BY <1>2, <1>10, <1>12, <2>1 DEF ThreadOK, At
  <2>3. IsList(freeptr', Null, Null, S)
    BY <1>14, <2>2, ListFrame
  <2> QED
    BY <1>2, <1>7, <1>9, <1>10, <1>11, <1>14, <2>1, <2>3 DEF ThreadOK, IsChain
<1>16. NodeTypes' /\ NodeThread(t)' /\ ~Pinning(t)'
  BY <1>1, <1>2, <1>7, <1>9, <1>10, <1>14 DEF NodeTypes, NodeThread, PushPC, NewPC, Pinning
<1>17. at2[n] = <<"purgatory", e>> /\ \A m \in Nodes \ {n} : at2[m] = at[m]
  BY <1>13 DEF Shift
<1>18. Carried(at, at2, t)
  <2>1. at2[n] # <<"stack", 0>> /\ at2[n] # <<"fresh", 0>>
    BY <1>17
  <2>2. at[n] \in Own(t) /\ at2[n] \in Own(t)
    BY <1>3, <1>12, <1>17 DEF Own
  <2> QED
    BY <1>17, <2>1, <2>2 DEF Carried
<1>19. ASSUME NEW v \in Threads \ {t}, Pinning(v) PROVE at2[local[v].node] # <<"chained", t>>
  <2>1. local[v].node \in Nodes /\ at[local[v].node][1] # "chained"
    BY <1>2, <1>19
  <2> QED
    BY <1>17, <2>1
<1>20. \A v \in Threads \ {t} : Noticed(at2, v, t)'
  <2>1. \A m \in Nodes : at[m] # <<"swept", t>>
    BY <1>2, <1>10, NoneSwept
  <2>2. \A m \in Nodes : at2[m] # <<"swept", t>>
    BY <1>17, <2>1
  <2> QED
    BY <1>7, <2>2, NotScanning
<1>21. NodeInv(at2)'
  BY <1>1, <1>3, <1>7, <1>9, <1>14, <1>15, <1>16, <1>18, <1>19, <1>20, MoveStep
<1> QED
  BY <1>8, <1>9, <1>12, <1>13, <1>21 DEF Moved


LEMMA LimitFacts ==
    ASSUME NEW n \in Nat
    PROVE  /\ Limit(n) \in 0 .. M /\ (n > 0 => Limit(n) >= 1)
           /\ \A e \in Elements : e < n => e < Limit(n)
<1>1. M \in Nat /\ M > 1 /\ Elements = 1 .. M - 1
  BY Sizes
<1>2. Limit(n) = IF n < M THEN n ELSE M
  BY DEF Limit, M
<1> QED
  BY <1>1, <1>2

(* What the steps of _lf_pinbox_real_free start from *)
LEMMA FreeFacts ==
    ASSUME BoxInv, NEW at, NodeInv(at), NEW t \in Threads,
           pc[t] \in {"real_free", "harvest", "sweep", "push_link", "push_cas"}
    PROVE  /\ NodeThread(t) /\ BoxThread(t) /\ Unowned /\ NodeTypes /\ local[t] \in Locals
           /\ Placed(at) /\ PlacesOK(at) /\ StackOK(at) /\ ThreadOK(at, t)
           /\ pins[t] \in Elements /\ pins[t] # 0 /\ pin[pins[t]] = Null
           /\ local[t].caller = "put_loop" => local[t].index = pins[t]
           /\ Held(t) = objects[t]
           /\ pc[t] # "sweep" => local[t].list = Null /\ \A n \in Nodes : at[n] # <<"swept", t>>
<1>1. /\ NodeThread(t) /\ BoxThread(t) /\ Unowned /\ NodeTypes /\ local[t] \in Locals
      /\ Placed(at) /\ PlacesOK(at) /\ StackOK(at) /\ ThreadOK(at, t)
  BY NodeFacts
<1>2. pins[t] # 0
  BY <1>1 DEF BoxThread, GetPC
<1>3. pin[pins[t]] = Null /\ (pc[t] # "sweep" => local[t].list = Null)
  BY <1>1, <1>2 DEF NodeThread, NewPC
<1>4. pc[t] # "sweep" => \A n \in Nodes : at[n] # <<"swept", t>>
  BY <1>1, <1>3, NoneSwept
<1>5. Held(t) = objects[t]
  BY DEF Held
<1> QED
  BY <1>1, <1>2, <1>3, <1>4, <1>5, BoxTypes DEF BoxThread

(* The pins other threads rely on when a scan begins are below its limit. *)
LEMMA StepRealFree ==
    ASSUME BoxInv, NEW at, NodeInv(at), NEW t \in Threads, RealFree(t)
    PROVE  BoxInv' /\ NodeInv(at)'
<1> USE DEF Set, Goto, stackVars, elVars, boxVars
<1>1. /\ pc[t] = "real_free"
      /\ UNCHANGED <<top, freeptr, fresh, purgatory, purgatoryCount, pin, pins, objects>>
      /\ UNCHANGED <<topVer, pinsInArray, link>>
      /\ pc' = [pc EXCEPT ![t] = "harvest"]
  BY DEF RealFree
<1>2. /\ NodeThread(t) /\ Unowned /\ NodeTypes /\ local[t] \in Locals
      /\ pins[t] \in Elements /\ pins[t] # 0 /\ pin[pins[t]] = Null
      /\ local[t].caller = "put_loop" => local[t].index = pins[t]
      /\ local[t].list = Null /\ \A n \in Nodes : at[n] # <<"swept", t>>
  BY <1>1, FreeFacts
<1>3. PICK k \in 1 .. MaxInArray + 1 : k = pinsInArray + 1
  <2>1. Cardinality(Getters) \in Nat
    BY ThreadSet DEF Getters
  <2> QED
    BY <2>1, BoxTypes, Sizes DEF BoxInv
<1>4. PICK a \in BOOLEAN : local' = [local EXCEPT ![t] =
           [local[t] EXCEPT !.addr = a, !.npins = k, !.scan = IF a THEN 1 ELSE Limit(k)]]
  BY <1>3 DEF RealFree
<1>5. k \in Nat /\ k > 0 /\ k \in 0 .. MaxInArray + 1
  BY <1>3, Sizes
<1>6. PICK s \in 0 .. LF_PINBOX_MAX_PINS : s = IF a THEN 1 ELSE Limit(k)
  BY <1>5, LimitFacts, Sizes DEF M
<1>7. [local[t] EXCEPT !.addr = a, !.npins = k, !.scan = s] \in Locals
  BY <1>2, <1>5 DEF Locals
<1>8. PICK l \in Locals : l = [local[t] EXCEPT !.addr = a, !.npins = k, !.scan = s]
  BY <1>7
<1>9. /\ l.addr = a /\ l.npins = k /\ l.scan = s /\ l.list = local[t].list /\ l.last = local[t].last
      /\ l.first = local[t].first /\ l.caller = local[t].caller /\ l.index = local[t].index
  BY <1>2, <1>8 DEF Locals
<1>10. local' = [local EXCEPT ![t] = l]
  BY <1>4, <1>6, <1>8
<1>11. /\ pc'[t] = "harvest" /\ local'[t] = l /\ pins'[t] = pins[t]
       /\ \A u \in Threads \ {t} : pc'[u] = pc[u] /\ local'[u] = local[u] /\ pins'[u] = pins[u]
  BY <1>1, <1>10, Others
<1>12. BoxInv'
  <2>1. "harvest" \in PC /\ "harvest" \notin GetPC
    BY DEF PC, GetPC
  <2> QED
    BY <1>1, <1>2, <1>9, <1>10, <2>1, BoxFrame
<1>13. Unowned'
  BY <1>1, <1>2, UnownedFrame
<1>14. Held(t)' = Held(t) /\ objects' \in [Threads -> SUBSET Nodes] /\ pin' \in [Elements -> Pointers]
  BY <1>1, <1>2, <1>11 DEF Held, NodeTypes
<1>15. NodeThread(t)'
  <2>1. s >= 1
    BY <1>5, <1>6, LimitFacts
  <2> QED
    BY <1>1, <1>2, <1>9, <1>11, <2>1 DEF NodeThread, PushPC, NewPC
<1>16. Unchained(at, t)' /\ \A u \in Threads : Noticed(at, t, u)'
  BY <1>11 DEF Unchained, Noticed, Pinning
<1>17. ASSUME NEW v \in Threads \ {t} PROVE Noticed(at, v, t)'
  <2>1. CASE ~Pinning(v)'
    BY <2>1 DEF Noticed
  <2>2. CASE Pinning(v)'
    <3>1. Pinning(v) /\ NodeThread(v) /\ BoxThread(v) /\ pins'[v] = pins[v] /\ local'[v] = local[v]
      BY <1>11, <2>2 DEF Pinning, NodeInv, BoxInv
    <3>2. pins[v] \in Elements /\ local[v].node \in Nodes /\ Mine(v) = pins[v]
      BY <3>1, PinnedNode, BoxTypes, Sizes
    <3>3. pins[v] <= pinsInArray
      BY <3>1, <3>2 DEF BoxThread
    <3>4. pins[v] < k
      BY <1>3, <3>2, <3>3, BoxTypes, Sizes
    <3>5. pins[v] < Limit(k)
      BY <1>5, <3>2, <3>4, LimitFacts
    <3>6. a => ~(pins[v] < s)
      BY <1>6, <3>2, Sizes
    <3>7. at[local[v].node] # <<"swept", t>>
      BY <1>2, <3>2
    <3> QED
      BY <1>9, <1>11, <3>1, <3>5, <3>6, <3>7 DEF Noticed, Limit
  <2> QED
    BY <2>1, <2>2
<1>18. NodeInv(at)'
  BY <1>1, <1>2, <1>9, <1>11, <1>13, <1>14, <1>15, <1>16, <1>17, QuietStep
<1> QED
  BY <1>12, <1>18

LEMMA StepHarvest ==
    ASSUME BoxInv, NEW at, NodeInv(at), NEW t \in Threads, HarvestPins(t)
    PROVE  BoxInv' /\ NodeInv(at)'
<1> USE DEF Set, Goto, stackVars, elVars, boxVars
<1>1. /\ pc[t] = "harvest" /\ local[t].scan < Limit(local[t].npins)
      /\ UNCHANGED <<top, freeptr, fresh, purgatory, purgatoryCount, pin, pins, objects, pc>>
      /\ UNCHANGED <<topVer, pinsInArray, link>>
  BY DEF HarvestPins
<1>2. /\ NodeThread(t) /\ Unowned /\ NodeTypes /\ local[t] \in Locals
      /\ pins[t] \in Elements /\ pins[t] # 0 /\ pin[pins[t]] = Null
      /\ local[t].caller = "put_loop" => local[t].index = pins[t]
      /\ local[t].list = Null /\ \A n \in Nodes : at[n] # <<"swept", t>>
  BY <1>1, FreeFacts
<1>3. pc' = [pc EXCEPT ![t] = "harvest"]
  BY <1>1 DEF BoxInv
<1>4. local[t].npins \in Nat /\ local[t].scan \in 0 .. M /\ local[t].granary \in SUBSET Nodes
  <2>1. local[t].npins \in 0 .. MaxInArray + 1
    BY <1>2 DEF Locals
  <2> QED
    BY <1>2, <2>1, Sizes DEF Locals, M
<1>5. PICK s \in Elements : s = local[t].scan
  <2>1. local[t].scan >= 1
    BY <1>1, <1>2 DEF NodeThread
  <2>2. Limit(local[t].npins) \in 0 .. M
    BY <1>4, LimitFacts
  <2> QED
    BY <1>1, <1>4, <2>1, <2>2, Sizes
<1>6. PICK G \in SUBSET Nodes : G = local[t].granary \cup ({pin[s]} \ {Null})
  <2>1. pin[s] \in Pointers
    BY <1>2 DEF NodeTypes
  <2> QED
    BY <1>4, <2>1 DEF Pointers
<1>7. s + 1 \in 0 .. LF_PINBOX_MAX_PINS /\ s + 1 \in Nat
  BY <1>5, Sizes DEF M
<1>8. [local[t] EXCEPT !.scan = s + 1, !.granary = G] \in Locals
  BY <1>2, <1>7 DEF Locals
<1>9. PICK l \in Locals : l = [local[t] EXCEPT !.scan = s + 1, !.granary = G]
  BY <1>8
<1>10. /\ l.addr = local[t].addr /\ l.npins = local[t].npins /\ l.scan = s + 1 /\ l.granary = G
       /\ l.list = local[t].list /\ l.last = local[t].last
       /\ l.first = local[t].first /\ l.caller = local[t].caller /\ l.index = local[t].index
  BY <1>2, <1>9 DEF Locals
<1>11. local' = [local EXCEPT ![t] = l]
  BY <1>5, <1>6, <1>9 DEF HarvestPins
<1>12. /\ pc'[t] = "harvest" /\ local'[t] = l /\ pins'[t] = pins[t]
       /\ \A u \in Threads \ {t} : pc'[u] = pc[u] /\ local'[u] = local[u] /\ pins'[u] = pins[u]
  BY <1>1, <1>3, <1>11, Others
<1>13. BoxInv'
  <2>1. "harvest" \in PC /\ "harvest" \notin GetPC
    BY DEF PC, GetPC
  <2> QED
    BY <1>1, <1>2, <1>3, <1>10, <1>11, <2>1, BoxFrame
<1>14. Unowned'
  BY <1>1, <1>2, UnownedFrame
<1>15. Held(t)' = Held(t) /\ objects' \in [Threads -> SUBSET Nodes] /\ pin' \in [Elements -> Pointers]
  BY <1>1, <1>2, <1>12 DEF Held, NodeTypes
<1>16. NodeThread(t)'
  <2>1. s + 1 >= 1
    BY <1>5, Sizes
  <2> QED
    BY <1>1, <1>2, <1>10, <1>12, <2>1 DEF NodeThread, PushPC, NewPC
<1>17. Unchained(at, t)' /\ \A u \in Threads : Noticed(at, t, u)'
  BY <1>12 DEF Unchained, Noticed, Pinning
<1>18. ASSUME NEW v \in Threads \ {t} PROVE Noticed(at, v, t)'
  <2>1. CASE ~Pinning(v)'
    BY <2>1 DEF Noticed
  <2>2. CASE Pinning(v)'
    <3>1. /\ Pinning(v) /\ NodeThread(v) /\ Noticed(at, v, t) /\ pins'[v] = pins[v] /\ local'[v] = local[v]
      BY <1>12, <2>2 DEF Pinning, NodeInv
    <3>2. PICK n \in Nodes : n = local[v].node /\ pins[v] \in Elements /\ pin[pins[v]] = n
      BY <3>1, PinnedNode
    <3>3. n # Null /\ at[n] # <<"swept", t>>
      BY <1>2, <3>2, NullAssumption
    <3>4. pins[v] < s + 1 => pins[v] < s \/ pins[v] = s
      BY <1>5, <3>2, Sizes
    <3>5. pins[v] = s => n \in G
      BY <1>6, <3>2, <3>3
    <3>6. at[n] = <<"purgatory", pins[t]>> /\ local[t].addr
             => /\ pins[v] < Limit(local[t].npins)
                /\ pins[v] < s => n \in G
      BY <1>1, <1>5, <1>6, <3>1, <3>2 DEF Noticed
    <3> QED
      BY <1>10, <1>12, <3>1, <3>2, <3>3, <3>4, <3>5, <3>6 DEF Noticed, Limit
  <2> QED
    BY <2>1, <2>2
<1>19. NodeInv(at)'
  BY <1>1, <1>2, <1>10, <1>12, <1>14, <1>15, <1>16, <1>17, <1>18, QuietStep
<1> QED
  BY <1>13, <1>19


(* The objects of place p go to place q, which was empty or t's own. *)
Rename(at, at2, p, q) ==
    /\ at2 \in [Nodes -> Places]
    /\ \A n \in Nodes : at2[n] = IF at[n] = p THEN q ELSE at[n]

LEMMA RenameExists ==
    ASSUME NEW at, Placed(at), NEW p, NEW k \in Kinds, NEW w \in Threads \cup Elements \cup {0}
    PROVE  \E at2 : Rename(at, at2, p, <<k, w>>)
<1>1. at \in [Nodes -> Places] /\ <<k, w>> \in Places
  BY DEF Placed, Places
<1>2. PICK at2 : at2 = [n \in Nodes |-> IF at[n] = p THEN <<k, w>> ELSE at[n]]
  OBVIOUS
<1> QED
  BY <1>1, <1>2 DEF Rename

LEMMA RenamePlaced ==
    ASSUME NEW at, Placed(at), NEW p, NEW k \in Kinds, NEW w \in Threads \cup Elements \cup {0},
           k \in {"fresh", "stack"} => w = 0,
           k \in {"held", "swept", "chained"} => w \in Threads,
           k = "purgatory" => w \in Elements,
           NEW at2, Rename(at, at2, p, <<k, w>>)
    PROVE  Placed(at2)
<1> SUFFICES ASSUME NEW n \in Nodes
             PROVE  /\ at2[n][1] \in {"fresh", "stack"} => at2[n][2] = 0
                    /\ at2[n][1] \in {"held", "swept", "chained"} => at2[n][2] \in Threads
                    /\ at2[n][1] = "purgatory" => at2[n][2] \in Elements
  BY DEF Placed, Rename
<1>1. CASE at[n] = p
  <2>1. at2[n] = <<k, w>>
    BY <1>1 DEF Rename
  <2>2. at2[n][1] = k /\ at2[n][2] = w
    BY <2>1
  <2> QED
    BY <2>2
<1>2. CASE at[n] # p
  BY <1>2 DEF Rename, Placed
<1> QED
  BY <1>1, <1>2

(* The whole purgatory moves, and every pin that matters was harvested. *)
LEMMA StepTakePurgatory ==
    ASSUME BoxInv, NEW at, NodeInv(at), NEW t \in Threads, TakePurgatory(t)
    PROVE  BoxInv' /\ \E at2 : NodeInv(at2)' /\ Moved(at, at2)
<1> USE DEF Set, Goto, stackVars, boxVars
<1>1. /\ pc[t] = "harvest" /\ local[t].scan >= Limit(local[t].npins)
      /\ UNCHANGED <<top, freeptr, fresh, pin, pins, objects>>
      /\ UNCHANGED <<topVer, pinsInArray, link>>
      /\ pc' = [pc EXCEPT ![t] = "sweep"]
  BY DEF TakePurgatory
<1>2. /\ NodeThread(t) /\ Unowned /\ NodeTypes /\ local[t] \in Locals
      /\ Placed(at) /\ PlacesOK(at) /\ StackOK(at) /\ ThreadOK(at, t)
      /\ pins[t] \in Elements /\ pins[t] # 0 /\ pin[pins[t]] = Null
      /\ local[t].caller = "put_loop" => local[t].index = pins[t]
      /\ local[t].list = Null /\ \A n \in Nodes : at[n] # <<"swept", t>>
      /\ Held(t) = objects[t]
  BY <1>1, FreeFacts
<1>3. PICK e \in Elements : e = pins[t]
  BY <1>2
<1>4. PICK h \in Pointers : h = purgatory[e]
  BY <1>2 DEF NodeTypes
<1>5. [local[t] EXCEPT !.list = h, !.scan = 1, !.npins = 0] \in Locals
  <2>1. 1 \in 0 .. LF_PINBOX_MAX_PINS /\ 0 \in 0 .. MaxInArray + 1
    BY Sizes DEF M
  <2> QED
    BY <1>2, <2>1 DEF Locals
<1>6. PICK l \in Locals : l = [local[t] EXCEPT !.list = h, !.scan = 1, !.npins = 0]
  BY <1>5
<1>7. /\ l.addr = local[t].addr /\ l.scan = 1 /\ l.granary = local[t].granary
      /\ l.list = h /\ l.last = local[t].last
      /\ l.first = local[t].first /\ l.caller = local[t].caller /\ l.index = local[t].index
  BY <1>2, <1>6 DEF Locals
<1>8. /\ local' = [local EXCEPT ![t] = l]
      /\ purgatory' = [purgatory EXCEPT ![e] = Null]
      /\ purgatoryCount' = [purgatoryCount EXCEPT ![e] = 0]
  BY <1>3, <1>4, <1>6 DEF TakePurgatory
<1>9. /\ pc'[t] = "sweep" /\ local'[t] = l /\ pins'[t] = pins[t]
      /\ \A u \in Threads \ {t} : pc'[u] = pc[u] /\ local'[u] = local[u] /\ pins'[u] = pins[u]
  BY <1>1, <1>8, Others
<1>10. BoxInv'
  <2>1. "sweep" \in PC /\ "sweep" \notin GetPC
    BY DEF PC, GetPC
  <2> QED
    BY <1>1, <1>2, <1>7, <1>8, <2>1, BoxFrame
<1>11. /\ purgatory' \in [Elements -> Pointers] /\ purgatoryCount' \in [Elements -> Nat]
       /\ purgatory'[e] = Null /\ purgatoryCount'[e] = 0
       /\ \A d \in Elements \ {e} : purgatory'[d] = purgatory[d] /\ purgatoryCount'[d] = purgatoryCount[d]
  BY <1>2, <1>8 DEF NodeTypes, Pointers
<1>12. PICK at2 : Rename(at, at2, <<"purgatory", e>>, <<"swept", t>>)
  <2>1. "swept" \in Kinds
    BY DEF Kinds
  <2> QED
    BY <1>2, <2>1, RenameExists
<1>13. \A n \in Nodes : at2[n] = IF at[n] = <<"purgatory", e>> THEN <<"swept", t>> ELSE at[n]
  BY <1>12 DEF Rename
<1>14. Placed(at2)
  <2>1. PICK k \in Kinds : k = "swept"
    BY DEF Kinds
  <2>2. PICK w \in Threads \cup Elements \cup {0} : w = t
    OBVIOUS
  <2>3. Rename(at, at2, <<"purgatory", e>>, <<k, w>>) /\ k \notin {"fresh", "stack", "purgatory"} /\ w \in Threads
    BY <1>12, <2>1, <2>2
  <2> QED
    BY <1>2, <2>3, RenamePlaced
<1>15. /\ At(at2, "swept", t) = At(at, "purgatory", e) /\ At(at2, "purgatory", e) = {}
       /\ At(at2, "held", t) = At(at, "held", t) /\ At(at2, "chained", t) = At(at, "chained", t)
       /\ At(at2, "fresh", 0) = At(at, "fresh", 0) /\ At(at2, "stack", 0) = At(at, "stack", 0)
  <2>1. At(at2, "swept", t) = At(at, "purgatory", e)
    BY <1>2, <1>13 DEF At
  <2>2. At(at2, "purgatory", e) = {}
    BY <1>13 DEF At
  <2>3. At(at2, "held", t) = At(at, "held", t) /\ At(at2, "chained", t) = At(at, "chained", t)
    BY <1>13 DEF At
  <2>4. At(at2, "fresh", 0) = At(at, "fresh", 0) /\ At(at2, "stack", 0) = At(at, "stack", 0)
    BY <1>13 DEF At
  <2> QED
    BY <2>1, <2>2, <2>3, <2>4
<1>16. StackOK(at2)'
  BY <1>1, <1>2, <1>15 DEF StackOK
<1>17. PurgatoryOK(at2, e)'
  <2>1. IsList(freeptr', Null, Null, {}) /\ Cardinality({}) = 0
    BY EmptyIsList, FS_EmptySet
  <2> QED
    BY <1>11, <1>15, <2>1 DEF PurgatoryOK
<1>18. ThreadOK(at2, t)'
  <2>1. Held(t)' = objects[t]
    BY <1>1, <1>9 DEF Held
  <2>2. IsList(freeptr, h, Null, At(at, "purgatory", e))
    BY <1>2, <1>4 DEF PlacesOK, PurgatoryOK
  <2>3. Held(t) = At(at, "held", t) /\ IsChain(freeptr, local[t].first, local[t].last, At(at, "chained", t))
    BY <1>2 DEF ThreadOK
  <2>4. Held(t)' = At(at2, "held", t)
    BY <1>2, <1>15, <2>1, <2>3
  <2>5. IsList(freeptr', local'[t].list, Null, At(at2, "swept", t))
    BY <1>1, <1>7, <1>9, <1>15, <2>2
  <2>6. IsChain(freeptr', local'[t].first, local'[t].last, At(at2, "chained", t))
    BY <1>1, <1>7, <1>9, <1>15, <2>3
  <2> QED
    BY <2>4, <2>5, <2>6 DEF ThreadOK
<1>19. NodeTypes' /\ NodeThread(t)' /\ ~Pinning(t)'
  <2>1. 1 >= 1
    OBVIOUS
  <2> QED
    BY <1>1, <1>2, <1>7, <1>9, <1>11, <2>1 DEF NodeTypes, NodeThread, PushPC, NewPC, Pinning
<1>20. Carried(at, at2, t)
  <2>1. <<"swept", t>> # <<"stack", 0>> /\ <<"swept", t>> # <<"fresh", 0>>
    OBVIOUS
  <2>2. <<"swept", t>> \in Own(t) /\ <<"purgatory", e>> \in Own(t)
    BY <1>3 DEF Own
  <2> QED
    BY <1>13, <2>1, <2>2 DEF Carried
<1>21. ASSUME NEW v \in Threads \ {t}, Pinning(v) PROVE at2[local[v].node] # <<"chained", t>>
  <2>1. local[v].node \in Nodes /\ at[local[v].node][1] # "chained"
    BY <1>21, NodeFacts
  <2> QED
    BY <1>13, <2>1
<1>22. ASSUME NEW v \in Threads \ {t} PROVE Noticed(at2, v, t)'
  <2>1. CASE ~Pinning(v)'
    BY <2>1 DEF Noticed
  <2>2. CASE Pinning(v)'
    <3>1. /\ Pinning(v) /\ NodeThread(v) /\ Noticed(at, v, t) /\ pins'[v] = pins[v] /\ local'[v] = local[v]
      BY <1>9, <2>2 DEF Pinning, NodeInv
    <3>2. PICK n \in Nodes : n = local[v].node /\ pins[v] \in Elements
      BY <3>1, PinnedNode
    <3>3. at2[n] = <<"swept", t>> => at[n] = <<"purgatory", e>>
      BY <1>2, <1>13, <3>2
    <3>4. at[n] = <<"purgatory", e>> /\ local[t].addr => n \in local[t].granary
      <4> SUFFICES ASSUME at[n] = <<"purgatory", e>>, local[t].addr PROVE n \in local[t].granary
        OBVIOUS
      <4>1. pins[v] < Limit(local[t].npins) /\ (pins[v] < local[t].scan => n \in local[t].granary)
        BY <1>1, <1>3, <3>1, <3>2 DEF Noticed
      <4>2. local[t].npins \in Nat /\ local[t].scan \in Nat
        <5>1. local[t].npins \in 0 .. MaxInArray + 1 /\ local[t].scan \in 0 .. M
          BY <1>2 DEF Locals, M
        <5> QED
          BY <5>1, Sizes
      <4>3. Limit(local[t].npins) \in Nat /\ pins[v] \in Nat
        <5>1. Limit(local[t].npins) \in 0 .. M
          BY <4>2, LimitFacts
        <5>2. M \in Nat /\ Elements = 1 .. M - 1
          BY Sizes
        <5> QED
          BY <3>2, <5>1, <5>2
      <4> QED
        BY <1>1, <4>1, <4>2, <4>3
    <3>5. 1 <= pins[v]
      BY <3>2, Sizes
    <3> QED
      BY <1>7, <1>9, <3>1, <3>2, <3>3, <3>4, <3>5 DEF Noticed
  <2> QED
    BY <2>1, <2>2
<1>23. NodeInv(at2)'
  BY <1>1, <1>3, <1>9, <1>11, <1>14, <1>16, <1>17, <1>18, <1>19, <1>20, <1>21, <1>22, MoveStep
<1>24. Moved(at, at2)
  <2>1. ASSUME NEW n \in Nodes PROVE at2[n] = at[n] \/ (at[n][1] \in Retired /\ at2[n][1] \in Retired)
    BY <1>13 DEF Retired
  <2> QED
    BY <2>1 DEF Moved
<1> QED
  BY <1>10, <1>23, <1>24


(* While t sweeps, the pins of the other threads are noticed: it has them  *)
(* in its granary, or it starts again with the next object of the list.    *)
LEMMA StillNoticed ==
    ASSUME BoxInv, NEW at, NodeInv(at), NEW t \in Threads, pc[t] = "sweep", pc'[t] = "sweep",
           local'[t].addr = local[t].addr, local'[t].granary = local[t].granary, local'[t].scan = 1,
           NEW at2, \A n \in Nodes : at2[n] = <<"swept", t>> => at[n] = <<"swept", t>>,
           \A v \in Threads \ {t} : pc'[v] = pc[v] /\ local'[v] = local[v] /\ pins'[v] = pins[v]
    PROVE  \A v \in Threads \ {t} : Noticed(at2, v, t)'
<1> SUFFICES ASSUME NEW v \in Threads \ {t} PROVE Noticed(at2, v, t)'
  OBVIOUS
<1>1. CASE ~Pinning(v)'
  BY <1>1 DEF Noticed
<1>2. CASE Pinning(v)'
  <2>1. /\ Pinning(v) /\ NodeThread(v) /\ Noticed(at, v, t) /\ pins'[v] = pins[v] /\ local'[v] = local[v]
    BY <1>2 DEF Pinning, NodeInv
  <2>2. PICK n \in Nodes : n = local[v].node /\ pins[v] \in Elements
    BY <2>1, PinnedNode
  <2>3. 1 <= pins[v]
    BY <2>2, Sizes
  <2>4. at2[n] = <<"swept", t>> /\ local[t].addr => n \in local[t].granary
    BY <2>1, <2>2 DEF Noticed
  <2> QED
    BY <2>1, <2>2, <2>3, <2>4 DEF Noticed
<1> QED
  BY <1>1, <1>2

LEMMA SweepFacts ==
    ASSUME BoxInv, NEW at, NodeInv(at), NEW t \in Threads, pc[t] = "sweep", local[t].list # Null
    PROVE  /\ local[t].list \in Nodes /\ at[local[t].list] = <<"swept", t>>
           /\ freeptr[local[t].list] \in Pointers
           /\ IsList(freeptr, freeptr[local[t].list], Null, At(at, "swept", t) \ {local[t].list})
<1>1. NodeTypes /\ ThreadOK(at, t)
  BY FreeFacts
<1>2. PICK S : S = At(at, "swept", t)
  OBVIOUS
<1>3. PICK h : h = local[t].list
  OBVIOUS
<1>4. IsList(freeptr, h, Null, S) /\ Null \notin S /\ h # Null
  BY <1>1, <1>2, <1>3, AtNodes DEF ThreadOK
<1>5. h \in S /\ IsList(freeptr, freeptr[h], Null, S \ {h})
  BY <1>4, ListPop
<1>6. h \in Nodes /\ at[h] = <<"swept", t>>
  BY <1>2, <1>5 DEF At
<1> QED
  BY <1>1, <1>2, <1>3, <1>5, <1>6 DEF NodeTypes

(* A pinned object goes back to the purgatory. *)
LEMMA StepKeep ==
    ASSUME BoxInv, NEW at, NodeInv(at), NEW t \in Threads, pc[t] = "sweep", local[t].list # Null,
           Keep(t), UNCHANGED <<top, fresh, pin, pins, objects>>, UNCHANGED <<topVer, pinsInArray, link>>
    PROVE  BoxInv' /\ \E at2 : NodeInv(at2)' /\ Moved(at, at2)
<1> USE DEF Set, Goto
<1>2. /\ NodeThread(t) /\ Unowned /\ NodeTypes /\ local[t] \in Locals
      /\ Placed(at) /\ PlacesOK(at) /\ StackOK(at) /\ ThreadOK(at, t)
      /\ pins[t] \in Elements /\ pins[t] # 0 /\ pin[pins[t]] = Null
      /\ local[t].caller = "put_loop" => local[t].index = pins[t]
      /\ Held(t) = objects[t]
  BY FreeFacts
<1>3. PICK e \in Elements : e = pins[t]
  BY <1>2
<1>4. PICK n \in Nodes : n = local[t].list
  BY SweepFacts
<1>5. /\ at[n] = <<"swept", t>> /\ freeptr[n] \in Pointers
      /\ IsList(freeptr, freeptr[n], Null, At(at, "swept", t) \ {n})
  BY <1>4, SweepFacts
<1>6. PICK h \in Pointers : h = freeptr[n]
  BY <1>5
<1>7. [local[t] EXCEPT !.list = h, !.scan = 1] \in Locals
  <2>1. 1 \in 0 .. LF_PINBOX_MAX_PINS
    BY Sizes DEF M
  <2> QED
    BY <1>2, <2>1 DEF Locals
<1>8. PICK l \in Locals : l = [local[t] EXCEPT !.list = h, !.scan = 1]
  BY <1>7
<1>9. /\ l.addr = local[t].addr /\ l.scan = 1 /\ l.granary = local[t].granary
      /\ l.list = h /\ l.last = local[t].last
      /\ l.first = local[t].first /\ l.caller = local[t].caller /\ l.index = local[t].index
  BY <1>2, <1>8 DEF Locals
<1>10. /\ AddToPurgatory(e, n, purgatory[e], purgatoryCount[e])
       /\ local' = [local EXCEPT ![t] = l] /\ pc' = [pc EXCEPT ![t] = "sweep"]
  BY <1>3, <1>4, <1>6, <1>8 DEF Keep
<1>11. /\ pc'[t] = "sweep" /\ local'[t] = l /\ pins'[t] = pins[t]
       /\ \A u \in Threads \ {t} : pc'[u] = pc[u] /\ local'[u] = local[u] /\ pins'[u] = pins[u]
  BY <1>10, Others
<1>12. BoxInv'
  <2>1. "sweep" \in PC /\ "sweep" \notin GetPC
    BY DEF PC, GetPC
  <2> QED
    BY <1>2, <1>9, <1>10, <2>1, BoxFrame
<1>13. PICK at2 : Shift(at, at2, n, <<"purgatory", e>>)
  <2>1. "purgatory" \in Kinds
    BY DEF Kinds
  <2> QED
    BY <1>2, <2>1, ShiftExists
<1>14. /\ Placed(at2) /\ StackOK(at2)' /\ PurgatoryOK(at2, e)'
       /\ freeptr' \in [Nodes -> Pointers] /\ purgatory' \in [Elements -> Pointers]
       /\ purgatoryCount' \in [Elements -> Nat]
       /\ \A d \in Elements \ {e} : purgatory'[d] = purgatory[d] /\ purgatoryCount'[d] = purgatoryCount[d]
       /\ \A m \in Nodes \ {n} : freeptr'[m] = freeptr[m]
       /\ \A m \in Nodes \ Private(at, t) : freeptr'[m] = freeptr[m]
       /\ At(at2, "swept", t) = At(at, "swept", t) \ {n}
       /\ At(at2, "held", t) = At(at, "held", t) /\ At(at2, "chained", t) = At(at, "chained", t)
  BY <1>2, <1>5, <1>10, <1>13, Added
<1>15. ThreadOK(at2, t)'
  <2>1. Held(t)' = At(at2, "held", t)
    <3>1. Held(t)' = objects[t]
      BY <1>11 DEF Held
    <3> QED
      BY <1>2, <1>14, <3>1 DEF ThreadOK
  <2>2. IsList(freeptr', local'[t].list, Null, At(at2, "swept", t))
    <3>1. PICK S : S = At(at, "swept", t) \ {n}
      OBVIOUS
    <3>2. IsList(freeptr, h, Null, S) /\ \A m \in S : freeptr'[m] = freeptr[m]
      BY <1>5, <1>6, <1>14, <3>1 DEF At
    <3>3. IsList(freeptr', h, Null, S)
      BY <3>2, ListFrame
    <3> QED
      BY <1>9, <1>11, <1>14, <3>1, <3>3
  <2>3. IsChain(freeptr', local'[t].first, local'[t].last, At(at2, "chained", t))
    <3>1. PICK A : A = At(at, "chained", t)
      OBVIOUS
    <3>2. PICK first, last : first = local[t].first /\ last = local[t].last
      OBVIOUS
    <3>3. IsChain(freeptr, first, last, A) /\ A \subseteq Nodes \ {n}
      BY <1>2, <1>5, <3>1, <3>2 DEF ThreadOK, At
    <3>4. IsChain(freeptr', first, last, A)
      <4>1. CASE last = Null
        BY <3>3, <4>1 DEF IsChain
      <4>2. CASE last # Null
        <5>1. PICK f : f = [freeptr EXCEPT ![last] = Null]
          OBVIOUS
        <5>2. PICK g : g = [freeptr' EXCEPT ![last] = Null]
          OBVIOUS
        <5>3. last \in A /\ IsList(f, first, Null, A)
          BY <3>3, <4>2, <5>1 DEF IsChain
        <5>4. \A m \in A : g[m] = f[m]
          BY <1>2, <1>14, <3>3, <5>1, <5>2 DEF NodeTypes
        <5>5. IsList(g, first, Null, A)
          BY <5>3, <5>4, ListFrame
        <5> QED
          BY <4>2, <5>2, <5>3, <5>5 DEF IsChain
      <4> QED
        BY <4>1, <4>2
    <3> QED
      BY <1>9, <1>11, <1>14, <3>1, <3>2, <3>4
  <2> QED
    BY <2>1, <2>2, <2>3 DEF ThreadOK
<1>16. NodeTypes' /\ NodeThread(t)' /\ ~Pinning(t)'
  <2>1. 1 >= 1
    OBVIOUS
  <2> QED
    BY <1>2, <1>9, <1>11, <1>14, <2>1 DEF NodeTypes, NodeThread, PushPC, NewPC, Pinning
<1>17. at2[n] = <<"purgatory", e>> /\ \A m \in Nodes \ {n} : at2[m] = at[m]
  BY <1>13 DEF Shift
<1>18. Carried(at, at2, t)
  <2>1. at2[n] # <<"stack", 0>> /\ at2[n] # <<"fresh", 0>>
    BY <1>17
  <2>2. at[n] \in Own(t) /\ at2[n] \in Own(t)
    BY <1>3, <1>5, <1>17 DEF Own
  <2> QED
    BY <1>17, <2>1, <2>2 DEF Carried
<1>19. ASSUME NEW v \in Threads \ {t}, Pinning(v) PROVE at2[local[v].node] # <<"chained", t>>
  <2>1. local[v].node \in Nodes /\ at[local[v].node][1] # "chained"
    BY <1>19, NodeFacts
  <2> QED
    BY <1>17, <2>1
<1>20. \A v \in Threads \ {t} : Noticed(at2, v, t)'
  <2>1. \A m \in Nodes : at2[m] = <<"swept", t>> => at[m] = <<"swept", t>>
    BY <1>17
  <2> QED
    BY <1>9, <1>11, <2>1, StillNoticed
<1>21. NodeInv(at2)'
  BY <1>3, <1>11, <1>14, <1>15, <1>16, <1>18, <1>19, <1>20, MoveStep
<1>22. Moved(at, at2)
  <2>1. ASSUME NEW m \in Nodes PROVE at2[m] = at[m] \/ (at[m][1] \in Retired /\ at2[m][1] \in Retired)
    BY <1>5, <1>17 DEF Retired
  <2> QED
    BY <2>1 DEF Moved
<1> QED
  BY <1>12, <1>21, <1>22


(* An object nobody relies on joins the chain. *)
LEMMA StepChain ==
    ASSUME BoxInv, NEW at, NodeInv(at), NEW t \in Threads, pc[t] = "sweep", local[t].list # Null,
           Chain(t), UNCHANGED <<top, fresh, pin, pins, objects>>, UNCHANGED <<topVer, pinsInArray, link>>,
           \A v \in Threads \ {t} : Pinning(v) => local[v].node # local[t].list
    PROVE  BoxInv' /\ \E at2 : NodeInv(at2)' /\ Moved(at, at2)
<1> USE DEF Set, Goto, elVars
<1>2. /\ NodeThread(t) /\ Unowned /\ NodeTypes /\ local[t] \in Locals
      /\ Placed(at) /\ PlacesOK(at) /\ StackOK(at) /\ ThreadOK(at, t)
      /\ pins[t] \in Elements /\ pins[t] # 0 /\ pin[pins[t]] = Null
      /\ local[t].caller = "put_loop" => local[t].index = pins[t]
      /\ Held(t) = objects[t]
  BY FreeFacts
<1>3. PICK e \in Elements : e = pins[t]
  BY <1>2
<1>4. PICK n \in Nodes : n = local[t].list
  BY SweepFacts
<1>5. /\ at[n] = <<"swept", t>> /\ freeptr[n] \in Pointers
      /\ IsList(freeptr, freeptr[n], Null, At(at, "swept", t) \ {n})
  BY <1>4, SweepFacts
<1>6. PICK h \in Pointers : h = freeptr[n]
  BY <1>5
<1>7. PICK last \in Pointers, first \in Pointers : last = local[t].last /\ first = local[t].first
  BY <1>2 DEF Locals
<1>8. PICK first2 \in Pointers : first2 = IF last = Null THEN n ELSE first
  BY DEF Pointers
<1>9. [local[t] EXCEPT !.list = h, !.last = n, !.scan = 1, !.first = first2] \in Locals
  <2>1. 1 \in 0 .. LF_PINBOX_MAX_PINS /\ n \in Pointers
    BY Sizes DEF M, Pointers
  <2> QED
    BY <1>2, <2>1 DEF Locals
<1>10. PICK l \in Locals : l = [local[t] EXCEPT !.list = h, !.last = n, !.scan = 1, !.first = first2]
  BY <1>9
<1>11. /\ l.addr = local[t].addr /\ l.scan = 1 /\ l.granary = local[t].granary
       /\ l.list = h /\ l.last = n
       /\ l.first = first2 /\ l.caller = local[t].caller /\ l.index = local[t].index
  BY <1>2, <1>10 DEF Locals
<1>12. /\ freeptr' = IF last = Null THEN freeptr ELSE [freeptr EXCEPT ![last] = n]
       /\ local' = [local EXCEPT ![t] = l] /\ pc' = [pc EXCEPT ![t] = "sweep"]
       /\ UNCHANGED <<purgatory, purgatoryCount>>
  BY <1>4, <1>6, <1>7, <1>8, <1>10 DEF Chain
<1>13. /\ pc'[t] = "sweep" /\ local'[t] = l /\ pins'[t] = pins[t]
       /\ \A u \in Threads \ {t} : pc'[u] = pc[u] /\ local'[u] = local[u] /\ pins'[u] = pins[u]
  BY <1>12, Others
<1>14. BoxInv'
  <2>1. "sweep" \in PC /\ "sweep" \notin GetPC
    BY DEF PC, GetPC
  <2> QED
    BY <1>2, <1>11, <1>12, <2>1, BoxFrame
<1>15. PICK A : A = At(at, "chained", t)
  OBVIOUS
<1>16. IsChain(freeptr, first, last, A) /\ A \subseteq Nodes \ {n} /\ Null \notin A
  <2>1. A \subseteq Nodes /\ Null \notin A
    BY <1>15, AtNodes
  <2>2. n \notin A
    BY <1>5, <1>15 DEF At
  <2> QED
    BY <1>2, <1>7, <1>15, <2>1, <2>2 DEF ThreadOK
<1>17. last # Null => last \in A
  BY <1>16 DEF IsChain
<1>18. /\ freeptr' \in [Nodes -> Pointers] /\ freeptr \in [Nodes -> Pointers]
       /\ \A m \in Nodes \ A : freeptr'[m] = freeptr[m]
       /\ \A m \in Nodes \ {last} : freeptr'[m] = freeptr[m]
       /\ last # Null => freeptr'[last] = n
  BY <1>2, <1>12, <1>16, <1>17 DEF NodeTypes, Pointers
<1>19. \A m \in Nodes \ Private(at, t) : freeptr'[m] = freeptr[m]
  BY <1>15, <1>18 DEF Private
<1>20. PICK at2 : Shift(at, at2, n, <<"chained", t>>)
  <2>1. "chained" \in Kinds
    BY DEF Kinds
  <2> QED
    BY <1>2, <2>1, ShiftExists
<1>21. at2[n] = <<"chained", t>> /\ \A m \in Nodes \ {n} : at2[m] = at[m]
  BY <1>20 DEF Shift
<1>22. Placed(at2)
  <2>1. PICK k \in Kinds : k = "chained"
    BY DEF Kinds
  <2>2. PICK w \in Threads \cup Elements \cup {0} : w = t
    OBVIOUS
  <2>3. Shift(at, at2, n, <<k, w>>) /\ k \notin {"fresh", "stack", "purgatory"} /\ w \in Threads
    BY <1>20, <2>1, <2>2
  <2> QED
    BY <1>2, <2>3, ShiftPlaced
<1>23. /\ At(at2, "swept", t) = At(at, "swept", t) \ {n} /\ At(at2, "chained", t) = A \cup {n}
       /\ At(at2, "held", t) = At(at, "held", t) /\ At(at2, "purgatory", e) = At(at, "purgatory", e)
       /\ At(at2, "stack", 0) = At(at, "stack", 0) /\ At(at2, "fresh", 0) = At(at, "fresh", 0)
  BY <1>5, <1>15, <1>21 DEF At
<1>24. StackOK(at2)' /\ PurgatoryOK(at2, e)'
  <2>1. /\ IsList(freeptr', top, Null, At(at, "stack", 0))
        /\ IsList(freeptr', purgatory[e], Null, At(at, "purgatory", e))
    BY <1>2, <1>19, SharedLists
  <2>2. fresh = At(at, "fresh", 0) /\ purgatoryCount[e] = Cardinality(At(at, "purgatory", e))
    BY <1>2 DEF PlacesOK, StackOK, PurgatoryOK
  <2> QED
    BY <1>12, <1>23, <2>1, <2>2 DEF StackOK, PurgatoryOK
<1>25. ThreadOK(at2, t)'
  <2>1. Held(t)' = At(at2, "held", t)
    <3>1. Held(t)' = objects[t]
      BY <1>13 DEF Held
    <3> QED
      BY <1>2, <1>23, <3>1 DEF ThreadOK
  <2>2. IsList(freeptr', local'[t].list, Null, At(at2, "swept", t))
    <3>1. PICK S : S = At(at, "swept", t) \ {n}
      OBVIOUS
    <3>2. IsList(freeptr, h, Null, S) /\ S \subseteq Nodes \ A
      BY <1>5, <1>6, <1>15, <3>1 DEF At
    <3>3. IsList(freeptr', h, Null, S)
      BY <1>18, <3>2, ListFrame
    <3> QED
      BY <1>11, <1>13, <1>23, <3>1, <3>3
  <2>3. IsChain(freeptr', first2, n, A \cup {n})
    <3>1. PICK g : g = [freeptr' EXCEPT ![n] = Null]
      OBVIOUS
    <3>2. g[n] = Null /\ \A m \in Nodes \ {n} : g[m] = freeptr'[m]
      BY <1>18, <3>1
    <3>3. IsList(g, n, Null, {n})
      BY <3>2, SingleIsList
    <3>4. IsList(g, first2, Null, A \cup {n})
      <4>1. CASE last = Null
        <5>1. A \cup {n} = {n} /\ first2 = n
          BY <1>8, <1>16, <4>1 DEF IsChain
        <5> QED
          BY <3>3, <5>1
      <4>2. CASE last # Null
        <5>1. PICK f : f = [freeptr EXCEPT ![last] = Null]
          OBVIOUS
        <5>2. last \in A /\ IsList(f, first, Null, A)
          BY <1>16, <4>2, <5>1 DEF IsChain
        <5>3. f[last] = Null /\ \A m \in Nodes \ {last} : f[m] = freeptr[m]
          BY <1>16, <1>18, <5>1, <5>2
        <5>4. \A x \in A \ {last} : g[x] = f[x]
          BY <1>16, <1>18, <3>2, <5>3
        <5>5. g[last] = n /\ A \cap {n} = {}
          BY <1>16, <1>18, <3>2, <4>2, <5>2
        <5>6. IsList(g, first, Null, A \cup {n})
          BY <1>16, <3>3, <5>2, <5>3, <5>4, <5>5, ListJoin
        <5> QED
          BY <1>8, <4>2, <5>6
      <4> QED
        BY <4>1, <4>2
    <3>5. n # Null
      BY NullAssumption
    <3> QED
      BY <3>1, <3>4, <3>5 DEF IsChain
  <2>4. IsChain(freeptr', local'[t].first, local'[t].last, At(at2, "chained", t))
    BY <1>11, <1>13, <1>23, <2>3
  <2> QED
    BY <2>1, <2>2, <2>4 DEF ThreadOK
<1>26. NodeTypes' /\ NodeThread(t)' /\ ~Pinning(t)'
  <2>1. 1 >= 1
    OBVIOUS
  <2> QED
    BY <1>2, <1>11, <1>12, <1>13, <1>18, <2>1 DEF NodeTypes, NodeThread, PushPC, NewPC, Pinning
<1>27. Carried(at, at2, t)
  <2>1. at2[n] # <<"stack", 0>> /\ at2[n] # <<"fresh", 0>>
    BY <1>21
  <2>2. at[n] \in Own(t) /\ at2[n] \in Own(t)
    BY <1>5, <1>21 DEF Own
  <2> QED
    BY <1>21, <2>1, <2>2 DEF Carried
<1>28. ASSUME NEW v \in Threads \ {t}, Pinning(v) PROVE at2[local[v].node] # <<"chained", t>>
  <2>1. local[v].node \in Nodes /\ at[local[v].node][1] # "chained"
    BY <1>28, NodeFacts
  <2>2. local[v].node # n
    BY <1>4, <1>28
  <2> QED
    BY <1>21, <2>1, <2>2
<1>29. \A v \in Threads \ {t} : Noticed(at2, v, t)'
  <2>1. \A m \in Nodes : at2[m] = <<"swept", t>> => at[m] = <<"swept", t>>
    BY <1>21
  <2> QED
    BY <1>11, <1>13, <2>1, StillNoticed
<1>30. NodeInv(at2)'
  BY <1>3, <1>12, <1>13, <1>19, <1>22, <1>24, <1>25, <1>26, <1>27, <1>28, <1>29, MoveStep
<1>31. Moved(at, at2)
  <2>1. ASSUME NEW m \in Nodes PROVE at2[m] = at[m] \/ (at[m][1] \in Retired /\ at2[m][1] \in Retired)
    BY <1>5, <1>21 DEF Retired
  <2> QED
    BY <2>1 DEF Moved
<1> QED
  BY <1>14, <1>30, <1>31

LEMMA StepSweep ==
    ASSUME BoxInv, NEW at, NodeInv(at), NEW t \in Threads, Sweep(t)
    PROVE  BoxInv' /\ \E at2 : NodeInv(at2)' /\ Moved(at, at2)
<1>1. /\ pc[t] = "sweep" /\ local[t].addr /\ local[t].list # Null
      /\ UNCHANGED <<top, fresh, pin, pins, objects>> /\ UNCHANGED <<topVer, pinsInArray, link>>
  BY DEF Sweep, boxVars
<1>2. CASE local[t].list \in local[t].granary
  <2>1. Keep(t)
    BY <1>2 DEF Sweep
  <2> QED
    BY <1>1, <2>1, StepKeep
<1>3. CASE local[t].list \notin local[t].granary
  <2>1. Chain(t)
    BY <1>3 DEF Sweep
  <2>2. ASSUME NEW v \in Threads \ {t}, Pinning(v) PROVE local[v].node # local[t].list
    <3>1. Noticed(at, v, t) /\ at[local[t].list] = <<"swept", t>>
      BY <1>1, SweepFacts DEF NodeInv
    <3> QED
      BY <1>1, <1>3, <2>2, <3>1 DEF Noticed
  <2> QED
    BY <1>1, <2>1, <2>2, StepChain
<1> QED
  BY <1>2, <1>3

LEMMA StepMatchPins ==
    ASSUME BoxInv, NEW at, NodeInv(at), NEW t \in Threads, MatchPins(t)
    PROVE  BoxInv' /\ \E at2 : NodeInv(at2)' /\ Moved(at, at2)
<1> USE DEF Set, Goto, elVars
<1>1. /\ pc[t] = "sweep" /\ ~local[t].addr /\ local[t].list # Null
      /\ UNCHANGED <<top, fresh, pin, pins, objects>> /\ UNCHANGED <<topVer, pinsInArray, link>>
  BY DEF MatchPins, boxVars
<1>2. CASE local[t].scan = LF_PINBOX_MAX_PINS /\ Chain(t)
  <2>1. ASSUME NEW v \in Threads \ {t}, Pinning(v), local[v].node = local[t].list PROVE FALSE
    <3>1. Noticed(at, v, t) /\ at[local[t].list] = <<"swept", t>> /\ NodeThread(v)
      BY <1>1, SweepFacts DEF NodeInv
    <3>2. local[t].scan <= pins[v]
      BY <1>1, <2>1, <3>1 DEF Noticed
    <3>3. pins[v] \in Elements
      BY <2>1, <3>1, PinnedNode
    <3> QED
      BY <1>2, <3>2, <3>3, Sizes DEF M
  <2> QED
    BY <1>1, <1>2, <2>1, StepChain
<1>3. CASE local[t].scan \in Elements /\ pin[local[t].scan] = local[t].list /\ Keep(t)
  BY <1>1, <1>3, StepKeep
<1>4. CASE /\ local[t].scan \in Elements /\ pin[local[t].scan] # local[t].list
           /\ local' = [local EXCEPT ![t] = [local[t] EXCEPT !.scan = @ + 1]]
           /\ UNCHANGED <<freeptr, purgatory, purgatoryCount, pc>>
  <2>1. /\ NodeThread(t) /\ Unowned /\ NodeTypes /\ local[t] \in Locals
        /\ pins[t] \in Elements /\ pins[t] # 0 /\ pin[pins[t]] = Null
        /\ local[t].caller = "put_loop" => local[t].index = pins[t]
    BY <1>1, FreeFacts
  <2>2. PICK s \in Elements : s = local[t].scan
    BY <1>4
  <2>3. s + 1 \in 0 .. LF_PINBOX_MAX_PINS /\ s + 1 >= 1
    BY <2>2, Sizes DEF M
  <2>4. [local[t] EXCEPT !.scan = s + 1] \in Locals
    BY <2>1, <2>3 DEF Locals
  <2>5. PICK l \in Locals : l = [local[t] EXCEPT !.scan = s + 1]
    BY <2>4
  <2>6. /\ l.addr = local[t].addr /\ l.scan = s + 1 /\ l.granary = local[t].granary
        /\ l.list = local[t].list /\ l.last = local[t].last
        /\ l.first = local[t].first /\ l.caller = local[t].caller /\ l.index = local[t].index
    BY <2>1, <2>5 DEF Locals
  <2>7. local' = [local EXCEPT ![t] = l] /\ pc' = [pc EXCEPT ![t] = "sweep"]
    BY <1>1, <1>4, <2>2, <2>5 DEF BoxInv
  <2>8. /\ pc'[t] = "sweep" /\ local'[t] = l /\ pins'[t] = pins[t]
        /\ \A u \in Threads \ {t} : pc'[u] = pc[u] /\ local'[u] = local[u] /\ pins'[u] = pins[u]
    BY <1>1, <2>7, Others
  <2>9. BoxInv'
    <3>1. "sweep" \in PC /\ "sweep" \notin GetPC
      BY DEF PC, GetPC
    <3> QED
      BY <1>1, <2>1, <2>6, <2>7, <3>1, BoxFrame
  <2>10. Unowned'
    BY <1>1, <1>4, <2>1, UnownedFrame
  <2>11. Held(t)' = Held(t) /\ objects' \in [Threads -> SUBSET Nodes] /\ pin' \in [Elements -> Pointers]
    BY <1>1, <2>1, <2>8 DEF Held, NodeTypes
  <2>12. NodeThread(t)'
    BY <1>1, <1>4, <2>1, <2>3, <2>6, <2>8 DEF NodeThread, PushPC, NewPC
  <2>13. Unchained(at, t)' /\ \A u \in Threads : Noticed(at, t, u)'
    BY <2>8 DEF Unchained, Noticed, Pinning
  <2>14. ASSUME NEW v \in Threads \ {t} PROVE Noticed(at, v, t)'
    <3>1. CASE ~Pinning(v)'
      BY <3>1 DEF Noticed
    <3>2. CASE Pinning(v)'
      <4>1. /\ Pinning(v) /\ NodeThread(v) /\ Noticed(at, v, t) /\ pins'[v] = pins[v] /\ local'[v] = local[v]
        BY <2>8, <3>2 DEF Pinning, NodeInv
      <4>2. PICK n \in Nodes : n = local[v].node /\ pins[v] \in Elements /\ pin[pins[v]] = n
        BY <4>1, PinnedNode
      <4>3. local[t].list = n => pins[v] # s
        BY <1>4, <2>2, <4>2
      <4>4. at[n] = <<"swept", t>> /\ local[t].list = n => s <= pins[v]
        BY <1>1, <2>2, <4>1, <4>2 DEF Noticed
      <4>5. s <= pins[v] /\ pins[v] # s => s + 1 <= pins[v]
        BY <4>2, <2>2, Sizes
      <4> QED
        BY <1>1, <2>6, <2>8, <4>1, <4>2, <4>3, <4>4, <4>5 DEF Noticed
    <3> QED
      BY <3>1, <3>2
  <2>15. NodeInv(at)'
    BY <1>1, <1>4, <2>1, <2>6, <2>8, <2>10, <2>11, <2>12, <2>13, <2>14, QuietStep
  <2> QED
    BY <2>9, <2>15, NotMoved
<1> QED
  BY <1>2, <1>3, <1>4 DEF MatchPins


-----------------------------------------------------------------------------
(* The steps of alloc_free, and the return from _lf_pinbox_real_free. *)

(* The locals after the call *)
LEMMA PutLocalsType ==
    ASSUME NEW l \in Locals
    PROVE  /\ PutLocals(l) \in Locals /\ PutLocals(l).caller = l.caller
           /\ PutLocals(l).index = l.index
           /\ PutLocals(l).list = Null /\ PutLocals(l).last = Null
<1>1. PICK i \in 0 .. LF_PINBOX_MAX_PINS, c \in {"idle", "put_loop"} : i = l.index /\ c = l.caller
  BY DEF Locals
<1>2. PutLocals(l) = [NoLocals EXCEPT !.index = i, !.caller = c]
  BY <1>1 DEF PutLocals
<1>3. [NoLocals EXCEPT !.index = i, !.caller = c] \in Locals
  BY NoLocalsType DEF Locals
<1>4. PICK m \in Locals : m = [NoLocals EXCEPT !.index = i, !.caller = c]
  BY <1>3
<1>5. m.caller = c /\ m.index = i /\ m.list = Null /\ m.last = Null
  BY <1>4 DEF NoLocals
<1> QED
  BY <1>1, <1>2, <1>4, <1>5

LEMMA StepSweepDone ==
    ASSUME BoxInv, NEW at, NodeInv(at), NEW t \in Threads, SweepDone(t)
    PROVE  BoxInv' /\ NodeInv(at)'
<1> USE DEF Set, Goto, stackVars, elVars, boxVars
<1>1. /\ pc[t] = "sweep" /\ local[t].list = Null
      /\ UNCHANGED <<top, freeptr, fresh, purgatory, purgatoryCount, pin, pins, objects>>
      /\ UNCHANGED <<topVer, pinsInArray, link>>
  BY DEF SweepDone
<1>2. /\ NodeThread(t) /\ Unowned /\ NodeTypes /\ local[t] \in Locals
      /\ pins[t] \in Elements /\ pins[t] # 0 /\ pin[pins[t]] = Null
      /\ local[t].caller = "put_loop" => local[t].index = pins[t]
  BY <1>1, FreeFacts
<1>3. \E p \in {"idle", "put_loop", "push_link"}, l \in Locals :
         /\ pc' = [pc EXCEPT ![t] = p] /\ local' = [local EXCEPT ![t] = l]
         /\ l.list = Null /\ l.last = local[t].last
         /\ local[t].last # Null => l.first = local[t].first
         /\ p = "push_link" <=> local[t].last # Null
         /\ p = "put_loop" => l.caller = "put_loop"
         /\ l.caller = local[t].caller /\ l.index = local[t].index
  <2>1. CASE local[t].last = Null
    <3>1. /\ pc' = [pc EXCEPT ![t] = local[t].caller]
          /\ local' = [local EXCEPT ![t] = PutLocals(local[t])]
      BY <2>1 DEF SweepDone
    <3>2. local[t].caller \in {"idle", "put_loop"}
      BY <1>2 DEF Locals
    <3>3. PICK l \in Locals : l = PutLocals(local[t])
      BY <1>2, PutLocalsType
    <3>4. l.caller = local[t].caller /\ l.index = local[t].index /\ l.list = Null /\ l.last = Null
      BY <1>2, <3>3, PutLocalsType
    <3> QED
      BY <2>1, <3>1, <3>2, <3>3, <3>4
  <2>2. CASE local[t].last # Null
    <3>1. [local[t] EXCEPT !.node = top] \in Locals
      BY <1>2 DEF Locals, NodeTypes
    <3>2. PICK l \in Locals : l = [local[t] EXCEPT !.node = top]
      BY <3>1
    <3>3. /\ l.caller = local[t].caller /\ l.index = local[t].index /\ l.list = local[t].list
          /\ l.last = local[t].last /\ l.first = local[t].first
      BY <1>2, <3>2 DEF Locals
    <3>4. pc' = [pc EXCEPT ![t] = "push_link"] /\ local' = [local EXCEPT ![t] = l]
      BY <2>2, <3>2 DEF SweepDone
    <3> QED
      BY <1>1, <2>2, <3>3, <3>4
  <2> QED
    BY <2>1, <2>2
<1>4. PICK p \in {"idle", "put_loop", "push_link"}, l \in Locals :
         /\ pc' = [pc EXCEPT ![t] = p] /\ local' = [local EXCEPT ![t] = l]
         /\ l.list = Null /\ l.last = local[t].last
         /\ local[t].last # Null => l.first = local[t].first
         /\ p = "push_link" <=> local[t].last # Null
         /\ p = "put_loop" => l.caller = "put_loop"
         /\ l.caller = local[t].caller /\ l.index = local[t].index
  BY <1>3
<1>5. /\ pc'[t] = p /\ local'[t] = l /\ pins'[t] = pins[t]
      /\ \A u \in Threads \ {t} : pc'[u] = pc[u] /\ local'[u] = local[u] /\ pins'[u] = pins[u]
  BY <1>1, <1>4, Others
<1>6. BoxInv'
  <2>1. p \in PC /\ p \notin GetPC /\ p \notin {"put_link", "put_cas"}
    BY DEF PC, GetPC
  <2>2. l.caller = "put_loop" => l.index = pins[t]
    BY <1>2, <1>4
  <2> QED
    BY <1>1, <1>2, <1>4, <2>1, <2>2, BoxFrame
<1>7. Unowned'
  BY <1>1, <1>2, UnownedFrame
<1>8. Held(t)' = Held(t) /\ objects' \in [Threads -> SUBSET Nodes] /\ pin' \in [Elements -> Pointers]
  BY <1>1, <1>2, <1>5 DEF Held, NodeTypes
<1>9. NodeThread(t)'
  BY <1>1, <1>2, <1>4, <1>5 DEF NodeThread, PushPC, NewPC
<1>10. p \notin {"new_next", "new_cas", "harvest"}
  OBVIOUS
<1>11. NodeInv(at)'
  BY <1>1, <1>2, <1>4, <1>5, <1>7, <1>8, <1>9, <1>10, CalmStep
<1> QED
  BY <1>6, <1>11

LEMMA StepPushLink ==
    ASSUME BoxInv, NEW at, NodeInv(at), NEW t \in Threads, PushLink(t)
    PROVE  BoxInv' /\ NodeInv(at)'
<1> USE DEF Set, Goto, elVars, boxVars
<1>1. /\ pc[t] = "push_link" /\ freeptr' = [freeptr EXCEPT ![local[t].last] = local[t].node]
      /\ UNCHANGED <<top, fresh, purgatory, purgatoryCount, pin, pins, local, objects>>
      /\ UNCHANGED <<topVer, pinsInArray, link>>
      /\ pc' = [pc EXCEPT ![t] = "push_cas"]
  BY DEF PushLink
<1>2. /\ NodeThread(t) /\ NodeTypes /\ local[t] \in Locals
      /\ Placed(at) /\ PlacesOK(at) /\ StackOK(at) /\ ThreadOK(at, t)
      /\ pins[t] \in Elements /\ pins[t] # 0 /\ pin[pins[t]] = Null
      /\ local[t].caller = "put_loop" => local[t].index = pins[t]
      /\ local[t].list = Null /\ \A n \in Nodes : at[n] # <<"swept", t>>
      /\ Held(t) = objects[t]
  BY <1>1, FreeFacts
<1>3. PICK e \in Elements : e = pins[t]
  BY <1>2
<1>4. PICK A : A = At(at, "chained", t)
  OBVIOUS
<1>5. PICK first, last : first = local[t].first /\ last = local[t].last
  OBVIOUS
<1>6. last # Null /\ IsChain(freeptr, first, last, A) /\ A \subseteq Nodes
  BY <1>1, <1>2, <1>4, <1>5, AtNodes DEF NodeThread, ThreadOK, PushPC
<1>7. last \in A
  BY <1>6 DEF IsChain
<1>8. PICK x \in Pointers : x = local[t].node
  BY <1>2 DEF Locals
<1>9. /\ freeptr' \in [Nodes -> Pointers] /\ freeptr \in [Nodes -> Pointers] /\ freeptr'[last] = x
      /\ \A m \in Nodes \ {last} : freeptr'[m] = freeptr[m]
  BY <1>1, <1>2, <1>5, <1>6, <1>7, <1>8 DEF NodeTypes
<1>10. \A m \in Nodes \ Private(at, t) : freeptr'[m] = freeptr[m]
  BY <1>4, <1>7, <1>9 DEF Private
<1>11. local' = [local EXCEPT ![t] = local[t]]
  BY <1>1 DEF BoxInv
<1>12. /\ pc'[t] = "push_cas" /\ local'[t] = local[t] /\ pins'[t] = pins[t]
       /\ \A u \in Threads \ {t} : pc'[u] = pc[u] /\ local'[u] = local[u] /\ pins'[u] = pins[u]
  BY <1>1, <1>11, Others
<1>13. BoxInv'
  <2>1. "push_cas" \in PC /\ "push_cas" \notin GetPC
    BY DEF PC, GetPC
  <2>2. PICK l \in Locals : l = local[t]
    BY <1>2
  <2> QED
    BY <1>1, <1>2, <1>11, <2>1, <2>2, BoxFrame
<1>14. StackOK(at)' /\ PurgatoryOK(at, e)'
  <2>1. /\ IsList(freeptr', top, Null, At(at, "stack", 0))
        /\ IsList(freeptr', purgatory[e], Null, At(at, "purgatory", e))
    BY <1>2, <1>10, SharedLists
  <2>2. fresh = At(at, "fresh", 0) /\ purgatoryCount[e] = Cardinality(At(at, "purgatory", e))
    BY <1>2 DEF PlacesOK, StackOK, PurgatoryOK
  <2> QED
    BY <1>1, <2>1, <2>2 DEF StackOK, PurgatoryOK
<1>15. ThreadOK(at, t)'
  <2>1. Held(t)' = At(at, "held", t)
    <3>1. Held(t)' = objects[t]
      BY <1>1, <1>12 DEF Held
    <3> QED
      BY <1>2, <3>1 DEF ThreadOK
  <2>2. IsList(freeptr', Null, Null, At(at, "swept", t))
    <3>1. At(at, "swept", t) = {}
      BY <1>2 DEF At
    <3> QED
      BY <3>1, EmptyIsList
  <2>3. IsChain(freeptr', first, last, A)
    <3>1. PICK f : f = [freeptr EXCEPT ![last] = Null]
      OBVIOUS
    <3>2. PICK g : g = [freeptr' EXCEPT ![last] = Null]
      OBVIOUS
    <3>3. IsList(f, first, Null, A)
      BY <1>6, <3>1 DEF IsChain
    <3>4. \A m \in A : g[m] = f[m]
      BY <1>6, <1>9, <3>1, <3>2
    <3>5. IsList(g, first, Null, A)
      BY <3>3, <3>4, ListFrame
    <3> QED
      BY <1>6, <1>7, <3>2, <3>5 DEF IsChain
  <2> QED
    BY <1>2, <1>4, <1>5, <1>12, <2>1, <2>2, <2>3 DEF ThreadOK
<1>16. NodeTypes' /\ NodeThread(t)' /\ ~Pinning(t)'
  BY <1>1, <1>2, <1>5, <1>6, <1>8, <1>9, <1>12 DEF NodeTypes, NodeThread, PushPC, NewPC, Pinning
<1>17. Carried(at, at, t)
  BY DEF Carried
<1>18. ASSUME NEW v \in Threads \ {t}, Pinning(v) PROVE at[local[v].node] # <<"chained", t>>
  <2>1. at[local[v].node][1] # "chained"
    BY <1>18, NodeFacts
  <2> QED
    BY <2>1
<1>19. \A v \in Threads \ {t} : Noticed(at, v, t)'
  BY <1>2, <1>12, NotScanning
<1>20. NodeInv(at)'
  BY <1>1, <1>2, <1>3, <1>10, <1>12, <1>14, <1>15, <1>16, <1>17, <1>18, <1>19, MoveStep
<1> QED
  BY <1>13, <1>20

(* The whole chain goes on the stack, or the attempt is repeated. *)
LEMMA StepPushCas ==
    ASSUME BoxInv, NEW at, NodeInv(at), NEW t \in Threads, PushCas(t)
    PROVE  BoxInv' /\ \E at2 : NodeInv(at2)' /\ Moved(at, at2)
<1> USE DEF Set, Goto, elVars, boxVars
<1>1. /\ pc[t] = "push_cas"
      /\ UNCHANGED <<freeptr, fresh, purgatory, purgatoryCount, pin, pins, objects>>
      /\ UNCHANGED <<topVer, pinsInArray, link>>
  BY DEF PushCas
<1>2. /\ NodeThread(t) /\ Unowned /\ NodeTypes /\ local[t] \in Locals
      /\ Placed(at) /\ PlacesOK(at) /\ StackOK(at) /\ ThreadOK(at, t)
      /\ pins[t] \in Elements /\ pins[t] # 0 /\ pin[pins[t]] = Null
      /\ local[t].caller = "put_loop" => local[t].index = pins[t]
      /\ local[t].list = Null /\ \A n \in Nodes : at[n] # <<"swept", t>>
      /\ Held(t) = objects[t]
  BY <1>1, FreeFacts
<1>3. PICK e \in Elements : e = pins[t]
  BY <1>2
<1>4. PICK A : A = At(at, "chained", t)
  OBVIOUS
<1>5. PICK first \in Pointers, last \in Pointers : first = local[t].first /\ last = local[t].last
  BY <1>2 DEF Locals
<1>6. /\ last # Null /\ IsChain(freeptr, first, last, A) /\ A \subseteq Nodes /\ Null \notin A
      /\ freeptr[last] = local[t].node
  BY <1>1, <1>2, <1>4, <1>5, AtNodes DEF NodeThread, ThreadOK, PushPC
<1>7. CASE top = local[t].node
  <2>1. PICK l \in Locals : l = PutLocals(local[t])
    BY <1>2, PutLocalsType
  <2>2. l.caller = local[t].caller /\ l.index = local[t].index /\ l.list = Null /\ l.last = Null
    BY <1>2, <2>1, PutLocalsType
  <2>3. PICK p \in {"idle", "put_loop"} : p = local[t].caller
    BY <1>2 DEF Locals
  <2>4. top' = first /\ local' = [local EXCEPT ![t] = l] /\ pc' = [pc EXCEPT ![t] = p]
    BY <1>5, <1>7, <2>1, <2>3 DEF PushCas
  <2>5. /\ pc'[t] = p /\ local'[t] = l /\ pins'[t] = pins[t]
        /\ \A u \in Threads \ {t} : pc'[u] = pc[u] /\ local'[u] = local[u] /\ pins'[u] = pins[u]
    BY <1>1, <2>4, Others
  <2>6. BoxInv'
    <3>1. p \in PC /\ p \notin GetPC /\ p \notin {"put_link", "put_cas"}
      BY DEF PC, GetPC
    <3> QED
      BY <1>1, <1>2, <2>2, <2>3, <2>4, <3>1, BoxFrame
  <2>7. PICK at2 : Rename(at, at2, <<"chained", t>>, <<"stack", 0>>)
    <3>1. "stack" \in Kinds
      BY DEF Kinds
    <3> QED
      BY <1>2, <3>1, RenameExists
  <2>8. \A n \in Nodes : at2[n] = IF at[n] = <<"chained", t>> THEN <<"stack", 0>> ELSE at[n]
    BY <2>7 DEF Rename
  <2>9. Placed(at2)
    <3>1. PICK k \in Kinds : k = "stack"
      BY DEF Kinds
    <3>2. PICK w \in Threads \cup Elements \cup {0} : w = 0
      OBVIOUS
    <3>3. Rename(at, at2, <<"chained", t>>, <<k, w>>) /\ k \notin {"held", "swept", "chained", "purgatory"} /\ w = 0
      BY <2>7, <3>1, <3>2
    <3> QED
      BY <1>2, <3>3, RenamePlaced
  <2>10. /\ At(at2, "stack", 0) = A \cup At(at, "stack", 0) /\ At(at2, "chained", t) = {}
         /\ At(at2, "held", t) = At(at, "held", t) /\ At(at2, "swept", t) = At(at, "swept", t)
         /\ At(at2, "fresh", 0) = At(at, "fresh", 0)
         /\ At(at2, "purgatory", e) = At(at, "purgatory", e)
    <3>1. At(at2, "stack", 0) = A \cup At(at, "stack", 0)
      BY <1>4, <2>8 DEF At
    <3>2. At(at2, "chained", t) = {}
      BY <2>8 DEF At
    <3>3. At(at2, "held", t) = At(at, "held", t) /\ At(at2, "swept", t) = At(at, "swept", t)
      BY <2>8 DEF At
    <3>4. At(at2, "fresh", 0) = At(at, "fresh", 0) /\ At(at2, "purgatory", e) = At(at, "purgatory", e)
      BY <2>8 DEF At
    <3> QED
      BY <3>1, <3>2, <3>3, <3>4
  <2>11. StackOK(at2)'
    <3>1. PICK f : f = [freeptr EXCEPT ![last] = Null]
      OBVIOUS
    <3>2. PICK B : B = At(at, "stack", 0)
      OBVIOUS
    <3>3. last \in A /\ IsList(f, first, Null, A) /\ IsList(freeptr, top, Null, B) /\ A \cap B = {}
      BY <1>2, <1>4, <1>6, <3>1, <3>2 DEF IsChain, StackOK, At
    <3>4. f[last] = Null /\ \A x \in A \ {last} : freeptr[x] = f[x]
      BY <1>2, <1>6, <3>1, <3>3 DEF NodeTypes
    <3>5. IsList(freeptr, first, Null, A \cup B)
      BY <1>6, <1>7, <3>3, <3>4, ListJoin
    <3> QED
      BY <1>1, <1>2, <2>4, <2>10, <3>2, <3>5 DEF StackOK
  <2>12. PurgatoryOK(at2, e)'
    BY <1>1, <1>2, <2>10 DEF PlacesOK, PurgatoryOK
  <2>13. ThreadOK(at2, t)'
    <3>1. Held(t)' = At(at2, "held", t)
      <4>1. Held(t)' = objects[t]
        BY <1>1, <2>5 DEF Held
      <4> QED
        BY <1>2, <2>10, <4>1 DEF ThreadOK
    <3>2. IsList(freeptr', Null, Null, At(at2, "swept", t))
      BY <1>1, <1>2, <2>10 DEF ThreadOK
    <3>3. IsChain(freeptr', l.first, Null, At(at2, "chained", t))
      BY <2>10 DEF IsChain
    <3> QED
      BY <2>2, <2>5, <3>1, <3>2, <3>3 DEF ThreadOK
  <2>14. NodeTypes' /\ NodeThread(t)' /\ ~Pinning(t)'
    BY <1>1, <1>2, <2>2, <2>4, <2>5 DEF NodeTypes, NodeThread, PushPC, NewPC, Pinning
  <2>15. Carried(at, at2, t)
    <3>1. <<"chained", t>> \in Own(t) /\ <<"stack", 0>> \in Own(t) /\ <<"stack", 0>> # <<"fresh", 0>>
      BY DEF Own
    <3> QED
      BY <2>8, <3>1 DEF Carried
  <2>16. ASSUME NEW v \in Threads \ {t}, Pinning(v) PROVE at2[local[v].node] # <<"chained", t>>
    <3>1. local[v].node \in Nodes
      BY <2>16, NodeFacts
    <3> QED
      BY <2>8, <3>1
  <2>17. \A v \in Threads \ {t} : Noticed(at2, v, t)'
    <3>1. \A m \in Nodes : at2[m] # <<"swept", t>>
      BY <1>2, <2>8
    <3> QED
      BY <2>5, <3>1, NotScanning
  <2>18. NodeInv(at2)'
    BY <1>1, <1>3, <2>5, <2>9, <2>11, <2>12, <2>13, <2>14, <2>15, <2>16, <2>17, MoveStep
  <2>19. Moved(at, at2)
    <3>1. ASSUME NEW n \in Nodes PROVE at2[n] = at[n] \/ (at[n][1] = "chained" /\ at2[n] = <<"stack", 0>>)
      BY <2>8
    <3> QED
      BY <3>1 DEF Moved
  <2> QED
    BY <2>6, <2>18, <2>19
<1>8. CASE top # local[t].node
  <2>1. [local[t] EXCEPT !.node = top] \in Locals
    BY <1>2 DEF Locals, NodeTypes
  <2>2. PICK l \in Locals : l = [local[t] EXCEPT !.node = top]
    BY <2>1
  <2>3. /\ l.caller = local[t].caller /\ l.index = local[t].index /\ l.list = local[t].list
        /\ l.last = local[t].last /\ l.first = local[t].first
    BY <1>2, <2>2 DEF Locals
  <2>4. top' = top /\ pc' = [pc EXCEPT ![t] = "push_link"] /\ local' = [local EXCEPT ![t] = l]
    BY <1>8, <2>2 DEF PushCas
  <2>5. /\ pc'[t] = "push_link" /\ local'[t] = l /\ pins'[t] = pins[t]
        /\ \A u \in Threads \ {t} : pc'[u] = pc[u] /\ local'[u] = local[u] /\ pins'[u] = pins[u]
    BY <1>1, <2>4, Others
  <2>6. BoxInv'
    <3>1. "push_link" \in PC /\ "push_link" \notin GetPC
      BY DEF PC, GetPC
    <3> QED
      BY <1>1, <1>2, <2>3, <2>4, <3>1, BoxFrame
  <2>7. Unowned'
    BY <1>1, <1>2, UnownedFrame
  <2>8. Held(t)' = Held(t) /\ objects' \in [Threads -> SUBSET Nodes] /\ pin' \in [Elements -> Pointers]
    BY <1>1, <1>2, <2>5 DEF Held, NodeTypes
  <2>9. NodeThread(t)'
    BY <1>1, <1>2, <1>5, <1>6, <2>3, <2>5 DEF NodeThread, PushPC, NewPC
  <2>10. NodeInv(at)'
    BY <1>1, <1>2, <2>3, <2>4, <2>5, <2>7, <2>8, <2>9, CalmStep
  <2> QED
    BY <2>6, <2>10, NotMoved
<1> QED
  BY <1>7, <1>8


-----------------------------------------------------------------------------
(* The invariant holds at the start and is preserved. *)
LEMMA NodeInit ==
    ASSUME Init
    PROVE  \E at \in [Nodes -> Places] : NodeInv(at)
<1>1. PICK at : at = [n \in Nodes |-> <<"fresh", 0>>]
  OBVIOUS
<1>2. Placed(at) /\ \A n \in Nodes : at[n] = <<"fresh", 0>>
  <2>1. <<"fresh", 0>> \in Places
    BY DEF Places, Kinds
  <2> QED
    BY <1>1, <2>1 DEF Placed
<1>3. /\ At(at, "fresh", 0) = Nodes /\ At(at, "stack", 0) = {}
      /\ \A t : At(at, "held", t) = {} /\ At(at, "swept", t) = {} /\ At(at, "chained", t) = {}
      /\ \A e : At(at, "purgatory", e) = {}
  BY <1>2 DEF At
<1>4. NoLocals.list = Null /\ NoLocals.last = Null
  BY DEF NoLocals
<1>5. IsList(freeptr, Null, Null, {}) /\ Cardinality({}) = 0
  BY EmptyIsList, FS_EmptySet
<1>6. NodeTypes
  BY DEF Init, NodeTypes, Pointers
<1>7. StackOK(at)
  BY <1>3, <1>5 DEF Init, StackOK
<1>8. ASSUME NEW e \in Elements PROVE PurgatoryOK(at, e)
  <2>1. purgatory[e] = Null /\ purgatoryCount[e] = 0
    BY DEF Init
  <2> QED
    BY <1>3, <1>5, <2>1 DEF PurgatoryOK
<1>9. ASSUME NEW t \in Threads PROVE ThreadOK(at, t) /\ NodeThread(t) /\ ~Pinning(t)
  <2>1. pc[t] = "idle" /\ pins[t] = 0 /\ local[t] = NoLocals /\ objects[t] = {}
    BY DEF Init
  <2>2. ThreadOK(at, t)
    BY <1>3, <1>4, <1>5, <2>1 DEF ThreadOK, IsChain, Held
  <2> QED
    BY <1>4, <2>1, <2>2 DEF NodeThread, PushPC, NewPC, Pinning
<1>10. Unowned
  BY DEF Init, Unowned
<1>11. PlacesOK(at)
  BY <1>2, <1>7, <1>8, <1>9 DEF PlacesOK, Placed
<1>12. NodeInv(at) /\ at \in [Nodes -> Places]
  BY <1>2, <1>6, <1>9, <1>10, <1>11 DEF NodeInv, Unchained, Noticed, Placed
<1> QED
  BY <1>12

LEMMA Stutter ==
    ASSUME BoxInv, NEW at, NodeInv(at), UNCHANGED vars
    PROVE  BoxInv' /\ NodeInv(at)'
<1> USE DEF vars, stackVars, boxVars, elVars
<1>1. BoxInv'
  <2>1. \A t \in Threads : Mine(t)' = Mine(t)
    BY DEF Mine
  <2>2. Getters' = Getters
    BY DEF Getters
  <2>3. Putters' = Putters
    BY <2>1, <2>2 DEF Putters
  <2>4. Unused' = Unused
    BY <2>1 DEF Unused
  <2>5. \A t \in Threads : BoxThread(t)'
    BY <2>1 DEF BoxInv, BoxThread
  <2> QED
    BY <2>1, <2>2, <2>3, <2>4, <2>5 DEF BoxInv
<1>2. NodeInv(at)'
  <2>1. NodeTypes' /\ Unowned'
    BY DEF NodeInv, NodeTypes, Unowned
  <2>2. PlacesOK(at)'
    BY DEF NodeInv, PlacesOK, StackOK, PurgatoryOK, ThreadOK, Held
  <2>3. \A t \in Threads : NodeThread(t)'
    BY DEF NodeInv, NodeThread
  <2>4. \A t \in Threads : Unchained(at, t)'
    BY DEF NodeInv, Unchained, Pinning
  <2>5. \A t, u \in Threads : Noticed(at, t, u)'
    BY DEF NodeInv, Noticed, Pinning
  <2> QED
    BY <2>1, <2>2, <2>3, <2>4, <2>5 DEF NodeInv
<1> QED
  BY <1>1, <1>2

LEMMA EveryStep ==
    ASSUME BoxInv, NEW at, NodeInv(at), [Next]_vars
    PROVE  BoxInv' /\ \E at2 : NodeInv(at2)' /\ Moved(at, at2)
<1>1. CASE UNCHANGED vars
  BY <1>1, Stutter, NotMoved
<1>2. ASSUME NEW t \in Threads, Step(t)
      PROVE  BoxInv' /\ \E at2 : NodeInv(at2)' /\ Moved(at, at2)
  <2>1. CASE GetPins(t)
    BY <2>1, BoxGetPins, NodeGet, NotMoved
  <2>2. CASE GetPinsNew(t)
    BY <2>2, BoxGetPinsNew, NodeGet, NotMoved
  <2>3. CASE GetPinsRead(t)
    BY <2>3, BoxGetPinsRead, NodeGet, NotMoved
  <2>4. CASE GetPinsCas(t)
    BY <2>4, BoxGetPinsCas, NodeGet, NotMoved
  <2>5. CASE GetPinsInit(t)
    BY <2>5, BoxGetPinsInit, NodeGetPinsInit, NotMoved
  <2>6. CASE PutPins(t) \/ PutPinsFlush(t)
    BY <2>6, BoxPut, NodePut, NotMoved
  <2>7. CASE PutPinsRead(t)
    BY <2>7, BoxPutPinsRead, NodePut, NotMoved
  <2>8. CASE PutPinsLink(t)
    BY <2>8, BoxPutPinsLink, NodePut, NotMoved
  <2>9. CASE PutPinsCas(t)
    BY <2>9, BoxPutPinsCas, NodePutPinsCas, NotMoved
  <2>10. CASE NewTop(t)
    BY <2>10, StepNewTop, NotMoved
  <2>11. CASE NewPin(t)
    BY <2>11, StepNewPin, NotMoved
  <2>12. CASE NewCheck(t)
    BY <2>12, StepNewCheck, NotMoved
  <2>13. CASE NewMalloc(t)
    BY <2>13, StepNewMalloc
  <2>14. CASE NewNext(t)
    BY <2>14, StepNewNext, NotMoved
  <2>15. CASE NewCas(t)
    BY <2>15, StepNewCas
  <2>16. CASE NewUnpin(t)
    BY <2>16, StepNewUnpin, NotMoved
  <2>17. CASE Free(t)
    BY <2>17, StepFree
  <2>18. CASE RealFree(t)
    BY <2>18, StepRealFree, NotMoved
  <2>19. CASE HarvestPins(t)
    BY <2>19, StepHarvest, NotMoved
  <2>20. CASE TakePurgatory(t)
    BY <2>20, StepTakePurgatory
  <2>21. CASE Sweep(t)
    BY <2>21, StepSweep
  <2>22. CASE MatchPins(t)
    BY <2>22, StepMatchPins
  <2>23. CASE SweepDone(t)
    BY <2>23, StepSweepDone, NotMoved
  <2>24. CASE PushLink(t)
    BY <2>24, StepPushLink, NotMoved
  <2>25. CASE PushCas(t)
    BY <2>25, StepPushCas
  <2> QED
    BY <1>2, <2>1, <2>2, <2>3, <2>4, <2>5, <2>6, <2>7, <2>8, <2>9, <2>10, <2>11, <2>12, <2>13,
       <2>14, <2>15, <2>16, <2>17, <2>18, <2>19, <2>20, <2>21, <2>22, <2>23, <2>24, <2>25 DEF Step
<1> QED
  BY <1>1, <1>2 DEF Next

(* The two layers together are inductive: whatever the threads do between  *)
(* their atomic accesses, the unused elements form the pin stack and every *)
(* object has one place whose list it is on.                               *)
THEOREM LfInvariant == Spec => []LfInv
<1>1. Init => LfInv
  BY BoxInit, NodeInit DEF LfInv
<1>2. LfInv /\ [Next]_vars => LfInv'
  <2> SUFFICES ASSUME LfInv, [Next]_vars PROVE LfInv'
    OBVIOUS
  <2>1. PICK at \in [Nodes -> Places] : NodeInv(at)
    BY DEF LfInv
  <2>2. BoxInv' /\ \E at2 : NodeInv(at2)' /\ Moved(at, at2)
    BY <2>1, EveryStep DEF LfInv
  <2>3. PICK at2 : NodeInv(at2)'
    BY <2>2
  <2>4. at2 \in [Nodes -> Places]
    BY <2>3 DEF NodeInv, PlacesOK
  <2> QED
    BY <2>2, <2>3, <2>4 DEF LfInv
<1> QED
  BY <1>1, <1>2, PTL DEF Spec

-----------------------------------------------------------------------------
(* What the invariant says of the lists. *)
Seen(at) ==
    /\ fresh = At(at, "fresh", 0) /\ Stack = At(at, "stack", 0)
    /\ \A t \in Threads : /\ Held(t) = At(at, "held", t) /\ Swept(t) = At(at, "swept", t)
                          /\ Chained(t) = At(at, "chained", t)
    /\ \A e \in Elements : Listed(purgatory[e]) = At(at, "purgatory", e)

LEMMA PlacesSeen ==
    ASSUME NEW at, NodeInv(at)
    PROVE  Seen(at)
<1>1. freeptr \in [Nodes -> Pointers] /\ PlacesOK(at)
  BY DEF NodeInv, NodeTypes
<1>2. ASSUME NEW f, NEW h, NEW k, NEW w, f \in [Nodes -> Pointers], IsList(f, h, Null, At(at, k, w))
      PROVE  Reach(f, h) \ {Null} = At(at, k, w)
  <2>1. PICK A : A = At(at, k, w)
    OBVIOUS
  <2>2. DOMAIN f = Nodes /\ A \subseteq Nodes /\ Null \notin Nodes /\ IsFiniteSet(Nodes) /\ IsList(f, h, Null, A)
    BY <1>2, <2>1, AtNodes, NullAssumption, FiniteAssumption
  <2>3. Reach(f, h) \ {Null} = A
    BY <2>2, ListReach
  <2> QED
    BY <2>1, <2>3
<1>3. fresh = At(at, "fresh", 0) /\ Stack = At(at, "stack", 0)
  BY <1>1, <1>2 DEF PlacesOK, StackOK, Stack, Listed
<1>4. ASSUME NEW e \in Elements PROVE Listed(purgatory[e]) = At(at, "purgatory", e)
  BY <1>1, <1>2 DEF PlacesOK, PurgatoryOK, Listed
<1>5. ASSUME NEW t \in Threads
      PROVE  /\ Held(t) = At(at, "held", t) /\ Swept(t) = At(at, "swept", t)
             /\ Chained(t) = At(at, "chained", t)
  <2>1. ThreadOK(at, t)
    BY <1>1 DEF PlacesOK
  <2>2. Held(t) = At(at, "held", t) /\ Swept(t) = At(at, "swept", t)
    BY <1>1, <1>2, <2>1 DEF ThreadOK, Swept, Listed
  <2>3. PICK first, last, A : first = local[t].first /\ last = local[t].last /\ A = At(at, "chained", t)
    OBVIOUS
  <2>4. IsChain(freeptr, first, last, A)
    BY <2>1, <2>3 DEF ThreadOK
  <2>5. CASE last = Null
    BY <2>2, <2>3, <2>4, <2>5 DEF IsChain, Chained
  <2>6. CASE last # Null
    <3>1. PICK f : f = [freeptr EXCEPT ![last] = Null]
      OBVIOUS
    <3>2. f \in [Nodes -> Pointers] /\ IsList(f, first, Null, A)
      BY <1>1, <2>4, <2>6, <3>1 DEF IsChain, Pointers
    <3>3. Reach(f, first) \ {Null} = A
      BY <1>2, <2>3, <3>2
    <3> QED
      BY <2>2, <2>3, <2>6, <3>1, <3>3 DEF Chained
  <2> QED
    BY <2>2, <2>5, <2>6
<1> QED
  BY <1>3, <1>4, <1>5 DEF Seen

LEMMA OneOwner ==
    ASSUME BoxInv, NEW at, NodeInv(at), NEW n \in Nodes
    PROVE  \E p : Owners(n) = {p}
<1>1. /\ n \in fresh <=> at[n] = <<"fresh", 0>>
      /\ n \in Stack <=> at[n] = <<"stack", 0>>
      /\ \A t \in Threads : n \in Held(t) <=> at[n] = <<"held", t>>
      /\ \A t \in Threads : n \in Swept(t) <=> at[n] = <<"swept", t>>
      /\ \A t \in Threads : n \in Chained(t) <=> at[n] = <<"chained", t>>
      /\ \A e \in Elements : n \in Listed(purgatory[e]) <=> at[n] = <<"purgatory", e>>
  BY PlacesSeen DEF At, Seen
<1>2. Placed(at)
  BY DEF NodeInv, PlacesOK, Placed
<1>3. PICK k \in Kinds, w \in Threads \cup Elements \cup {0} :
         /\ at[n] = <<k, w>>
         /\ k \in {"fresh", "stack"} => w = 0
         /\ k \in {"held", "swept", "chained"} => w \in Threads
         /\ k = "purgatory" => w \in Elements
  BY <1>2, PlaceOf
<1>4. PICK F, S, H, W, C, P :
         /\ F = IF n \in fresh THEN {<<"fresh">>} ELSE {}
         /\ S = IF n \in Stack THEN {<<"stack">>} ELSE {}
         /\ H = {u \in Threads : n \in Held(u)}
         /\ W = {u \in Threads : n \in Swept(u)}
         /\ C = {u \in Threads : n \in Chained(u)}
         /\ P = {d \in Elements : n \in Listed(purgatory[d])}
  OBVIOUS
<1>5. Owners(n) = F \cup S \cup {<<"held", t>> : t \in H} \cup {<<"swept", t>> : t \in W}
                    \cup {<<"chained", t>> : t \in C} \cup {<<"purgatory", e>> : e \in P}
  BY <1>4 DEF Owners
<1>6. /\ F = IF k = "fresh" THEN {<<"fresh">>} ELSE {}
      /\ S = IF k = "stack" THEN {<<"stack">>} ELSE {}
      /\ H = IF k = "held" THEN {w} ELSE {}
      /\ W = IF k = "swept" THEN {w} ELSE {}
      /\ C = IF k = "chained" THEN {w} ELSE {}
      /\ P = IF k = "purgatory" THEN {w} ELSE {}
  <2>1. F = IF k = "fresh" THEN {<<"fresh">>} ELSE {}
    BY <1>1, <1>3, <1>4
  <2>2. S = IF k = "stack" THEN {<<"stack">>} ELSE {}
    BY <1>1, <1>3, <1>4
  <2>3. H = IF k = "held" THEN {w} ELSE {}
    BY <1>1, <1>3, <1>4
  <2>4. W = IF k = "swept" THEN {w} ELSE {}
    BY <1>1, <1>3, <1>4
  <2>5. C = IF k = "chained" THEN {w} ELSE {}
    BY <1>1, <1>3, <1>4
  <2>6. P = IF k = "purgatory" THEN {w} ELSE {}
    BY <1>1, <1>3, <1>4
  <2> QED
    BY <2>1, <2>2, <2>3, <2>4, <2>5, <2>6
<1>7. CASE k = "fresh"
  <2>1. Owners(n) = {<<"fresh">>}
    BY <1>5, <1>6, <1>7
  <2> QED
    BY <2>1
<1>8. CASE k = "stack"
  <2>1. Owners(n) = {<<"stack">>}
    BY <1>5, <1>6, <1>8
  <2> QED
    BY <2>1
<1>9. CASE k = "held"
  <2>1. Owners(n) = {<<"held", w>>}
    BY <1>5, <1>6, <1>9
  <2> QED
    BY <2>1
<1>10. CASE k = "swept"
  <2>1. Owners(n) = {<<"swept", w>>}
    BY <1>5, <1>6, <1>10
  <2> QED
    BY <2>1
<1>11. CASE k = "chained"
  <2>1. Owners(n) = {<<"chained", w>>}
    BY <1>5, <1>6, <1>11
  <2> QED
    BY <2>1
<1>12. CASE k = "purgatory"
  <2>1. Owners(n) = {<<"purgatory", w>>}
    BY <1>5, <1>6, <1>12
  <2> QED
    BY <2>1
<1> QED
  BY <1>7, <1>8, <1>9, <1>10, <1>11, <1>12 DEF Kinds

LEMMA InvTypeOK ==
    ASSUME BoxInv, NEW at, NodeInv(at)
    PROVE  TypeOK
<1>1. NodeTypes /\ fresh \subseteq Nodes
  BY PlacesSeen, AtNodes DEF NodeInv, Seen
<1>2. pinsInArray \in 0 .. MaxInArray
  <2>1. Cardinality(Getters) \in Nat
    BY ThreadSet DEF Getters
  <2> QED
    BY <2>1, Sizes DEF BoxInv
<1>3. purgatoryCount \in [Elements -> 0 .. Cardinality(Nodes)]
  <2>1. ASSUME NEW e \in Elements PROVE purgatoryCount[e] \in 0 .. Cardinality(Nodes)
    <3>1. PICK S : S = At(at, "purgatory", e)
      OBVIOUS
    <3>2. S \subseteq Nodes /\ purgatoryCount[e] = Cardinality(S)
      BY <3>1, AtNodes DEF NodeInv, PlacesOK, PurgatoryOK
    <3> QED
      BY <3>2, NodeSet
  <2> QED
    BY <1>1, <2>1 DEF NodeTypes
<1> QED
  BY <1>1, <1>2, <1>3 DEF TypeOK, BoxInv, NodeTypes, Locals

(* An object is in exactly one place at every moment, and a                *)
(* compare-and-swap of _lf_alloc_new that is about to succeed has the      *)
(* right successor: nothing is handed out twice or lost, and ABA does not  *)
(* arise, for any number of threads, objects and elements.                 *)
THEOREM EveryObjectHasOnePlace == Spec => []OnePlace
<1>1. LfInv => OnePlace
  <2> SUFFICES ASSUME LfInv PROVE OnePlace
    OBVIOUS
  <2>1. BoxInv /\ \E at \in [Nodes -> Places] : NodeInv(at)
    BY DEF LfInv
  <2>2. PICK at \in [Nodes -> Places] : NodeInv(at)
    BY <2>1
  <2>3. TypeOK
    BY <2>1, <2>2, InvTypeOK
  <2>4. ASSUME NEW n \in Nodes PROVE Cardinality(Owners(n)) = 1
    <3>1. PICK p : Owners(n) = {p}
      BY <2>1, <2>2, OneOwner
    <3>2. Cardinality({p}) = 1
      BY FS_Singleton
    <3> QED
      BY <3>1, <3>2
  <2>5. ASSUME NEW t \in Threads, pc[t] = "new_cas", top = local[t].node
        PROVE  freeptr[top] = local[t].next
    <3>1. Pinning(t) /\ NodeThread(t) /\ Unchained(at, t) /\ StackOK(at)
      BY <2>2, <2>5 DEF Pinning, NodeInv, PlacesOK
    <3>2. PICK n \in Nodes : n = top
      BY <2>1, <2>5, <3>1, PinnedNode
    <3>3. PICK S : S = At(at, "stack", 0)
      OBVIOUS
    <3>4. IsList(freeptr, n, Null, S) /\ Null \notin S /\ n # Null
      BY <3>1, <3>2, <3>3, AtNodes, NullAssumption DEF StackOK
    <3>5. n \in S
      BY <3>4, ListEnds
    <3>6. at[n] = <<"stack", 0>>
      BY <3>3, <3>5 DEF At
    <3> QED
      BY <2>5, <3>1, <3>2, <3>6 DEF Unchained
  <2> QED
    BY <2>3, <2>4, <2>5 DEF OnePlace
<1> QED
  BY <1>1, LfInvariant, PTL


(* The owners of an element of the pinbox. *)
LEMMA OneThread ==
    ASSUME BoxInv, NEW e \in Elements
    PROVE  /\ e \in PinStack <=> e \in Unused
           /\ Cardinality(PinsOwners(e)) = IF e <= pinsInArray THEN 1 ELSE 0
<1>0. e # 0 /\ e \in Nat /\ pinsInArray \in Nat
  BY Sizes, BoxTypes
<1>1. PinStack = Unused
  <2>1. DOMAIN link = Elements /\ Unused \subseteq Elements /\ IsList(link, Index(topVer), 0, Unused)
    BY DEF BoxInv, Unused
  <2>2. 0 \notin Elements
    BY Sizes
  <2>3. IsFiniteSet(Elements)
    <3>1. Elements = 1 .. M - 1 /\ 1 \in Int /\ M - 1 \in Int
      BY Sizes
    <3> QED
      BY <3>1, FS_Interval
  <2>4. Reach(link, Index(topVer)) \ {0} = Unused
    BY <2>1, <2>2, <2>3, ListReach
  <2> QED
    BY <2>4 DEF PinStack
<1>2. ASSUME NEW u \in Threads
      PROVE  /\ pins[u] = e => Mine(u) = e /\ ~(pc[u] = "get_init" /\ local[u].index = e)
             /\ pc[u] = "get_init" /\ local[u].index = e => Mine(u) = e /\ pins[u] # e
             /\ Mine(u) = e => pins[u] = e \/ (pc[u] = "get_init" /\ local[u].index = e)
  <2>1. BoxThread(u)
    BY DEF BoxInv
  <2>2. pc[u] = "get_init" => pins[u] = 0
    BY <2>1 DEF BoxThread, GetPC
  <2> QED
    BY <1>0, <2>2 DEF Mine
<1>3. PICK O, G : /\ O = {u \in Threads : pins[u] = e}
                  /\ G = {u \in Threads : pc[u] = "get_init" /\ local[u].index = e}
  OBVIOUS
<1>4. PinsOwners(e) = (IF e \in PinStack THEN {<<"unused">>} ELSE {})
                        \cup {<<"owned", t>> : t \in O} \cup {<<"given", t>> : t \in G}
  BY <1>3 DEF PinsOwners
<1>5. \A p : Cardinality({p}) = 1
  BY FS_Singleton
<1>6. CASE e > pinsInArray
  <2>1. ASSUME NEW u \in Threads PROVE Mine(u) # e
    <3>1. Mine(u) <= pinsInArray
      BY DEF BoxInv, BoxThread
    <3> QED
      BY <1>0, <1>6, <3>1
  <2>2. O = {} /\ G = {}
    BY <1>2, <1>3, <2>1
  <2>3. e \notin PinStack
    BY <1>0, <1>1, <1>6 DEF Unused
  <2>4. PinsOwners(e) = {}
    BY <1>4, <2>2, <2>3
  <2>5. Cardinality({}) = 0
    BY FS_EmptySet
  <2> QED
    BY <1>0, <1>1, <1>6, <2>4, <2>5
<1>7. CASE e <= pinsInArray
  <2>1. CASE e \in Unused
    <3>1. O = {} /\ G = {}
      BY <1>2, <1>3, <2>1 DEF Unused
    <3>2. PinsOwners(e) = {<<"unused">>}
      BY <1>1, <1>4, <2>1, <3>1
    <3> QED
      BY <1>1, <1>5, <1>7, <3>2
  <2>2. CASE e \notin Unused
    <3>1. PICK t \in Threads : Mine(t) = e
      BY <1>7, <2>2 DEF Unused
    <3>2. \A u \in Threads : Mine(u) = e => u = t
      BY <1>0, <3>1 DEF BoxInv
    <3>3. CASE pins[t] = e
      <4>1. O = {t} /\ G = {}
        BY <1>2, <1>3, <3>2, <3>3
      <4>2. PinsOwners(e) = {<<"owned", t>>}
        BY <1>1, <1>4, <2>2, <4>1
      <4> QED
        BY <1>1, <1>5, <1>7, <4>2
    <3>4. CASE pins[t] # e
      <4>1. O = {} /\ G = {t}
        BY <1>2, <1>3, <3>1, <3>2, <3>4
      <4>2. PinsOwners(e) = {<<"given", t>>}
        BY <1>1, <1>4, <2>2, <4>1
      <4> QED
        BY <1>1, <1>5, <1>7, <4>2
    <3> QED
      BY <3>3, <3>4
  <2> QED
    BY <2>1, <2>2
<1> QED
  BY <1>0, <1>6, <1>7

(* An element of the pinbox is on the stack of unused ones or with one     *)
(* thread, and an unused one keeps no object and no pin: get_pins and      *)
(* put_pins never share pins, whatever their compare-and-swaps overtake.   *)
THEOREM PinsAreNotShared == Spec => []PinsHaveOneOwner
<1>1. LfInv => PinsHaveOneOwner
  <2> SUFFICES ASSUME LfInv, NEW e \in Elements
               PROVE  /\ Cardinality(PinsOwners(e)) = IF e <= pinsInArray THEN 1 ELSE 0
                      /\ e \in PinStack => purgatory[e] = Null /\ pin[e] = Null
    BY DEF PinsHaveOneOwner
  <2>1. BoxInv /\ Unowned
    BY DEF LfInv, NodeInv
  <2>2. /\ e \in PinStack <=> e \in Unused
        /\ Cardinality(PinsOwners(e)) = IF e <= pinsInArray THEN 1 ELSE 0
    BY <2>1, OneThread
  <2>3. e \in Unused => \A t \in Threads : pins[t] # e
    <3>1. \A t \in Threads : pins[t] # 0 => Mine(t) = pins[t]
      BY <2>1, BoxTypes
    <3>2. e # 0
      BY Sizes
    <3> QED
      BY <3>1, <3>2 DEF Unused
  <2> QED
    BY <2>1, <2>2, <2>3 DEF Unowned
<1> QED
  BY <1>1, LfInvariant, PTL

-----------------------------------------------------------------------------
(* What the steps do to the stack and to the pool. *)
Views == \A at : NodeInv(at) => Seen(at)

LEMMA ViewsHold == Spec => []Views
<1>1. LfInv => Views
  BY PlacesSeen DEF Views
<1> QED
  BY <1>1, LfInvariant, PTL

(* A pin that was checked keeps its object off the stack: a step puts on   *)
(* the stack only objects of a chain, and a pinned object is in no chain.  *)
LEMMA PinnedStaysAway ==
    ASSUME LfInv, Views, Views', [Next]_vars, NEW t \in Threads,
           pc[t] \in {"new_next", "new_cas"}, local[t].node \notin Stack
    PROVE  local[t].node \notin Stack'
<1>1. BoxInv
  BY DEF LfInv
<1>2. PICK at \in [Nodes -> Places] : NodeInv(at)
  BY DEF LfInv
<1>3. PICK at2 : NodeInv(at2)' /\ Moved(at, at2)
  BY <1>1, <1>2, EveryStep
<1>4. Stack = At(at, "stack", 0) /\ Stack' = At(at2, "stack", 0)
  BY <1>2, <1>3 DEF Views, Seen
<1>5. PICK n \in Nodes : n = local[t].node /\ at[n][1] # "chained"
  <2>1. Pinning(t)
    BY DEF Pinning
  <2> QED
    BY <1>1, <1>2, <2>1, NodeFacts
<1>6. at[n] # <<"stack", 0>>
  BY <1>4, <1>5 DEF At
<1>7. at2[n] # <<"stack", 0>>
  <2>1. CASE \E m \in Nodes, u \in Threads :
                at[m] \in {<<"fresh", 0>>, <<"stack", 0>>} /\ Shift(at, at2, m, <<"held", u>>)
    BY <1>6, <2>1 DEF Shift
  <2>2. CASE \E m \in Nodes, u \in Threads, e \in Elements :
                at[m] = <<"held", u>> /\ Shift(at, at2, m, <<"purgatory", e>>)
    BY <1>6, <2>2 DEF Shift
  <2>3. CASE \A m \in Nodes : at2[m] = at[m] \/ (at[m][1] \in Retired /\ at2[m][1] \in Retired)
    <3>1. <<"stack", 0>>[1] \notin Retired
      BY DEF Retired
    <3> QED
      BY <1>6, <2>3, <3>1
  <2>4. CASE \A m \in Nodes : at2[m] = at[m] \/ (at[m][1] = "chained" /\ at2[m] = <<"stack", 0>>)
    BY <1>5, <1>6, <2>4
  <2> QED
    BY <1>3, <2>1, <2>2, <2>3, <2>4 DEF Moved
<1> QED
  BY <1>4, <1>5, <1>7 DEF At

(* The guarantee of the pinning protocol, for any number of threads: an    *)
(* object whose pin was checked does not get back on the stack.            *)
THEOREM PinnedObjectsRest == Spec => PinnedIsNotFreed
<1>1. LfInv /\ Views /\ Views' /\ [Next]_vars
        => [\A t \in Threads :
              pc[t] \in {"new_next", "new_cas"} /\ local[t].node \notin Stack
                 => local[t].node \notin Stack']_vars
  BY PinnedStaysAway
<1> QED
  BY <1>1, LfInvariant, ViewsHold, PTL DEF Spec, PinnedIsNotFreed


-----------------------------------------------------------------------------
(* The refinement.  The places of the objects are all the pool knows. *)

PoolAvailable(at) == {n \in Nodes : at[n] = <<"fresh", 0>> \/ at[n] = <<"stack", 0>>}

PoolHeld(at) == [t \in Threads |-> {n \in Nodes : at[n] = <<"held", t>>}]

PoolRetired(at) == {n \in Nodes : at[n][1] \in Retired}

(* The pool the allocator implements is the one the places describe. *)
Mapped == \A at : NodeInv(at) =>
    /\ Placed(at)
    /\ Available = PoolAvailable(at)
    /\ [t \in Threads |-> Held(t)] = PoolHeld(at)
    /\ Nodes \ (Available \cup UNION {Held(t) : t \in Threads}) = PoolRetired(at)

(* An object is available, held or retired. *)
LEMMA PoolParts ==
    ASSUME NEW at, Placed(at), NEW n \in Nodes
    PROVE  at[n][1] \in Retired
              <=> /\ at[n] # <<"fresh", 0>> /\ at[n] # <<"stack", 0>>
                  /\ \A t \in Threads : at[n] # <<"held", t>>
<1>1. PICK k \in Kinds, w \in Threads \cup Elements \cup {0} :
              /\ at[n] = <<k, w>> /\ at[n][1] = k
              /\ k \in {"fresh", "stack"} => w = 0
              /\ k \in {"held", "swept", "chained"} => w \in Threads
  BY PlaceOf
<1>2. CASE k \in {"fresh", "stack"}
  <2>1. k \notin Retired /\ w = 0
    BY <1>1, <1>2 DEF Retired
  <2> QED
    BY <1>1, <1>2, <2>1
<1>3. CASE k = "held"
  <2>1. k \notin Retired /\ w \in Threads
    BY <1>1, <1>3 DEF Retired
  <2> QED
    BY <1>1, <1>3, <2>1
<1>4. CASE k \in Retired
  <2>1. k # "fresh" /\ k # "stack" /\ k # "held"
    BY <1>4 DEF Retired
  <2>2. \A q, v : at[n] = <<q, v>> => q = k
    BY <1>1
  <2> QED
    BY <1>1, <1>4, <2>1, <2>2
<1> QED
  BY <1>2, <1>3, <1>4 DEF Kinds, Retired

LEMMA MappedHolds == Spec => []Mapped
<1>1. LfInv => Mapped
  <2> SUFFICES ASSUME NEW at, NodeInv(at)
               PROVE  /\ Placed(at)
                      /\ Available = PoolAvailable(at)
                      /\ [t \in Threads |-> Held(t)] = PoolHeld(at)
                      /\ Nodes \ (Available \cup UNION {Held(t) : t \in Threads}) = PoolRetired(at)
    BY DEF Mapped
  <2>1. Placed(at)
    BY DEF NodeInv, PlacesOK, Placed
  <2>2. Seen(at)
    BY PlacesSeen
  <2>3. Available = PoolAvailable(at)
    BY <2>2 DEF Seen, Available, PoolAvailable, At
  <2>4. \A t \in Threads : Held(t) = {n \in Nodes : at[n] = <<"held", t>>}
    BY <2>2 DEF Seen, At
  <2>5. [t \in Threads |-> Held(t)] = PoolHeld(at)
    BY <2>4 DEF PoolHeld
  <2>6. ASSUME NEW n \in Nodes
        PROVE  n \in Available \cup UNION {Held(t) : t \in Threads} <=> at[n][1] \notin Retired
    <3>1. n \in Available <=> at[n] = <<"fresh", 0>> \/ at[n] = <<"stack", 0>>
      BY <2>3 DEF PoolAvailable
    <3>2. n \in UNION {Held(t) : t \in Threads} <=> \E t \in Threads : at[n] = <<"held", t>>
      <4>1. n \in UNION {Held(t) : t \in Threads} <=> \E t \in Threads : n \in Held(t)
        OBVIOUS
      <4> QED
        BY <2>4, <4>1
    <3> QED
      BY <2>1, <3>1, <3>2, PoolParts
  <2> QED
    BY <2>1, <2>3, <2>5, <2>6 DEF PoolRetired
<1> QED
  BY <1>1, LfInvariant, PTL

(* A step that hands out an object. *)
LEMMA MovedNew ==
    ASSUME NEW at, Placed(at), NEW at2, NEW n \in Nodes, NEW t \in Threads,
           at[n] \in {<<"fresh", 0>>, <<"stack", 0>>}, Shift(at, at2, n, <<"held", t>>)
    PROVE  /\ n \in PoolAvailable(at)
           /\ PoolAvailable(at2) = PoolAvailable(at) \ {n}
           /\ PoolHeld(at2) = [PoolHeld(at) EXCEPT ![t] = @ \cup {n}]
           /\ PoolRetired(at2) = PoolRetired(at)
<1>1. /\ at2[n] = <<"held", t>> /\ at2[n][1] = "held"
      /\ \A m \in Nodes \ {n} : at2[m] = at[m]
  BY DEF Shift
<1>2. at[n][1] \in {"fresh", "stack"}
  OBVIOUS
<1>3. at2[n] # <<"fresh", 0>> /\ at2[n] # <<"stack", 0>>
  BY <1>1
<1>4. \A u \in Threads : at[n] # <<"held", u>> /\ (at2[n] = <<"held", u>> <=> u = t)
  BY <1>1
<1>5. n \in PoolAvailable(at) /\ PoolAvailable(at2) = PoolAvailable(at) \ {n}
  BY <1>1, <1>3 DEF PoolAvailable
<1>6. PoolHeld(at2) = [PoolHeld(at) EXCEPT ![t] = @ \cup {n}]
  <2>1. ASSUME NEW u \in Threads
        PROVE  {m \in Nodes : at2[m] = <<"held", u>>}
                 = IF u = t THEN {m \in Nodes : at[m] = <<"held", u>>} \cup {n}
                   ELSE {m \in Nodes : at[m] = <<"held", u>>}
    BY <1>1, <1>4
  <2> QED
    BY <2>1 DEF PoolHeld
<1>7. PoolRetired(at2) = PoolRetired(at)
  <2>1. at[n][1] \notin Retired /\ at2[n][1] \notin Retired
    BY <1>1, <1>2 DEF Retired
  <2> QED
    BY <1>1, <2>1 DEF PoolRetired
<1> QED
  BY <1>5, <1>6, <1>7

(* A step that gives back an object. *)
LEMMA MovedFree ==
    ASSUME NEW at, Placed(at), NEW at2, NEW n \in Nodes, NEW t \in Threads, NEW e \in Elements,
           at[n] = <<"held", t>>, Shift(at, at2, n, <<"purgatory", e>>)
    PROVE  /\ n \in PoolHeld(at)[t]
           /\ PoolAvailable(at2) = PoolAvailable(at)
           /\ PoolHeld(at2) = [PoolHeld(at) EXCEPT ![t] = @ \ {n}]
           /\ PoolRetired(at2) = PoolRetired(at) \cup {n}
<1>1. /\ at2[n] = <<"purgatory", e>> /\ at2[n][1] = "purgatory"
      /\ \A m \in Nodes \ {n} : at2[m] = at[m]
  BY DEF Shift
<1>2. /\ at[n] # <<"fresh", 0>> /\ at[n] # <<"stack", 0>>
      /\ at2[n] # <<"fresh", 0>> /\ at2[n] # <<"stack", 0>>
  BY <1>1
<1>3. \A u \in Threads : at2[n] # <<"held", u>> /\ (at[n] = <<"held", u>> <=> u = t)
  BY <1>1
<1>4. PoolAvailable(at2) = PoolAvailable(at)
  BY <1>1, <1>2 DEF PoolAvailable
<1>5. n \in PoolHeld(at)[t]
  BY DEF PoolHeld
<1>6. PoolHeld(at2) = [PoolHeld(at) EXCEPT ![t] = @ \ {n}]
  <2>1. ASSUME NEW u \in Threads
        PROVE  {m \in Nodes : at2[m] = <<"held", u>>}
                 = IF u = t THEN {m \in Nodes : at[m] = <<"held", u>>} \ {n}
                   ELSE {m \in Nodes : at[m] = <<"held", u>>}
    BY <1>1, <1>3
  <2> QED
    BY <2>1 DEF PoolHeld
<1>7. PoolRetired(at2) = PoolRetired(at) \cup {n}
  <2>1. at2[n][1] \in Retired
    BY <1>1 DEF Retired
  <2> QED
    BY <1>1, <2>1 DEF PoolRetired
<1> QED
  BY <1>4, <1>5, <1>6, <1>7

(* A step of a thread that is freeing: what was retired stays retired. *)
LEMMA MovedRetired ==
    ASSUME NEW at, Placed(at), NEW at2, Placed(at2),
           \A n \in Nodes : at2[n] = at[n] \/ (at[n][1] \in Retired /\ at2[n][1] \in Retired)
    PROVE  /\ PoolAvailable(at2) = PoolAvailable(at)
           /\ PoolHeld(at2) = PoolHeld(at)
           /\ PoolRetired(at2) = PoolRetired(at)
<1>1. ASSUME NEW n \in Nodes
      PROVE  /\ at2[n][1] \in Retired <=> at[n][1] \in Retired
             /\ at2[n] = <<"fresh", 0>> <=> at[n] = <<"fresh", 0>>
             /\ at2[n] = <<"stack", 0>> <=> at[n] = <<"stack", 0>>
             /\ \A t \in Threads : at2[n] = <<"held", t>> <=> at[n] = <<"held", t>>
  <2>1. CASE at2[n] = at[n]
    BY <2>1
  <2>2. CASE at[n][1] \in Retired /\ at2[n][1] \in Retired
    BY <2>2, PoolParts
  <2> QED
    BY <2>1, <2>2
<1>2. PoolAvailable(at2) = PoolAvailable(at) /\ PoolRetired(at2) = PoolRetired(at)
  BY <1>1 DEF PoolAvailable, PoolRetired
<1>3. \A t \in Threads : {n \in Nodes : at2[n] = <<"held", t>>} = {n \in Nodes : at[n] = <<"held", t>>}
  BY <1>1
<1> QED
  BY <1>2, <1>3 DEF PoolHeld

(* A step that pushes a chain: some of what was retired is available. *)
LEMMA MovedReclaim ==
    ASSUME NEW at, Placed(at), NEW at2, Placed(at2),
           \A n \in Nodes : at2[n] = at[n] \/ (at[n][1] = "chained" /\ at2[n] = <<"stack", 0>>)
    PROVE  \E some \in SUBSET PoolRetired(at) :
              /\ PoolAvailable(at2) = PoolAvailable(at) \cup some
              /\ PoolHeld(at2) = PoolHeld(at)
              /\ PoolRetired(at2) = PoolRetired(at) \ some
<1>1. PICK some : some = {n \in Nodes : at[n][1] = "chained" /\ at2[n] = <<"stack", 0>>}
  OBVIOUS
<1>2. \A n \in Nodes \ some : at2[n] = at[n]
  BY <1>1
<1>3. ASSUME NEW n \in some
      PROVE  /\ n \in Nodes /\ at[n][1] \in Retired /\ at2[n][1] \notin Retired
             /\ at[n] # <<"fresh", 0>> /\ at[n] # <<"stack", 0>> /\ at2[n] = <<"stack", 0>>
             /\ \A t \in Threads : at[n] # <<"held", t>> /\ at2[n] # <<"held", t>>
  <2>1. n \in Nodes /\ at[n][1] \in Retired /\ at2[n] = <<"stack", 0>>
    BY <1>1 DEF Retired
  <2>2. at2[n][1] = "stack" /\ "stack" \notin Retired
    BY <2>1 DEF Retired
  <2>3. \A t \in Threads : at2[n] # <<"held", t>>
    BY <2>1
  <2> QED
    BY <2>1, <2>2, <2>3, PoolParts
<1>4. some \subseteq PoolRetired(at)
  BY <1>3 DEF PoolRetired
<1>5. PoolAvailable(at2) = PoolAvailable(at) \cup some
  BY <1>2, <1>3 DEF PoolAvailable
<1>6. PoolRetired(at2) = PoolRetired(at) \ some
  BY <1>2, <1>3 DEF PoolRetired
<1>7. \A t \in Threads : {n \in Nodes : at2[n] = <<"held", t>>} = {n \in Nodes : at[n] = <<"held", t>>}
  BY <1>2, <1>3
<1>8. PoolHeld(at2) = PoolHeld(at)
  BY <1>7 DEF PoolHeld
<1> QED
  BY <1>4, <1>5, <1>6, <1>8

LEMMA PoolInit ==
    ASSUME Init, Mapped
    PROVE  Pool!Init
<1>1. PICK at \in [Nodes -> Places] : NodeInv(at)
  BY NodeInit
<1>2. /\ Available = PoolAvailable(at)
      /\ [t \in Threads |-> Held(t)] = PoolHeld(at)
      /\ Nodes \ (Available \cup UNION {Held(t) : t \in Threads}) = PoolRetired(at)
  BY <1>1 DEF Mapped
<1>3. \A n \in Nodes : at[n] = <<"fresh", 0>>
  <2>1. Nodes = At(at, "fresh", 0)
    BY <1>1 DEF Init, NodeInv, PlacesOK, StackOK
  <2> QED
    BY <2>1 DEF At
<1>4. PoolAvailable(at) = Nodes
  BY <1>3 DEF PoolAvailable
<1>5. PoolHeld(at) = [t \in Threads |-> {}]
  BY <1>3 DEF PoolHeld
<1>6. PoolRetired(at) = {}
  BY <1>3 DEF PoolRetired, Retired
<1> QED
  BY <1>2, <1>4, <1>5, <1>6 DEF Pool!Init

LEMMA PoolStep ==
    ASSUME LfInv, Mapped, Mapped', [Next]_vars
    PROVE  [Pool!Next]_(Pool!poolVars)
<1>1. PICK at \in [Nodes -> Places] : NodeInv(at)
  BY DEF LfInv
<1>2. PICK at2 : NodeInv(at2)' /\ Moved(at, at2)
  BY <1>1, EveryStep DEF LfInv
<1> DEFINE av == Available
           he == [t \in Threads |-> Held(t)]
           re == Nodes \ (Available \cup UNION {Held(t) : t \in Threads})
<1>3. Placed(at) /\ av = PoolAvailable(at) /\ he = PoolHeld(at) /\ re = PoolRetired(at)
  BY <1>1 DEF Mapped
<1>4. Placed(at2) /\ av' = PoolAvailable(at2) /\ he' = PoolHeld(at2) /\ re' = PoolRetired(at2)
  BY <1>2 DEF Mapped
<1>5. CASE \E n \in Nodes, t \in Threads :
              at[n] \in {<<"fresh", 0>>, <<"stack", 0>>} /\ Shift(at, at2, n, <<"held", t>>)
  <2>1. PICK n \in Nodes, t \in Threads :
              at[n] \in {<<"fresh", 0>>, <<"stack", 0>>} /\ Shift(at, at2, n, <<"held", t>>)
    BY <1>5
  <2>2. /\ n \in PoolAvailable(at)
        /\ PoolAvailable(at2) = PoolAvailable(at) \ {n}
        /\ PoolHeld(at2) = [PoolHeld(at) EXCEPT ![t] = @ \cup {n}]
        /\ PoolRetired(at2) = PoolRetired(at)
    BY <1>3, <2>1, MovedNew
  <2>3. n \in av /\ av' = av \ {n} /\ he' = [he EXCEPT ![t] = @ \cup {n}] /\ re' = re
    BY <1>3, <1>4, <2>2
  <2>4. Pool!New(t)
    BY <2>3 DEF Pool!New
  <2> QED
    BY <2>4 DEF Pool!Next
<1>6. CASE \E n \in Nodes, t \in Threads, e \in Elements :
              at[n] = <<"held", t>> /\ Shift(at, at2, n, <<"purgatory", e>>)
  <2>1. PICK n \in Nodes, t \in Threads, e \in Elements :
              at[n] = <<"held", t>> /\ Shift(at, at2, n, <<"purgatory", e>>)
    BY <1>6
  <2>2. /\ n \in PoolHeld(at)[t]
        /\ PoolAvailable(at2) = PoolAvailable(at)
        /\ PoolHeld(at2) = [PoolHeld(at) EXCEPT ![t] = @ \ {n}]
        /\ PoolRetired(at2) = PoolRetired(at) \cup {n}
    BY <1>3, <2>1, MovedFree
  <2>3. n \in he[t] /\ av' = av /\ he' = [he EXCEPT ![t] = @ \ {n}] /\ re' = re \cup {n}
    BY <1>3, <1>4, <2>2
  <2>4. Pool!Free(t)
    BY <2>3 DEF Pool!Free
  <2> QED
    BY <2>4 DEF Pool!Next
<1>7. CASE \A n \in Nodes : at2[n] = at[n] \/ (at[n][1] \in Retired /\ at2[n][1] \in Retired)
  <2>1. av' = av /\ he' = he /\ re' = re
    BY <1>3, <1>4, <1>7, MovedRetired
  <2> QED
    BY <2>1 DEF Pool!poolVars
<1>8. CASE \A n \in Nodes : at2[n] = at[n] \/ (at[n][1] = "chained" /\ at2[n] = <<"stack", 0>>)
  <2>1. PICK some \in SUBSET PoolRetired(at) :
              /\ PoolAvailable(at2) = PoolAvailable(at) \cup some
              /\ PoolHeld(at2) = PoolHeld(at)
              /\ PoolRetired(at2) = PoolRetired(at) \ some
    BY <1>3, <1>4, <1>8, MovedReclaim
  <2>2. some \in SUBSET re /\ av' = av \cup some /\ he' = he /\ re' = re \ some
    BY <1>3, <1>4, <2>1
  <2>3. Pool!Reclaim
    BY <2>2 DEF Pool!Reclaim
  <2> QED
    BY <2>3 DEF Pool!Next
<1> QED
  BY <1>2, <1>5, <1>6, <1>7, <1>8 DEF Moved

(* The pinning allocator implements the object pool its users rely on, for *)
(* any number of threads and objects: an object is handed to one thread,   *)
(* rests after it is given back, and is handed out again after a scan.     *)
THEOREM AllocatorIsAPool == Spec => ImplementsPool
<1>1. Init /\ Mapped => Pool!Init
  BY PoolInit
<1>2. LfInv /\ Mapped /\ Mapped' /\ [Next]_vars => [Pool!Next]_(Pool!poolVars)
  BY PoolStep
<1> QED
  BY <1>1, <1>2, LfInvariant, MappedHolds, PTL DEF Spec, ImplementsPool, Pool!Spec
=============================================================================
