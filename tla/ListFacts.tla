----------------------------- MODULE ListFacts -----------------------------
(***************************************************************************)
(* Facts about numbers, recursive functions and sequences that the proofs  *)
(* of several components rest on, and about linked lists.  Induction is    *)
(* stated with a set: a set with 0 that is closed under successor has      *)
(* every natural number.                                                   *)
(***************************************************************************)
EXTENDS Lists, SequencesExt, FiniteSetTheorems, WellFoundedInduction,
        NaturalsInduction, SequenceTheorems, TLAPS

(* A set of natural numbers has a least element. *)
LEMMA LeastElement ==
    ASSUME NEW T \in SUBSET Nat, T # {}
    PROVE  \E x \in T : \A y \in T : x <= y
<1> DEFINE lt == {ss \in Nat \X Nat : ss[1] < ss[2]}
<1>1. IsWellFoundedOn(lt, Nat)
  BY NatLessThanWellFounded, Zenon DEF OpToRel
<1> HIDE DEF lt
<1>2. \E x \in T : \A y \in T : ~(<<y, x>> \in lt)
  BY <1>1, WFMin
<1>3. PICK x \in T : \A y \in T : ~(<<y, x>> \in lt)
  BY <1>2
<1>4. ASSUME NEW y \in T PROVE x <= y
  <2>1. <<y, x>> \in Nat \X Nat /\ ~(<<y, x>> \in lt)
    BY <1>3
  <2>2. ~(y < x)
    BY <2>1 DEF lt
  <2> QED
    BY <2>2
<1> QED
  BY <1>4

LEMMA SetInduction ==
    ASSUME NEW S, 0 \in S, \A n \in Nat : n \in S => n + 1 \in S
    PROVE  Nat \subseteq S
<1> SUFFICES ASSUME ~(Nat \subseteq S) PROVE FALSE
  OBVIOUS
<1> DEFINE T == Nat \ S
<1>1. PICK x \in T : \A y \in T : x <= y
  <2> T \in SUBSET Nat /\ T # {}
    OBVIOUS
  <2> HIDE DEF T
  <2> QED
    BY LeastElement
<1>2. x # 0
  OBVIOUS
<1>3. x - 1 \in Nat /\ x - 1 \in S
  BY <1>1, <1>2
<1> QED
  BY <1>3, <1>1

(* A function on 0..n is defined by its first value a and, step by step,   *)
(* from the value before by g.                                             *)
IsRecursion(f, n, a, g) == f[0] = a /\ \A i \in 1..n : f[i] = g[<<i, f[i - 1]>>]

LEMMA RecursionExists ==
    ASSUME NEW n \in Nat, NEW D, NEW a \in D, NEW g,
           \A i \in 1..n, x \in D : g[<<i, x>>] \in D
    PROVE  \E f \in [0..n -> D] : IsRecursion(f, n, a, g)
<1> DEFINE Good(m, f) == IsRecursion(f, m, a, g)
           S == {m \in Nat : m <= n => \E f \in [0..m -> D] : Good(m, f)}
<1> USE DEF IsRecursion
<1>1. 0 \in S
  <2>1. [i \in 0..0 |-> a] \in [0..0 -> D] /\ Good(0, [i \in 0..0 |-> a])
    OBVIOUS
  <2> QED
    BY <2>1
<1>2. ASSUME NEW m \in Nat, m \in S PROVE m + 1 \in S
  <2> SUFFICES ASSUME m + 1 <= n PROVE \E f \in [0..(m + 1) -> D] : Good(m + 1, f)
    OBVIOUS
  <2>1. PICK f \in [0..m -> D] : Good(m, f)
    BY <1>2
  <2> DEFINE h == [i \in 0..(m + 1) |-> IF i = m + 1 THEN g[<<m + 1, f[m]>>] ELSE f[i]]
  <2>2. h \in [0..(m + 1) -> D]
    OBVIOUS
  <2>3. h[0] = a
    BY <2>1
  <2>4. ASSUME NEW i \in 1..(m + 1) PROVE h[i] = g[<<i, h[i - 1]>>]
    <3>1. CASE i = m + 1
      <4>1. i - 1 = m /\ h[m] = f[m]
        BY <3>1
      <4>2. h[i] = g[<<m + 1, f[m]>>]
        BY <3>1
      <4> HIDE DEF h
      <4> QED
        BY <3>1, <4>1, <4>2
    <3>2. CASE i \in 1..m
      BY <2>1, <3>2
    <3> QED
      BY <3>1, <3>2
  <2> QED
    BY <2>2, <2>3, <2>4
<1>3. Nat \subseteq S
  <2> HIDE DEF S
  <2> QED
    BY <1>1, <1>2, SetInduction
<1> QED
  BY <1>3

-----------------------------------------------------------------------------
(* Taking the first element of a queue without repetitions, and adding a   *)
(* new one at its end.                                                     *)
LEMMA PopProperties ==
    ASSUME NEW S, NEW s \in Seq(S), s # <<>>, IsInjective(s)
    PROVE  /\ Head(s) \in ToSet(s) /\ Tail(s) \in Seq(S) /\ IsInjective(Tail(s))
           /\ ToSet(Tail(s)) = ToSet(s) \ {Head(s)}
<1>1. /\ Len(s) \in Nat /\ Len(s) >= 1 /\ DOMAIN s = 1..Len(s) /\ Head(s) = s[1]
      /\ Tail(s) \in Seq(S) /\ Len(Tail(s)) = Len(s) - 1 /\ DOMAIN Tail(s) = 1..(Len(s) - 1)
      /\ \A i \in 1..(Len(s) - 1) : Tail(s)[i] = s[i + 1]
  OBVIOUS
<1>2. \A i, j \in 1..Len(s) : s[i] = s[j] => i = j
  BY <1>1 DEF IsInjective
<1>3. IsInjective(Tail(s))
  BY <1>1, <1>2 DEF IsInjective
<1>4. ToSet(Tail(s)) \subseteq ToSet(s) \ {Head(s)}
  BY <1>1, <1>2 DEF ToSet
<1>5. ASSUME NEW x \in ToSet(s) \ {Head(s)} PROVE x \in ToSet(Tail(s))
  <2>1. PICK i \in 1..Len(s) : x = s[i]
    BY <1>1 DEF ToSet
  <2>2. i - 1 \in 1..(Len(s) - 1) /\ Tail(s)[i - 1] = x
    BY <1>1, <2>1
  <2> QED
    BY <1>1, <2>2 DEF ToSet
<1>6. Head(s) \in ToSet(s)
  BY <1>1 DEF ToSet
<1> QED
  BY <1>1, <1>3, <1>4, <1>5, <1>6

LEMMA PushProperties ==
    ASSUME NEW S, NEW s \in Seq(S), NEW x \in S, x \notin ToSet(s), IsInjective(s)
    PROVE  /\ Append(s, x) \in Seq(S) /\ IsInjective(Append(s, x))
           /\ ToSet(Append(s, x)) = ToSet(s) \cup {x}
<1>1. /\ Len(s) \in Nat /\ DOMAIN s = 1..Len(s)
      /\ Append(s, x) \in Seq(S) /\ DOMAIN Append(s, x) = 1..(Len(s) + 1)
      /\ \A i \in 1..Len(s) : Append(s, x)[i] = s[i]
      /\ Append(s, x)[Len(s) + 1] = x
  OBVIOUS
<1>2. IsInjective(Append(s, x))
  BY <1>1 DEF IsInjective, ToSet
<1>3. ToSet(Append(s, x)) \subseteq ToSet(s) \cup {x}
  BY <1>1 DEF ToSet
<1>4. ToSet(s) \cup {x} \subseteq ToSet(Append(s, x))
  BY <1>1 DEF ToSet
<1> QED
  BY <1>1, <1>2, <1>3, <1>4

(* SetToSeq lists a finite set without repetitions.                        *)
LEMMA SetToSeqProperties ==
    ASSUME NEW S, IsFiniteSet(S)
    PROVE  /\ SetToSeq(S) \in Seq(S) /\ IsInjective(SetToSeq(S))
           /\ ToSet(SetToSeq(S)) = S
<1> DEFINE n == Cardinality(S)
<1>1. n \in Nat /\ ExistsBijection(1..n, S)
  BY FS_CardinalityType
<1>2. \E f \in [1..n -> S] : IsInjective(f)
  BY <1>1 DEF ExistsBijection, Bijection, Injection, IsInjective
<1>3. SetToSeq(S) \in [1..n -> S] /\ IsInjective(SetToSeq(S))
  BY <1>2 DEF SetToSeq
<1>4. IsFiniteSet(1..n) /\ Cardinality(1..n) = n
  BY <1>1, FS_Interval
<1> DEFINE f == SetToSeq(S)
<1> HIDE DEF n, f
<1>5. f \in [1..n -> S] /\ IsInjective(f)
  BY <1>3 DEF f
<1>6. f \in Injection(1..n, S)
  BY <1>5 DEF Injection, IsInjective
<1>7. n = Cardinality(S)
  BY DEF n
<1>8. f \in Surjection(1..n, S)
  BY <1>4, <1>6, <1>7, FS_Injection
<1>9. f \in Seq(S) /\ DOMAIN f = 1..n
  BY <1>1, <1>5
<1>10. ToSet(f) = S
  BY <1>5, <1>8, <1>9 DEF Surjection, ToSet
<1> QED
  BY <1>5, <1>9, <1>10 DEF f

(* FlattenSeq joins the sequences one after the other.                     *)
LEMMA FlattenSeqSteps ==
    ASSUME NEW S, NEW ss \in Seq(Seq(S)), ss # <<>>
    PROVE  \E f \in [1..Len(ss) -> Seq(S)] :
              /\ f[1] = ss[1]
              /\ \A i \in 2..Len(ss) : f[i] = f[i - 1] \o ss[i]
              /\ FlattenSeq(ss) = f[Len(ss)]
<1> DEFINE n == Len(ss)
           g == [p \in (1..n) \X Seq(S) |-> IF p[1] = 1 THEN ss[1] ELSE p[2] \o ss[p[1]]]
<1>1. n \in Nat /\ n >= 1 /\ \A i \in 1..n : ss[i] \in Seq(S)
  OBVIOUS
<1>2. g \in [(1..n) \X Seq(S) -> Seq(S)]
  BY <1>1
<1>3. PICK f \in [0..n -> Seq(S)] :
         f[0] = <<>> /\ \A i \in 1..n : f[i] = g[<<i, f[i - 1]>>]
  <2> DEFINE D == Seq(S)
             a == <<>>
  <2>1. a \in D /\ n \in Nat
    BY <1>1
  <2>a. ASSUME NEW i \in 1..n, NEW x \in D PROVE g[<<i, x>>] \in D
    BY <1>2
  <2>2. \E f \in [0..n -> D] : IsRecursion(f, n, a, g)
    <3> HIDE DEF g, n, D, a
    <3> QED
      BY <2>1, <2>a, RecursionExists
  <2> HIDE DEF g, n
  <2> QED
    BY <2>2 DEF IsRecursion
<1> DEFINE h == [i \in 1..n |-> f[i]]
<1>4. ASSUME NEW i \in 1..n PROVE f[i] = IF i = 1 THEN ss[i] ELSE h[i - 1] \o ss[i]
  <2>1. f[i] = g[<<i, f[i - 1]>>] /\ f[i - 1] \in Seq(S) /\ <<i, f[i - 1]>> \in (1..n) \X Seq(S)
    <3> HIDE DEF g, n
    <3>1. i \in 1..n /\ i - 1 \in 0..n
      BY <1>1
    <3> QED
      BY <1>3, <3>1
  <2>2. f[i] = IF i = 1 THEN ss[1] ELSE f[i - 1] \o ss[i]
    BY <2>1
  <2>3. i # 1 => h[i - 1] = f[i - 1]
    BY <1>1
  <2> QED
    BY <2>2, <2>3
<1>5. h = [i \in 1..n |-> IF i = 1 THEN ss[i] ELSE h[i - 1] \o ss[i]]
  BY <1>4
<1> DEFINE k == CHOOSE k : k = [i \in 1..n |-> IF i = 1 THEN ss[i] ELSE k[i - 1] \o ss[i]]
<1>6. k = [i \in 1..n |-> IF i = 1 THEN ss[i] ELSE k[i - 1] \o ss[i]]
  <2> HIDE DEF h, n
  <2> QED
    BY <1>5
<1>7. FlattenSeq(ss) = k[n]
  BY <1>1 DEF FlattenSeq
<1> HIDE DEF k
<1>8. \A i \in 1..n : k[i] = h[i]
  <2> DEFINE T == {m \in Nat : m + 1 \in 1..n => k[m + 1] = h[m + 1]}
  <2>1. 0 \in T
    <3>1. 1 \in 1..n /\ 0 + 1 = 1
      BY <1>1
    <3>2. k[1] = ss[1] /\ h[1] = ss[1]
      <4> HIDE DEF h
      <4> QED
        BY <1>5, <1>6, <3>1
    <3> QED
      BY <3>1, <3>2
  <2>2. ASSUME NEW m \in Nat, m \in T PROVE m + 1 \in T
    <3> SUFFICES ASSUME (m + 1) + 1 \in 1..n PROVE k[(m + 1) + 1] = h[(m + 1) + 1]
      OBVIOUS
    <3> DEFINE i == (m + 1) + 1
    <3>1. i \in 1..n /\ i # 1 /\ i - 1 = m + 1 /\ m + 1 \in 1..n
      BY <1>1
    <3>2. k[i - 1] = h[i - 1]
      BY <2>2, <3>1
    <3>3. k[i] = k[i - 1] \o ss[i] /\ h[i] = h[i - 1] \o ss[i]
      <4> HIDE DEF h, i
      <4> QED
        BY <1>5, <1>6, <3>1
    <3> QED
      BY <3>2, <3>3
  <2>3. Nat \subseteq T
    <3> HIDE DEF T
    <3> QED
      BY <2>1, <2>2, SetInduction
  <2>4. ASSUME NEW i \in 1..n PROVE k[i] = h[i]
    <3>1. i - 1 \in Nat /\ (i - 1) + 1 = i
      BY <1>1
    <3>2. i - 1 \in T
      BY <2>3, <3>1
    <3> QED
      BY <3>1, <3>2
  <2> QED
    BY <2>4
<1>9. h \in [1..n -> Seq(S)] /\ 1 \in 1..n /\ n \in 1..n
  BY <1>1, <1>3
<1> HIDE DEF h
<1>10. h[1] = ss[1] /\ FlattenSeq(ss) = h[n]
  BY <1>5, <1>7, <1>8, <1>9
<1>11. ASSUME NEW i \in 2..n PROVE h[i] = h[i - 1] \o ss[i]
  <2>1. i \in 1..n /\ i # 1
    BY <1>1
  <2> QED
    BY <1>5, <2>1
<1> QED
  BY <1>9, <1>10, <1>11

-----------------------------------------------------------------------------
(* Two elements of u are in s, in the same order.                          *)
InOrder(u, s) ==
    /\ \A a \in 1..Len(u) : \E i \in 1..Len(s) : u[a] = s[i]
    /\ \A a, b \in 1..Len(u) : a < b =>
          \E i, j \in 1..Len(s) : i < j /\ u[a] = s[i] /\ u[b] = s[j]

(* Only(s, T) keeps the elements in T, and their order.                    *)
LEMMA OnlyProperties ==
    ASSUME NEW S, NEW s \in Seq(S), NEW T
    PROVE  /\ Only(s, T) \in Seq(S) /\ ToSet(Only(s, T)) = ToSet(s) \cap T
           /\ InOrder(Only(s, T), s)
           /\ IsInjective(s) => IsInjective(Only(s, T))
<1> DEFINE n == Len(s)
           g == [p \in (1..n) \X Seq(S) |-> IF s[p[1]] \in T THEN Append(p[2], s[p[1]]) ELSE p[2]]
<1>1. n \in Nat /\ \A i \in 1..n : s[i] \in S
  OBVIOUS
<1>2. ASSUME NEW i \in 1..n, NEW x \in Seq(S)
      PROVE  /\ g[<<i, x>>] = IF s[i] \in T THEN Append(x, s[i]) ELSE x
             /\ g[<<i, x>>] \in Seq(S)
  <2>1. g[<<i, x>>] = IF s[i] \in T THEN Append(x, s[i]) ELSE x
    OBVIOUS
  <2> QED
    BY <1>1, <2>1
<1>3. PICK f \in [0..n -> Seq(S)] : IsRecursion(f, n, <<>>, g)
  <2> DEFINE D == Seq(S)
             a == <<>>
  <2>1. a \in D
    OBVIOUS
  <2>a. ASSUME NEW i \in 1..n, NEW x \in D PROVE g[<<i, x>>] \in D
    BY <1>2
  <2>2. \E f \in [0..n -> D] : IsRecursion(f, n, a, g)
    <3> HIDE DEF g, n, D, a
    <3> QED
      BY <1>1, <2>1, <2>a, RecursionExists
  <2> HIDE DEF g, n
  <2> QED
    BY <2>2
<1>4. ASSUME NEW i \in 0..n
      PROVE  f[i] = IF i = 0 THEN <<>>
                    ELSE IF s[i] \in T THEN Append(f[i - 1], s[i]) ELSE f[i - 1]
  <2> HIDE DEF g, n
  <2>1. CASE i = 0
    BY <1>3, <2>1 DEF IsRecursion
  <2>2. CASE i # 0
    <3>1. i \in 1..n /\ i - 1 \in 0..n
      BY <1>1, <2>2
    <3> QED
      BY <1>2, <1>3, <2>2, <3>1 DEF IsRecursion
  <2> QED
    BY <2>1, <2>2
<1>5. f = [i \in 0..n |-> IF i = 0 THEN <<>>
              ELSE IF s[i] \in T THEN Append(f[i - 1], s[i]) ELSE f[i - 1]]
  <2> HIDE DEF g, n
  <2> QED
    BY <1>4
<1> DEFINE k == CHOOSE k : k = [i \in 0..n |-> IF i = 0 THEN <<>>
                    ELSE IF s[i] \in T THEN Append(k[i - 1], s[i]) ELSE k[i - 1]]
<1>6. k = [i \in 0..n |-> IF i = 0 THEN <<>>
                    ELSE IF s[i] \in T THEN Append(k[i - 1], s[i]) ELSE k[i - 1]]
  <2> HIDE DEF n
  <2> QED
    BY <1>5
<1>7. Only(s, T) = k[n]
  BY DEF Only
<1> HIDE DEF k, g
(* A prefix of s has been looked at. *)
<1> DEFINE Upto(m) ==
      /\ k[m] \in Seq(S)
      /\ \A x : x \in ToSet(k[m]) <=> x \in T /\ \E i \in 1..m : s[i] = x
      /\ \A a, b \in 1..Len(k[m]) : a < b =>
            \E i, j \in 1..m : i < j /\ k[m][a] = s[i] /\ k[m][b] = s[j]
<1> DEFINE R == {m \in Nat : m \in 0..n => Upto(m)}
<1>8. 0 \in R
  <2>1. k[0] = <<>>
    BY <1>1, <1>6
  <2>2. \A x : x \notin ToSet(<<>>)
    BY DEF ToSet
  <2>3. <<>> \in Seq(S) /\ Len(<<>>) = 0
    OBVIOUS
  <2>4. Upto(0)
    <3> HIDE DEF n
    <3>1. \A x : ~ \E i \in 1..0 : s[i] = x
      OBVIOUS
    <3> QED
      BY <2>1, <2>2, <2>3, <3>1
  <2> HIDE DEF Upto
  <2> QED
    BY <2>4
<1>9. ASSUME NEW m \in Nat, m \in R PROVE m + 1 \in R
  <2> SUFFICES ASSUME m + 1 \in 0..n PROVE Upto(m + 1)
    <3> HIDE DEF Upto, n
    <3> QED
      OBVIOUS
  <2>1. m + 1 \in 1..n /\ m \in 0..n /\ m + 1 # 0 /\ (m + 1) - 1 = m /\ s[m + 1] \in S
    BY <1>1
  <2>2. Upto(m)
    BY <1>9, <2>1
  <2> DEFINE u == k[m]
             v == k[m + 1]
             y == s[m + 1]
  <2>3. v = IF y \in T THEN Append(u, y) ELSE u
    <3> HIDE DEF n
    <3> QED
      BY <1>6, <2>1
  <2>4. /\ u \in Seq(S) /\ y \in S
        /\ \A x : x \in ToSet(u) <=> x \in T /\ \E i \in 1..m : s[i] = x
        /\ \A a, b \in 1..Len(u) : a < b =>
            \E i, j \in 1..m : i < j /\ u[a] = s[i] /\ u[b] = s[j]
    BY <2>1, <2>2
  <2>5. y = s[m + 1]
    OBVIOUS
  <2> HIDE DEF u, v, y, n
  <2>6. CASE y \in T
    <3>1. /\ v \in Seq(S) /\ Len(v) = Len(u) + 1 /\ Len(u) \in Nat
          /\ \A i \in 1..Len(u) : v[i] = u[i]
          /\ v[Len(u) + 1] = y
      BY <2>3, <2>4, <2>6
    <3>2. ToSet(v) = ToSet(u) \cup {y}
      <4>1. DOMAIN v = 1..(Len(u) + 1) /\ DOMAIN u = 1..Len(u)
        BY <2>4, <3>1
      <4>2. ASSUME NEW x \in ToSet(v) PROVE x \in ToSet(u) \cup {y}
        <5>1. PICK i \in 1..(Len(u) + 1) : x = v[i]
          BY <4>1 DEF ToSet
        <5>2. i \in 1..Len(u) \/ i = Len(u) + 1
          BY <3>1
        <5> QED
          BY <3>1, <4>1, <5>1, <5>2 DEF ToSet
      <4>3. y \in ToSet(v)
        <5>1. Len(u) + 1 \in 1..(Len(u) + 1)
          BY <3>1
        <5> QED
          BY <3>1, <4>1, <5>1 DEF ToSet
      <4>4. ASSUME NEW x \in ToSet(u) PROVE x \in ToSet(v)
        <5>1. PICK i \in 1..Len(u) : x = u[i]
          BY <4>1 DEF ToSet
        <5>2. i \in 1..(Len(u) + 1) /\ x = v[i]
          BY <3>1, <5>1
        <5> QED
          BY <4>1, <5>2 DEF ToSet
      <4> QED
        BY <4>2, <4>3, <4>4
    <3>3. \A x : x \in ToSet(v) <=> x \in T /\ \E i \in 1..(m + 1) : s[i] = x
      <4>1. ASSUME NEW x, x \in ToSet(v) PROVE x \in T /\ \E i \in 1..(m + 1) : s[i] = x
        <5>1. CASE x = y
          BY <2>1, <2>5, <2>6, <5>1
        <5>2. CASE x # y
          <6>1. PICK i \in 1..m : s[i] = x
            BY <2>4, <3>2, <4>1, <5>2
          <6>2. i \in 1..(m + 1)
            OBVIOUS
          <6> QED
            BY <2>4, <3>2, <4>1, <5>2, <6>1, <6>2
        <5> QED
          BY <5>1, <5>2
      <4>2. ASSUME NEW x \in T, NEW i \in 1..(m + 1), s[i] = x PROVE x \in ToSet(v)
        <5>1. CASE i = m + 1
          BY <2>5, <3>2, <4>2, <5>1
        <5>2. CASE i \in 1..m
          BY <2>4, <3>2, <4>2, <5>2
        <5> QED
          BY <5>1, <5>2
      <4> QED
        BY <4>1, <4>2
    <3>4. ASSUME NEW a \in 1..Len(v), NEW b \in 1..Len(v), a < b
          PROVE  \E i, j \in 1..(m + 1) : i < j /\ v[a] = s[i] /\ v[b] = s[j]
      <4>1. a \in 1..Len(u) /\ v[a] = u[a]
        BY <3>1, <3>4
      <4>2. CASE b = Len(u) + 1
        <5>1. u[a] \in ToSet(u)
          BY <4>1, <2>4 DEF ToSet
        <5>2. PICK i \in 1..m : s[i] = u[a]
          BY <2>4, <5>1
        <5>3. i < m + 1 /\ i \in 1..(m + 1) /\ m + 1 \in 1..(m + 1) /\ v[b] = s[m + 1]
          BY <2>5, <3>1, <4>2
        <5> QED
          BY <4>1, <5>2, <5>3
      <4>3. CASE b \in 1..Len(u)
        <5>1. PICK i \in 1..m, j \in 1..m : i < j /\ u[a] = s[i] /\ u[b] = s[j]
          BY <2>4, <3>4, <4>1, <4>3
        <5>2. i \in 1..(m + 1) /\ j \in 1..(m + 1) /\ v[b] = u[b]
          BY <3>1, <4>3
        <5> QED
          BY <4>1, <5>1, <5>2
      <4> QED
        BY <3>1, <4>2, <4>3
    <3> QED
      BY <3>1, <3>3, <3>4 DEF v
  <2>7. CASE y \notin T
    <3>1. v = u
      BY <2>3, <2>7
    <3>2. ASSUME NEW x PROVE x \in ToSet(u) <=> x \in T /\ \E i \in 1..(m + 1) : s[i] = x
      <4>1. ASSUME x \in T, NEW i \in 1..(m + 1), s[i] = x PROVE i \in 1..m
        BY <2>5, <2>7, <4>1
      <4>2. \A i \in 1..m : i \in 1..(m + 1)
        OBVIOUS
      <4> QED
        BY <2>4, <4>1, <4>2
    <3>3. ASSUME NEW a \in 1..Len(u), NEW b \in 1..Len(u), a < b
          PROVE  \E i, j \in 1..(m + 1) : i < j /\ u[a] = s[i] /\ u[b] = s[j]
      <4>1. PICK i \in 1..m, j \in 1..m : i < j /\ u[a] = s[i] /\ u[b] = s[j]
        BY <2>4, <3>3
      <4>2. i \in 1..(m + 1) /\ j \in 1..(m + 1)
        OBVIOUS
      <4> QED
        BY <4>1, <4>2
    <3> QED
      BY <2>4, <3>1, <3>2, <3>3 DEF v
  <2> QED
    BY <2>6, <2>7
<1>10. Upto(n)
  <2>1. Nat \subseteq R
    <3> HIDE DEF R
    <3> QED
      BY <1>8, <1>9, SetInduction
  <2>2. n \in Nat /\ n \in 0..n
    BY <1>1
  <2> HIDE DEF Upto, n
  <2> QED
    BY <2>1, <2>2
<1> DEFINE w == Only(s, T)
<1>11. /\ w \in Seq(S)
       /\ \A x : x \in ToSet(w) <=> x \in T /\ \E i \in 1..n : s[i] = x
       /\ \A a, b \in 1..Len(w) : a < b =>
            \E i, j \in 1..n : i < j /\ w[a] = s[i] /\ w[b] = s[j]
  <2>1. w = k[n]
    BY <1>7
  <2> HIDE DEF w, n
  <2> QED
    BY <1>10, <2>1
<1> HIDE DEF w
<1>12. ToSet(w) = ToSet(s) \cap T
  BY <1>1, <1>11 DEF ToSet
<1>13. InOrder(w, s)
  <2>1. \A a \in 1..Len(w) : w[a] \in ToSet(w)
    BY <1>11 DEF ToSet
  <2> QED
    BY <1>11, <2>1 DEF InOrder
<1>14. ASSUME IsInjective(s) PROVE IsInjective(w)
  <2>1. \A i, j \in 1..n : s[i] = s[j] => i = j
    BY <1>1, <1>14 DEF IsInjective
  <2>2. DOMAIN w = 1..Len(w) /\ Len(w) \in Nat
    BY <1>11
  <2>3. ASSUME NEW a \in 1..Len(w), NEW b \in 1..Len(w), w[a] = w[b] PROVE a = b
    <3>1. ~(a < b)
      BY <1>11, <2>1, <2>3
    <3>2. ~(b < a)
      BY <1>11, <2>1, <2>3
    <3> QED
      BY <2>2, <3>1, <3>2
  <2> QED
    BY <2>2, <2>3 DEF IsInjective
<1> QED
  BY <1>11, <1>12, <1>13, <1>14 DEF w

(* The empty list, and lists that are not. *)
LEMMA EmptyList ==
    ASSUME NEW S
    PROVE  /\ <<>> \in Seq(S) /\ ToSet(<<>>) = {} /\ IsInjective(<<>>)
           /\ \A s \in Seq(S) : s # <<>> =>
                 /\ Len(s) \in Nat \ {0} /\ Head(s) = s[1] /\ Head(s) \in ToSet(s)
           /\ \A s \in Seq(S) : ToSet(s) = {} => s = <<>>
           /\ \A s \in Seq(S) : ToSet(s) \subseteq S
<1>1. <<>> \in Seq(S) /\ ToSet(<<>>) = {} /\ IsInjective(<<>>)
  BY DEF ToSet, IsInjective
<1>2. ASSUME NEW s \in Seq(S), s # <<>>
      PROVE  Len(s) \in Nat \ {0} /\ Head(s) = s[1] /\ Head(s) \in ToSet(s)
  <2>1. Len(s) \in Nat \ {0} /\ Head(s) = s[1] /\ 1 \in DOMAIN s
    BY <1>2
  <2> QED
    BY <2>1 DEF ToSet
<1>3. ASSUME NEW s \in Seq(S) PROVE ToSet(s) \subseteq S
  BY DEF ToSet
<1> QED
  BY <1>1, <1>2, <1>3

(* One list put behind another. *)
LEMMA JoinProperties ==
    ASSUME NEW S, NEW s \in Seq(S), NEW t \in Seq(S)
    PROVE  /\ s \o t \in Seq(S) /\ ToSet(s \o t) = ToSet(s) \cup ToSet(t)
           /\ IsInjective(s) /\ IsInjective(t) /\ ToSet(s) \cap ToSet(t) = {}
                 => IsInjective(s \o t)
<1> DEFINE u == s \o t
<1>1. /\ u \in Seq(S) /\ DOMAIN u = 1..(Len(s) + Len(t)) /\ Len(s) \in Nat /\ Len(t) \in Nat
      /\ \A i \in 1..Len(s) : u[i] = s[i]
      /\ \A i \in 1..Len(t) : u[i + Len(s)] = t[i]
      /\ DOMAIN s = 1..Len(s) /\ DOMAIN t = 1..Len(t)
  OBVIOUS
<1> HIDE DEF u
<1>2. \A i \in DOMAIN u : i \in 1..Len(s) \/ (i - Len(s) \in 1..Len(t) /\ u[i] = t[i - Len(s)])
  <2> SUFFICES ASSUME NEW i \in DOMAIN u, i \notin 1..Len(s)
               PROVE  i - Len(s) \in 1..Len(t) /\ u[i] = t[i - Len(s)]
    OBVIOUS
  <2>1. i - Len(s) \in 1..Len(t) /\ (i - Len(s)) + Len(s) = i
    BY <1>1
  <2> QED
    BY <1>1, <2>1
<1>3. ToSet(u) = ToSet(s) \cup ToSet(t)
  <2>1. ASSUME NEW x \in ToSet(u) PROVE x \in ToSet(s) \cup ToSet(t)
    <3>1. PICK i \in DOMAIN u : x = u[i]
      BY DEF ToSet
    <3> QED
      BY <1>1, <1>2, <3>1 DEF ToSet
  <2>2. ASSUME NEW x \in ToSet(s) PROVE x \in ToSet(u)
    <3>1. PICK i \in 1..Len(s) : x = s[i]
      BY <1>1 DEF ToSet
    <3>2. i \in DOMAIN u
      BY <1>1
    <3> QED
      BY <1>1, <3>1, <3>2 DEF ToSet
  <2>3. ASSUME NEW x \in ToSet(t) PROVE x \in ToSet(u)
    <3>1. PICK i \in 1..Len(t) : x = t[i]
      BY <1>1 DEF ToSet
    <3>2. i + Len(s) \in DOMAIN u
      BY <1>1
    <3> QED
      BY <1>1, <3>1, <3>2 DEF ToSet
  <2> QED
    BY <2>1, <2>2, <2>3
<1>4. ASSUME IsInjective(s), IsInjective(t), ToSet(s) \cap ToSet(t) = {}
      PROVE  IsInjective(u)
  <2>1. ASSUME NEW i \in 1..Len(s), NEW j \in 1..Len(t) PROVE s[i] # t[j]
    <3>1. s[i] \in ToSet(s) /\ t[j] \in ToSet(t)
      BY <1>1 DEF ToSet
    <3> QED
      BY <1>4, <3>1
  <2>2. \A i, j \in 1..Len(s) : s[i] = s[j] => i = j
    BY <1>1, <1>4 DEF IsInjective
  <2>3. \A i, j \in 1..Len(t) : t[i] = t[j] => i = j
    BY <1>1, <1>4 DEF IsInjective
  <2>4. ASSUME NEW i \in DOMAIN u, NEW j \in DOMAIN u, u[i] = u[j] PROVE i = j
    <3>1. CASE i \in 1..Len(s) /\ j \in 1..Len(s)
      BY <1>1, <2>2, <2>4, <3>1
    <3>2. CASE i \in 1..Len(s) /\ j \notin 1..Len(s)
      BY <1>1, <1>2, <2>1, <2>4, <3>2
    <3>3. CASE i \notin 1..Len(s) /\ j \in 1..Len(s)
      BY <1>1, <1>2, <2>1, <2>4, <3>3
    <3>4. CASE i \notin 1..Len(s) /\ j \notin 1..Len(s)
      <4>1. /\ i - Len(s) \in 1..Len(t) /\ j - Len(s) \in 1..Len(t)
            /\ t[i - Len(s)] = t[j - Len(s)]
        BY <1>2, <2>4, <3>4
      <4>2. i - Len(s) = j - Len(s)
        BY <2>3, <4>1
      <4> QED
        BY <1>1, <4>2
    <3> QED
      BY <3>1, <3>2, <3>3, <3>4
  <2> QED
    BY <2>4 DEF IsInjective
<1>5. /\ u \in Seq(S) /\ ToSet(u) = ToSet(s) \cup ToSet(t)
      /\ IsInjective(s) /\ IsInjective(t) /\ ToSet(s) \cap ToSet(t) = {} => IsInjective(u)
  BY <1>1, <1>3, <1>4
<1> QED
  BY <1>5, Zenon DEF u

(* A list cut after its n-th element. *)
LEMMA CutProperties ==
    ASSUME NEW S, NEW s \in Seq(S), NEW n \in 0..Len(s), IsInjective(s)
    PROVE  LET a == SubSeq(s, 1, n)
               b == SubSeq(s, n + 1, Len(s))
           IN  /\ a \in Seq(S) /\ b \in Seq(S) /\ IsInjective(a) /\ IsInjective(b)
               /\ ToSet(s) = ToSet(a) \cup ToSet(b) /\ ToSet(a) \cap ToSet(b) = {}
               /\ InOrder(b, s)
               /\ ToSet(a) = {s[i] : i \in 1..n}
               /\ ToSet(b) = {s[i] : i \in (n + 1)..Len(s)}
<1> DEFINE a == SubSeq(s, 1, n)
           b == SubSeq(s, n + 1, Len(s))
<1>1. /\ Len(s) \in Nat /\ n \in Nat /\ n <= Len(s) /\ DOMAIN s = 1..Len(s)
      /\ \A i, j \in 1..Len(s) : s[i] = s[j] => i = j
  BY DEF IsInjective
<1>2. /\ a \in Seq(S) /\ DOMAIN a = 1..n /\ Len(a) = n
      /\ \A i \in 1..n : a[i] = s[i]
  BY <1>1
<1>3. /\ b \in Seq(S) /\ DOMAIN b = 1..(Len(s) - n) /\ Len(b) = Len(s) - n
      /\ \A i \in 1..(Len(s) - n) : b[i] = s[i + n]
  <2>1. n + 1 \in Nat /\ \A i \in (n + 1)..Len(s) : s[i] \in S
    BY <1>1
  <2>2. /\ b \in Seq(S) /\ Len(b) = IF n + 1 <= Len(s) THEN Len(s) - (n + 1) + 1 ELSE 0
        /\ \A i \in 1..(Len(s) - (n + 1) + 1) : b[i] = s[(n + 1) + i - 1]
    BY <1>1, <2>1, SubSeqProperties
  <2> HIDE DEF b
  <2>3. Len(b) = Len(s) - n /\ Len(s) - (n + 1) + 1 = Len(s) - n
    <3>1. CASE n + 1 <= Len(s)
      BY <1>1, <2>2, <3>1
    <3>2. CASE ~(n + 1 <= Len(s))
      <4>1. n = Len(s)
        <5>1. Len(s) \in Nat /\ n \in Nat /\ n <= Len(s)
          BY <1>1
        <5> QED
          BY <3>2, <5>1
      <4>2. Len(b) = 0
        BY <2>2, <3>2
      <4> QED
        BY <1>1, <4>1, <4>2
    <3> QED
      BY <3>1, <3>2
  <2>4. ASSUME NEW i \in 1..(Len(s) - n) PROVE b[i] = s[i + n]
    <3>1. (n + 1) + i - 1 = i + n
      BY <1>1
    <3> QED
      BY <2>2, <2>3, <3>1
  <2> QED
    BY <2>2, <2>3, <2>4
<1> HIDE DEF a, b
<1>4. ToSet(a) = {s[i] : i \in 1..n}
  BY <1>2 DEF ToSet
<1>5. ToSet(b) = {s[i] : i \in (n + 1)..Len(s)}
  <2>1. ASSUME NEW x \in ToSet(b) PROVE x \in {s[i] : i \in (n + 1)..Len(s)}
    <3>1. PICK i \in 1..(Len(s) - n) : x = b[i]
      BY <1>3 DEF ToSet
    <3>2. i + n \in (n + 1)..Len(s) /\ x = s[i + n]
      BY <1>1, <1>3, <3>1
    <3> QED
      BY <3>2
  <2>2. ASSUME NEW i \in (n + 1)..Len(s) PROVE s[i] \in ToSet(b)
    <3>1. i - n \in 1..(Len(s) - n) /\ (i - n) + n = i
      BY <1>1
    <3>2. b[i - n] = s[i]
      BY <1>3, <3>1
    <3> QED
      BY <1>3, <3>1, <3>2 DEF ToSet
  <2> QED
    BY <2>1, <2>2
<1>6. ToSet(s) = ToSet(a) \cup ToSet(b)
  <2>1. \A i \in 1..Len(s) : i \in 1..n \/ i \in (n + 1)..Len(s)
    BY <1>1
  <2>2. \A i \in 1..n : i \in 1..Len(s)
    BY <1>1
  <2>3. \A i \in (n + 1)..Len(s) : i \in 1..Len(s)
    BY <1>1
  <2>4. ToSet(s) = {s[i] : i \in 1..Len(s)}
    BY <1>1 DEF ToSet
  <2> QED
    BY <1>4, <1>5, <2>1, <2>2, <2>3, <2>4
<1>7. ToSet(a) \cap ToSet(b) = {}
  <2> SUFFICES ASSUME NEW i \in 1..n, NEW j \in (n + 1)..Len(s) PROVE s[i] # s[j]
    BY <1>4, <1>5
  <2>1. i \in 1..Len(s) /\ j \in 1..Len(s) /\ i # j
    BY <1>1
  <2> QED
    BY <1>1, <2>1
<1>8. IsInjective(a)
  <2>1. \A i \in 1..n : i \in 1..Len(s)
    BY <1>1
  <2> QED
    BY <1>1, <1>2, <2>1 DEF IsInjective
<1>9. IsInjective(b)
  <2> SUFFICES ASSUME NEW i \in 1..(Len(s) - n), NEW j \in 1..(Len(s) - n), b[i] = b[j]
               PROVE  i = j
    BY <1>3 DEF IsInjective
  <2>1. i + n \in 1..Len(s) /\ j + n \in 1..Len(s) /\ s[i + n] = s[j + n]
    BY <1>1, <1>3
  <2>2. i + n = j + n
    BY <1>1, <2>1
  <2> QED
    BY <1>1, <2>2
<1>10. InOrder(b, s)
  <2>1. \A x \in 1..(Len(s) - n) : x + n \in 1..Len(s) /\ b[x] = s[x + n]
    BY <1>1, <1>3
  <2>2. \A x, y \in 1..(Len(s) - n) : x < y => x + n < y + n
    BY <1>1
  <2> QED
    BY <1>3, <2>1, <2>2 DEF InOrder
<1> QED
  BY <1>2, <1>3, <1>4, <1>5, <1>6, <1>7, <1>8, <1>9, <1>10 DEF a, b

(* InOrder is a preorder. *)
LEMMA InOrderTransitive ==
    ASSUME NEW s, NEW t, NEW u, InOrder(t, s), InOrder(u, t)
    PROVE  InOrder(u, s)
<1>1. ASSUME NEW a \in 1..Len(u) PROVE \E i \in 1..Len(s) : u[a] = s[i]
  <2>1. PICK j \in 1..Len(t) : u[a] = t[j]
    BY DEF InOrder
  <2>2. PICK i \in 1..Len(s) : t[j] = s[i]
    BY DEF InOrder
  <2> QED
    BY <2>1, <2>2
<1>2. ASSUME NEW a \in 1..Len(u), NEW b \in 1..Len(u), a < b
      PROVE  \E i, j \in 1..Len(s) : i < j /\ u[a] = s[i] /\ u[b] = s[j]
  <2>1. PICK i \in 1..Len(t), j \in 1..Len(t) : i < j /\ u[a] = t[i] /\ u[b] = t[j]
    BY <1>2 DEF InOrder
  <2>2. PICK m \in 1..Len(s), n \in 1..Len(s) : m < n /\ t[i] = s[m] /\ t[j] = s[n]
    BY <2>1 DEF InOrder
  <2> QED
    BY <2>1, <2>2
<1> QED
  BY <1>1, <1>2 DEF InOrder

LEMMA InOrderReflexive ==
    ASSUME NEW s
    PROVE  InOrder(s, s)
BY DEF InOrder

-----------------------------------------------------------------------------
(* The links f lead from h through the members of A, each once, to z.      *)
IsListing(s, f, h, z, A) ==
    /\ IsInjective(s) /\ ToSet(s) = A
    /\ h = IF s = <<>> THEN z ELSE s[1]
    /\ \A i \in 1..Len(s) : f[s[i]] = IF i = Len(s) THEN z ELSE s[i + 1]

IsList(f, h, z, A) == \E s \in Seq(A) : IsListing(s, f, h, z, A)


LEMMA IndexFacts ==
    ASSUME NEW n \in Nat
    PROVE  /\ n # 0 => 1 \in 1..n /\ n \in 1..n /\ n >= 1
           /\ \A i \in 1..n : i # n => i + 1 \in 1..n
           /\ \A i \in 1..n : i # n => i \in 1..(n - 1)
           /\ \A i \in 1..(n - 1) : i \in 1..n /\ i + 1 \in 1..n /\ i # n
OBVIOUS

(* The members' links are all that matters. *)
LEMMA ListFrame ==
    ASSUME NEW f, NEW g, NEW h, NEW z, NEW A, IsList(f, h, z, A),
           \A x \in A : g[x] = f[x]
    PROVE  IsList(g, h, z, A)
<1>1. PICK s \in Seq(A) : IsListing(s, f, h, z, A)
  BY DEF IsList
<1>2. \A i \in 1..Len(s) : s[i] \in A
  OBVIOUS
<1>3. IsListing(s, g, h, z, A)
  BY <1>1, <1>2 DEF IsListing
<1> QED
  BY <1>3 DEF IsList

(* Where a list starts, and where its links lead. *)
LEMMA ListEnds ==
    ASSUME NEW f, NEW h, NEW z, NEW A, z \notin A, IsList(f, h, z, A)
    PROVE  /\ h = z <=> A = {}
           /\ h # z => h \in A
           /\ \A x \in A : f[x] \in A \cup {z}
<1>1. PICK s \in Seq(A) : IsListing(s, f, h, z, A)
  BY DEF IsList
<1>2. Len(s) \in Nat /\ DOMAIN s = 1..Len(s) /\ \A i \in 1..Len(s) : s[i] \in A
  OBVIOUS
<1>3. A = {s[i] : i \in 1..Len(s)}
  BY <1>1, <1>2 DEF IsListing, ToSet
<1>4. CASE s = <<>>
  <2>1. A = {} /\ h = z
    BY <1>1, <1>3, <1>4 DEF IsListing
  <2> QED
    BY <2>1
<1>5. CASE s # <<>>
  <2>1. Len(s) >= 1 /\ h = s[1] /\ 1 \in 1..Len(s)
    <3>1. Len(s) # 0
      BY <1>5
    <3>2. Len(s) >= 1 /\ 1 \in 1..Len(s)
      BY <1>2, <3>1, IndexFacts
    <3> QED
      BY <1>1, <1>5, <3>2 DEF IsListing
  <2>2. h \in A /\ h # z
    BY <1>2, <2>1
  <2>3. ASSUME NEW x \in A PROVE f[x] \in A \cup {z}
    <3>1. PICK i \in 1..Len(s) : x = s[i]
      BY <1>3
    <3>2. f[x] = IF i = Len(s) THEN z ELSE s[i + 1]
      BY <1>1, <3>1 DEF IsListing
    <3>3. i # Len(s) => i + 1 \in 1..Len(s)
      BY <1>2, IndexFacts
    <3> QED
      BY <1>2, <3>2, <3>3
  <2> QED
    BY <2>2, <2>3
<1> QED
  BY <1>4, <1>5

LEMMA EmptyIsList ==
    ASSUME NEW f, NEW z
    PROVE  IsList(f, z, z, {})
<1>1. <<>> \in Seq({}) /\ IsInjective(<<>>) /\ ToSet(<<>>) = {} /\ Len(<<>>) = 0
  BY DEF IsInjective, ToSet
<1>2. IsListing(<<>>, f, z, z, {})
  BY <1>1 DEF IsListing
<1> QED
  BY <1>1, <1>2 DEF IsList

LEMMA SingleIsList ==
    ASSUME NEW f, NEW z, NEW x, f[x] = z
    PROVE  IsList(f, x, z, {x})
<1> DEFINE s == <<x>>
<1>1. s \in Seq({x}) /\ s # <<>> /\ Len(s) = 1 /\ s[1] = x /\ DOMAIN s = 1..1
  OBVIOUS
<1> HIDE DEF s
<1>2. IsInjective(s) /\ ToSet(s) = {x}
  BY <1>1 DEF IsInjective, ToSet
<1>3. IsListing(s, f, x, z, {x})
  BY <1>1, <1>2 DEF IsListing
<1> QED
  BY <1>1, <1>3 DEF IsList

(* The first member taken off. *)
LEMMA ListPop ==
    ASSUME NEW f, NEW h, NEW z, NEW A, z \notin A, IsList(f, h, z, A), h # z
    PROVE  h \in A /\ IsList(f, f[h], z, A \ {h})
<1>1. PICK s \in Seq(A) : IsListing(s, f, h, z, A)
  BY DEF IsList
<1>2. s # <<>> /\ h = s[1]
  BY <1>1 DEF IsListing
<1> DEFINE t == Tail(s)
<1>3. /\ Len(s) \in Nat \ {0} /\ DOMAIN s = 1..Len(s) /\ Head(s) = s[1]
      /\ Len(t) = Len(s) - 1 /\ \A i \in 1..(Len(s) - 1) : t[i] = s[i + 1]
      /\ DOMAIN t = 1..(Len(s) - 1) /\ (t = <<>> <=> Len(t) = 0)
  <2>1. Len(s) \in Nat \ {0} /\ DOMAIN s = 1..Len(s) /\ Head(s) = s[1]
    BY <1>2
  <2>2. /\ t \in Seq(A) /\ Len(t) = Len(s) - 1 /\ \A i \in 1..(Len(s) - 1) : t[i] = s[i + 1]
        /\ DOMAIN t = 1..(Len(s) - 1)
    BY <1>2
  <2>3. t = <<>> <=> Len(t) = 0
    <3> HIDE DEF t
    <3> QED
      BY <2>2
  <2> QED
    BY <2>1, <2>2, <2>3
<1>4. IsInjective(s) /\ ToSet(s) = A
  BY <1>1 DEF IsListing
<1>5. h \in A /\ IsInjective(t) /\ ToSet(t) = A \ {h} /\ t \in Seq(A)
  BY <1>2, <1>3, <1>4, PopProperties
<1> HIDE DEF t
<1>6. t \in Seq(A \ {h})
  <2>1. \A i \in 1..Len(t) : t[i] \in A \ {h}
    BY <1>3, <1>5 DEF ToSet
  <2> QED
    BY <1>3, <1>5, <2>1
<1>7. f[h] = IF t = <<>> THEN z ELSE t[1]
  <2>1. f[h] = IF 1 = Len(s) THEN z ELSE s[2]
    <3>1. 1 \in 1..Len(s) /\ 1 + 1 = 2
      BY <1>3, IndexFacts
    <3>2. \A i \in 1..Len(s) : f[s[i]] = IF i = Len(s) THEN z ELSE s[i + 1]
      BY <1>1 DEF IsListing
    <3>3. f[s[1]] = IF 1 = Len(s) THEN z ELSE s[1 + 1]
      BY <3>1, <3>2
    <3> QED
      BY <1>2, <3>1, <3>3
  <2>2. ASSUME t # <<>> PROVE t[1] = s[2]
    <3>1. 1 \in 1..(Len(s) - 1) /\ 1 + 1 = 2
      BY <1>3, <2>2
    <3>2. t[1] = s[1 + 1]
      BY <1>3, <3>1
    <3> QED
      BY <3>1, <3>2
  <2>3. t = <<>> <=> 1 = Len(s)
    BY <1>3
  <2> QED
    BY <2>1, <2>2, <2>3
<1>8. ASSUME NEW i \in 1..Len(t) PROVE f[t[i]] = IF i = Len(t) THEN z ELSE t[i + 1]
  <2>1. i + 1 \in 1..Len(s) /\ t[i] = s[i + 1] /\ (i = Len(t) <=> i + 1 = Len(s))
    BY <1>3
  <2>2. f[t[i]] = IF i + 1 = Len(s) THEN z ELSE s[(i + 1) + 1]
    BY <1>1, <2>1 DEF IsListing
  <2>3. ASSUME i # Len(t) PROVE t[i + 1] = s[(i + 1) + 1]
    <3>1. Len(t) \in Nat
      BY <1>5
    <3>2. i + 1 \in 1..Len(t)
      BY <2>3, <3>1, IndexFacts
    <3> QED
      BY <1>3, <3>2
  <2> QED
    BY <2>1, <2>2, <2>3
<1>9. IsListing(t, f, f[h], z, A \ {h})
  BY <1>5, <1>7, <1>8 DEF IsListing
<1> QED
  BY <1>5, <1>6, <1>9 DEF IsList

(* The end of one list linked to the start of another. *)
LEMMA ListJoin ==
    ASSUME NEW f, NEW g, NEW h, NEW b, NEW z, NEW A, NEW B, NEW last \in A,
           z \notin A, IsList(f, h, z, A), f[last] = z,
           IsList(g, b, z, B), A \cap B = {},
           \A x \in A \ {last} : g[x] = f[x], g[last] = b
    PROVE  IsList(g, h, z, A \cup B)
<1>1. PICK s \in Seq(A) : IsListing(s, f, h, z, A)
  BY DEF IsList
<1>2. PICK t \in Seq(B) : IsListing(t, g, b, z, B)
  BY DEF IsList
<1>3. /\ IsInjective(s) /\ ToSet(s) = A /\ h = IF s = <<>> THEN z ELSE s[1]
      /\ \A i \in 1..Len(s) : f[s[i]] = IF i = Len(s) THEN z ELSE s[i + 1]
  BY <1>1 DEF IsListing
<1>4. /\ IsInjective(t) /\ ToSet(t) = B /\ b = IF t = <<>> THEN z ELSE t[1]
      /\ \A i \in 1..Len(t) : g[t[i]] = IF i = Len(t) THEN z ELSE t[i + 1]
  BY <1>2 DEF IsListing
<1> DEFINE S == A \cup B
           u == s \o t
<1>5. s \in Seq(S) /\ t \in Seq(S)
  OBVIOUS
<1>6. u \in Seq(S) /\ ToSet(u) = S /\ IsInjective(u)
  <2> HIDE DEF S
  <2>1. /\ u \in Seq(S) /\ ToSet(u) = ToSet(s) \cup ToSet(t)
        /\ IsInjective(u)
    BY <1>3, <1>4, <1>5, JoinProperties
  <2> QED
    BY <1>3, <1>4, <2>1 DEF S
<1>7. /\ Len(s) \in Nat /\ Len(t) \in Nat /\ Len(u) = Len(s) + Len(t)
      /\ \A i \in 1..Len(s) : u[i] = s[i]
      /\ \A i \in 1..Len(t) : u[i + Len(s)] = t[i]
      /\ DOMAIN s = 1..Len(s)
  BY <1>5
<1> HIDE DEF u
<1>8. Len(s) # 0 /\ s[Len(s)] = last
  <2>1. PICK i \in 1..Len(s) : s[i] = last
    BY <1>3, <1>7 DEF ToSet
  <2>2. i # Len(s) => i + 1 \in 1..Len(s) /\ s[i + 1] \in A /\ f[last] = s[i + 1]
    <3>1. ASSUME i # Len(s) PROVE i + 1 \in 1..Len(s)
      BY <1>7, <3>1, IndexFacts
    <3>2. \A j \in 1..Len(s) : s[j] \in A
      OBVIOUS
    <3> QED
      BY <1>3, <2>1, <3>1, <3>2
  <2>3. i = Len(s)
    BY <2>2
  <2> QED
    BY <1>7, <2>1, <2>3
<1>9. h = IF u = <<>> THEN z ELSE u[1]
  <2>1. s # <<>> /\ 1 \in 1..Len(s)
    BY <1>7, <1>8
  <2>2. u # <<>>
    BY <1>7, <1>8
  <2> QED
    BY <1>3, <1>7, <2>1, <2>2
<1>10. ASSUME NEW i \in 1..Len(u) PROVE g[u[i]] = IF i = Len(u) THEN z ELSE u[i + 1]
  <2>1. CASE i \in 1..(Len(s) - 1)
    <3>1. i \in 1..Len(s) /\ i + 1 \in 1..Len(s) /\ i # Len(s) /\ i # Len(u) /\ Len(s) \in 1..Len(s)
      <4>1. i \in 1..Len(s) /\ i + 1 \in 1..Len(s) /\ i # Len(s) /\ Len(s) \in 1..Len(s)
        BY <1>7, <1>8, <2>1, IndexFacts
      <4>a. Len(s) \in Nat /\ Len(t) \in Nat
        BY <1>7
      <4>2. i # Len(s) + Len(t)
        BY <2>1, <4>a
      <4> QED
        BY <1>7, <4>1, <4>2
    <3>2. s[i] # last /\ s[i] \in A
      <4>1. \A a, c \in 1..Len(s) : s[a] = s[c] => a = c
        BY <1>3, <1>7 DEF IsInjective
      <4>2. s[i] \in A
        BY <3>1
      <4> QED
        BY <1>8, <3>1, <4>1, <4>2
    <3>3. f[s[i]] = s[i + 1]
      BY <1>3, <3>1
    <3>4. u[i] = s[i] /\ u[i + 1] = s[i + 1]
      BY <1>7, <3>1
    <3> QED
      BY <3>1, <3>2, <3>3, <3>4
  <2>2. CASE i = Len(s)
    <3>1. u[i] = last
      BY <1>7, <1>8, <2>2
    <3>2. CASE t = <<>>
      BY <1>4, <1>7, <2>2, <3>1, <3>2
    <3>3. CASE t # <<>>
      <4>0. Len(t) # 0
        BY <3>3
      <4>a. 1 \in 1..Len(t) /\ Len(t) >= 1
        BY <1>7, <4>0, IndexFacts
      <4>b. Len(s) \in Nat /\ Len(t) \in Nat
        BY <1>7
      <4>c. i # Len(s) + Len(t) /\ 1 + Len(s) = i + 1
        BY <2>2, <4>a, <4>b
      <4>1. 1 \in 1..Len(t) /\ i # Len(u) /\ 1 + Len(s) = i + 1
        BY <1>7, <4>a, <4>c
      <4>2. u[i + 1] = t[1]
        BY <1>7, <4>1
      <4> QED
        BY <1>4, <3>1, <3>3, <4>1, <4>2
    <3> QED
      BY <3>2, <3>3
  <2>3. CASE i > Len(s)
    <3> DEFINE j == i - Len(s)
    <3>1. j \in 1..Len(t) /\ j + Len(s) = i /\ (i = Len(u) <=> j = Len(t))
      BY <1>7, <2>3
    <3>2. (i # Len(u)) => (j + 1 \in 1..Len(t) /\ (j + 1) + Len(s) = i + 1)
      BY <1>7, <3>1
    <3> HIDE DEF j
    <3>3. u[i] = t[j] /\ (i # Len(u) => u[i + 1] = t[j + 1])
      BY <1>7, <3>1, <3>2
    <3> QED
      BY <1>4, <3>1, <3>2, <3>3
  <2>4. i \in Nat /\ Len(s) \in Nat /\ i >= 1
    BY <1>7
  <2>5. i \in 1..(Len(s) - 1) \/ i = Len(s) \/ i > Len(s)
    BY <2>4
  <2> QED
    BY <2>1, <2>2, <2>3, <2>5
<1>11. IsListing(u, g, h, z, S)
  <2> HIDE DEF S
  <2> QED
    BY <1>6, <1>9, <1>10 DEF IsListing
<1> QED
  BY <1>6, <1>11 DEF IsList

(* A new first member. *)
LEMMA ListPush ==
    ASSUME NEW f, NEW h, NEW z, NEW A, NEW x, z \notin A, x # z, x \notin A,
           IsList(f, h, z, A), f[x] = h
    PROVE  IsList(f, x, z, A \cup {x})
<1> DEFINE k == [y \in {x} |-> z]
           X == {x}
<1>1. k[x] = z /\ z \notin X /\ x \in X /\ X \cap A = {} /\ \A y \in X \ {x} : f[y] = k[y]
  OBVIOUS
<1> HIDE DEF k
<1>2. IsList(k, x, z, X)
  BY <1>1, SingleIsList
<1> HIDE DEF X
<1>3. IsList(f, x, z, X \cup A)
  BY <1>1, <1>2, ListJoin
<1>4. X \cup A = A \cup {x}
  BY DEF X
<1> QED
  BY <1>3, <1>4
=============================================================================
