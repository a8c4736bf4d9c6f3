-------------------------- MODULE Coroutine_proofs --------------------------
(***************************************************************************)
(* Proofs about Coroutine, for any threads and coroutines: as long as no   *)
(* caller invokes restart() on a running coroutine, the assertions of the  *)
(* source hold, no two callers share a stack, every switch resumes where   *)
(* its target stopped, no stack is freed under a coroutine, and the links  *)
(* are the stacks of ContStack.                                            *)
(***************************************************************************)
EXTENDS Coroutine, ListFacts

Disciplined == RestartFrom \subseteq Status \ {"Running"}

(* The invariant holds at the start. *)
LEMMA InitCoroInv == Init => CoroInv
<1> SUFFICES ASSUME Init PROVE CoroInv
  OBVIOUS
<1> USE CoroAssumption DEF Init, All
<1>1. TypeOK /\ AssertionsHold /\ OneCaller /\ ResumesRight /\ StackLive
  BY DEF TypeOK, AssertionsHold, OneCaller, ResumesRight, StackLive, Status
<1>2. OneHome
  <2>1. PICK u \in Threads : TRUE
    OBVIOUS
  <2>2. SameHome([c \in All |-> IF c \in Threads THEN c ELSE u])
    BY DEF SameHome
  <2> QED
    BY <2>2 DEF OneHome
<1> QED
  BY <1>1, <1>2 DEF CoroInv, ChainsDisjoint

(* A thread's first contact with the class, in currentCoroutine(). *)
LEMMA CurrentCoroutineInv ==
    ASSUME CoroInv, NEW t \in Threads, CurrentCoroutine(t)
    PROVE  CoroInv'
<1> USE CoroAssumption DEF CoroInv, ChainsDisjoint, CurrentCoroutine, EnsureRoot, All
<1>1. PICK home \in [All -> Threads] : SameHome(home)
  BY DEF OneHome
<1>2. TypeOK'
  BY DEF TypeOK, Status
<1>3. AssertionsHold'
  BY DEF TypeOK, AssertionsHold
<1>4. OneCaller'
  BY DEF TypeOK, AssertionsHold, OneCaller
<1>5. OneHome'
  <2>1. SameHome(home)'
    BY <1>1 DEF TypeOK, AssertionsHold, SameHome
  <2> QED
    BY <2>1 DEF OneHome
<1>6. ResumesRight'
  BY DEF TypeOK, AssertionsHold, OneCaller, ResumesRight
<1>7. StackLive'
  BY DEF TypeOK, AssertionsHold, StackLive
<1> QED
  BY <1>2, <1>3, <1>4, <1>5, <1>6, <1>7

(* The constructor. *)
LEMMA ConstructInv ==
    ASSUME CoroInv, NEW t \in Threads, NEW c \in Coros, Construct(t, c)
    PROVE  CoroInv'
<1> USE CoroAssumption DEF CoroInv, ChainsDisjoint, Construct, EnsureRoot, All
<1>1. PICK home \in [All -> Threads] : SameHome(home)
  BY DEF OneHome
<1>2. TypeOK'
  BY DEF TypeOK, Status
<1>3. AssertionsHold'
  BY DEF TypeOK, AssertionsHold
<1>4. OneCaller'
  BY DEF TypeOK, AssertionsHold, OneCaller
<1>5. OneHome'
  <2>1. SameHome(home)'
    BY <1>1 DEF TypeOK, AssertionsHold, SameHome
  <2> QED
    BY <2>1 DEF OneHome
<1>6. ResumesRight'
  BY DEF TypeOK, AssertionsHold, OneCaller, ResumesRight
<1>7. StackLive'
  BY DEF TypeOK, AssertionsHold, StackLive
<1> QED
  BY <1>2, <1>3, <1>4, <1>5, <1>6, <1>7

(* The destructor, of a coroutine or of a thread's root. *)
LEMMA DeleteInv ==
    ASSUME CoroInv, NEW t \in Threads, NEW c \in All, Delete(t, c)
    PROVE  CoroInv'
<1> USE CoroAssumption DEF CoroInv, ChainsDisjoint, Delete, All
<1>1. PICK home \in [All -> Threads] : SameHome(home)
  BY DEF OneHome
<1>2. TypeOK'
  BY DEF TypeOK, Status
<1>3. AssertionsHold'
  BY DEF TypeOK, AssertionsHold
<1>4. OneCaller'
  BY DEF TypeOK, AssertionsHold, OneCaller
<1>5. OneHome'
  <2>1. SameHome(home)'
    BY <1>1 DEF TypeOK, AssertionsHold, SameHome
  <2> QED
    BY <2>1 DEF OneHome
<1>6. ResumesRight'
  BY DEF TypeOK, AssertionsHold, OneCaller, ResumesRight
<1>7. StackLive'
  BY DEF TypeOK, AssertionsHold, StackLive
<1> QED
  BY <1>2, <1>3, <1>4, <1>5, <1>6, <1>7

(* createStack() and setStack(). *)
LEMMA GiveStackInv ==
    ASSUME CoroInv, NEW t \in Threads, NEW c \in Coros,
           CreateStack(t, c) \/ SetStack(t, c)
    PROVE  CoroInv'
<1> USE CoroAssumption DEF CoroInv, ChainsDisjoint, CreateStack, SetStack, GiveStack, All
<1>1. PICK home \in [All -> Threads] : SameHome(home)
  BY DEF OneHome
<1>2. TypeOK'
  BY DEF TypeOK, Status
<1>3. AssertionsHold'
  BY DEF TypeOK, AssertionsHold
<1>4. OneCaller'
  BY DEF TypeOK, AssertionsHold, OneCaller
<1>5. OneHome'
  <2>1. SameHome(home)'
    BY <1>1 DEF TypeOK, AssertionsHold, SameHome
  <2> QED
    BY <2>1 DEF OneHome
<1>6. ResumesRight'
  BY DEF TypeOK, AssertionsHold, OneCaller, ResumesRight
<1>7. StackLive'
  BY DEF TypeOK, AssertionsHold, StackLive
<1> QED
  BY <1>2, <1>3, <1>4, <1>5, <1>6, <1>7

(* restart() of a coroutine that is not running. *)
LEMMA RestartInv ==
    ASSUME CoroInv, NEW t \in Threads, NEW c \in Coros, Disciplined,
           Restart(t, c)
    PROVE  CoroInv'
<1> USE CoroAssumption DEF CoroInv, ChainsDisjoint, Restart, Disciplined, All
<1>1. PICK home \in [All -> Threads] : SameHome(home)
  BY DEF OneHome
<1>2. TypeOK'
  BY DEF TypeOK, Status
<1>3. AssertionsHold'
  BY DEF TypeOK, AssertionsHold
<1>4. OneCaller'
  BY DEF TypeOK, AssertionsHold, OneCaller
<1>5. OneHome'
  <2>1. SameHome(home)'
    BY <1>1 DEF TypeOK, AssertionsHold, SameHome
  <2> QED
    BY <2>1 DEF OneHome
<1>6. ResumesRight'
  BY DEF TypeOK, AssertionsHold, OneCaller, ResumesRight
<1>7. StackLive'
  BY DEF TypeOK, AssertionsHold, StackLive
<1> QED
  BY <1>2, <1>3, <1>4, <1>5, <1>6, <1>7

(* cont(). *)
LEMMA ContInv ==
    ASSUME CoroInv, NEW t \in Threads, NEW c \in Coros, Cont(t, c)
    PROVE  CoroInv'
<1> USE CoroAssumption DEF CoroInv, ChainsDisjoint, Cont, All
<1>1. PICK home \in [All -> Threads] : SameHome(home)
  BY DEF OneHome
<1>2. TypeOK'
  BY DEF TypeOK, Status
<1>3. AssertionsHold'
  BY DEF TypeOK, AssertionsHold
<1>4. OneCaller'
  <2>1. \A x \in All : status'[x] = "Running" =>
          \/ \E u \in Threads : current'[u] = x
          \/ \E d \in All : caller'[d] = x
    BY <1>1 DEF TypeOK, AssertionsHold, OneCaller
  <2>2. ASSUME NEW d \in All, caller'[d] # Null
        PROVE  /\ status'[caller'[d]] = "Running"
               /\ \A u \in Threads : current'[u] # caller'[d]
    BY <1>1, <2>2 DEF TypeOK, AssertionsHold, OneCaller, SameHome
  <2>3. ASSUME NEW d \in All, caller'[d] # Null, NEW e \in All, caller'[e] = caller'[d]
        PROVE  e = d
    BY <1>1, <2>3 DEF TypeOK, AssertionsHold, OneCaller, SameHome
  <2> QED
    BY <2>1, <2>2, <2>3 DEF OneCaller
<1>5. OneHome'
  <2>1. SameHome([home EXCEPT ![c] = t])'
    BY <1>1 DEF TypeOK, AssertionsHold, OneCaller, SameHome
  <2> QED
    BY <2>1 DEF OneHome
<1>6. ResumesRight'
  BY DEF TypeOK, AssertionsHold, OneCaller, ResumesRight
<1>7. StackLive'
  BY DEF TypeOK, AssertionsHold, ResumesRight, StackLive
<1> QED
  BY <1>2, <1>3, <1>4, <1>5, <1>6, <1>7

(* yield() and the end of run(). *)
LEMMA YieldHelperInv ==
    ASSUME CoroInv, NEW t \in Threads, NEW s \in {"Stopped", "Terminated"},
           YieldHelper(t, s)
    PROVE  CoroInv'
<1> USE CoroAssumption DEF CoroInv, ChainsDisjoint, YieldHelper, All
<1>1. PICK home \in [All -> Threads] : SameHome(home)
  BY DEF OneHome
<1>2. TypeOK'
  BY <1>1 DEF TypeOK, Status, AssertionsHold, SameHome
<1>3. AssertionsHold'
  BY <1>1 DEF TypeOK, AssertionsHold, OneCaller, SameHome
<1>4. OneCaller'
  BY <1>1 DEF TypeOK, AssertionsHold, OneCaller, SameHome
<1>5. OneHome'
  <2>1. SameHome(home)'
    BY <1>1 DEF TypeOK, AssertionsHold, SameHome
  <2> QED
    BY <2>1 DEF OneHome
<1>6. ResumesRight'
  BY DEF TypeOK, AssertionsHold, OneCaller, ResumesRight
<1>7. StackLive'
  BY DEF TypeOK, AssertionsHold, SameHome, StackLive
<1> QED
  BY <1>2, <1>3, <1>4, <1>5, <1>6, <1>7

(* Every step preserves the invariant. *)
LEMMA NextCoroInv ==
    ASSUME Disciplined, CoroInv, [Next]_vars
    PROVE  CoroInv'
<1>1. CASE UNCHANGED vars
  BY <1>1 DEF vars, CoroInv, TypeOK, AssertionsHold, ChainsDisjoint,
       OneCaller, OneHome, SameHome, ResumesRight, StackLive
<1>2. ASSUME NEW t \in Threads, NEW c \in Coros, ContNoContext(t, c)
      PROVE  CoroInv'
  BY <1>2 DEF ContNoContext, CoroInv, TypeOK, AssertionsHold, ChainsDisjoint,
       OneCaller, OneHome, SameHome, ResumesRight, StackLive
<1>3. ASSUME NEW t \in Threads, Step(t)
      PROVE  CoroInv'
  BY <1>2, <1>3, CurrentCoroutineInv, ConstructInv, DeleteInv, GiveStackInv,
     RestartInv, ContInv, YieldHelperInv
     DEF Step, Yield, EntryPointEnds, ThreadExit, All
<1> QED
  BY <1>1, <1>3 DEF Next

(* The coroutine library keeps its invariant under every sequence of calls *)
(* on any threads, provided restart() is not used on a running coroutine.  *)
THEOREM CoroutineInvariant == Disciplined => (Spec => []CoroInv)
<1> SUFFICES ASSUME Disciplined PROVE Spec => []CoroInv
  OBVIOUS
<1>1. Init => CoroInv
  BY InitCoroInv
<1>2. CoroInv /\ [Next]_vars => CoroInv'
  BY NextCoroInv
<1> QED
  BY <1>1, <1>2, PTL DEF Spec

(* Status, caller, stack and saved stack pointer of every coroutine, and   *)
(* the current coroutine of every thread, stay what the class declares.    *)
THEOREM CoroutineTypes == Disciplined => (Spec => []TypeOK)
<1> SUFFICES ASSUME Disciplined PROVE Spec => []TypeOK
  OBVIOUS
<1>1. CoroInv => TypeOK
  BY DEF CoroInv
<1>2. Spec => []CoroInv
  BY CoroutineInvariant
<1> QED
  BY <1>1, <1>2, PTL

(* cont()'s and yieldHelper()'s assertions never fail. *)
THEOREM NoAssertionFails == Disciplined => (Spec => []AssertionsHold)
<1> SUFFICES ASSUME Disciplined PROVE Spec => []AssertionsHold
  OBVIOUS
<1>1. CoroInv => AssertionsHold
  BY DEF CoroInv
<1>2. Spec => []CoroInv
  BY CoroutineInvariant
<1> QED
  BY <1>1, <1>2, PTL

(* No coroutine is current in two threads or continued by two others. *)
THEOREM OneCallerEach == Disciplined => (Spec => []ChainsDisjoint)
<1> SUFFICES ASSUME Disciplined PROVE Spec => []ChainsDisjoint
  OBVIOUS
<1>1. CoroInv => ChainsDisjoint
  BY DEF CoroInv
<1>2. Spec => []CoroInv
  BY CoroutineInvariant
<1> QED
  BY <1>1, <1>2, PTL

(* yield() returns into the cont() call that started or continued the      *)
(* coroutine, and a stopped coroutine resumes in its yield().              *)
THEOREM SwitchesResumeRight == Disciplined => (Spec => []ResumesRight)
<1> SUFFICES ASSUME Disciplined PROVE Spec => []ResumesRight
  OBVIOUS
<1>1. CoroInv => ResumesRight
  BY DEF CoroInv
<1>2. Spec => []CoroInv
  BY CoroutineInvariant
<1> QED
  BY <1>1, <1>2, PTL

(* No stack is freed under a coroutine that can still execute on it. *)
THEOREM NoStackFreedInUse == Disciplined => (Spec => []StackLive)
<1> SUFFICES ASSUME Disciplined PROVE Spec => []StackLive
  OBVIOUS
<1>1. CoroInv => StackLive
  BY DEF CoroInv
<1>2. Spec => []CoroInv
  BY CoroutineInvariant
<1> QED
  BY <1>1, <1>2, PTL

-----------------------------------------------------------------------------
(* The _caller links run downhill for some ranking of the coroutines, so   *)
(* following them from any coroutine ends.                                 *)
Ranks(rank) == \A d \in All : caller[d] # Null => rank[caller[d]] < rank[d]

Acyclic == \E rank \in [All -> Nat] : Ranks(rank)

(* Continuing a coroutine puts it above its caller; nothing hangs from it. *)
LEMMA ContAcyclic ==
    ASSUME CoroInv, Acyclic, NEW t \in Threads, NEW c \in Coros, Cont(t, c)
    PROVE  Acyclic'
<1>1. PICK rank \in [All -> Nat] : Ranks(rank)
  BY DEF Acyclic
<1>2. \A d \in All : caller[d] # c
  BY CoroAssumption
     DEF CoroInv, ChainsDisjoint, OneCaller, Cont, TypeOK, All
<1>3. current[t] \in All /\ current[t] # c /\ c \in All
  BY CoroAssumption DEF CoroInv, TypeOK, AssertionsHold, Cont, All
<1>4. PICK above \in [All -> Nat] :
           above = [rank EXCEPT ![c] = rank[current[t]] + 1]
  <2>1. rank[current[t]] + 1 \in Nat
    BY <1>3
  <2>2. [rank EXCEPT ![c] = rank[current[t]] + 1] \in [All -> Nat]
    BY <2>1
  <2> QED
    BY <2>2
<1>5. Ranks(above)'
  BY <1>1, <1>2, <1>3, <1>4 DEF Ranks, Cont, CoroInv, TypeOK
<1> QED
  BY <1>5 DEF Acyclic

(* Every other step removes _caller links or leaves them alone. *)
LEMMA OtherStepsAcyclic ==
    ASSUME CoroInv, Acyclic,
           \A d \in All : caller'[d] = caller[d] \/ caller'[d] = Null
    PROVE  Acyclic'
<1>1. PICK rank \in [All -> Nat] : Ranks(rank)
  BY DEF Acyclic
<1>2. Ranks(rank)'
  BY <1>1 DEF Ranks
<1> QED
  BY <1>2 DEF Acyclic

(* From any coroutine, following _caller never comes back to it: the       *)
(* returns of yield() and of run() always lead to a root.                  *)
THEOREM CallersAcyclic == Disciplined => (Spec => []Acyclic)
<1> SUFFICES ASSUME Disciplined PROVE Spec => []Acyclic
  OBVIOUS
<1>1. Init => Acyclic
  <2>1. Init => Ranks([c \in All |-> 0])
    BY DEF Init, Ranks
  <2>2. [c \in All |-> 0] \in [All -> Nat]
    OBVIOUS
  <2> QED
    BY <2>1, <2>2 DEF Acyclic
<1>2. CoroInv /\ Acyclic /\ [Next]_vars => Acyclic'
  <2> SUFFICES ASSUME CoroInv, Acyclic, [Next]_vars PROVE Acyclic'
    OBVIOUS
  <2>1. ASSUME NEW t \in Threads, NEW c \in Coros, Cont(t, c)
        PROVE  Acyclic'
    BY <2>1, ContAcyclic
  <2>2. CASE UNCHANGED vars
    BY <2>2, OtherStepsAcyclic DEF vars
  <2>3. ASSUME NEW t \in Threads,
               \/ CurrentCoroutine(t) \/ Yield(t) \/ EntryPointEnds(t)
               \/ ThreadExit(t)
        PROVE  Acyclic'
    <3>1. \A d \in All : caller'[d] = caller[d] \/ caller'[d] = Null
      BY <2>3 DEF CurrentCoroutine, Yield, EntryPointEnds, YieldHelper,
           ThreadExit, Delete, CoroInv, TypeOK
    <3> QED
      BY <3>1, OtherStepsAcyclic
  <2>4. ASSUME NEW t \in Threads, NEW c \in Coros,
               \/ Construct(t, c) \/ Delete(t, c) \/ Restart(t, c)
               \/ CreateStack(t, c) \/ SetStack(t, c) \/ ContNoContext(t, c)
        PROVE  Acyclic'
    <3>1. \A d \in All : caller'[d] = caller[d] \/ caller'[d] = Null
      BY <2>4 DEF Construct, Delete, Restart, CreateStack, SetStack, GiveStack,
           ContNoContext, CoroInv, TypeOK
    <3> QED
      BY <3>1, OtherStepsAcyclic
  <2> QED
    BY <2>1, <2>2, <2>3, <2>4 DEF Next, Step
<1>3. Spec => []CoroInv
  BY CoroutineInvariant
<1> QED
  BY <1>1, <1>2, <1>3, PTL DEF Spec


-----------------------------------------------------------------------------
(* The refinement.  stk gives each thread its coroutines, the root first. *)
StackOf(s, t) ==
    /\ current[t] = IF Len(s) = 0 THEN Null ELSE s[Len(s)]
    /\ Len(s) # 0 => s[1] = t
    /\ \A i \in 1..Len(s) : caller[s[i]] = IF i = 1 THEN Null ELSE s[i - 1]

Stacks(stk) ==
    /\ stk \in [Threads -> Seq(All)]
    /\ \A t \in Threads : StackOf(stk[t], t)
    /\ \A t, u \in Threads : \A i \in 1..Len(stk[t]), j \in 1..Len(stk[u]) :
          stk[t][i] = stk[u][j] => t = u /\ i = j

(* ChainOf follows the _caller links of one such stack from its top. *)
LEMMA ChainIsStack ==
    ASSUME IsFiniteSet(All), NEW t \in Threads, NEW s \in Seq(All), StackOf(s, t),
           \A i, j \in 1..Len(s) : s[i] = s[j] => i = j
    PROVE  Reverse(ChainOf(t)) = s
<1> DEFINE n == Len(s)
           N == Cardinality(All)
           below == [c \in All \cup {Null} |-> IF c = Null THEN Null ELSE caller[c]]
           W(k) == IF k < n THEN s[n - k] ELSE Null
           w == [k \in 0..N |-> W(k)]
           up == CHOOSE up : up = [k \in 0..N |-> IF k = 0 THEN current[t] ELSE below[up[k - 1]]]
<1>1. n \in Nat /\ \A i \in 1..n : s[i] \in All
  OBVIOUS
<1>2. /\ current[t] = IF n = 0 THEN Null ELSE s[n]
      /\ \A i \in 1..n : caller[s[i]] = IF i = 1 THEN Null ELSE s[i - 1]
  BY DEF StackOf
<1>3. N \in Nat /\ n <= N
  <2>1. s \in Injection(1..n, All)
    <3>1. s \in [1..n -> All]
      OBVIOUS
    <3> QED
      BY <3>1 DEF Injection, IsInjective
  <2>2. IsFiniteSet(1..n) /\ Cardinality(1..n) = n
    <3>1. 1 \in Int /\ n \in Int
      BY <1>1
    <3> HIDE DEF n
    <3>2. IsFiniteSet(1..n) /\ Cardinality(1..n) = IF 1 > n THEN 0 ELSE n - 1 + 1
      BY <3>1, FS_Interval
    <3> QED
      BY <1>1, <3>2
  <2> QED
    BY <2>1, <2>2, FS_Injection, FS_CardinalityType
<1>4. Null \notin All
  BY CoroAssumption DEF All
<1> HIDE DEF n, N
<1>5. W(0) = current[t]
  BY <1>1, <1>2
<1>6. ASSUME NEW k \in 0..N, k # 0 PROVE W(k) = below[W(k - 1)]
  <2>1. CASE k - 1 < n
    <3>1. n - (k - 1) \in 1..n /\ (n - (k - 1)) - 1 = n - k /\ (n - (k - 1) = 1 <=> ~(k < n))
      BY <1>1, <1>3, <1>6, <2>1
    <3>2. PICK i \in 1..n : i = n - (k - 1) /\ i - 1 = n - k /\ (i = 1 <=> ~(k < n))
      BY <3>1
    <3>3. W(k - 1) = s[i] /\ s[i] \in All /\ caller[s[i]] = IF i = 1 THEN Null ELSE s[i - 1]
      BY <1>1, <1>2, <2>1, <3>2
    <3>4. below[s[i]] = caller[s[i]]
      BY <1>4, <3>3
    <3> QED
      BY <3>2, <3>3, <3>4
  <2>2. CASE ~(k - 1 < n)
    <3>1. ~(k < n)
      BY <1>1, <1>3, <1>6, <2>2
    <3> QED
      BY <2>2, <3>1
  <2> QED
    BY <2>1, <2>2
<1> HIDE DEF W, below
<1>7. w = [k \in 0..N |-> IF k = 0 THEN current[t] ELSE below[w[k - 1]]]
  <2>1. ASSUME NEW k \in 0..N PROVE w[k] = IF k = 0 THEN current[t] ELSE below[w[k - 1]]
    <3>1. k # 0 => k - 1 \in 0..N
      BY <1>3
    <3> QED
      BY <1>5, <1>6, <3>1
  <2>2. w = [k \in 0..N |-> w[k]]
    OBVIOUS
  <2> HIDE DEF w
  <2> QED
    BY <2>1, <2>2
<1>8. up = [k \in 0..N |-> IF k = 0 THEN current[t] ELSE below[up[k - 1]]]
  <2> HIDE DEF w
  <2> QED
    BY <1>7
<1>9. LET depth == Cardinality({k \in DOMAIN up : up[k] # Null})
      IN  ChainOf(t) = [k \in 1 .. depth |-> up[k - 1]]
  BY DEF ChainOf, below, N
<1> HIDE DEF up
<1>10. \A k \in 0..N : up[k] = W(k)
  <2> DEFINE T == {k \in Nat : k <= N => up[k] = W(k)}
  <2>1. 0 \in T
    BY <1>3, <1>5, <1>8
  <2>2. ASSUME NEW k \in Nat, k \in T PROVE k + 1 \in T
    <3> SUFFICES ASSUME k + 1 <= N PROVE up[k + 1] = W(k + 1)
      OBVIOUS
    <3>1. k + 1 \in 0..N /\ k \in 0..N /\ k + 1 # 0 /\ (k + 1) - 1 = k
      BY <1>3
    <3>2. up[k + 1] = below[up[k]]
      BY <1>8, <3>1
    <3>3. up[k] = W(k)
      BY <1>3, <2>2, <3>1
    <3> QED
      BY <1>6, <3>1, <3>2, <3>3
  <2> HIDE DEF T
  <2>3. Nat \subseteq T
    BY <2>1, <2>2, SetInduction
  <2> QED
    BY <1>3, <2>3 DEF T
<1>11. {k \in DOMAIN up : up[k] # Null} = 0..(n - 1)
  <2>1. DOMAIN up = 0..N
    BY <1>8
  <2>2. ASSUME NEW k \in 0..N PROVE up[k] # Null <=> k \in 0..(n - 1)
    <3>1. CASE k < n
      <4>1. n - k \in 1..n /\ k \in 0..(n - 1)
        BY <1>1, <3>1
      <4>2. W(k) \in All
        BY <1>1, <3>1, <4>1 DEF W
      <4> QED
        BY <1>4, <1>10, <4>1, <4>2
    <3>2. CASE ~(k < n)
      <4>1. k \notin 0..(n - 1) /\ W(k) = Null
        BY <1>1, <3>2 DEF W
      <4> QED
        BY <1>10, <4>1
    <3> QED
      BY <3>1, <3>2
  <2>3. 0..(n - 1) \subseteq 0..N
    BY <1>1, <1>3
  <2> QED
    BY <2>1, <2>2, <2>3
<1>12. Cardinality(0..(n - 1)) = n
  <2>1. 0 \in Int /\ n - 1 \in Int
    BY <1>1
  <2>2. Cardinality(0..(n - 1)) = IF 0 > n - 1 THEN 0 ELSE (n - 1) - 0 + 1
    BY <2>1, FS_Interval
  <2> QED
    BY <1>1, <2>2
<1>13. ChainOf(t) = [k \in 1..n |-> up[k - 1]]
  BY <1>9, <1>11, <1>12
<1>14. ASSUME NEW k \in 1..n PROVE up[k - 1] = s[n - k + 1]
  <2>1. k - 1 \in 0..N /\ k - 1 < n /\ n - (k - 1) = n - k + 1
    BY <1>1, <1>3
  <2> QED
    BY <1>10, <2>1 DEF W
<1>15. PICK r : r = [k \in 1..n |-> s[n - k + 1]]
  OBVIOUS
<1>16. ChainOf(t) = r
  BY <1>13, <1>14, <1>15
<1>17. r \in Seq(All) /\ Len(r) = n
  <2>1. \A k \in 1..n : n - k + 1 \in 1..n
    BY <1>1
  <2>2. r \in [1..n -> All]
    BY <1>1, <1>15, <2>1
  <2> QED
    BY <1>1, <2>2
<1>18. Reverse(r) = [i \in 1..n |-> r[(n - i) + 1]]
  BY <1>17 DEF Reverse
<1>19. ASSUME NEW i \in 1..n PROVE r[(n - i) + 1] = s[i]
  <2>1. (n - i) + 1 \in 1..n /\ n - ((n - i) + 1) + 1 = i
    BY <1>1
  <2> QED
    BY <1>15, <2>1
<1>20. s = [i \in 1..n |-> s[i]]
  BY DEF n
<1> QED
  BY <1>16, <1>18, <1>19, <1>20


(* The stacks with that of t replaced. *)
Replaced(stk, stk2, t, s) ==
    /\ stk2 = [stk EXCEPT ![t] = s]
    /\ stk2[t] = s /\ \A u \in Threads \ {t} : stk2[u] = stk[u]
    /\ stk2 \in [Threads -> Seq(All)]

LEMMA ReplacedExists ==
    ASSUME NEW stk \in [Threads -> Seq(All)], NEW t \in Threads, NEW s \in Seq(All)
    PROVE  \E stk2 : Replaced(stk, stk2, t, s)
<1>1. PICK stk2 : stk2 = [stk EXCEPT ![t] = s]
  OBVIOUS
<1>2. stk2[t] = s /\ \A u \in Threads \ {t} : stk2[u] = stk[u]
  BY <1>1
<1>3. stk2 \in [Threads -> Seq(All)]
  BY <1>1
<1> QED
  BY <1>1, <1>2, <1>3 DEF Replaced

(* Whoever has no caller is on a stack only as its root. *)
LEMMA OnStack ==
    ASSUME NEW stk, Stacks(stk), NEW u \in Threads, NEW i \in 1..Len(stk[u]),
           caller[stk[u][i]] = Null
    PROVE  i = 1 /\ stk[u][i] = u
<1>1. stk[u] \in Seq(All) /\ StackOf(stk[u], u)
  BY DEF Stacks
<1>2. Len(stk[u]) \in Nat /\ Len(stk[u]) # 0
  BY <1>1
<1>3. i # 1 => i - 1 \in 1..Len(stk[u])
  BY <1>2
<1>4. i # 1 => stk[u][i - 1] \in All
  BY <1>1, <1>3
<1>5. Null \notin All
  BY CoroAssumption DEF All
<1> QED
  BY <1>1, <1>2, <1>4, <1>5 DEF StackOf

(* A step that leaves the links alone. *)
LEMMA StacksKept ==
    ASSUME NEW stk, Stacks(stk), caller' = caller, current' = current
    PROVE  Stacks(stk)'
<1>1. \A t \in Threads : StackOf(stk[t], t)'
  BY DEF Stacks, StackOf
<1> QED
  BY <1>1 DEF Stacks

(* A step that changes the stack of one thread, and the _caller of nobody  *)
(* on another one.                                                         *)
LEMMA StacksReplaced ==
    ASSUME NEW stk, Stacks(stk), NEW t \in Threads, NEW s \in Seq(All), NEW stk2,
           Replaced(stk, stk2, t, s), StackOf(s, t)',
           \A i, j \in 1..Len(s) : s[i] = s[j] => i = j,
           \A u \in Threads \ {t} : current'[u] = current[u],
           \A u \in Threads \ {t} : \A i \in 1..Len(s), j \in 1..Len(stk[u]) : s[i] # stk[u][j],
           \A u \in Threads \ {t} : \A j \in 1..Len(stk[u]) : caller'[stk[u][j]] = caller[stk[u][j]]
    PROVE  Stacks(stk2)'
<1>1. stk2[t] = s /\ \A u \in Threads \ {t} : stk2[u] = stk[u]
  BY DEF Replaced
<1>2. ASSUME NEW u \in Threads PROVE StackOf(stk2[u], u)'
  <2>1. CASE u = t
    BY <1>1, <2>1
  <2>2. CASE u # t
    <3>1. StackOf(stk[u], u)
      BY DEF Stacks
    <3>2. StackOf(stk[u], u)'
      BY <2>2, <3>1 DEF StackOf
    <3> QED
      BY <1>1, <2>2, <3>2
  <2> QED
    BY <2>1, <2>2
<1>3. ASSUME NEW a \in Threads, NEW b \in Threads,
             NEW i \in 1..Len(stk2[a]), NEW j \in 1..Len(stk2[b]), stk2[a][i] = stk2[b][j]
      PROVE  a = b /\ i = j
  <2>1. CASE a = t /\ b = t
    BY <1>1, <1>3, <2>1
  <2>2. CASE a = t /\ b # t
    BY <1>1, <1>3, <2>2
  <2>3. CASE a # t /\ b = t
    BY <1>1, <1>3, <2>3
  <2>4. CASE a # t /\ b # t
    BY <1>1, <1>3, <2>4 DEF Stacks
  <2> QED
    BY <2>1, <2>2, <2>3, <2>4
<1>4. stk2 \in [Threads -> Seq(All)]
  BY DEF Replaced
<1> QED
  BY <1>2, <1>3, <1>4 DEF Stacks

(* What a step does to the stacks. *)
Entered(stk, stk2) == \E t \in Threads : stk[t] = <<>> /\ Replaced(stk, stk2, t, <<t>>)

Resumed(stk, stk2) == \E t \in Threads, c \in Coros :
    /\ stk[t] # <<>> /\ \A u \in Threads : c \notin ToSet(stk[u])
    /\ Replaced(stk, stk2, t, Append(stk[t], c))

Returned(stk, stk2) == \E t \in Threads :
    Len(stk[t]) > 1 /\ Replaced(stk, stk2, t, Front(stk[t]))

Moved(stk, stk2) == stk2 = stk \/ Entered(stk, stk2) \/ Resumed(stk, stk2) \/ Returned(stk, stk2)

(* currentCoroutine() and the constructor: the thread gets its root. *)
LEMMA RootStacks ==
    ASSUME CoroInv, NEW stk, Stacks(stk), NEW t \in Threads, caller' = caller,
           current' = IF current[t] = Null THEN [current EXCEPT ![t] = t] ELSE current
    PROVE  \E stk2 : Stacks(stk2)' /\ Moved(stk, stk2)
<1>1. CASE current[t] # Null
  <2>1. Stacks(stk)'
    BY <1>1, StacksKept
  <2> QED
    BY <2>1 DEF Moved
<1>2. CASE current[t] = Null
  <2>1. /\ current'[t] = t /\ \A u \in Threads \ {t} : current'[u] = current[u]
    BY <1>2 DEF CoroInv, TypeOK
  <2>2. caller[t] = Null /\ t \in All /\ Null \notin All
    BY CoroAssumption DEF CoroInv, AssertionsHold, All
  <2>3. stk \in [Threads -> Seq(All)] /\ StackOf(stk[t], t)
    BY DEF Stacks
  <2>4. stk[t] = <<>>
    <3>1. stk[t] \in Seq(All) /\ Len(stk[t]) \in Nat
      BY <2>3
    <3>2. Len(stk[t]) # 0 => stk[t][Len(stk[t])] \in All
      BY <3>1
    <3>3. Len(stk[t]) = 0
      BY <1>2, <2>2, <2>3, <3>2 DEF StackOf
    <3> QED
      BY <3>1, <3>3
  <2>5. PICK s \in Seq(All) : s = <<t>> /\ Len(s) = 1 /\ s[1] = t
    <3>1. <<t>> \in Seq(All) /\ Len(<<t>>) = 1 /\ <<t>>[1] = t
      BY <2>2
    <3> QED
      BY <3>1
  <2>6. PICK stk2 : Replaced(stk, stk2, t, s)
    BY <2>3, ReplacedExists
  <2>7. StackOf(s, t)'
    BY <2>1, <2>2, <2>5 DEF StackOf
  <2>8. ASSUME NEW u \in Threads \ {t}, NEW i \in 1..Len(s), NEW j \in 1..Len(stk[u])
        PROVE  s[i] # stk[u][j]
    <3>1. s[i] = t
      BY <2>5
    <3> QED
      BY <2>2, <3>1, OnStack
  <2>9. \A i, j \in 1..Len(s) : s[i] = s[j] => i = j
    BY <2>5
  <2>10. Stacks(stk2)'
    BY <2>1, <2>6, <2>7, <2>8, <2>9, StacksReplaced
  <2> QED
    BY <2>4, <2>5, <2>6, <2>10 DEF Moved, Entered
<1> QED
  BY <1>1, <1>2

(* cont() *)
LEMMA ContStacks ==
    ASSUME CoroInv, NEW stk, Stacks(stk), NEW t \in Threads, NEW c \in Coros, Cont(t, c)
    PROVE  \E stk2 : Stacks(stk2)' /\ Moved(stk, stk2)
<1>1. /\ current[t] # Null /\ caller[c] = Null /\ c \in All
      /\ caller'[c] = current[t] /\ \A d \in All \ {c} : caller'[d] = caller[d]
      /\ current'[t] = c /\ \A u \in Threads \ {t} : current'[u] = current[u]
  BY DEF Cont, CoroInv, AssertionsHold, TypeOK, All
<1>2. stk \in [Threads -> Seq(All)] /\ StackOf(stk[t], t)
  BY DEF Stacks
<1>3. ASSUME NEW u \in Threads, NEW j \in 1..Len(stk[u]) PROVE stk[u][j] # c /\ stk[u][j] \in All
  <2>1. stk[u][j] = c => c = u
    BY <1>1, OnStack
  <2>2. stk[u][j] \in All
    BY <1>2
  <2> QED
    BY <2>1, <2>2, CoroAssumption
<1>4. Len(stk[t]) \in Nat /\ Len(stk[t]) # 0 /\ stk[t] # <<>> /\ current[t] = stk[t][Len(stk[t])]
  BY <1>1, <1>2 DEF StackOf
<1>5. PICK s \in Seq(All) :
         /\ s = Append(stk[t], c) /\ Len(s) = Len(stk[t]) + 1 /\ s[Len(stk[t]) + 1] = c
         /\ \A i \in 1..Len(stk[t]) : s[i] = stk[t][i]
  <2>1. PICK q \in Seq(All) : q = stk[t]
    BY <1>2
  <2>2. /\ Append(q, c) \in Seq(All) /\ Len(Append(q, c)) = Len(q) + 1
        /\ Append(q, c)[Len(q) + 1] = c /\ \A i \in 1..Len(q) : Append(q, c)[i] = q[i]
    BY <1>1
  <2> QED
    BY <2>1, <2>2
<1>6. PICK stk2 : Replaced(stk, stk2, t, s)
  BY <1>2, ReplacedExists
<1>7. StackOf(s, t)'
  <2>1. current'[t] = s[Len(s)] /\ Len(s) # 0
    BY <1>1, <1>4, <1>5
  <2>2. s[1] = t
    BY <1>2, <1>4, <1>5 DEF StackOf
  <2>3. ASSUME NEW i \in 1..Len(s) PROVE caller'[s[i]] = IF i = 1 THEN Null ELSE s[i - 1]
    <3>1. CASE i = Len(stk[t]) + 1
      BY <1>1, <1>4, <1>5, <3>1
    <3>2. CASE i # Len(stk[t]) + 1
      <4>1. i \in 1..Len(stk[t]) /\ (i # 1 => i - 1 \in 1..Len(stk[t]))
        BY <1>4, <1>5, <3>2
      <4>2. caller[stk[t][i]] = IF i = 1 THEN Null ELSE stk[t][i - 1]
        BY <1>2, <4>1 DEF StackOf
      <4>3. caller'[stk[t][i]] = caller[stk[t][i]]
        BY <1>1, <1>3, <4>1
      <4> QED
        BY <1>5, <4>1, <4>2, <4>3
    <3> QED
      BY <3>1, <3>2
  <2> QED
    BY <2>1, <2>2, <2>3 DEF StackOf
<1>8. ASSUME NEW i \in 1..Len(s) PROVE i \in 1..Len(stk[t]) \/ (i = Len(stk[t]) + 1 /\ s[i] = c)
  BY <1>4, <1>5
<1>9. ASSUME NEW i \in 1..Len(s), NEW j \in 1..Len(s), s[i] = s[j] PROVE i = j
  <2>1. CASE i \in 1..Len(stk[t]) /\ j \in 1..Len(stk[t])
    BY <1>5, <1>9, <2>1 DEF Stacks
  <2>2. CASE i \notin 1..Len(stk[t]) \/ j \notin 1..Len(stk[t])
    BY <1>3, <1>5, <1>8, <1>9, <2>2
  <2> QED
    BY <2>1, <2>2
<1>10. ASSUME NEW u \in Threads \ {t}, NEW i \in 1..Len(s), NEW j \in 1..Len(stk[u])
       PROVE  s[i] # stk[u][j]
  <2>1. CASE i \in 1..Len(stk[t])
    BY <1>5, <2>1 DEF Stacks
  <2>2. CASE i \notin 1..Len(stk[t])
    BY <1>3, <1>8, <2>2
  <2> QED
    BY <2>1, <2>2
<1>11. \A u \in Threads \ {t} : \A j \in 1..Len(stk[u]) : caller'[stk[u][j]] = caller[stk[u][j]]
  BY <1>1, <1>3
<1>12. Stacks(stk2)'
  BY <1>1, <1>6, <1>7, <1>9, <1>10, <1>11, StacksReplaced
<1>13. \A u \in Threads : c \notin ToSet(stk[u])
  BY <1>2, <1>3 DEF ToSet
<1>14. Resumed(stk, stk2)
  BY <1>4, <1>5, <1>6, <1>13 DEF Resumed
<1> QED
  BY <1>12, <1>14 DEF Moved

(* yield() and the end of run() *)
LEMMA YieldStacks ==
    ASSUME CoroInv, NEW stk, Stacks(stk), NEW t \in Threads, NEW x, YieldHelper(t, x)
    PROVE  \E stk2 : Stacks(stk2)' /\ Moved(stk, stk2)
<1>1. /\ current[t] # Null /\ current[t] # t /\ current[t] \in All
      /\ \A d \in All \ {current[t]} : caller'[d] = caller[d]
      /\ current'[t] = caller[current[t]] /\ \A u \in Threads \ {t} : current'[u] = current[u]
  BY DEF YieldHelper, CoroInv, TypeOK, All
<1>2. stk \in [Threads -> Seq(All)] /\ StackOf(stk[t], t)
  BY DEF Stacks
<1>3. PICK n \in Nat : n = Len(stk[t]) /\ n # 0 /\ current[t] = stk[t][n] /\ stk[t][1] = t
  BY <1>1, <1>2 DEF StackOf
<1>4. n > 1 /\ n \in 1..n /\ n - 1 \in 1..n /\ caller[stk[t][n]] = stk[t][n - 1]
  <2>1. n # 1
    BY <1>1, <1>3
  <2>2. n > 1 /\ n \in 1..n /\ n - 1 \in 1..n
    <3>1. n # 0 /\ n \in Nat
      BY <1>3
    <3> QED
      BY <2>1, <3>1
  <2> QED
    BY <1>2, <1>3, <2>1, <2>2 DEF StackOf
<1>5. PICK s \in Seq(All) :
         s = Front(stk[t]) /\ Len(s) = n - 1 /\ \A i \in 1..(n - 1) : s[i] = stk[t][i]
  <2>1. PICK q \in Seq(All) : q = stk[t] /\ Len(q) = n
    BY <1>2, <1>3
  <2>2. n - 1 \in Nat /\ n - 1 <= n
    BY <1>4
  <2>3. /\ SubSeq(q, 1, n - 1) \in Seq(All) /\ Len(SubSeq(q, 1, n - 1)) = n - 1
        /\ \A i \in 1..(n - 1) : SubSeq(q, 1, n - 1)[i] = q[i]
    BY <2>1, <2>2
  <2>4. Front(q) = SubSeq(q, 1, n - 1)
    BY <2>1 DEF Front
  <2> QED
    BY <2>1, <2>3, <2>4
<1>6. PICK stk2 : Replaced(stk, stk2, t, s)
  BY <1>2, ReplacedExists
<1>7. ASSUME NEW i \in 1..Len(s)
      PROVE  i \in 1..n /\ i # n /\ s[i] = stk[t][i] /\ (i # 1 => i - 1 \in 1..Len(s))
  BY <1>3, <1>4, <1>5
<1>8. ASSUME NEW u \in Threads, NEW j \in 1..Len(stk[u]), stk[u][j] = current[t] PROVE u = t /\ j = n
  BY <1>3, <1>4, <1>8 DEF Stacks
<1>9. \A u \in Threads : \A j \in 1..Len(stk[u]) : stk[u][j] \in All
  BY <1>2
<1>10. StackOf(s, t)'
  <2>1. Len(s) # 0 /\ Len(s) \in 1..(n - 1) /\ 1 \in 1..(n - 1)
    BY <1>4, <1>5
  <2>2. current'[t] = s[Len(s)] /\ s[1] = t
    BY <1>1, <1>3, <1>4, <1>5, <2>1
  <2>3. ASSUME NEW i \in 1..Len(s) PROVE caller'[s[i]] = IF i = 1 THEN Null ELSE s[i - 1]
    <3>1. i \in 1..Len(stk[t]) /\ stk[t][i] # current[t]
      BY <1>3, <1>7, <1>8
    <3>2. caller'[stk[t][i]] = caller[stk[t][i]]
      BY <1>1, <1>9, <3>1
    <3>3. caller[stk[t][i]] = IF i = 1 THEN Null ELSE stk[t][i - 1]
      BY <1>2, <3>1 DEF StackOf
    <3> QED
      BY <1>7, <3>2, <3>3
  <2> QED
    BY <2>1, <2>2, <2>3 DEF StackOf
<1>11. ASSUME NEW i \in 1..Len(s), NEW j \in 1..Len(s), s[i] = s[j] PROVE i = j
  <2>1. i \in 1..Len(stk[t]) /\ j \in 1..Len(stk[t]) /\ stk[t][i] = stk[t][j]
    BY <1>3, <1>7, <1>11
  <2> QED
    BY <2>1 DEF Stacks
<1>12. ASSUME NEW u \in Threads \ {t}, NEW i \in 1..Len(s), NEW j \in 1..Len(stk[u])
       PROVE  s[i] # stk[u][j]
  BY <1>3, <1>7 DEF Stacks
<1>13. \A u \in Threads \ {t} : \A j \in 1..Len(stk[u]) : caller'[stk[u][j]] = caller[stk[u][j]]
  BY <1>1, <1>8, <1>9
<1>14. Stacks(stk2)'
  BY <1>1, <1>6, <1>10, <1>11, <1>12, <1>13, StacksReplaced
<1>15. Returned(stk, stk2)
  BY <1>3, <1>4, <1>5, <1>6 DEF Returned
<1> QED
  BY <1>14, <1>15 DEF Moved

LEMMA StepStacks ==
    ASSUME Disciplined, CoroInv, [Next]_vars, NEW stk, Stacks(stk)
    PROVE  \E stk2 : Stacks(stk2)' /\ Moved(stk, stk2)
<1>1. ASSUME caller' = caller, current' = current
      PROVE  \E stk2 : Stacks(stk2)' /\ Moved(stk, stk2)
  BY <1>1, StacksKept DEF Moved
<1>2. CASE UNCHANGED vars
  BY <1>1, <1>2 DEF vars
<1>3. ASSUME NEW t \in Threads, CurrentCoroutine(t)
      PROVE  \E stk2 : Stacks(stk2)' /\ Moved(stk, stk2)
  BY <1>3, RootStacks DEF CurrentCoroutine, EnsureRoot
<1>4. ASSUME NEW t \in Threads, Yield(t) \/ EntryPointEnds(t)
      PROVE  \E stk2 : Stacks(stk2)' /\ Moved(stk, stk2)
  BY <1>4, YieldStacks DEF Yield, EntryPointEnds
<1>5. ASSUME NEW c \in Coros, status[c] # "Running", caller' = [caller EXCEPT ![c] = Null]
      PROVE  caller' = caller
  <2>1. caller \in [All -> All \cup {Null}] /\ c \in All /\ caller[c] = Null
    BY <1>5 DEF CoroInv, TypeOK, AssertionsHold, All
  <2> QED
    BY <1>5, <2>1
<1>6. ASSUME NEW t \in Threads, NEW c \in Coros, Construct(t, c)
      PROVE  \E stk2 : Stacks(stk2)' /\ Moved(stk, stk2)
  <2>1. caller' = caller
    BY <1>5, <1>6 DEF Construct
  <2> QED
    BY <1>6, <2>1, RootStacks DEF Construct, EnsureRoot
<1>7. ASSUME NEW t \in Threads, NEW c \in Coros, Restart(t, c)
      PROVE  \E stk2 : Stacks(stk2)' /\ Moved(stk, stk2)
  <2>1. caller' = caller
    BY <1>5, <1>7 DEF Restart, Disciplined
  <2> QED
    BY <1>1, <1>7, <2>1 DEF Restart
<1>8. ASSUME NEW t \in Threads, NEW c \in Coros, Cont(t, c)
      PROVE  \E stk2 : Stacks(stk2)' /\ Moved(stk, stk2)
  BY <1>8, ContStacks
<1>9. ASSUME NEW t \in Threads, NEW c \in All,
             \/ Delete(t, c) \/ CreateStack(t, c) \/ SetStack(t, c) \/ ContNoContext(t, c)
      PROVE  \E stk2 : Stacks(stk2)' /\ Moved(stk, stk2)
  BY <1>1, <1>9 DEF Delete, CreateStack, SetStack, GiveStack, ContNoContext
<1> QED
  BY <1>2, <1>3, <1>4, <1>6, <1>7, <1>8, <1>9 DEF Next, Step, ThreadExit, All


(* The stacks there are, and that the chains of the refinement are them. *)
StacksExist == \E stk : Stacks(stk)

Mapped == \A stk : Stacks(stk) => [t \in Threads |-> Reverse(ChainOf(t))] = stk

LEMMA MappedHolds ==
    ASSUME IsFiniteSet(All)
    PROVE  Mapped
<1> SUFFICES ASSUME NEW stk, Stacks(stk)
             PROVE  [t \in Threads |-> Reverse(ChainOf(t))] = stk
  BY DEF Mapped
<1>1. ASSUME NEW t \in Threads PROVE Reverse(ChainOf(t)) = stk[t]
  <2>1. stk[t] \in Seq(All) /\ StackOf(stk[t], t)
    BY DEF Stacks
  <2>2. \A i, j \in 1..Len(stk[t]) : stk[t][i] = stk[t][j] => i = j
    BY DEF Stacks
  <2> QED
    BY <2>1, <2>2, ChainIsStack
<1>2. stk = [t \in Threads |-> stk[t]]
  BY DEF Stacks
<1> QED
  BY <1>1, <1>2

LEMMA InitStacks ==
    ASSUME Init
    PROVE  Stacks([t \in Threads |-> <<>>])
<1>1. <<>> \in Seq(All) /\ Len(<<>>) = 0
  OBVIOUS
<1>2. PICK stk : stk = [t \in Threads |-> <<>>]
  OBVIOUS
<1>3. stk \in [Threads -> Seq(All)] /\ \A t \in Threads : stk[t] = <<>>
  BY <1>1, <1>2
<1>4. \A t \in Threads : StackOf(stk[t], t)
  BY <1>1, <1>3 DEF StackOf, Init
<1>5. \A t \in Threads : 1..Len(stk[t]) = {}
  BY <1>1, <1>3
<1>6. Stacks(stk)
  BY <1>3, <1>4, <1>5 DEF Stacks
<1> QED
  BY <1>2, <1>6

LEMMA StackStep ==
    ASSUME Disciplined, CoroInv, StacksExist, Mapped, Mapped', [Next]_vars
    PROVE  StacksExist' /\ [CS!StackNext]_[t \in Threads |-> Reverse(ChainOf(t))]
<1>1. PICK stk : Stacks(stk)
  BY DEF StacksExist
<1>2. PICK stk2 : Stacks(stk2)' /\ Moved(stk, stk2)
  BY <1>1, StepStacks
<1>3. StacksExist'
  BY <1>2 DEF StacksExist
<1> DEFINE m == [t \in Threads |-> Reverse(ChainOf(t))]
<1>4. m = stk /\ m' = stk2
  BY <1>1, <1>2 DEF Mapped
<1>5. CASE stk2 = stk
  BY <1>3, <1>4, <1>5
<1>6. CASE Entered(stk, stk2)
  <2>1. PICK t \in Threads : stk[t] = <<>> /\ stk2 = [stk EXCEPT ![t] = <<t>>]
    BY <1>6 DEF Entered, Replaced
  <2>2. m[t] = <<>> /\ m' = [m EXCEPT ![t] = <<t>>]
    BY <1>4, <2>1
  <2>3. CS!Enter(t)
    BY <2>2 DEF CS!Enter
  <2> QED
    BY <1>3, <2>3 DEF CS!StackNext
<1>7. CASE Resumed(stk, stk2)
  <2>1. PICK t \in Threads, c \in Coros :
           /\ stk[t] # <<>> /\ \A u \in Threads : c \notin ToSet(stk[u])
           /\ stk2 = [stk EXCEPT ![t] = Append(stk[t], c)]
    BY <1>7 DEF Resumed, Replaced
  <2>2. /\ m[t] # <<>> /\ \A u \in Threads : c \notin ToSet(m[u])
        /\ m' = [m EXCEPT ![t] = Append(m[t], c)]
    BY <1>4, <2>1
  <2>3. CS!Resume(t, c)
    BY <2>2 DEF CS!Resume, CS!ToSet, ToSet
  <2> QED
    BY <1>3, <2>3 DEF CS!StackNext
<1>8. CASE Returned(stk, stk2)
  <2>1. PICK t \in Threads : Len(stk[t]) > 1 /\ stk2 = [stk EXCEPT ![t] = Front(stk[t])]
    BY <1>8 DEF Returned, Replaced
  <2>2. Len(m[t]) > 1 /\ m' = [m EXCEPT ![t] = Front(m[t])]
    BY <1>4, <2>1
  <2>3. CS!Return(t)
    BY <2>2 DEF CS!Return, CS!Front, Front
  <2> QED
    BY <1>3, <2>3 DEF CS!StackNext
<1> QED
  BY <1>2, <1>5, <1>6, <1>7, <1>8 DEF Moved

(* The coroutine library implements the abstract stacks, for any finite    *)
(* sets of threads and coroutines: cont() puts a coroutine that is on no   *)
(* stack on top, yield() and the end of run() take the top off, and no     *)
(* other call moves anything.                                              *)
THEOREM CallersAreStacks ==
    Disciplined /\ IsFiniteSet(All) => (Spec => ImplementsStacks)
<1> SUFFICES ASSUME Disciplined, IsFiniteSet(All) PROVE Spec => ImplementsStacks
  OBVIOUS
<1>1. Mapped
  BY MappedHolds
<1>2. Init => StacksExist /\ CS!StackInit
  <2> SUFFICES ASSUME Init PROVE StacksExist /\ CS!StackInit
    OBVIOUS
  <2>1. Stacks([t \in Threads |-> <<>>])
    BY InitStacks
  <2>2. [t \in Threads |-> Reverse(ChainOf(t))] = [t \in Threads |-> <<>>]
    BY <1>1, <2>1 DEF Mapped
  <2> QED
    BY <2>1, <2>2 DEF StacksExist, CS!StackInit
<1>3. CoroInv /\ StacksExist /\ Mapped /\ Mapped' /\ [Next]_vars
        => StacksExist' /\ [CS!StackNext]_[t \in Threads |-> Reverse(ChainOf(t))]
  BY StackStep
<1>4. Spec => []CoroInv
  BY CoroutineInvariant
<1> QED
  BY <1>1, <1>2, <1>3, <1>4, PTL DEF Spec, ImplementsStacks, CS!StackSpec
=============================================================================
