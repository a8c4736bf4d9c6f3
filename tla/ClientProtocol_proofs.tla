----------------------- MODULE ClientProtocol_proofs -----------------------
(***************************************************************************)
(* Proofs about ClientProtocol, for any queries, results and bounds: the   *)
(* handle is in step with what is on the wire, until a discarded result    *)
(* makes it forget the rows of another, and no transaction the handle      *)
(* knows of is lost in silence.                                            *)
(*                                                                         *)
(* The argument is that of an automaton which reads the answer to one      *)
(* command.  The handle is in a state of it at every step, and the packets *)
(* on the wire are a run that leads from that state to "done".             *)
(***************************************************************************)
EXTENDS ClientProtocol, ListFacts

Packet == [kind : {"OK", "ERR", "SET", "EOF", "ROW"}, q : Nat, more : BOOLEAN, trans : BOOLEAN]

States == {"reply", "simple", "fields", "rows", "done"}

Allowed(s) ==
    IF s = "reply" THEN {"OK", "SET", "ERR"}
    ELSE IF s = "simple" THEN {"OK", "ERR"}
    ELSE IF s = "fields" THEN {"EOF", "ERR"}
    ELSE IF s = "rows" THEN InRows ELSE {}

(* The state after packet p.                                               *)
After(s, p) ==
    IF p.kind = "ERR" THEN "done"
    ELSE IF p.kind = "SET" THEN "fields"
    ELSE IF p.kind = "ROW" THEN "rows"
    ELSE IF s = "fields" THEN "rows"
    ELSE IF p.more THEN "reply" ELSE "done"

(* The IN_TRANS bit after packet p: an OK and an EOF carry it.             *)
TransOf(t, p) == IF p.kind \in {"OK", "EOF"} THEN p.trans ELSE t

(* The answer to mysql_ping and mysql_stmt_prepare is not looked at: it    *)
(* has to tell nothing new.                                                *)
Step(s, t, p, s1, t1) ==
    /\ p.kind \in Allowed(s)
    /\ s = "simple" => ~p.more /\ TransOf(t, p) = t
    /\ s1 = After(s, p) /\ t1 = TransOf(t, p)

(* The packets of w lead from state s and bit t to state s1 and bit t1.    *)
Leads(w, s, t, s1, t1) ==
    \E st \in [0..Len(w) -> States], tr \in [0..Len(w) -> BOOLEAN] :
        /\ st[0] = s /\ tr[0] = t
        /\ st[Len(w)] = s1 /\ tr[Len(w)] = t1
        /\ \A i \in 1..Len(w) : Step(st[i - 1], tr[i - 1], w[i], st[i], tr[i])

(* The state of the automaton that the handle is in.                       *)
Phase(p, m) ==
    IF p \in {"reply", "close_next"} THEN "reply"
    ELSE IF p \in {"simple", "prepare"} THEN "simple"
    ELSE IF p \in {"fields", "close_fields"} THEN "fields"
    ELSE IF p \in {"rows", "free_rows", "close_rows"} THEN "rows"
    ELSE IF p = "closed" THEN "done"
    ELSE IF m.status # "READY" THEN "rows"
    ELSE IF m.more THEN "reply" ELSE "done"

(* The packets of w lead from state s and bit t to the end of the answer   *)
(* and the bit of the server, unless the network failed and cut them short.*)
OnWay(w, s, t, c, u) ==
    \E s1 \in States, t1 \in BOOLEAN :
        Leads(w, s, t, s1, t1) /\ (c = "up" => s1 = "done" /\ t1 = u)

(* All packets of w answer command q.                                      *)
Answers(w, q) == \A i \in 1..Len(w) : w[i].q = q

WireInv ==
    /\ wire \in Seq(Packet) /\ Answers(wire, last)
    /\ conn = "none" => wire = <<>>
    /\ OnWay(wire, Phase(pc, mysql), mysql.trans, conn, srvTrans)

(* Where a call is, the status it can have, and what that says of the      *)
(* connection and the columns.                                             *)
StatusInv ==
    /\ pc \in Reading \cup {"close"} => mysql.status = "READY"
    /\ pc \in {"simple", "prepare"} => ~mysql.more
    /\ pc = "closed" => conn = "none" /\ mysql.status = "READY"
    /\ pc = "idle" /\ mysql.status # "READY" => conn # "none"
    /\ pc = "idle" /\ mysql.status = "GET" => mysql.fields

(* The result whose rows are on the wire was not cancelled.                *)
ResultInv ==
    /\ res \in [Results -> {None} \cup [q : Nat, cancelled : BOOLEAN]]
    /\ mysql.owner # None => res[mysql.owner] # None
    /\ pc = "idle" /\ mysql.status = "USE" =>
          mysql.owner # None /\ res[mysql.owner] = [q |-> last, cancelled |-> FALSE]

(* What was lost is still in the handle's IN_TRANS bit.                    *)
LossInv == lost => conn = "none" /\ mysql.trans

HandleInv ==
    /\ TypeOK /\ last \in Nat
    /\ WireInv /\ StatusInv /\ ResultInv /\ LossInv

OwnerInv == mysql.owner # None => res[mysql.owner] # None

(* What is left once rows are orphaned: mysql_fetch_row disowns the result *)
(* it is done with, and nothing is lost.                                   *)
ClientInv ==
    /\ TypeOK /\ OwnerInv /\ LossInv
    /\ ~orphaned => HandleInv

-----------------------------------------------------------------------------
(* Runs of the automaton. *)
LEMMA LeadsEmpty ==
    ASSUME NEW s \in States, NEW t \in BOOLEAN, NEW s1, NEW t1
    PROVE  Leads(<<>>, s, t, s1, t1) <=> s1 = s /\ t1 = t
<1>1. ASSUME Leads(<<>>, s, t, s1, t1) PROVE s1 = s /\ t1 = t
  BY <1>1 DEF Leads
<1>2. ASSUME s1 = s, t1 = t PROVE Leads(<<>>, s, t, s1, t1)
  <2> DEFINE st == [i \in 0..0 |-> s]
             tr == [i \in 0..0 |-> t]
  <2>1. /\ Len(<<>>) = 0 /\ 1..Len(<<>>) = {}
        /\ st \in [0..Len(<<>>) -> States] /\ st[0] = s
        /\ tr \in [0..Len(<<>>) -> BOOLEAN] /\ tr[0] = t
    OBVIOUS
  <2> HIDE DEF st, tr
  <2> QED
    BY <1>2, <2>1 DEF Leads
<1> QED
  BY <1>1, <1>2

LEMMA LeadsHead ==
    ASSUME NEW w \in Seq(Packet), w # <<>>, NEW s, NEW t, NEW s1, NEW t1,
           Leads(w, s, t, s1, t1)
    PROVE  /\ Step(s, t, Head(w), After(s, Head(w)), TransOf(t, Head(w)))
           /\ Leads(Tail(w), After(s, Head(w)), TransOf(t, Head(w)), s1, t1)
<1>1. PICK st \in [0..Len(w) -> States], tr \in [0..Len(w) -> BOOLEAN] :
         /\ st[0] = s /\ tr[0] = t
         /\ st[Len(w)] = s1 /\ tr[Len(w)] = t1
         /\ \A i \in 1..Len(w) : Step(st[i - 1], tr[i - 1], w[i], st[i], tr[i])
  BY DEF Leads
<1>2. /\ Len(w) \in Nat /\ Len(w) >= 1 /\ Head(w) = w[1]
      /\ Tail(w) \in Seq(Packet) /\ Len(Tail(w)) = Len(w) - 1
      /\ \A i \in 1..(Len(w) - 1) : Tail(w)[i] = w[i + 1]
  OBVIOUS
<1>3. Step(s, t, Head(w), st[1], tr[1])
  BY <1>1, <1>2
<1> DEFINE ut == [i \in 0..(Len(w) - 1) |-> st[i + 1]]
           ur == [i \in 0..(Len(w) - 1) |-> tr[i + 1]]
<1>4. /\ ut \in [0..Len(Tail(w)) -> States] /\ ur \in [0..Len(Tail(w)) -> BOOLEAN]
      /\ ut[0] = st[1] /\ ur[0] = tr[1]
      /\ ut[Len(Tail(w))] = s1 /\ ur[Len(Tail(w))] = t1
  BY <1>1, <1>2
<1>5. ASSUME NEW i \in 1..Len(Tail(w))
      PROVE  Step(ut[i - 1], ur[i - 1], Tail(w)[i], ut[i], ur[i])
  <2>1. /\ i \in 1..(Len(w) - 1) /\ i + 1 \in 1..Len(w) /\ (i + 1) - 1 = i
        /\ Tail(w)[i] = w[i + 1]
        /\ ut[i - 1] = st[i] /\ ur[i - 1] = tr[i] /\ ut[i] = st[i + 1] /\ ur[i] = tr[i + 1]
    BY <1>2
  <2>2. Step(st[(i + 1) - 1], tr[(i + 1) - 1], w[i + 1], st[i + 1], tr[i + 1])
    BY <1>1, <2>1
  <2> QED
    BY <2>1, <2>2
<1>6. Leads(Tail(w), st[1], tr[1], s1, t1)
  <2> HIDE DEF ut, ur
  <2> QED
    BY <1>4, <1>5 DEF Leads
<1> QED
  BY <1>3, <1>6 DEF Step

LEMMA LeadsPrefix ==
    ASSUME NEW w \in Seq(Packet), NEW n \in 0..Len(w), NEW s, NEW t, NEW s1, NEW t1,
           Leads(w, s, t, s1, t1)
    PROVE  \E s2 \in States, t2 \in BOOLEAN : Leads(SubSeq(w, 1, n), s, t, s2, t2)
<1>1. PICK st \in [0..Len(w) -> States], tr \in [0..Len(w) -> BOOLEAN] :
         /\ st[0] = s /\ tr[0] = t
         /\ \A i \in 1..Len(w) : Step(st[i - 1], tr[i - 1], w[i], st[i], tr[i])
  BY DEF Leads
<1> DEFINE u == SubSeq(w, 1, n)
           ut == [i \in 0..n |-> st[i]]
           ur == [i \in 0..n |-> tr[i]]
<1>2. Len(u) = n /\ \A i \in 1..n : u[i] = w[i]
  OBVIOUS
<1>3. /\ ut \in [0..Len(u) -> States] /\ ur \in [0..Len(u) -> BOOLEAN]
      /\ ut[0] = s /\ ur[0] = t /\ ut[n] = st[n] /\ ur[n] = tr[n]
      /\ st[n] \in States /\ tr[n] \in BOOLEAN
  <2> HIDE DEF u
  <2>1. 0 \in 0..n /\ n \in 0..n /\ \A i \in 0..n : i \in 0..Len(w)
    OBVIOUS
  <2> QED
    BY <1>1, <1>2, <2>1
<1>4. ASSUME NEW i \in 1..Len(u) PROVE Step(ut[i - 1], ur[i - 1], u[i], ut[i], ur[i])
  <2>1. i \in 1..Len(w) /\ i \in 0..n /\ i - 1 \in 0..n /\ u[i] = w[i]
    BY <1>2
  <2> HIDE DEF u
  <2> QED
    BY <1>1, <2>1
<1>5. Leads(u, s, t, st[n], tr[n])
  <2> HIDE DEF u, ut, ur
  <2> QED
    BY <1>2, <1>3, <1>4 DEF Leads
<1> QED
  BY <1>3, <1>5

LEMMA LeadsConcat ==
    ASSUME NEW u \in Seq(Packet), NEW v \in Seq(Packet), NEW s, NEW t, NEW s1, NEW t1,
           NEW s2, NEW t2, Leads(u, s, t, s1, t1), Leads(v, s1, t1, s2, t2)
    PROVE  Leads(u \o v, s, t, s2, t2)
<1> DEFINE m == Len(u)
           n == Len(v)
           w == u \o v
<1>1. PICK ut \in [0..m -> States], ur \in [0..m -> BOOLEAN] :
         /\ ut[0] = s /\ ur[0] = t /\ ut[m] = s1 /\ ur[m] = t1
         /\ \A i \in 1..m : Step(ut[i - 1], ur[i - 1], u[i], ut[i], ur[i])
  BY DEF Leads
<1>2. PICK vt \in [0..n -> States], vr \in [0..n -> BOOLEAN] :
         /\ vt[0] = s1 /\ vr[0] = t1 /\ vt[n] = s2 /\ vr[n] = t2
         /\ \A i \in 1..n : Step(vt[i - 1], vr[i - 1], v[i], vt[i], vr[i])
  BY DEF Leads
<1> DEFINE wt == [i \in 0..(m + n) |-> IF i <= m THEN ut[i] ELSE vt[i - m]]
           wr == [i \in 0..(m + n) |-> IF i <= m THEN ur[i] ELSE vr[i - m]]
<1>3. /\ m \in Nat /\ n \in Nat /\ Len(w) = m + n
      /\ \A i \in 1..m : w[i] = u[i]
      /\ \A i \in (m + 1)..(m + n) : w[i] = v[i - m]
  OBVIOUS
<1> HIDE DEF m, n, w
<1>4. wt \in [0..Len(w) -> States] /\ wr \in [0..Len(w) -> BOOLEAN]
  BY <1>3
<1>5. wt[0] = s /\ wr[0] = t /\ wt[Len(w)] = s2 /\ wr[Len(w)] = t2
  <2>1. CASE n = 0
    BY <1>1, <1>2, <1>3, <2>1
  <2>2. CASE n # 0
    BY <1>1, <1>2, <1>3, <2>2
  <2> QED
    BY <2>1, <2>2
<1>6. ASSUME NEW i \in 1..Len(w) PROVE Step(wt[i - 1], wr[i - 1], w[i], wt[i], wr[i])
  <2>1. CASE i <= m
    <3>1. i \in 1..m /\ i - 1 <= m /\ i - 1 \in 0..(m + n) /\ i \in 0..(m + n) /\ w[i] = u[i]
      BY <1>3, <2>1
    <3> QED
      BY <1>1, <3>1
  <2>2. CASE ~(i <= m)
    <3>1. i - m \in 1..n /\ i \in (m + 1)..(m + n) /\ i \in 0..(m + n) /\ i - 1 \in 0..(m + n)
      BY <1>3, <2>2
    <3>2. w[i] = v[i - m] /\ wt[i] = vt[i - m] /\ wr[i] = vr[i - m]
      BY <1>3, <2>2, <3>1
    <3>3. wt[i - 1] = vt[(i - m) - 1] /\ wr[i - 1] = vr[(i - m) - 1]
      <4>1. CASE i = m + 1
        BY <1>1, <1>2, <1>3, <3>1, <4>1
      <4>2. CASE i # m + 1
        BY <1>3, <2>2, <3>1, <4>2
      <4> QED
        BY <4>1, <4>2
    <3> HIDE DEF wt, wr
    <3>4. Step(vt[(i - m) - 1], vr[(i - m) - 1], v[i - m], vt[i - m], vr[i - m])
      BY <1>2, <3>1
    <3> QED
      BY <3>2, <3>3, <3>4
  <2> QED
    BY <2>1, <2>2
<1>7. Leads(w, s, t, s2, t2)
  <2> HIDE DEF wt, wr
  <2> QED
    BY <1>4, <1>5, <1>6 DEF Leads
<1> QED
  BY <1>7 DEF w

-----------------------------------------------------------------------------
(* The server's answers. *)
Outs == {"ok", "empty", "rows", "broken_rows", "error"}
Answer == [out : Outs, trans : {"begin", "end", "keep"}]

LEMMA TransAfterSteps ==
    ASSUME NEW r \in Seq(Answer), NEW t \in BOOLEAN
    PROVE  /\ TransAfter(r, t) \in [0..Len(r) -> BOOLEAN]
           /\ TransAfter(r, t)[0] = t
           /\ \A i \in 1..Len(r) :
                 r[i].trans = "keep" => TransAfter(r, t)[i] = TransAfter(r, t)[i - 1]
<1> DEFINE n == Len(r)
           Next1(i, b) == CASE r[i].trans = "begin" -> TRUE
                            [] r[i].trans = "end"   -> FALSE
                            [] r[i].trans = "keep"  -> b
           g == [p \in (1..n) \X BOOLEAN |-> Next1(p[1], p[2])]
<1>1. n \in Nat /\ \A i \in 1..n : r[i].trans \in {"begin", "end", "keep"}
  <2>1. n \in Nat /\ \A i \in 1..n : r[i] \in Answer
    OBVIOUS
  <2> QED
    BY <2>1 DEF Answer
<1>2. ASSUME NEW i \in 1..n, NEW b \in BOOLEAN
      PROVE  g[<<i, b>>] = Next1(i, b) /\ g[<<i, b>>] \in BOOLEAN
  <2>1. g[<<i, b>>] = Next1(i, b)
    OBVIOUS
  <2>2. Next1(i, b) \in BOOLEAN
    BY <1>1
  <2> QED
    BY <2>1, <2>2
<1>3. PICK f \in [0..n -> BOOLEAN] : IsRecursion(f, n, t, g)
  <2> HIDE DEF g, n
  <2> QED
    BY <1>1, <1>2, RecursionExists
<1>4. ASSUME NEW i \in 0..n PROVE f[i] = IF i = 0 THEN t ELSE Next1(i, f[i - 1])
  <2> HIDE DEF g, Next1, n
  <2>1. CASE i = 0
    BY <1>3, <2>1 DEF IsRecursion
  <2>2. CASE i # 0
    <3>1. i \in 1..n /\ i - 1 \in 0..n
      BY <1>1, <2>2
    <3> QED
      BY <1>2, <1>3, <2>2, <3>1 DEF IsRecursion
  <2> QED
    BY <2>1, <2>2
<1>5. f = [i \in 0..n |-> IF i = 0 THEN t ELSE Next1(i, f[i - 1])]
  <2> HIDE DEF g, Next1, n
  <2> QED
    BY <1>4
<1> DEFINE k == CHOOSE k : k = [i \in 0..n |-> IF i = 0 THEN t ELSE Next1(i, k[i - 1])]
<1>6. k = [i \in 0..n |-> IF i = 0 THEN t ELSE Next1(i, k[i - 1])]
  <2> HIDE DEF Next1, n
  <2> QED
    BY <1>5
<1>7. TransAfter(r, t) = k
  BY DEF TransAfter
<1> HIDE DEF k
<1>8. k[0] = t
  BY <1>1, <1>6
<1>9. \A i \in 1..n : k[i] = Next1(i, k[i - 1])
  <2> HIDE DEF Next1
  <2> QED
    BY <1>1, <1>6
<1>10. k \in [0..n -> BOOLEAN]
  <2> DEFINE T == {m \in Nat : m \in 0..n => k[m] \in BOOLEAN}
  <2>1. 0 \in T
    BY <1>8
  <2>2. ASSUME NEW m \in Nat, m \in T PROVE m + 1 \in T
    <3> SUFFICES ASSUME m + 1 \in 0..n PROVE k[m + 1] \in BOOLEAN
      OBVIOUS
    <3>1. m + 1 \in 1..n /\ (m + 1) - 1 = m /\ k[m] \in BOOLEAN
      BY <1>1, <2>2
    <3>2. k[m + 1] = Next1(m + 1, k[m])
      <4> HIDE DEF Next1
      <4> QED
        BY <1>9, <3>1
    <3> QED
      BY <1>1, <3>1, <3>2
  <2>3. Nat \subseteq T
    <3> HIDE DEF T
    <3> QED
      BY <2>1, <2>2, SetInduction
  <2>4. \A i \in 0..n : k[i] \in BOOLEAN
    BY <2>3
  <2> HIDE DEF T, Next1
  <2> QED
    BY <1>6, <2>4
<1>11. ASSUME NEW i \in 1..n, r[i].trans = "keep" PROVE k[i] = k[i - 1]
  BY <1>9, <1>11
<1> QED
  BY <1>7, <1>8, <1>10, <1>11

(* Runs of one, three and four packets. *)
LEMMA LeadsOne ==
    ASSUME NEW w \in Seq(Packet), Len(w) = 1,
           NEW s0 \in States, NEW t0 \in BOOLEAN,
           NEW s1 \in States, NEW t1 \in BOOLEAN,
           Step(s0, t0, w[1], s1, t1)
    PROVE  Leads(w, s0, t0, s1, t1)
<1> DEFINE st == [i \in 0..1 |-> IF i = 0 THEN s0 ELSE s1]
           tr == [i \in 0..1 |-> IF i = 0 THEN t0 ELSE t1]
<1>1. /\ st \in [0..1 -> States] /\ tr \in [0..1 -> BOOLEAN]
      /\ st[0] = s0 /\ tr[0] = t0
      /\ st[1] = s1 /\ tr[1] = t1
  OBVIOUS
<1> HIDE DEF st, tr
<1>2. ASSUME NEW i \in 1..1 PROVE Step(st[i - 1], tr[i - 1], w[i], st[i], tr[i])
  <2>1. i = 1
    OBVIOUS
  <2> QED
    BY <1>1, <2>1
<1> QED
  BY <1>1, <1>2 DEF Leads

LEMMA LeadsThree ==
    ASSUME NEW w \in Seq(Packet), Len(w) = 3,
           NEW s0 \in States, NEW t0 \in BOOLEAN,
           NEW s1 \in States, NEW t1 \in BOOLEAN,
           NEW s2 \in States, NEW t2 \in BOOLEAN,
           NEW s3 \in States, NEW t3 \in BOOLEAN,
           Step(s0, t0, w[1], s1, t1),
           Step(s1, t1, w[2], s2, t2),
           Step(s2, t2, w[3], s3, t3)
    PROVE  Leads(w, s0, t0, s3, t3)
<1> DEFINE st == [i \in 0..3 |-> IF i = 0 THEN s0 ELSE IF i = 1 THEN s1 ELSE IF i = 2 THEN s2 ELSE s3]
           tr == [i \in 0..3 |-> IF i = 0 THEN t0 ELSE IF i = 1 THEN t1 ELSE IF i = 2 THEN t2 ELSE t3]
<1>1. /\ st \in [0..3 -> States] /\ tr \in [0..3 -> BOOLEAN]
      /\ st[0] = s0 /\ tr[0] = t0
      /\ st[1] = s1 /\ tr[1] = t1
      /\ st[2] = s2 /\ tr[2] = t2
      /\ st[3] = s3 /\ tr[3] = t3
  OBVIOUS
<1> HIDE DEF st, tr
<1>2. ASSUME NEW i \in 1..3 PROVE Step(st[i - 1], tr[i - 1], w[i], st[i], tr[i])
  <2>1. i = 1 \/ i = 2 \/ i = 3
    OBVIOUS
  <2> QED
    BY <1>1, <2>1
<1> QED
  BY <1>1, <1>2 DEF Leads

LEMMA LeadsFour ==
    ASSUME NEW w \in Seq(Packet), Len(w) = 4,
           NEW t0 \in BOOLEAN, NEW t1 \in BOOLEAN, NEW e \in States,
           Step("reply", t0, w[1], "fields", t0),
           Step("fields", t0, w[2], "rows", t1),
           Step("rows", t1, w[3], "rows", t1),
           Step("rows", t1, w[4], e, t1)
    PROVE  Leads(w, "reply", t0, e, t1)
<1> DEFINE st == [i \in 0..4 |-> IF i = 0 THEN "reply" ELSE IF i = 1 THEN "fields" ELSE IF i \in {2, 3} THEN "rows" ELSE e]
           tr == [i \in 0..4 |-> IF i \in {0, 1} THEN t0 ELSE t1]
<1>1. /\ st \in [0..4 -> States] /\ tr \in [0..4 -> BOOLEAN]
      /\ st[0] = "reply" /\ tr[0] = t0 /\ st[1] = "fields" /\ tr[1] = t0
      /\ st[2] = "rows" /\ tr[2] = t1 /\ st[3] = "rows" /\ tr[3] = t1
      /\ st[4] = e /\ tr[4] = t1
  BY DEF States
<1> HIDE DEF st, tr
<1>2. ASSUME NEW i \in 1..4 PROVE Step(st[i - 1], tr[i - 1], w[i], st[i], tr[i])
  <2>1. i = 1 \/ i = 2 \/ i = 3 \/ i = 4
    OBVIOUS
  <2> QED
    BY <1>1, <2>1
<1> QED
  BY <1>1, <1>2 DEF Leads

LEMMA KindsOf ==
    ASSUME NEW out \in Outs
    PROVE  /\ Kinds(out) \in Seq({"OK", "ERR", "SET", "EOF", "ROW"})
           /\ (out = "ok" => Len(Kinds(out)) = 1 /\ Kinds(out)[1] = "OK")
           /\ (out = "error" => Len(Kinds(out)) = 1 /\ Kinds(out)[1] = "ERR")
           /\ (out = "empty" => /\ Len(Kinds(out)) = 3 /\ Kinds(out)[1] = "SET"
                                /\ Kinds(out)[2] = "EOF" /\ Kinds(out)[3] = "EOF")
           /\ (out = "rows" =>
                 /\ Len(Kinds(out)) = 4 /\ Kinds(out)[1] = "SET"
                 /\ Kinds(out)[2] = "EOF" /\ Kinds(out)[3] = "ROW" /\ Kinds(out)[4] = "EOF")
           /\ (out = "broken_rows" =>
                 /\ Len(Kinds(out)) = 4 /\ Kinds(out)[1] = "SET"
                 /\ Kinds(out)[2] = "EOF" /\ Kinds(out)[3] = "ROW" /\ Kinds(out)[4] = "ERR")
<1>1. CASE out = "ok"
  BY <1>1 DEF Kinds
<1>2. CASE out = "error"
  BY <1>2 DEF Kinds
<1>3. CASE out = "empty"
  BY <1>3 DEF Kinds
<1>4. CASE out = "rows"
  BY <1>4 DEF Kinds
<1>5. CASE out = "broken_rows"
  BY <1>5 DEF Kinds
<1> QED
  BY <1>1, <1>2, <1>3, <1>4, <1>5 DEF Outs

LEMMA ResultPacketsOf ==
    ASSUME NEW out \in Outs, NEW q \in Nat, NEW more \in BOOLEAN, NEW t \in BOOLEAN
    PROVE  /\ ResultPackets(out, q, more, t) \in Seq(Packet)
           /\ Len(ResultPackets(out, q, more, t)) = Len(Kinds(out))
           /\ \A j \in 1..Len(Kinds(out)) :
                 ResultPackets(out, q, more, t)[j] =
                   [kind |-> Kinds(out)[j], q |-> q, more |-> more, trans |-> t]
<1> DEFINE ks == Kinds(out)
           w == [j \in 1..Len(ks) |->
                   [kind |-> ks[j], q |-> q, more |-> more, trans |-> t]]
<1>1. Len(ks) \in Nat /\ \A j \in 1..Len(ks) : ks[j] \in {"OK", "ERR", "SET", "EOF", "ROW"}
  <2>1. ks \in Seq({"OK", "ERR", "SET", "EOF", "ROW"})
    BY KindsOf
  <2> HIDE DEF ks
  <2> QED
    BY <2>1
<1>2. ResultPackets(out, q, more, t) = w
  BY DEF ResultPackets
<1> HIDE DEF ks
<1>3. \A j \in 1..Len(ks) : [kind |-> ks[j], q |-> q, more |-> more, trans |-> t] \in Packet
  BY <1>1 DEF Packet
<1>4. w \in Seq(Packet) /\ Len(w) = Len(ks)
  BY <1>1, <1>3
<1> QED
  BY <1>2, <1>4 DEF ks

(* One result leads from its first packet to the next result or the end;   *)
(* an error does not tell what became of the transaction.                  *)
LEMMA ResultLeads ==
    ASSUME NEW out \in Outs, NEW q \in Nat, NEW more \in BOOLEAN, NEW t \in BOOLEAN,
           NEW t1 \in BOOLEAN, out = "error" => t1 = t,
           out \in {"error", "broken_rows"} => ~more
    PROVE  Leads(ResultPackets(out, q, more, t1), "reply", t,
                 IF more THEN "reply" ELSE "done", t1)
<1> DEFINE w == ResultPackets(out, q, more, t1)
           e == IF more THEN "reply" ELSE "done"
           P(k) == [kind |-> k, q |-> q, more |-> more, trans |-> t1]
           ks == Kinds(out)
<1>1. /\ w \in Seq(Packet) /\ Len(w) = Len(ks)
      /\ \A j \in 1..Len(ks) : w[j] = P(ks[j])
  BY ResultPacketsOf
<1>2. "reply" \in States /\ "fields" \in States /\ "rows" \in States /\ e \in States
  BY DEF States
<1>3. /\ (out = "ok" => Step("reply", t, P("OK"), e, t1))
      /\ (out = "error" => Step("reply", t, P("ERR"), e, t1))
      /\ Step("reply", t, P("SET"), "fields", t)
      /\ Step("fields", t, P("EOF"), "rows", t1)
      /\ Step("rows", t1, P("EOF"), e, t1)
      /\ Step("rows", t1, P("ROW"), "rows", t1)
      /\ (out = "broken_rows" => Step("rows", t1, P("ERR"), e, t1))
  BY DEF Step, Allowed, After, TransOf, InRows
<1>4. CASE out \in {"ok", "error"}
  <2>1. Len(ks) = 1 /\ (out = "ok" => ks[1] = "OK") /\ (out = "error" => ks[1] = "ERR")
    BY <1>4, KindsOf
  <2> HIDE DEF w, e, P, ks
  <2>2. Len(w) = 1 /\ Step("reply", t, w[1], e, t1)
    BY <1>1, <1>3, <1>4, <2>1
  <2>3. Leads(w, "reply", t, e, t1)
    BY <1>1, <1>2, <2>2, LeadsOne
  <2> QED
    BY <2>3 DEF w, e
<1>5. CASE out = "empty"
  <2>1. Len(ks) = 3 /\ ks[1] = "SET" /\ ks[2] = "EOF" /\ ks[3] = "EOF"
    BY <1>5, KindsOf
  <2> HIDE DEF w, e, P, ks
  <2>2. /\ Len(w) = 3
        /\ Step("reply", t, w[1], "fields", t)
        /\ Step("fields", t, w[2], "rows", t1)
        /\ Step("rows", t1, w[3], e, t1)
    BY <1>1, <1>3, <2>1
  <2>3. Leads(w, "reply", t, e, t1)
    BY <1>1, <1>2, <2>2, LeadsThree
  <2> QED
    BY <2>3 DEF w, e
<1>6. CASE out \in {"rows", "broken_rows"}
  <2>1. /\ Len(ks) = 4 /\ ks[1] = "SET" /\ ks[2] = "EOF" /\ ks[3] = "ROW"
        /\ (out = "rows" => ks[4] = "EOF") /\ (out = "broken_rows" => ks[4] = "ERR")
    BY <1>6, KindsOf
  <2> HIDE DEF w, e, P, ks
  <2>2. /\ Len(w) = 4
        /\ Step("reply", t, w[1], "fields", t)
        /\ Step("fields", t, w[2], "rows", t1)
        /\ Step("rows", t1, w[3], "rows", t1)
        /\ Step("rows", t1, w[4], e, t1)
    BY <1>1, <1>3, <1>6, <2>1
  <2>3. Leads(w, "reply", t, e, t1)
    BY <1>1, <1>2, <2>2, LeadsFour
  <2> QED
    BY <2>3 DEF w, e
<1> QED
  BY <1>4, <1>5, <1>6 DEF Outs

LEMMA AnswersConcat ==
    ASSUME NEW u \in Seq(Packet), NEW v \in Seq(Packet), NEW q,
           Answers(u, q), Answers(v, q)
    PROVE  Answers(u \o v, q)
<1> SUFFICES ASSUME NEW i \in 1..Len(u \o v) PROVE (u \o v)[i].q = q
  BY DEF Answers
<1>1. CASE i <= Len(u)
  <2>1. i \in 1..Len(u) /\ (u \o v)[i] = u[i]
    BY <1>1
  <2> QED
    BY <2>1 DEF Answers
<1>2. CASE ~(i <= Len(u))
  <2>1. i - Len(u) \in 1..Len(v) /\ (u \o v)[i] = v[i - Len(u)]
    BY <1>2
  <2> QED
    BY <2>1 DEF Answers
<1> QED
  BY <1>1, <1>2

LEMMA ResultAnswers ==
    ASSUME NEW out \in Outs, NEW q \in Nat, NEW more \in BOOLEAN, NEW t \in BOOLEAN
    PROVE  Answers(ResultPackets(out, q, more, t), q)
<1> DEFINE w == ResultPackets(out, q, more, t)
<1>1. Len(w) = Len(Kinds(out)) /\ \A j \in 1..Len(w) :
         w[j] = [kind |-> Kinds(out)[j], q |-> q, more |-> more, trans |-> t]
  BY ResultPacketsOf
<1> HIDE DEF w
<1>2. ASSUME NEW j \in 1..Len(w) PROVE w[j].q = q
  <2> DEFINE p == [kind |-> Kinds(out)[j], q |-> q, more |-> more, trans |-> t]
  <2>1. p.q = q
    OBVIOUS
  <2>2. w[j] = p
    BY <1>1
  <2> HIDE DEF p
  <2> QED
    BY <2>1, <2>2
<1> QED
  BY <1>2 DEF Answers, w

(* What is said of a query in ClientAssumption.                            *)
WellFormed(r) ==
    /\ r \in Seq(Answer) /\ r # <<>>
    /\ \A i \in 1..Len(r) : /\ (r[i].out \in {"broken_rows", "error"} => i = Len(r))
                            /\ (r[i].out = "error" => r[i].trans = "keep")

(* The answer to a query leads to its end. *)
LEMMA PacketsLead ==
    ASSUME NEW r, WellFormed(r), NEW q \in Nat, NEW t \in BOOLEAN
    PROVE  /\ Packets(r, q, t) \in Seq(Packet) /\ Answers(Packets(r, q, t), q)
           /\ Leads(Packets(r, q, t), "reply", t, "done", TransAfter(r, t)[Len(r)])
           /\ TransAfter(r, t)[Len(r)] \in BOOLEAN
<1> DEFINE n == Len(r)
           A == TransAfter(r, t)
           ss == [i \in 1..n |-> ResultPackets(r[i].out, q, i < n, A[i])]
           e(i) == IF i < n THEN "reply" ELSE "done"
<1>1. n \in Nat /\ n >= 1 /\ r \in Seq(Answer)
  BY DEF WellFormed
<1>2. \A i \in 1..n : r[i] \in Answer
  BY <1>1
<1>3. \A i \in 1..n : r[i].out \in Outs
  BY <1>2 DEF Answer
<1>4. A \in [0..n -> BOOLEAN] /\ A[0] = t /\ \A i \in 1..n : r[i].trans = "keep" => A[i] = A[i - 1]
  BY <1>1, TransAfterSteps
<1>5. \A i \in 1..n : /\ (r[i].out \in {"broken_rows", "error"} => i = n)
                      /\ (r[i].out = "error" => A[i] = A[i - 1])
  BY <1>4 DEF WellFormed
<1> HIDE DEF A, n
<1>6. ASSUME NEW i \in 1..n
      PROVE  /\ ResultPackets(r[i].out, q, i < n, A[i]) \in Seq(Packet)
             /\ Answers(ResultPackets(r[i].out, q, i < n, A[i]), q)
             /\ Leads(ResultPackets(r[i].out, q, i < n, A[i]), "reply", A[i - 1], e(i), A[i])
  <2>1. i - 1 \in 0..n /\ i \in 0..n
    BY <1>1
  <2>2. A[i] \in BOOLEAN /\ A[i - 1] \in BOOLEAN /\ (i < n) \in BOOLEAN /\ r[i].out \in Outs
    BY <1>3, <1>4, <2>1
  <2>3. (r[i].out = "error" => A[i] = A[i - 1]) /\ (r[i].out \in {"error", "broken_rows"} => ~(i < n))
    BY <1>1, <1>5
  <2> DEFINE b == i < n
             c == A[i]
             o == r[i].out
  <2>4. b \in BOOLEAN /\ c \in BOOLEAN /\ A[i - 1] \in BOOLEAN /\ o \in Outs
    BY <2>2
  <2>5. (o = "error" => c = A[i - 1]) /\ (o \in {"error", "broken_rows"} => ~b)
    BY <2>3
  <2>6. e(i) = IF b THEN "reply" ELSE "done"
    OBVIOUS
  <2> HIDE DEF b, c, o, e
  <2>7. ResultPackets(o, q, b, c) \in Seq(Packet) /\ Answers(ResultPackets(o, q, b, c), q)
    BY <2>4, ResultPacketsOf, ResultAnswers
  <2>8. Leads(ResultPackets(o, q, b, c), "reply", A[i - 1], e(i), c)
    BY <2>4, <2>5, <2>6, ResultLeads
  <2> QED
    BY <2>7, <2>8 DEF b, c, o
<1>7. ss \in Seq(Seq(Packet)) /\ Len(ss) = n /\ ss # <<>>
  BY <1>1, <1>6
<1>8. \A i \in 1..n : ss[i] = ResultPackets(r[i].out, q, i < n, A[i])
  OBVIOUS
<1>9. Packets(r, q, t) = FlattenSeq(ss)
  BY DEF Packets, A, n
<1> HIDE DEF ss
<1>10. PICK f \in [1..n -> Seq(Packet)] :
          /\ f[1] = ss[1] /\ FlattenSeq(ss) = f[n]
          /\ \A i \in 2..n : f[i] = f[i - 1] \o ss[i]
  BY <1>7, FlattenSeqSteps
<1> DEFINE Good(i) == Answers(f[i], q) /\ Leads(f[i], "reply", t, e(i), A[i])
           T == {m \in Nat : m + 1 \in 1..n => Good(m + 1)}
<1>11. 0 \in T
  <2>1. 1 \in 1..n /\ 1 - 1 = 0 /\ 0 + 1 = 1
    BY <1>1
  <2>2. Answers(f[1], q) /\ Leads(f[1], "reply", A[0], e(1), A[1])
    <3> HIDE DEF e
    <3> QED
      BY <1>6, <1>8, <1>10, <2>1
  <2>3. Good(1)
    BY <1>4, <2>2
  <2> HIDE DEF Good
  <2> QED
    BY <2>1, <2>3
<1>12. ASSUME NEW m \in Nat, m \in T PROVE m + 1 \in T
  <2> SUFFICES ASSUME (m + 1) + 1 \in 1..n PROVE Good((m + 1) + 1)
    OBVIOUS
  <2> DEFINE i == (m + 1) + 1
  <2>1. i \in 2..n /\ i \in 1..n /\ i - 1 = m + 1 /\ i - 1 \in 1..n /\ i - 1 < n /\ m + 1 \in 1..n
    BY <1>1
  <2>2. Good(m + 1)
    BY <1>12, <2>1
  <2>3. Answers(f[i - 1], q) /\ Leads(f[i - 1], "reply", t, "reply", A[i - 1])
    <3>1. m + 1 < n
      BY <2>1
    <3> HIDE DEF i
    <3> QED
      BY <2>1, <2>2, <3>1
  <2> HIDE DEF i
  <2>4. /\ f[i - 1] \in Seq(Packet) /\ ss[i] \in Seq(Packet) /\ f[i] = f[i - 1] \o ss[i]
        /\ Answers(ss[i], q)
    BY <1>6, <1>8, <1>10, <2>1
  <2>5. Leads(ss[i], "reply", A[i - 1], e(i), A[i])
    <3> HIDE DEF e
    <3> QED
      BY <1>6, <1>8, <2>1
  <2>6. Answers(f[i], q)
    BY <2>3, <2>4, AnswersConcat
  <2> HIDE DEF e
  <2>7. Leads(f[i], "reply", t, e(i), A[i])
    BY <2>3, <2>4, <2>5, LeadsConcat
  <2> QED
    BY <2>6, <2>7 DEF i
<1>13. Nat \subseteq T
  <2> HIDE DEF T
  <2> QED
    BY <1>11, <1>12, SetInduction
<1>14. Good(n)
  <2>1. n - 1 \in Nat /\ (n - 1) + 1 = n /\ n \in 1..n
    BY <1>1
  <2>2. n - 1 \in T
    BY <1>13, <2>1
  <2> HIDE DEF Good
  <2> QED
    BY <2>1, <2>2
<1>15. Packets(r, q, t) = f[n] /\ f[n] \in Seq(Packet) /\ A[n] \in BOOLEAN
  BY <1>1, <1>4, <1>9, <1>10
<1>16. e(n) = "done"
  BY <1>1
<1> QED
  BY <1>14, <1>15, <1>16 DEF A, n

LEMMA ResponsesWellFormed == \A r \in Responses : WellFormed(r)
BY ClientAssumption DEF WellFormed, Answer, Outs

(* The answer to mysql_ping or mysql_stmt_prepare. *)
LEMMA SimpleLeads ==
    ASSUME NEW r \in Simple, NEW q \in Nat, NEW t \in BOOLEAN
    PROVE  /\ Packets(r, q, t) \in Seq(Packet) /\ Answers(Packets(r, q, t), q)
           /\ Leads(Packets(r, q, t), "simple", t, "done", t)
           /\ TransAfter(r, t)[Len(r)] = t
<1>1. PICK o \in {"ok", "error"} : r = <<[out |-> o, trans |-> "keep"]>>
  BY DEF Simple
<1> DEFINE a == [out |-> o, trans |-> "keep"]
           w == ResultPackets(o, q, FALSE, t)
           ss == [i \in 1..1 |-> w]
<1>2. a \in Answer /\ a.out = o /\ a.trans = "keep" /\ o \in Outs
  BY DEF Answer, Outs
<1> HIDE DEF a
<1>3. r \in Seq(Answer) /\ Len(r) = 1 /\ r[1] = a
  BY <1>1, <1>2 DEF a
<1>4. TransAfter(r, t)[1] = t
  <2>1. 1 \in 1..Len(r) /\ 1 - 1 = 0 /\ r[1].trans = "keep"
    BY <1>2, <1>3
  <2> QED
    BY <1>3, <2>1, TransAfterSteps
<1>5. [i \in 1..Len(r) |-> ResultPackets(r[i].out, q, i < Len(r), TransAfter(r, t)[i])] = ss
  <2>1. ASSUME NEW i \in 1..1
        PROVE  ResultPackets(r[i].out, q, i < Len(r), TransAfter(r, t)[i]) = w
    <3>1. i = 1 /\ (i < Len(r)) = FALSE /\ r[i].out = o /\ TransAfter(r, t)[i] = t
      BY <1>2, <1>3, <1>4
    <3> QED
      BY <3>1, Zenon
  <2> HIDE DEF w
  <2> QED
    BY <1>3, <2>1
<1>6. Packets(r, q, t) = FlattenSeq(ss)
  BY <1>5 DEF Packets
<1>7. w \in Seq(Packet) /\ Answers(w, q)
  BY <1>2, ResultPacketsOf, ResultAnswers
<1>8. Packets(r, q, t) = w
  <2> HIDE DEF w
  <2>1. ss \in Seq(Seq(Packet)) /\ ss # <<>> /\ Len(ss) = 1 /\ ss[1] = w
    BY <1>7
  <2> HIDE DEF ss
  <2> QED
    BY <1>6, <2>1, FlattenSeqSteps
<1>9. Leads(w, "simple", t, "done", t)
  <2>1. /\ Len(w) = 1
        /\ w[1] = [kind |-> Kinds(o)[1], q |-> q, more |-> FALSE, trans |-> t]
        /\ Kinds(o)[1] \in {"OK", "ERR"}
    <3>1. Len(Kinds(o)) = 1 /\ Kinds(o)[1] \in {"OK", "ERR"}
      BY <1>2, KindsOf
    <3>2. FALSE \in BOOLEAN /\ 1 \in 1..Len(Kinds(o))
      BY <3>1
    <3> QED
      BY <1>2, <3>1, <3>2, ResultPacketsOf
  <2>2. Step("simple", t, w[1], "done", t)
    <3> HIDE DEF w
    <3> QED
      BY <2>1 DEF Step, Allowed, After, TransOf
  <2>3. "simple" \in States /\ "done" \in States
    BY DEF States
  <2> HIDE DEF w
  <2> QED
    BY <1>7, <2>1, <2>2, <2>3, LeadsOne
<1> HIDE DEF w
<1> QED
  BY <1>3, <1>4, <1>7, <1>8, <1>9

(* A command without an answer. *)
LEMMA NoPackets ==
    ASSUME NEW q, NEW t \in BOOLEAN
    PROVE  Packets(<<>>, q, t) = <<>> /\ TransAfter(<<>>, t)[Len(<<>>)] = t
<1>1. <<>> \in Seq(Answer) /\ Len(<<>>) = 0
  OBVIOUS
<1>2. TransAfter(<<>>, t)[0] = t
  BY <1>1, TransAfterSteps
<1>3. Packets(<<>>, q, t) = <<>>
  BY DEF Packets, FlattenSeq
<1> QED
  BY <1>1, <1>2, <1>3

-----------------------------------------------------------------------------
(* What is on the wire and what the handle does with it. *)
LEMMA OnWayHead ==
    ASSUME NEW w \in Seq(Packet), w # <<>>, NEW s, NEW t, NEW c, NEW u, OnWay(w, s, t, c, u)
    PROVE  /\ Step(s, t, Head(w), After(s, Head(w)), TransOf(t, Head(w)))
           /\ OnWay(Tail(w), After(s, Head(w)), TransOf(t, Head(w)), c, u)
<1>1. PICK s1 \in States, t1 \in BOOLEAN :
         Leads(w, s, t, s1, t1) /\ (c = "up" => s1 = "done" /\ t1 = u)
  BY DEF OnWay
<1>2. /\ Step(s, t, Head(w), After(s, Head(w)), TransOf(t, Head(w)))
      /\ Leads(Tail(w), After(s, Head(w)), TransOf(t, Head(w)), s1, t1)
  BY <1>1, LeadsHead
<1> QED
  BY <1>1, <1>2 DEF OnWay

LEMMA OnWayEmpty ==
    ASSUME NEW s \in States, NEW t \in BOOLEAN, NEW c, NEW u
    PROVE  OnWay(<<>>, s, t, c, u) <=> (c = "up" => s = "done" /\ t = u)
BY LeadsEmpty DEF OnWay

LEMMA OnWayDone ==
    ASSUME NEW w \in Seq(Packet), NEW t \in BOOLEAN, NEW c, NEW u, OnWay(w, "done", t, c, u)
    PROVE  w = <<>> /\ (c = "up" => t = u)
<1>1. w = <<>>
  <2> SUFFICES ASSUME w # <<>> PROVE FALSE
    OBVIOUS
  <2>1. Head(w).kind \in Allowed("done")
    BY OnWayHead DEF Step
  <2> QED
    BY <2>1 DEF Allowed
<1>2. "done" \in States
  BY DEF States
<1> QED
  BY <1>1, <1>2, OnWayEmpty

LEMMA OnWayPrefix ==
    ASSUME NEW w \in Seq(Packet), NEW n \in 0..Len(w), NEW s, NEW t, NEW c, NEW u,
           OnWay(w, s, t, c, u), NEW v
    PROVE  OnWay(SubSeq(w, 1, n), s, t, "broken", v)
BY LeadsPrefix DEF OnWay

LEMMA PhaseType == \A p, m : Phase(p, m) \in States
BY DEF Phase, States

LEMMA WireFacts ==
    ASSUME HandleInv, wire # <<>>
    PROVE  /\ Head(wire) \in Packet /\ Head(wire).kind \in Allowed(Phase(pc, mysql))
           /\ Phase(pc, mysql) = "simple" =>
                ~Head(wire).more /\ TransOf(mysql.trans, Head(wire)) = mysql.trans
           /\ conn # "none" /\ ~lost
<1>1. wire \in Seq(Packet) /\ OnWay(wire, Phase(pc, mysql), mysql.trans, conn, srvTrans)
  BY DEF HandleInv, WireInv
<1>2. Step(Phase(pc, mysql), mysql.trans, Head(wire), After(Phase(pc, mysql), Head(wire)),
           TransOf(mysql.trans, Head(wire)))
  BY <1>1, OnWayHead
<1>3. Head(wire) \in Packet
  BY <1>1
<1>4. conn # "none"
  BY DEF HandleInv, WireInv
<1>5. ~lost
  BY <1>4 DEF HandleInv, LossInv
<1> QED
  BY <1>2, <1>3, <1>4, <1>5 DEF Step

(* A packet is read: the handle goes where the packet says. *)
LEMMA WireRead ==
    ASSUME HandleInv, wire # <<>>, wire' = Tail(wire), UNCHANGED <<conn, last, srvTrans>>,
           Phase(pc', mysql') = After(Phase(pc, mysql), Head(wire)),
           mysql'.trans = TransOf(mysql.trans, Head(wire))
    PROVE  WireInv'
<1>1. /\ wire \in Seq(Packet) /\ OnWay(wire, Phase(pc, mysql), mysql.trans, conn, srvTrans)
      /\ Answers(wire, last) /\ conn # "none"
  BY WireFacts DEF HandleInv, WireInv
<1>2. OnWay(Tail(wire), After(Phase(pc, mysql), Head(wire)), TransOf(mysql.trans, Head(wire)),
            conn, srvTrans)
  BY <1>1, OnWayHead
<1>3. Tail(wire) \in Seq(Packet) /\ Answers(Tail(wire), last)
  BY <1>1 DEF Answers
<1> QED
  BY <1>1, <1>2, <1>3 DEF WireInv

(* The wire does not change, nor where the handle is. *)
LEMMA WireKept ==
    ASSUME HandleInv, UNCHANGED <<wire, conn, last, srvTrans>>,
           Phase(pc', mysql') = Phase(pc, mysql), mysql'.trans = mysql.trans
    PROVE  WireInv'
BY DEF HandleInv, WireInv

(* No session, nothing to read. *)
LEMMA WireGone ==
    ASSUME wire' = <<>>, conn' # "up", mysql'.trans \in BOOLEAN
    PROVE  WireInv'
<1>1. OnWay(<<>>, Phase(pc', mysql'), mysql'.trans, conn', srvTrans')
  BY PhaseType, OnWayEmpty
<1>2. <<>> \in Seq(Packet) /\ Answers(<<>>, last')
  BY DEF Answers
<1> QED
  BY <1>1, <1>2 DEF WireInv

-----------------------------------------------------------------------------
(* Every step keeps the invariant. *)
LEMMA InitInv == Init => HandleInv
<1> SUFFICES ASSUME Init PROVE HandleInv
  OBVIOUS
<1>1. TypeOK /\ last \in Nat
  BY DEF Init, TypeOK, Reading, Flushing
<1>2. Phase(pc, mysql) = "done" /\ "done" \in States
  BY DEF Init, Phase, States
<1>3. WireInv
  <2>1. OnWay(<<>>, "done", FALSE, conn, srvTrans)
    BY <1>2, OnWayEmpty DEF Init
  <2>2. <<>> \in Seq(Packet) /\ Answers(<<>>, last)
    BY DEF Answers
  <2> QED
    BY <1>2, <2>1, <2>2 DEF Init, WireInv
<1>4. StatusInv /\ ResultInv /\ LossInv
  BY DEF Init, StatusInv, ResultInv, LossInv, Reading
<1> QED
  BY <1>1, <1>3, <1>4 DEF HandleInv

LEMMA BreakStep == ASSUME HandleInv, Break, UNCHANGED orphaned
    PROVE HandleInv'
<1>1. PICK n \in 0..Len(wire) : wire' = SubSeq(wire, 1, n)
  BY DEF Break
<1>2. wire \in Seq(Packet) /\ OnWay(wire, Phase(pc, mysql), mysql.trans, conn, srvTrans)
      /\ Answers(wire, last)
  BY DEF HandleInv, WireInv
<1>3. OnWay(wire', Phase(pc, mysql), mysql.trans, "broken", srvTrans')
  BY <1>1, <1>2, OnWayPrefix
<1>4. wire' \in Seq(Packet) /\ Answers(wire', last)
  BY <1>1, <1>2 DEF Answers
<1>5. WireInv'
  BY <1>3, <1>4 DEF Break, WireInv
<1>6. (TypeOK /\ last \in Nat)'
  BY DEF HandleInv, TypeOK, Break
<1>7. (StatusInv /\ ResultInv /\ LossInv)'
  BY DEF HandleInv, StatusInv, ResultInv, LossInv, Break
<1> QED
  BY <1>5, <1>6, <1>7 DEF HandleInv

LEMMA ReadReplyStep == ASSUME HandleInv, ReadReply, UNCHANGED orphaned
    PROVE HandleInv'
<1> DEFINE p == Head(wire)
<1>1. /\ p \in Packet /\ p.kind \in {"OK", "SET"} /\ wire # <<>> /\ conn # "none" /\ ~lost
      /\ pc = "reply" /\ mysql.status = "READY"
  BY WireFacts DEF ReadReply, Read, HandleInv, StatusInv, Reading
<1>2. p.more \in BOOLEAN /\ p.trans \in BOOLEAN
  BY <1>1 DEF Packet
<1> HIDE DEF p
<1>3. /\ \/ p.kind = "OK" /\ pc' = "idle" /\ mysql' = Flags([mysql EXCEPT !.fields = FALSE], p)
         \/ p.kind = "SET" /\ pc' = "fields" /\ mysql' = [mysql EXCEPT !.fields = FALSE]
      /\ wire' = Tail(wire)
      /\ UNCHANGED <<reconnect, conn, last, breaks, srvTrans, stmt, res, lost>>
  BY <1>1 DEF ReadReply, Read, p
<1>4. (TypeOK /\ last \in Nat)'
  BY <1>2, <1>3 DEF HandleInv, TypeOK, Flags, Reading
<1>5. /\ Phase(pc', mysql') = After(Phase(pc, mysql), p)
      /\ mysql'.trans = TransOf(mysql.trans, p)
      /\ mysql'.status = mysql.status /\ mysql'.owner = mysql.owner
  BY <1>1, <1>3 DEF HandleInv, TypeOK, Flags, Phase, After, TransOf
<1>6. WireInv'
  BY <1>1, <1>3, <1>5, WireRead DEF p
<1>7. (StatusInv /\ ResultInv /\ LossInv)'
  BY <1>1, <1>3, <1>5 DEF HandleInv, StatusInv, ResultInv, LossInv, Reading
<1> QED
  BY <1>4, <1>6, <1>7 DEF HandleInv

LEMMA ReadFieldsStep == ASSUME HandleInv, ReadFields, UNCHANGED orphaned
    PROVE HandleInv'
<1> DEFINE p == Head(wire)
<1>1. /\ p \in Packet /\ p.kind = "EOF" /\ wire # <<>> /\ conn # "none" /\ ~lost
      /\ pc = "fields" /\ mysql.status = "READY"
  BY WireFacts DEF ReadFields, Read, HandleInv, StatusInv, Reading
<1>2. p.more \in BOOLEAN /\ p.trans \in BOOLEAN
  BY <1>1 DEF Packet
<1> HIDE DEF p
<1>3. /\ pc' = "idle"
      /\ mysql' = [Flags(mysql, p) EXCEPT !.status = "GET", !.fields = TRUE]
      /\ wire' = Tail(wire)
      /\ UNCHANGED <<reconnect, conn, last, breaks, srvTrans, stmt, res, lost>>
  BY <1>1 DEF ReadFields, Read, p
<1>4. (TypeOK /\ last \in Nat)'
  BY <1>2, <1>3 DEF HandleInv, TypeOK, Flags, Reading
<1>5. /\ Phase(pc', mysql') = After(Phase(pc, mysql), p)
      /\ mysql'.trans = TransOf(mysql.trans, p)
      /\ mysql'.status = "GET" /\ mysql'.fields /\ mysql'.owner = mysql.owner
  BY <1>1, <1>3 DEF HandleInv, TypeOK, Flags, Phase, After, TransOf
<1>6. WireInv'
  BY <1>1, <1>3, <1>5, WireRead DEF p
<1>7. (StatusInv /\ ResultInv /\ LossInv)'
  BY <1>1, <1>3, <1>5 DEF HandleInv, StatusInv, ResultInv, LossInv, Reading
<1> QED
  BY <1>4, <1>6, <1>7 DEF HandleInv

LEMMA ReadSimpleStep == ASSUME HandleInv, ReadSimple, UNCHANGED orphaned
    PROVE HandleInv'
<1> DEFINE p == Head(wire)
<1>1. /\ p \in Packet /\ p.kind = "OK" /\ wire # <<>> /\ conn # "none" /\ ~lost
      /\ pc \in {"simple", "prepare"} /\ mysql.status = "READY" /\ ~mysql.more
  BY WireFacts DEF ReadSimple, Read, HandleInv, StatusInv, Reading
<1>2. Phase(pc, mysql) = "simple"
  BY <1>1 DEF Phase
<1>3. ~p.more /\ TransOf(mysql.trans, p) = mysql.trans
  BY <1>1, <1>2, WireFacts
<1> HIDE DEF p
<1>4. /\ pc' = "idle" /\ mysql' = mysql /\ wire' = Tail(wire)
      /\ stmt' \in {stmt, "prepared"}
      /\ UNCHANGED <<reconnect, conn, last, breaks, srvTrans, res, lost>>
  BY <1>1 DEF ReadSimple, Read
<1>5. (TypeOK /\ last \in Nat)'
  BY <1>4 DEF HandleInv, TypeOK
<1>6. Phase(pc', mysql') = After(Phase(pc, mysql), p)
  BY <1>1, <1>2, <1>3, <1>4 DEF Phase, After
<1>7. WireInv'
  BY <1>1, <1>3, <1>4, <1>6, WireRead DEF p
<1>8. (StatusInv /\ ResultInv /\ LossInv)'
  BY <1>1, <1>4 DEF HandleInv, StatusInv, ResultInv, LossInv, Reading
<1> QED
  BY <1>5, <1>7, <1>8 DEF HandleInv

LEMMA ReadRowsStep == ASSUME HandleInv, ReadRows, UNCHANGED orphaned
    PROVE HandleInv'
<1> DEFINE p == Head(wire)
<1>1. /\ p \in Packet /\ p.kind \in {"ROW", "EOF"} /\ wire # <<>> /\ conn # "none" /\ ~lost
      /\ pc = "rows" /\ mysql.status = "READY"
  BY WireFacts DEF ReadRows, Read, HandleInv, StatusInv, Reading
<1>2. p.more \in BOOLEAN /\ p.trans \in BOOLEAN
  BY <1>1 DEF Packet
<1> HIDE DEF p
<1>3. /\ \/ p.kind = "ROW" /\ UNCHANGED <<mysql, pc>>
         \/ /\ p.kind = "EOF" /\ pc' = "idle"
            /\ mysql' = [Flags(mysql, p) EXCEPT !.fields = FALSE, !.owner = None]
      /\ wire' = Tail(wire)
      /\ UNCHANGED <<reconnect, conn, last, breaks, srvTrans, stmt, res, lost>>
  BY <1>1 DEF ReadRows, Read, p
<1>4. (TypeOK /\ last \in Nat)'
  BY <1>2, <1>3 DEF HandleInv, TypeOK, Flags, Reading
<1>5. /\ Phase(pc', mysql') = After(Phase(pc, mysql), p)
      /\ mysql'.trans = TransOf(mysql.trans, p)
      /\ mysql'.status = "READY" /\ mysql'.owner \in {mysql.owner, None}
  BY <1>1, <1>3 DEF HandleInv, TypeOK, Flags, Phase, After, TransOf
<1>6. WireInv'
  BY <1>1, <1>3, <1>5, WireRead DEF p
<1>7. (StatusInv /\ ResultInv /\ LossInv)'
  BY <1>1, <1>3, <1>5 DEF HandleInv, StatusInv, ResultInv, LossInv, Reading
<1> QED
  BY <1>4, <1>6, <1>7 DEF HandleInv

Handle == [status : {"READY", "GET", "USE"}, more : BOOLEAN, trans : BOOLEAN,
           fields : BOOLEAN, owner : Results \cup {None}]

(* The rows of a result have been discarded: its owner is told. *)
LEMMA FlushedResults ==
    ASSUME HandleInv, pc \in Flushing, NEW m \in Handle, m.owner = mysql.owner, NEW l,
           Flushed(m, l), UNCHANGED last
    PROVE  /\ mysql' \in Handle /\ mysql'.status = "READY" /\ mysql'.more = m.more
           /\ mysql'.trans = m.trans /\ pc' \in {"idle", "close"} /\ lost' = l
           /\ StatusInv' /\ ResultInv'
<1>1. /\ mysql' \in Handle /\ mysql'.status = "READY" /\ mysql'.more = m.more
      /\ mysql'.trans = m.trans /\ mysql'.owner = mysql.owner
      /\ pc' \in {"idle", "close"} /\ lost' = l
  BY DEF Flushed, Handle
<1>2. StatusInv'
  BY <1>1 DEF StatusInv, Reading
<1>3. res \in [Results -> {None} \cup [q : Nat, cancelled : BOOLEAN]]
  BY DEF HandleInv, ResultInv
<1>4. mysql.owner \in Results \cup {None}
  BY DEF HandleInv, TypeOK
<1>5. None \notin Results /\ None \notin [q : Nat, cancelled : BOOLEAN]
  BY ClientAssumption
<1>6. CASE mysql.owner = None
  <2>1. res' = res
    BY <1>6 DEF Flushed, Cancelled
  <2> QED
    BY <1>1, <1>2, <1>3, <1>5, <1>6, <2>1 DEF HandleInv, ResultInv, Flushing
<1>7. CASE mysql.owner # None
  <2> DEFINE o == mysql.owner
  <2>1. /\ o \in Results /\ res[o] \in [q : Nat, cancelled : BOOLEAN]
        /\ res' = [res EXCEPT ![o].cancelled = TRUE]
    BY <1>3, <1>4, <1>7 DEF Flushed, Cancelled, HandleInv, ResultInv
  <2> HIDE DEF o
  <2>2. /\ res'[o] \in [q : Nat, cancelled : BOOLEAN] /\ res'[o].cancelled
        /\ res' \in [Results -> {None} \cup [q : Nat, cancelled : BOOLEAN]]
        /\ \A r \in Results \ {o} : res'[r] = res[r]
    BY <1>3, <2>1
  <2>3. res'[o] # None
    BY <1>5, <2>2
  <2>4. mysql'.owner = o
    BY <1>1 DEF o
  <2> QED
    BY <1>1, <1>2, <2>2, <2>3, <2>4 DEF ResultInv
<1> QED
  BY <1>1, <1>2, <1>6, <1>7

LEMMA FreeRowsStep == ASSUME HandleInv, FreeRows, UNCHANGED orphaned
    PROVE HandleInv'
<1> DEFINE p == Head(wire)
           m == Flags(mysql, p)
<1>1. /\ p \in Packet /\ p.kind \in {"ROW", "EOF"} /\ wire # <<>> /\ conn # "none" /\ ~lost
      /\ pc = "free_rows" /\ pc \in Flushing
  BY WireFacts DEF FreeRows, Read, Flushing
<1>2. p.more \in BOOLEAN /\ p.trans \in BOOLEAN
  BY <1>1 DEF Packet
<1> HIDE DEF p
<1>3. /\ wire' = Tail(wire)
      /\ UNCHANGED <<reconnect, conn, last, breaks, srvTrans, stmt>>
      /\ \/ p.kind = "ROW" /\ UNCHANGED <<mysql, res, pc, lost>>
         \/ p.kind = "EOF" /\ Flushed(m, lost)
  BY <1>1 DEF FreeRows, Read, p
<1>4. CASE p.kind = "ROW" /\ UNCHANGED <<mysql, res, pc, lost>>
  <2>1. /\ Phase(pc', mysql') = After(Phase(pc, mysql), p)
        /\ mysql'.trans = TransOf(mysql.trans, p)
    BY <1>1, <1>4 DEF Phase, After, TransOf
  <2>2. WireInv'
    BY <1>1, <1>3, <2>1, WireRead DEF p
  <2>3. (TypeOK /\ last \in Nat)'
    BY <1>3, <1>4 DEF HandleInv, TypeOK
  <2>4. (StatusInv /\ ResultInv /\ LossInv)'
    BY <1>3, <1>4 DEF HandleInv, StatusInv, ResultInv, LossInv
  <2> QED
    BY <2>2, <2>3, <2>4 DEF HandleInv
<1>5. CASE p.kind = "EOF" /\ Flushed(m, lost)
  <2>1. m \in Handle /\ m.owner = mysql.owner /\ m.more = p.more /\ m.trans = p.trans
    BY <1>2 DEF Flags, Handle, HandleInv, TypeOK
  <2> HIDE DEF m
  <2>2. /\ mysql' \in Handle /\ mysql'.status = "READY" /\ mysql'.more = m.more
        /\ mysql'.trans = m.trans /\ pc' \in {"idle", "close"} /\ lost' = lost
        /\ StatusInv' /\ ResultInv'
    BY <1>1, <1>3, <1>5, <2>1, FlushedResults
  <2>3. /\ Phase(pc', mysql') = After(Phase(pc, mysql), p)
        /\ mysql'.trans = TransOf(mysql.trans, p)
    BY <1>1, <1>5, <2>1, <2>2 DEF Phase, After, TransOf
  <2>4. WireInv'
    BY <1>1, <1>3, <2>3, WireRead DEF p
  <2>5. (TypeOK /\ last \in Nat)'
    BY <1>3, <2>2 DEF HandleInv, TypeOK, Handle
  <2>6. LossInv'
    BY <1>1, <2>2 DEF LossInv
  <2> QED
    BY <2>2, <2>4, <2>5, <2>6 DEF HandleInv
<1> QED
  BY <1>3, <1>4, <1>5

LEMMA CloseRowsStep == ASSUME HandleInv, CloseRows, UNCHANGED orphaned
    PROVE HandleInv'
<1> DEFINE p == Head(wire)
           m == Flags(mysql, p)
<1>1. /\ p \in Packet /\ p.kind \in {"ROW", "EOF"} /\ wire # <<>> /\ conn # "none" /\ ~lost
      /\ pc = "close_rows" /\ pc \in Flushing
  BY WireFacts DEF CloseRows, Read, Flushing
<1>2. p.more \in BOOLEAN /\ p.trans \in BOOLEAN
  BY <1>1 DEF Packet
<1> HIDE DEF p
<1>3. /\ wire' = Tail(wire)
      /\ UNCHANGED <<reconnect, conn, last, breaks, srvTrans, stmt>>
      /\ \/ p.kind = "ROW" /\ UNCHANGED <<mysql, res, pc, lost>>
         \/ p.kind = "EOF" /\ p.more /\ mysql' = m /\ pc' = "close_next" /\ UNCHANGED <<res, lost>>
         \/ p.kind = "EOF" /\ ~p.more /\ Flushed(m, lost)
  BY <1>1 DEF CloseRows, Read, p
<1>0. m \in Handle /\ m.owner = mysql.owner /\ m.more = p.more /\ m.trans = p.trans
      /\ m.status = mysql.status /\ m.fields = mysql.fields
  BY <1>2 DEF Flags, Handle, HandleInv, TypeOK
<1> HIDE DEF m
<1>4. CASE p.kind = "ROW" /\ UNCHANGED <<mysql, res, pc, lost>>
  <2>1. /\ Phase(pc', mysql') = After(Phase(pc, mysql), p)
        /\ mysql'.trans = TransOf(mysql.trans, p)
    BY <1>1, <1>4 DEF Phase, After, TransOf
  <2>2. WireInv'
    BY <1>1, <1>3, <2>1, WireRead DEF p
  <2>3. (TypeOK /\ last \in Nat)'
    BY <1>3, <1>4 DEF HandleInv, TypeOK
  <2>4. (StatusInv /\ ResultInv /\ LossInv)'
    BY <1>3, <1>4 DEF HandleInv, StatusInv, ResultInv, LossInv
  <2> QED
    BY <2>2, <2>3, <2>4 DEF HandleInv
<1>5. CASE p.kind = "EOF" /\ p.more /\ mysql' = m /\ pc' = "close_next" /\ UNCHANGED <<res, lost>>
  <2>1. /\ Phase(pc', mysql') = After(Phase(pc, mysql), p)
        /\ mysql'.trans = TransOf(mysql.trans, p)
    BY <1>0, <1>1, <1>5 DEF Phase, After, TransOf
  <2>2. WireInv'
    BY <1>1, <1>3, <2>1, WireRead DEF p
  <2>3. (TypeOK /\ last \in Nat)'
    BY <1>0, <1>3, <1>5 DEF HandleInv, TypeOK, Handle, Flushing
  <2>4. (StatusInv /\ ResultInv /\ LossInv)'
    BY <1>0, <1>1, <1>3, <1>5 DEF HandleInv, StatusInv, ResultInv, LossInv, Reading
  <2> QED
    BY <2>2, <2>3, <2>4 DEF HandleInv
<1>6. CASE p.kind = "EOF" /\ ~p.more /\ Flushed(m, lost)
  <2>2. /\ mysql' \in Handle /\ mysql'.status = "READY" /\ mysql'.more = m.more
        /\ mysql'.trans = m.trans /\ pc' \in {"idle", "close"} /\ lost' = lost
        /\ StatusInv' /\ ResultInv'
    BY <1>0, <1>1, <1>3, <1>6, FlushedResults
  <2>3. /\ Phase(pc', mysql') = After(Phase(pc, mysql), p)
        /\ mysql'.trans = TransOf(mysql.trans, p)
    BY <1>0, <1>1, <1>6, <2>2 DEF Phase, After, TransOf
  <2>4. WireInv'
    BY <1>1, <1>3, <2>3, WireRead DEF p
  <2>5. (TypeOK /\ last \in Nat)'
    BY <1>3, <2>2 DEF HandleInv, TypeOK, Handle
  <2>6. LossInv'
    BY <1>1, <2>2 DEF LossInv
  <2> QED
    BY <2>2, <2>4, <2>5, <2>6 DEF HandleInv
<1> QED
  BY <1>3, <1>4, <1>5, <1>6

LEMMA CloseNextStep == ASSUME HandleInv, CloseNext, UNCHANGED orphaned
    PROVE HandleInv'
<1> DEFINE p == Head(wire)
           m == Flags(mysql, p)
<1>1. /\ p \in Packet /\ p.kind \in {"OK", "SET"} /\ wire # <<>> /\ conn # "none" /\ ~lost
      /\ pc = "close_next" /\ pc \in Flushing
  BY WireFacts DEF CloseNext, Read, Flushing
<1>2. p.more \in BOOLEAN /\ p.trans \in BOOLEAN
  BY <1>1 DEF Packet
<1> HIDE DEF p
<1>3. /\ wire' = Tail(wire)
      /\ UNCHANGED <<reconnect, conn, last, breaks, srvTrans, stmt>>
      /\ \/ p.kind = "SET" /\ pc' = "close_fields" /\ UNCHANGED <<mysql, res, lost>>
         \/ p.kind = "OK" /\ Flushed(m, lost)
  BY <1>1 DEF CloseNext, Read, p
<1>4. CASE p.kind = "SET" /\ pc' = "close_fields" /\ UNCHANGED <<mysql, res, lost>>
  <2>1. /\ Phase(pc', mysql') = After(Phase(pc, mysql), p)
        /\ mysql'.trans = TransOf(mysql.trans, p)
    BY <1>1, <1>4 DEF Phase, After, TransOf
  <2>2. WireInv'
    BY <1>1, <1>3, <2>1, WireRead DEF p
  <2>3. (TypeOK /\ last \in Nat)'
    BY <1>3, <1>4 DEF HandleInv, TypeOK, Flushing
  <2>4. (StatusInv /\ ResultInv /\ LossInv)'
    BY <1>1, <1>3, <1>4 DEF HandleInv, StatusInv, ResultInv, LossInv, Reading
  <2> QED
    BY <2>2, <2>3, <2>4 DEF HandleInv
<1>5. CASE p.kind = "OK" /\ Flushed(m, lost)
  <2>1. m \in Handle /\ m.owner = mysql.owner /\ m.more = p.more /\ m.trans = p.trans
    BY <1>2 DEF Flags, Handle, HandleInv, TypeOK
  <2> HIDE DEF m
  <2>2. /\ mysql' \in Handle /\ mysql'.status = "READY" /\ mysql'.more = m.more
        /\ mysql'.trans = m.trans /\ pc' \in {"idle", "close"} /\ lost' = lost
        /\ StatusInv' /\ ResultInv'
    BY <1>1, <1>3, <1>5, <2>1, FlushedResults
  <2>3. /\ Phase(pc', mysql') = After(Phase(pc, mysql), p)
        /\ mysql'.trans = TransOf(mysql.trans, p)
    BY <1>1, <1>5, <2>1, <2>2 DEF Phase, After, TransOf
  <2>4. WireInv'
    BY <1>1, <1>3, <2>3, WireRead DEF p
  <2>5. (TypeOK /\ last \in Nat)'
    BY <1>3, <2>2 DEF HandleInv, TypeOK, Handle
  <2>6. LossInv'
    BY <1>1, <2>2 DEF LossInv
  <2> QED
    BY <2>2, <2>4, <2>5, <2>6 DEF HandleInv
<1> QED
  BY <1>3, <1>4, <1>5

LEMMA CloseFieldsStep == ASSUME HandleInv, CloseFields, UNCHANGED orphaned
    PROVE HandleInv'
<1> DEFINE p == Head(wire)
<1>1. /\ p \in Packet /\ p.kind = "EOF" /\ wire # <<>> /\ conn # "none" /\ ~lost
      /\ pc = "close_fields"
  BY WireFacts DEF CloseFields, Read
<1>2. p.more \in BOOLEAN /\ p.trans \in BOOLEAN
  BY <1>1 DEF Packet
<1> HIDE DEF p
<1>3. /\ pc' = "close_rows" /\ mysql' = Flags(mysql, p) /\ wire' = Tail(wire)
      /\ UNCHANGED <<reconnect, conn, last, breaks, srvTrans, stmt, res, lost>>
  BY <1>1 DEF CloseFields, Read, p
<1>4. (TypeOK /\ last \in Nat)'
  BY <1>2, <1>3 DEF HandleInv, TypeOK, Flags, Flushing
<1>5. /\ Phase(pc', mysql') = After(Phase(pc, mysql), p)
      /\ mysql'.trans = TransOf(mysql.trans, p)
      /\ mysql'.status = mysql.status /\ mysql'.owner = mysql.owner
  BY <1>1, <1>3 DEF HandleInv, TypeOK, Flags, Phase, After, TransOf
<1>6. WireInv'
  BY <1>1, <1>3, <1>5, WireRead DEF p
<1>7. (StatusInv /\ ResultInv /\ LossInv)'
  BY <1>1, <1>3, <1>5 DEF HandleInv, StatusInv, ResultInv, LossInv, Reading
<1> QED
  BY <1>4, <1>6, <1>7 DEF HandleInv

LEMMA ReadErrorStep == ASSUME HandleInv, ReadError, UNCHANGED orphaned
    PROVE HandleInv'
<1>1. /\ pc \in Reading \cup Flushing
      /\ UNCHANGED <<reconnect, stmt, last, breaks, srvTrans>>
  BY DEF ReadError
<1>2. CASE wire = <<>>
  <2> DEFINE m == [mysql EXCEPT !.fields = FALSE]
  <2>1. /\ conn' = "none" /\ wire' = <<>> /\ Aborted(m, lost \/ mysql.trans)
    BY <1>2 DEF ReadError
  <2>2. /\ m \in Handle /\ m.owner = mysql.owner /\ m.trans = mysql.trans /\ m.trans \in BOOLEAN
        /\ m.status = mysql.status /\ lost \in BOOLEAN
    BY DEF Handle, HandleInv, TypeOK
  <2>3. lost => mysql.trans
    BY DEF HandleInv, LossInv
  <2> HIDE DEF m
  <2>4. CASE pc \in Reading
    <3>1. mysql' = m /\ pc' = "idle" /\ lost' = FALSE /\ res' = res
      BY <1>2, <2>1, <2>4 DEF Aborted, Failed
    <3>2. mysql.status = "READY"
      BY <2>4 DEF HandleInv, StatusInv
    <3>3. WireInv'
      BY <2>1, <2>2, <3>1, WireGone
    <3>4. (TypeOK /\ last \in Nat)'
      BY <1>1, <2>1, <2>2, <3>1 DEF HandleInv, TypeOK, Handle
    <3>5. (StatusInv /\ ResultInv /\ LossInv)'
      BY <1>1, <2>1, <2>2, <2>4, <3>1, <3>2 DEF HandleInv, StatusInv, ResultInv, LossInv, Reading
    <3> QED
      BY <3>3, <3>4, <3>5 DEF HandleInv
  <2>5. CASE pc \notin Reading
    <3> DEFINE l == lost \/ mysql.trans
    <3>1. pc \in Flushing /\ Flushed(m, l)
      BY <1>1, <2>1, <2>5 DEF Aborted
    <3>2. l \in BOOLEAN /\ (l => mysql.trans)
      BY <2>2, <2>3
    <3> HIDE DEF l
    <3>3. /\ mysql' \in Handle /\ mysql'.status = "READY" /\ mysql'.trans = m.trans
          /\ pc' \in {"idle", "close"} /\ lost' = l /\ StatusInv' /\ ResultInv'
      BY <1>1, <2>2, <3>1, FlushedResults
    <3>4. WireInv'
      BY <2>1, <2>2, <3>3, WireGone
    <3>5. (TypeOK /\ last \in Nat)'
      BY <1>1, <2>1, <3>2, <3>3 DEF HandleInv, TypeOK, Handle
    <3>6. LossInv'
      BY <2>1, <2>2, <3>2, <3>3 DEF LossInv
    <3> QED
      BY <3>3, <3>4, <3>5, <3>6 DEF HandleInv
  <2> QED
    BY <2>4, <2>5
<1>3. CASE wire # <<>>
  <2> DEFINE p == Head(wire)
             m == [mysql EXCEPT !.more = FALSE]
  <2>1. /\ p.kind = "ERR" /\ wire' = Tail(wire) /\ conn' = conn /\ Aborted(m, lost)
        /\ ~lost /\ conn # "none" /\ p.kind \in Allowed(Phase(pc, mysql))
    BY <1>3, WireFacts DEF ReadError
  <2>2. /\ m \in Handle /\ m.owner = mysql.owner /\ m.trans = mysql.trans
        /\ m.status = mysql.status /\ m.more = FALSE
    BY DEF Handle, HandleInv, TypeOK
  <2> HIDE DEF m, p
  <2>3. After(Phase(pc, mysql), p) = "done" /\ TransOf(mysql.trans, p) = mysql.trans
    BY <2>1 DEF After, TransOf
  <2>4. CASE pc \in Reading
    <3>1. mysql' = m /\ pc' = "idle" /\ lost' = FALSE /\ res' = res
      BY <2>1, <2>4 DEF Aborted, Failed
    <3>2. mysql.status = "READY"
      BY <2>4 DEF HandleInv, StatusInv
    <3>3. Phase(pc', mysql') = "done"
      BY <2>2, <3>1, <3>2 DEF Phase
    <3>4. WireInv'
      BY <1>1, <1>3, <2>1, <2>2, <2>3, <3>1, <3>3, WireRead DEF p
    <3>5. (TypeOK /\ last \in Nat)'
      BY <1>1, <2>1, <2>2, <3>1 DEF HandleInv, TypeOK, Handle
    <3>6. (StatusInv /\ ResultInv /\ LossInv)'
      BY <1>1, <2>1, <2>2, <2>4, <3>1, <3>2 DEF HandleInv, StatusInv, ResultInv, LossInv, Reading
    <3> QED
      BY <3>4, <3>5, <3>6 DEF HandleInv
  <2>5. CASE pc \notin Reading
    <3>1. pc \in Flushing /\ Flushed(m, lost)
      BY <1>1, <2>1, <2>5 DEF Aborted
    <3>2. /\ mysql' \in Handle /\ mysql'.status = "READY" /\ mysql'.more = m.more
          /\ mysql'.trans = m.trans
          /\ pc' \in {"idle", "close"} /\ lost' = lost /\ StatusInv' /\ ResultInv'
      BY <1>1, <2>2, <3>1, FlushedResults
    <3>3. Phase(pc', mysql') = "done"
      BY <2>2, <3>2 DEF Phase
    <3>4. WireInv'
      BY <1>1, <1>3, <2>1, <2>2, <2>3, <3>2, <3>3, WireRead DEF p
    <3>5. (TypeOK /\ last \in Nat)'
      BY <1>1, <2>1, <3>2 DEF HandleInv, TypeOK, Handle
    <3>6. LossInv'
      BY <2>1, <3>2 DEF LossInv
    <3> QED
      BY <3>2, <3>4, <3>5, <3>6 DEF HandleInv
  <2> QED
    BY <2>4, <2>5
<1> QED
  BY <1>2, <1>3

LEMMA StoreResultStep == ASSUME HandleInv, mysql_store_result, UNCHANGED orphaned
    PROVE HandleInv'
<1>1. /\ pc = "idle" /\ pc' = "rows" /\ mysql.status = "GET"
      /\ mysql' = [mysql EXCEPT !.status = "READY"]
      /\ UNCHANGED <<reconnect, conn, wire, stmt, res, last, breaks, srvTrans, lost>>
  BY DEF mysql_store_result
<1>2. (TypeOK /\ last \in Nat)'
  BY <1>1 DEF HandleInv, TypeOK, Reading
<1>3. /\ mysql'.status = "READY" /\ mysql'.trans = mysql.trans /\ mysql'.owner = mysql.owner
  BY <1>1 DEF HandleInv, TypeOK
<1>4. Phase(pc', mysql') = Phase(pc, mysql)
  BY <1>1 DEF Phase
<1>5. WireInv'
  BY <1>1, <1>3, <1>4, WireKept
<1>6. (StatusInv /\ ResultInv /\ LossInv)'
  BY <1>1, <1>3 DEF HandleInv, StatusInv, ResultInv, LossInv, Reading
<1> QED
  BY <1>2, <1>5, <1>6 DEF HandleInv

LEMMA UseResultStep == ASSUME HandleInv, mysql_use_result, UNCHANGED orphaned
    PROVE HandleInv'
<1>1. PICK r \in Results :
         /\ res[r] = None
         /\ res' = [res EXCEPT ![r] = [q |-> last, cancelled |-> FALSE]]
         /\ mysql' = [mysql EXCEPT !.status = "USE", !.fields = FALSE, !.owner = r]
  BY DEF mysql_use_result
<1>2. /\ pc = "idle" /\ pc' = "idle" /\ mysql.status = "GET"
      /\ UNCHANGED <<reconnect, conn, wire, stmt, pc, last, breaks, srvTrans, lost>>
  BY DEF mysql_use_result
<1>3. (TypeOK /\ last \in Nat)'
  BY <1>1, <1>2 DEF HandleInv, TypeOK
<1>4. /\ mysql'.status = "USE" /\ mysql'.trans = mysql.trans /\ mysql'.owner = r
  BY <1>1 DEF HandleInv, TypeOK
<1>5. Phase(pc', mysql') = Phase(pc, mysql)
  BY <1>2, <1>4 DEF Phase
<1>6. WireInv'
  BY <1>2, <1>4, <1>5, WireKept
<1>7. (StatusInv /\ LossInv)'
  BY <1>2, <1>4 DEF HandleInv, StatusInv, LossInv, Reading
<1>8. ResultInv'
  <2> DEFINE v == [q |-> last, cancelled |-> FALSE]
  <2>0. None \notin Results /\ None \notin [q : Nat, cancelled : BOOLEAN] /\ last \in Nat
    BY ClientAssumption DEF HandleInv
  <2>1. v \in [q : Nat, cancelled : BOOLEAN] /\ v # None
    <3>1. v \in [q : Nat, cancelled : BOOLEAN]
      BY <2>0
    <3> HIDE DEF v
    <3> QED
      BY <2>0, <3>1
  <2>2. res \in [Results -> {None} \cup [q : Nat, cancelled : BOOLEAN]]
    BY DEF HandleInv, ResultInv
  <2>3. /\ res'[r] = v /\ \A x \in Results \ {r} : res'[x] = res[x]
        /\ res' \in [Results -> {None} \cup [q : Nat, cancelled : BOOLEAN]]
    <3> HIDE DEF v
    <3> QED
      BY <1>1, <2>1, <2>2 DEF v
  <2>4. res'[r] = [q |-> last', cancelled |-> FALSE]
    BY <1>2, <2>3
  <2> HIDE DEF v
  <2> QED
    BY <1>2, <1>4, <2>0, <2>1, <2>3, <2>4 DEF ResultInv
<1> QED
  BY <1>3, <1>6, <1>7, <1>8 DEF HandleInv

LEMMA NextResultStep == ASSUME HandleInv, mysql_next_result, UNCHANGED orphaned
    PROVE HandleInv'
<1>1. /\ pc = "idle" /\ pc' = "reply" /\ mysql.status = "READY" /\ mysql.more
      /\ UNCHANGED <<mysql, reconnect, conn, wire, stmt, res, last, breaks, srvTrans, lost>>
  BY DEF mysql_next_result
<1>2. (TypeOK /\ last \in Nat)'
  BY <1>1 DEF HandleInv, TypeOK, Reading
<1>3. Phase(pc', mysql') = Phase(pc, mysql)
  BY <1>1 DEF Phase
<1>4. WireInv'
  BY <1>1, <1>3, WireKept
<1>5. (StatusInv /\ ResultInv /\ LossInv)'
  BY <1>1 DEF HandleInv, StatusInv, ResultInv, LossInv, Reading
<1> QED
  BY <1>2, <1>4, <1>5 DEF HandleInv

LEMMA StmtCloseStep == ASSUME HandleInv, mysql_stmt_close, UNCHANGED orphaned
    PROVE HandleInv'
<1>1. /\ pc = "idle" /\ stmt' = "init"
      /\ UNCHANGED <<mysql, reconnect, conn, wire, res, last, breaks, srvTrans, lost>>
      /\ \/ pc' = "idle"
         \/ pc' = "close_rows" /\ mysql.status # "READY"
         \/ pc' = "close" /\ mysql.status = "READY"
  BY DEF mysql_stmt_close
<1>2. (TypeOK /\ last \in Nat)'
  BY <1>1 DEF HandleInv, TypeOK, Flushing
<1>3. Phase(pc', mysql') = Phase(pc, mysql)
  BY <1>1 DEF Phase
<1>4. WireInv'
  BY <1>1, <1>3, WireKept
<1>5. (StatusInv /\ ResultInv /\ LossInv)'
  BY <1>1 DEF HandleInv, StatusInv, ResultInv, LossInv, Reading
<1> QED
  BY <1>2, <1>4, <1>5 DEF HandleInv

LEMMA CloseStep == ASSUME HandleInv, mysql_close, UNCHANGED orphaned
    PROVE HandleInv'
<1>1. /\ pc = "idle" /\ pc' = "closed" /\ conn' = "none" /\ wire' = <<>> /\ srvTrans' = FALSE
      /\ lost' = FALSE /\ stmt' = "detached" /\ reconnect' = (reconnect /\ conn = "none")
      /\ \/ conn = "none" /\ mysql' = mysql
         \/ mysql' = [mysql EXCEPT !.status = "READY", !.fields = FALSE]
      /\ UNCHANGED <<res, last, breaks>>
  BY DEF mysql_close
<1>2. (TypeOK /\ last \in Nat)'
  BY <1>1 DEF HandleInv, TypeOK
<1>3. mysql'.status = "READY" /\ mysql'.owner = mysql.owner /\ mysql'.trans \in BOOLEAN
  BY <1>1 DEF HandleInv, TypeOK, StatusInv
<1>4. WireInv'
  BY <1>1, <1>3, WireGone
<1>5. (StatusInv /\ ResultInv /\ LossInv)'
  BY <1>1, <1>3 DEF HandleInv, StatusInv, ResultInv, LossInv, Reading
<1> QED
  BY <1>2, <1>4, <1>5 DEF HandleInv

LEMMA FreeResultStep == ASSUME HandleInv, NEW r \in Results, mysql_free_result(r), UNCHANGED orphaned
    PROVE HandleInv'
<1>1. /\ pc = "idle" /\ res[r] # None /\ res' = [res EXCEPT ![r] = None]
      /\ mysql' = Disowned(mysql, r)
      /\ \/ mysql.status = "USE" /\ pc' = "free_rows"
         \/ mysql.status # "USE" /\ pc' = "idle"
      /\ UNCHANGED <<reconnect, conn, wire, stmt, last, breaks, srvTrans, lost>>
  BY DEF mysql_free_result
<1>2. (TypeOK /\ last \in Nat)'
  BY <1>1 DEF HandleInv, TypeOK, Disowned, Flushing
<1>3. /\ mysql'.status = mysql.status /\ mysql'.trans = mysql.trans /\ mysql'.more = mysql.more
      /\ mysql'.fields = mysql.fields
      /\ \/ mysql'.owner = None /\ mysql.owner = r
         \/ mysql'.owner = mysql.owner /\ mysql.owner # r
  BY <1>1 DEF HandleInv, TypeOK, Disowned
<1>4. Phase(pc', mysql') = Phase(pc, mysql)
  BY <1>1, <1>3 DEF Phase
<1>5. WireInv'
  BY <1>1, <1>3, <1>4, WireKept
<1>6. (StatusInv /\ LossInv)'
  BY <1>1, <1>3 DEF HandleInv, StatusInv, LossInv, Reading
<1>7. ResultInv'
  <2>1. res \in [Results -> {None} \cup [q : Nat, cancelled : BOOLEAN]]
    BY DEF HandleInv, ResultInv
  <2>2. /\ res'[r] = None /\ \A x \in Results \ {r} : res'[x] = res[x]
        /\ res' \in [Results -> {None} \cup [q : Nat, cancelled : BOOLEAN]]
    BY <1>1, <2>1
  <2>3. mysql.owner \in Results \cup {None} /\ None \notin Results
    BY ClientAssumption DEF HandleInv, TypeOK
  <2> QED
    BY <1>1, <1>3, <2>2, <2>3 DEF HandleInv, ResultInv
<1> QED
  BY <1>2, <1>5, <1>6, <1>7 DEF HandleInv

(* mysql_fetch_row has its row, or is done with the result. *)
LEMMA DoneResults ==
    ASSUME HandleInv, pc = "idle", pc' = "idle", last' = last, NEW r \in Results,
           res[r] # None, NEW m \in Handle, m.owner = mysql.owner, Done(r, m)
    PROVE  /\ mysql' \in Handle /\ mysql'.status = "READY" /\ mysql'.more = m.more
           /\ mysql'.trans = m.trans /\ StatusInv' /\ ResultInv'
<1>1. /\ mysql' \in Handle /\ mysql'.status = "READY" /\ mysql'.more = m.more
      /\ mysql'.trans = m.trans
      /\ \/ mysql'.owner = None /\ mysql.owner = r
         \/ mysql'.owner = mysql.owner /\ mysql.owner # r
  BY DEF Done, Disowned, Handle
<1>2. StatusInv'
  BY <1>1 DEF StatusInv, Reading
<1>3. res \in [Results -> {None} \cup [q : Nat, cancelled : BOOLEAN]]
  BY DEF HandleInv, ResultInv
<1>4. /\ res'[r] = None /\ \A x \in Results \ {r} : res'[x] = res[x]
      /\ res' \in [Results -> {None} \cup [q : Nat, cancelled : BOOLEAN]]
  BY <1>3 DEF Done
<1>5. mysql.owner \in Results \cup {None} /\ None \notin Results
  BY ClientAssumption DEF HandleInv, TypeOK
<1> QED
  BY <1>1, <1>2, <1>4, <1>5 DEF HandleInv, ResultInv

LEMMA FetchRowStep ==
    ASSUME HandleInv, NEW r \in Results, mysql_fetch_row(r), orphaned' = FALSE, ~orphaned
    PROVE  HandleInv'
<1>1. /\ pc = "idle" /\ pc' = "idle" /\ res[r] # None
      /\ UNCHANGED <<reconnect, stmt, pc, last, breaks, srvTrans>>
  BY DEF mysql_fetch_row
<1>0. mysql \in Handle /\ mysql.trans \in BOOLEAN
  BY DEF HandleInv, TypeOK, Handle
<1>2. CASE mysql.status # "USE"
  <2>1. Done(r, mysql) /\ UNCHANGED <<conn, wire, lost>>
    BY <1>2 DEF mysql_fetch_row
  <2>2. mysql.status = "READY"
    BY <1>0, <1>2 DEF mysql_fetch_row, Handle
  <2>3. /\ mysql' \in Handle /\ mysql'.status = "READY" /\ mysql'.more = mysql.more
        /\ mysql'.trans = mysql.trans /\ StatusInv' /\ ResultInv'
    BY <1>0, <1>1, <2>1, DoneResults
  <2>4. Phase(pc', mysql') = Phase(pc, mysql)
    BY <1>1, <2>2, <2>3 DEF Phase
  <2>5. WireInv'
    BY <1>1, <2>1, <2>3, <2>4, WireKept
  <2>6. (TypeOK /\ last \in Nat)' /\ LossInv'
    BY <1>1, <2>1, <2>3 DEF HandleInv, TypeOK, Handle, LossInv
  <2> QED
    BY <2>3, <2>5, <2>6 DEF HandleInv
<1>3. CASE mysql.status = "USE" /\ wire = <<>>
  <2> DEFINE m == [mysql EXCEPT !.fields = FALSE]
  <2>1. conn' = "none" /\ wire' = <<>> /\ Done(r, m) /\ lost' = FALSE
    BY <1>3 DEF mysql_fetch_row
  <2>2. m \in Handle /\ m.owner = mysql.owner /\ m.trans = mysql.trans
    BY <1>0 DEF Handle
  <2> HIDE DEF m
  <2>3. /\ mysql' \in Handle /\ mysql'.status = "READY"
        /\ mysql'.trans = m.trans /\ StatusInv' /\ ResultInv'
    BY <1>1, <2>1, <2>2, DoneResults
  <2>4. WireInv'
    BY <1>0, <2>1, <2>2, <2>3, WireGone
  <2>5. (TypeOK /\ last \in Nat)' /\ LossInv'
    BY <1>1, <2>1, <2>3 DEF HandleInv, TypeOK, Handle, LossInv
  <2> QED
    BY <2>3, <2>4, <2>5 DEF HandleInv
<1>4. CASE mysql.status = "USE" /\ wire # <<>>
  <2> DEFINE p == Head(wire)
             m == IF p.kind = "EOF" THEN Flags(mysql, p) ELSE [mysql EXCEPT !.more = FALSE]
  <2>1. /\ p \in Packet /\ conn # "none" /\ ~lost /\ p.kind \in Allowed(Phase(pc, mysql))
    BY <1>4, WireFacts
  <2>2. Phase(pc, mysql) = "rows"
    BY <1>1, <1>4 DEF Phase
  <2>3. p.kind \in {"ROW", "EOF", "ERR"} /\ p.more \in BOOLEAN /\ p.trans \in BOOLEAN
    BY <2>1, <2>2 DEF Allowed, InRows, Packet
  <2>4. /\ wire' = Tail(wire) /\ conn' = conn /\ lost' = lost
        /\ \/ p.kind = "ROW" /\ UNCHANGED <<mysql, res>>
           \/ p.kind \in {"EOF", "ERR"} /\ Done(r, m)
    <3>1. /\ wire' = Tail(wire) /\ conn' = conn /\ lost' = lost
          /\ \/ p.kind = "ROW" /\ UNCHANGED <<mysql, res>>
             \/ p.kind = "EOF" /\ Done(r, Flags(mysql, p))
             \/ p.kind = "ERR" /\ Done(r, [mysql EXCEPT !.more = FALSE])
      BY <1>4 DEF mysql_fetch_row
    <3> QED
      BY <2>3, <3>1
  <2>5. /\ m \in Handle /\ m.owner = mysql.owner
        /\ (p.kind = "EOF" => m.more = p.more /\ m.trans = p.trans)
        /\ (p.kind = "ERR" => m.more = FALSE /\ m.trans = mysql.trans)
    BY <1>0, <2>3 DEF Handle, Flags
  <2> HIDE DEF m, p
  <2>6. CASE p.kind = "ROW" /\ UNCHANGED <<mysql, res>>
    <3>1. /\ Phase(pc', mysql') = After(Phase(pc, mysql), p)
          /\ mysql'.trans = TransOf(mysql.trans, p)
      BY <1>1, <2>2, <2>6 DEF Phase, After, TransOf
    <3>2. WireInv'
      BY <1>1, <1>4, <2>4, <3>1, WireRead DEF p
    <3>3. (TypeOK /\ last \in Nat)'
      BY <1>1, <2>4, <2>6 DEF HandleInv, TypeOK
    <3>4. (StatusInv /\ ResultInv /\ LossInv)'
      BY <1>1, <2>4, <2>6 DEF HandleInv, StatusInv, ResultInv, LossInv
    <3> QED
      BY <3>2, <3>3, <3>4 DEF HandleInv
  <2>7. CASE p.kind \in {"EOF", "ERR"} /\ Done(r, m)
    <3>1. /\ mysql' \in Handle /\ mysql'.status = "READY" /\ mysql'.more = m.more
          /\ mysql'.trans = m.trans /\ StatusInv' /\ ResultInv'
      BY <1>1, <2>5, <2>7, DoneResults
    <3>2. /\ Phase(pc', mysql') = After(Phase(pc, mysql), p)
          /\ mysql'.trans = TransOf(mysql.trans, p)
      BY <1>1, <2>2, <2>5, <2>7, <3>1 DEF Phase, After, TransOf
    <3>3. WireInv'
      BY <1>1, <1>4, <2>4, <3>2, WireRead DEF p
    <3>4. (TypeOK /\ last \in Nat)' /\ LossInv'
      BY <1>1, <2>1, <2>4, <3>1 DEF HandleInv, TypeOK, Handle, LossInv
    <3> QED
      BY <3>1, <3>3, <3>4 DEF HandleInv
  <2> QED
    BY <2>4, <2>6, <2>7
<1> QED
  BY <1>2, <1>3, <1>4

(* What a command may do to its caller: the answer leads from where the    *)
(* call goes on, in the old session and in a new one.                      *)
Announced(response, then, q, t) ==
    /\ Packets(response, q, t) \in Seq(Packet) /\ Answers(Packets(response, q, t), q)
    /\ TransAfter(response, t)[Len(response)] \in BOOLEAN
    /\ OnWay(Packets(response, q, t),
             IF then = "reply" THEN "reply" ELSE IF then = "idle" THEN "done" ELSE "simple", t,
             "up", TransAfter(response, t)[Len(response)])

LEMMA CommandStep ==
    ASSUME HandleInv, pc \in {"idle", "close"}, NEW response, NEW skip \in BOOLEAN, NEW keep,
           NEW then \in {"reply", "simple", "prepare", "idle"},
           keep \in {"init", "prepared", "detached"},
           \A t \in BOOLEAN : Announced(response, then, last + 1, t),
           Command(response, then, skip, keep),
           UNCHANGED orphaned
    PROVE  HandleInv'
<1> DEFINE q == last + 1
<1>1. UNCHANGED <<reconnect, res, breaks>>
  BY DEF Command
<1>2. /\ mysql \in Handle /\ mysql.trans \in BOOLEAN /\ srvTrans \in BOOLEAN
      /\ lost \in BOOLEAN /\ q \in Nat /\ conn \in {"none", "up", "broken"}
      /\ stmt \in {"init", "prepared", "detached"} /\ reconnect \in BOOLEAN
  BY DEF HandleInv, TypeOK, Handle
<1>3. ~OutOfSync => Phase(pc, mysql) = "done" /\ mysql.status = "READY" /\ ~mysql.more
  BY DEF OutOfSync, Phase
<1>4. CASE /\ conn # "none" /\ OutOfSync /\ pc' = "idle"
           /\ UNCHANGED <<mysql, conn, wire, stmt, last, srvTrans, lost>>
  <2>1. Phase(pc', mysql') = Phase(pc, mysql)
    BY <1>4 DEF Phase
  <2>2. WireInv'
    BY <1>4, <2>1, WireKept
  <2>3. (TypeOK /\ last \in Nat)'
    BY <1>1, <1>4 DEF HandleInv, TypeOK
  <2>4. (StatusInv /\ ResultInv /\ LossInv)'
    BY <1>1, <1>4 DEF HandleInv, StatusInv, ResultInv, LossInv, Reading
  <2> QED
    BY <2>2, <2>3, <2>4 DEF HandleInv
<1>5. CASE /\ conn # "none" /\ ~OutOfSync
           /\ \E n \in 0..Len(wire) :
                wire' = SubSeq(wire, n + 1, Len(wire)) \o
                        (IF conn = "up" THEN Packets(response, q, srvTrans) ELSE <<>>)
           /\ srvTrans' = (conn = "up" /\ TransAfter(response, srvTrans)[Len(response)])
           /\ pc' = then /\ last' = q
           /\ UNCHANGED <<mysql, conn, stmt, lost>>
  <2>1. wire = <<>> /\ (conn = "up" => mysql.trans = srvTrans)
    <3>1. wire \in Seq(Packet) /\ OnWay(wire, "done", mysql.trans, conn, srvTrans)
      BY <1>3, <1>5 DEF HandleInv, WireInv
    <3> QED
      BY <1>2, <3>1, OnWayDone
  <2>2. Announced(response, then, q, srvTrans)
    BY <1>2
  <2>3. /\ (conn = "up" => wire' = Packets(response, q, srvTrans))
        /\ (conn # "up" => wire' = <<>>)
    <3> DEFINE v == IF conn = "up" THEN Packets(response, q, srvTrans) ELSE <<>>
    <3>1. v \in Seq(Packet)
      BY <2>2 DEF Announced
    <3>2. PICK n \in 0..Len(wire) : wire' = SubSeq(wire, n + 1, Len(wire)) \o v
      BY <1>5
    <3>3. n = 0 /\ SubSeq(wire, n + 1, Len(wire)) = <<>>
      BY <2>1
    <3> HIDE DEF v
    <3>4. wire' = v
      BY <3>1, <3>2, <3>3
    <3> QED
      BY <3>4 DEF v
  <2>4. Phase(then, mysql) = IF then = "reply" THEN "reply" ELSE IF then = "idle" THEN "done" ELSE "simple"
    BY <1>3, <1>5 DEF Phase
  <2>5. WireInv'
    <3>1. CASE conn = "up"
      <4>1. srvTrans' = TransAfter(response, srvTrans)[Len(response)]
        BY <1>5, <2>2, <3>1 DEF Announced
      <4>2. OnWay(wire', Phase(pc', mysql'), mysql'.trans, conn', srvTrans')
        BY <1>5, <2>1, <2>2, <2>3, <2>4, <3>1, <4>1 DEF Announced
      <4> QED
        BY <1>5, <2>2, <2>3, <3>1, <4>2 DEF Announced, WireInv
    <3>2. CASE conn # "up"
      BY <1>2, <1>5, <2>3, <3>2, WireGone
    <3> QED
      BY <3>1, <3>2
  <2>6. srvTrans' \in BOOLEAN
    BY <1>5
  <2>7. (TypeOK /\ last \in Nat)'
    BY <1>1, <1>2, <1>5, <2>6 DEF HandleInv, TypeOK, Reading
  <2>8. (StatusInv /\ ResultInv /\ LossInv)'
    BY <1>1, <1>3, <1>5 DEF HandleInv, StatusInv, ResultInv, LossInv, Reading
  <2> QED
    BY <2>5, <2>7, <2>8 DEF HandleInv
<1>6. NoSession => mysql.status = "READY"
  BY <1>3 DEF NoSession, HandleInv, StatusInv
<1>7. CASE /\ NoSession /\ Gone
           /\ pc' = "idle" /\ lost' = FALSE /\ wire' = <<>>
           /\ UNCHANGED <<stmt, last, srvTrans>>
  <2>1. /\ mysql' \in Handle /\ mysql'.status = "READY" /\ mysql'.trans \in BOOLEAN
        /\ mysql'.owner = mysql.owner /\ conn' = "none"
    BY <1>2, <1>6, <1>7 DEF Gone, Handle
  <2>2. WireInv'
    BY <1>7, <2>1, WireGone
  <2>3. (TypeOK /\ last \in Nat)'
    BY <1>1, <1>7, <2>1 DEF HandleInv, TypeOK, Handle
  <2>4. (StatusInv /\ ResultInv /\ LossInv)'
    BY <1>1, <1>6, <1>7, <2>1 DEF HandleInv, StatusInv, ResultInv, LossInv, Reading
  <2> QED
    BY <2>2, <2>3, <2>4 DEF HandleInv
<1>8. CASE /\ NoSession /\ Reconnected
           /\ stmt' = keep /\ last' = q
           /\ IF skip
                THEN /\ wire' = <<>> /\ srvTrans' = FALSE
                     /\ pc' = "idle" /\ lost' = FALSE
                ELSE /\ wire' = Packets(response, q, FALSE)
                     /\ srvTrans' = TransAfter(response, FALSE)[Len(response)]
                     /\ pc' = then /\ lost' = LostWith
  <2>1. /\ mysql' \in Handle /\ mysql'.status = "READY" /\ mysql'.trans = FALSE
        /\ mysql'.more = FALSE /\ mysql'.owner = None /\ conn' = "up" /\ ~mysql.trans
    BY <1>2, <1>8 DEF Reconnected, MayReconnect, Handle
  <2>2. LostWith = FALSE
    BY <1>2, <2>1 DEF LostWith, HandleInv, LossInv
  <2>3. Announced(response, then, q, FALSE)
    OBVIOUS
  <2>4. /\ pc' \in {"idle", then} /\ lost' = FALSE /\ srvTrans' \in BOOLEAN
    BY <1>8, <2>2, <2>3 DEF Announced
  <2>5. WireInv'
    <3>1. CASE skip
      <4>1. Phase(pc', mysql') = "done" /\ "done" \in States
        BY <1>8, <2>1, <3>1 DEF Phase, States
      <4>2. OnWay(<<>>, "done", FALSE, "up", FALSE)
        BY <4>1, OnWayEmpty
      <4>3. <<>> \in Seq(Packet) /\ Answers(<<>>, last')
        BY DEF Answers
      <4> QED
        BY <1>8, <2>1, <3>1, <4>1, <4>2, <4>3 DEF WireInv
    <3>2. CASE ~skip
      <4>1. Phase(pc', mysql') = IF then = "reply" THEN "reply" ELSE IF then = "idle" THEN "done" ELSE "simple"
        BY <1>8, <2>1, <3>2 DEF Phase
      <4> QED
        BY <1>8, <2>1, <2>3, <3>2, <4>1 DEF Announced, WireInv
    <3> QED
      BY <3>1, <3>2
  <2>6. (TypeOK /\ last \in Nat)'
    BY <1>1, <1>2, <1>8, <2>1, <2>4 DEF HandleInv, TypeOK, Handle, Reading
  <2>7. (StatusInv /\ LossInv)'
    BY <2>1, <2>4 DEF StatusInv, LossInv
  <2>8. ResultInv'
    BY <1>1, <1>6, <1>8, <2>1 DEF HandleInv, ResultInv
  <2> QED
    BY <2>5, <2>6, <2>7, <2>8 DEF HandleInv
<1> QED
  BY <1>4, <1>5, <1>7, <1>8 DEF Command

LEMMA QueryStep == ASSUME HandleInv, mysql_real_query, UNCHANGED orphaned
    PROVE HandleInv'
<1>1. PICK r \in Responses : Command(r, "reply", FALSE, Detached)
  BY DEF mysql_real_query
<1>2. pc = "idle" /\ last + 1 \in Nat
  BY DEF mysql_real_query, HandleInv
<1>3. ASSUME NEW t \in BOOLEAN PROVE Announced(r, "reply", last + 1, t)
  <2>1. WellFormed(r)
    BY ResponsesWellFormed
  <2>2. /\ Packets(r, last + 1, t) \in Seq(Packet)
        /\ Answers(Packets(r, last + 1, t), last + 1)
        /\ Leads(Packets(r, last + 1, t), "reply", t, "done", TransAfter(r, t)[Len(r)])
        /\ TransAfter(r, t)[Len(r)] \in BOOLEAN
    BY <1>2, <2>1, PacketsLead
  <2>3. "done" \in States
    BY DEF States
  <2>4. OnWay(Packets(r, last + 1, t), "reply", t, "up", TransAfter(r, t)[Len(r)])
    BY <2>2, <2>3 DEF OnWay
  <2> QED
    BY <2>2, <2>4 DEF Announced
<1>4. Detached \in {"init", "prepared", "detached"}
  BY DEF Detached, HandleInv, TypeOK
<1> QED
  BY <1>1, <1>2, <1>3, <1>4, CommandStep

LEMMA SimpleStep ==
    ASSUME HandleInv, NEW then \in {"simple", "prepare"}, pc = "idle",
           \E r \in Simple : Command(r, then, FALSE, Detached),
           UNCHANGED orphaned
    PROVE  HandleInv'
<1>1. PICK r \in Simple : Command(r, then, FALSE, Detached)
  OBVIOUS
<1>2. last + 1 \in Nat
  BY DEF HandleInv
<1>3. ASSUME NEW t \in BOOLEAN PROVE Announced(r, then, last + 1, t)
  <2>1. /\ Packets(r, last + 1, t) \in Seq(Packet)
        /\ Answers(Packets(r, last + 1, t), last + 1)
        /\ Leads(Packets(r, last + 1, t), "simple", t, "done", t)
        /\ TransAfter(r, t)[Len(r)] = t
    BY <1>2, SimpleLeads
  <2>2. "done" \in States
    BY DEF States
  <2>3. OnWay(Packets(r, last + 1, t), "simple", t, "up", t)
    BY <2>1, <2>2 DEF OnWay
  <2> QED
    BY <2>1, <2>3 DEF Announced
<1>4. Detached \in {"init", "prepared", "detached"}
  BY DEF Detached, HandleInv, TypeOK
<1> QED
  BY <1>1, <1>3, <1>4, CommandStep

LEMMA CloseSendStep == ASSUME HandleInv, CloseSend, UNCHANGED orphaned
    PROVE HandleInv'
<1>1. pc = "close" /\ Command(<<>>, "idle", TRUE, stmt)
  BY DEF CloseSend
<1>2. ASSUME NEW t \in BOOLEAN PROVE Announced(<<>>, "idle", last + 1, t)
  <2>1. Packets(<<>>, last + 1, t) = <<>> /\ TransAfter(<<>>, t)[Len(<<>>)] = t
    BY NoPackets
  <2>2. <<>> \in Seq(Packet) /\ Answers(<<>>, last + 1)
    BY DEF Answers
  <2>3. "done" \in States
    BY DEF States
  <2>4. OnWay(<<>>, "done", t, "up", t)
    BY <2>3, OnWayEmpty
  <2> QED
    BY <2>1, <2>2, <2>4 DEF Announced
<1>3. stmt \in {"init", "prepared", "detached"}
  BY DEF HandleInv, TypeOK
<1> QED
  BY <1>1, <1>2, <1>3, CommandStep

LEMMA StutterStep == ASSUME HandleInv, UNCHANGED vars, UNCHANGED orphaned
    PROVE HandleInv'
<1>1. (TypeOK /\ last \in Nat /\ StatusInv /\ ResultInv /\ LossInv)'
  BY DEF HandleInv, TypeOK, StatusInv, ResultInv, LossInv, vars
<1>2. WireInv'
  BY WireKept DEF vars
<1> QED
  BY <1>1, <1>2 DEF HandleInv

-----------------------------------------------------------------------------
(* The invariant says what InSync and NoSilentLoss say. *)
LEMMA ExpectedIsAllowed == TypeOK => Expected = Allowed(Phase(pc, mysql))
<1> SUFFICES ASSUME TypeOK PROVE Expected = Allowed(Phase(pc, mysql))
  OBVIOUS
<1>1. pc \in {"reply", "simple", "prepare", "fields", "rows", "free_rows", "close_rows",
              "close_next", "close_fields", "idle", "close", "closed"}
      /\ mysql.status \in {"READY", "GET", "USE"} /\ mysql.more \in BOOLEAN
  BY DEF TypeOK, Reading, Flushing
<1>2. CASE pc \in {"idle", "close"}
  BY <1>1, <1>2 DEF Expected, Phase, Allowed
<1>3. CASE pc \notin {"idle", "close"}
  BY <1>1, <1>3 DEF Expected, Phase, Allowed
<1> QED
  BY <1>2, <1>3

LEMMA InvInSync == ClientInv => InSync
<1> SUFFICES ASSUME ClientInv PROVE InSync
  OBVIOUS
<1>0. TypeOK /\ (mysql.owner # None => res[mysql.owner] # None)
  BY DEF ClientInv, OwnerInv
<1> SUFFICES ASSUME HandleInv PROVE InSync
  BY <1>0 DEF ClientInv, InSync
<1>1. TypeOK /\ mysql.trans \in BOOLEAN /\ Expected = Allowed(Phase(pc, mysql))
  BY ExpectedIsAllowed DEF HandleInv, TypeOK
<1>2. wire # <<>> => /\ Head(wire).kind \in Expected
                     /\ \A i \in 1..Len(wire) : wire[i].q = last
  BY <1>1, WireFacts DEF HandleInv, WireInv, Answers
<1>3. wire \in Seq(Packet) /\ OnWay(wire, Phase(pc, mysql), mysql.trans, conn, srvTrans)
  BY DEF HandleInv, WireInv
<1>4. Phase(pc, mysql) \in States
  BY PhaseType
<1>5. conn = "up" /\ Expected # {} => wire # <<>>
  <2> SUFFICES ASSUME conn = "up", wire = <<>> PROVE Expected = {}
    OBVIOUS
  <2>1. Phase(pc, mysql) = "done"
    BY <1>1, <1>3, <1>4, OnWayEmpty
  <2> QED
    BY <1>1, <2>1 DEF Allowed
<1>6. conn = "up" /\ Expected = {} => mysql.trans = srvTrans
  <2> SUFFICES ASSUME conn = "up", Expected = {} PROVE mysql.trans = srvTrans
    OBVIOUS
  <2>1. Phase(pc, mysql) = "done"
    BY <1>1, <1>4 DEF Allowed, States, InRows
  <2> QED
    BY <1>1, <1>3, <2>1, OnWayDone
<1>7. /\ mysql.status # "READY" /\ pc = "idle" => conn # "none"
      /\ mysql.status = "GET" /\ pc = "idle" => mysql.fields
  BY DEF HandleInv, StatusInv
<1>8. /\ mysql.status = "USE" /\ pc = "idle" =>
           /\ mysql.owner # None
           /\ res[mysql.owner] = [q |-> last, cancelled |-> FALSE]
  BY DEF HandleInv, ResultInv
<1> QED
  BY <1>0, <1>2, <1>5, <1>6, <1>7, <1>8 DEF InSync

(* mysql_fetch_row may leave rows behind, but never a pointer to the       *)
(* result it is done with, nor a loss that was not told.                   *)
LEMMA OrphaningStep ==
    ASSUME HandleInv, NEW r \in Results, mysql_fetch_row(r), orphaned' \in BOOLEAN
    PROVE  (TypeOK /\ OwnerInv /\ LossInv)'
<1>1. /\ pc = "idle" /\ pc' = "idle" /\ res[r] # None
      /\ UNCHANGED <<reconnect, stmt, pc, last, breaks, srvTrans>>
  BY DEF mysql_fetch_row
<1>2. /\ mysql \in Handle /\ (lost' = FALSE \/ (lost' = lost /\ conn' = conn))
      /\ lost' \in BOOLEAN /\ conn' \in {"none", "up", "broken"}
  BY DEF HandleInv, TypeOK, Handle, mysql_fetch_row
<1>3. CASE UNCHANGED <<mysql, res>>
  BY <1>1, <1>2, <1>3 DEF HandleInv, TypeOK, OwnerInv, ResultInv, LossInv
<1>4. ASSUME NEW m \in Handle, m.owner = mysql.owner, Done(r, m),
             lost' => m.trans = mysql.trans
      PROVE  (TypeOK /\ OwnerInv /\ LossInv)'
  <2>1. mysql' \in Handle /\ mysql'.trans = m.trans /\ ResultInv'
    BY <1>1, <1>4, DoneResults
  <2> QED
    BY <1>1, <1>2, <1>4, <2>1 DEF HandleInv, TypeOK, Handle, OwnerInv, ResultInv, LossInv
<1>5. CASE mysql.status = "USE" /\ wire # <<>>
  <2> DEFINE p == Head(wire)
  <2>1. p \in Packet /\ ~lost
    BY <1>5, WireFacts
  <2>2. lost' = FALSE
    BY <1>5, <2>1 DEF mysql_fetch_row, HandleInv, TypeOK
  <2>3. /\ Flags(mysql, p) \in Handle /\ Flags(mysql, p).owner = mysql.owner
        /\ [mysql EXCEPT !.more = FALSE] \in Handle
        /\ [mysql EXCEPT !.more = FALSE].owner = mysql.owner
    BY <1>2, <2>1 DEF Flags, Handle, Packet
  <2>4. \/ UNCHANGED <<mysql, res>>
        \/ Done(r, mysql) \/ Done(r, Flags(mysql, p)) \/ Done(r, [mysql EXCEPT !.more = FALSE])
    BY <1>5 DEF mysql_fetch_row
  <2> QED
    BY <1>2, <1>3, <1>4, <2>2, <2>3, <2>4
<1>6. CASE mysql.status # "USE"
  BY <1>2, <1>4, <1>6 DEF mysql_fetch_row
<1>7. CASE mysql.status = "USE" /\ wire = <<>>
  <2>1. /\ [mysql EXCEPT !.fields = FALSE] \in Handle
        /\ [mysql EXCEPT !.fields = FALSE].owner = mysql.owner
    BY <1>2 DEF Handle
  <2>2. lost' = FALSE /\ Done(r, [mysql EXCEPT !.fields = FALSE])
    BY <1>7 DEF mysql_fetch_row
  <2> QED
    BY <1>4, <2>1, <2>2
<1> QED
  BY <1>5, <1>6, <1>7

(* Every reachable state is in ClientInv: as long as no call has orphaned  *)
(* the rows of another, the packets on the wire are a run of the reader's  *)
(* automaton from the state the handle is in and the status fits the call  *)
(* in progress; and what was lost with a session is always still in the    *)
(* IN_TRANS bit that mysql_reconnect asks.                                 *)
THEOREM ClientInvariant == Spec => []ClientInv
<1>1. Init => ClientInv
  BY InitInv DEF ClientInv, HandleInv, ResultInv, OwnerInv
<1>2. ClientInv /\ [Next]_vars => ClientInv'
  <2> SUFFICES ASSUME ClientInv, [Next]_vars PROVE ClientInv'
    OBVIOUS
  <2>1. ASSUME HandleInv, Call, UNCHANGED orphaned PROVE HandleInv'
    <3>1. CASE Break
      BY <2>1, <3>1, BreakStep
    <3>2. CASE mysql_real_query
      BY <2>1, <3>2, QueryStep
    <3>3. CASE mysql_ping
      <4>1. pc = "idle" /\ \E r \in Simple : Command(r, "simple", FALSE, Detached)
        BY <3>3 DEF mysql_ping
      <4> QED
        BY <2>1, <4>1, SimpleStep
    <3>4. CASE mysql_stmt_prepare
      <4>1. pc = "idle" /\ \E r \in Simple : Command(r, "prepare", FALSE, Detached)
        BY <3>4 DEF mysql_stmt_prepare
      <4> QED
        BY <2>1, <4>1, SimpleStep
    <3>5. CASE ReadError \/ ReadReply \/ ReadFields \/ ReadSimple \/ ReadRows
      BY <2>1, <3>5, ReadErrorStep, ReadReplyStep, ReadFieldsStep, ReadSimpleStep, ReadRowsStep
    <3>6. CASE mysql_store_result \/ mysql_use_result \/ mysql_next_result
      BY <2>1, <3>6, StoreResultStep, UseResultStep, NextResultStep
    <3>7. CASE \E r \in Results : mysql_free_result(r)
      BY <2>1, <3>7, FreeResultStep
    <3>8. CASE FreeRows \/ CloseRows \/ CloseNext \/ CloseFields
      BY <2>1, <3>8, FreeRowsStep, CloseRowsStep, CloseNextStep, CloseFieldsStep
    <3>9. CASE mysql_stmt_close \/ CloseSend \/ mysql_close
      BY <2>1, <3>9, StmtCloseStep, CloseSendStep, CloseStep
    <3> QED
      BY <2>1, <3>1, <3>2, <3>3, <3>4, <3>5, <3>6, <3>7, <3>8, <3>9 DEF Call
  <2>2. CASE ~orphaned /\ Call /\ UNCHANGED orphaned
    BY <2>1, <2>2 DEF ClientInv, HandleInv, ResultInv, OwnerInv
  <2>3. CASE ~orphaned /\ \E r \in Results : mysql_fetch_row(r)
    <3>1. PICK r \in Results : mysql_fetch_row(r)
      BY <2>3
    <3>2. HandleInv
      BY <2>3 DEF ClientInv
    <3>3. orphaned' \in BOOLEAN
      <4>1. orphaned \in BOOLEAN
        BY DEF ClientInv, TypeOK
      <4> QED
        BY <3>1, <4>1 DEF mysql_fetch_row
    <3>4. (TypeOK /\ OwnerInv /\ LossInv)'
      BY <3>1, <3>2, <3>3, OrphaningStep
    <3>5. ~orphaned' => HandleInv'
      BY <2>3, <3>1, <3>2, <3>3, FetchRowStep
    <3> QED
      BY <3>4, <3>5 DEF ClientInv
  <2>4. CASE Terminating \/ UNCHANGED vars
    <3>1. UNCHANGED vars /\ UNCHANGED orphaned
      BY <2>4 DEF Terminating, vars
    <3>2. (TypeOK /\ OwnerInv /\ LossInv)'
      BY <3>1 DEF ClientInv, TypeOK, OwnerInv, LossInv, vars
    <3>3. ~orphaned' => HandleInv'
      BY <3>1, StutterStep DEF ClientInv
    <3> QED
      BY <3>2, <3>3 DEF ClientInv
  <2> QED
    BY <2>2, <2>3, <2>4 DEF Next
<1> QED
  BY <1>1, <1>2, PTL DEF Spec

(* What the handle takes to be on the wire is there after any sequence of  *)
(* calls, network failures, discarded results and reconnections, except    *)
(* after a mysql_fetch_row of a discarded result that gave up the rows of  *)
(* another one, which the model marks as orphaned; and even then           *)
(* unbuffered_fetch_owner points to a result that exists.                  *)
THEOREM HandleInSync == Spec => []InSync
BY ClientInvariant, InvInSync, PTL

(* mysql_reconnect never hides the loss of a transaction the handle knew   *)
(* of.                                                                     *)
THEOREM LossesAreTold == Spec => []NoSilentLoss
<1>1. ClientInv => NoSilentLoss
  BY DEF ClientInv, LossInv, NoSilentLoss
<1> QED
  BY <1>1, ClientInvariant, PTL
=============================================================================
