---------------------------- MODULE UsersProofs ----------------------------
(***************************************************************************)
(* Theorems about Users for any number of users, consumers, groups and     *)
(* failures: no user object is lost or handed out twice, no pointer or     *)
(* timer leads to a freed group, and every group can be freed.             *)
(*                                                                         *)
(* A step moves users between queues.  What an operation on a queue does   *)
(* to the set of its users and to their being there once is stated for any *)
(* queue first; then what a step does to all queues follows from sets.     *)
(***************************************************************************)
EXTENDS Users, NatLemmas

UserT  == [grp : 0 .. NGroup, enable : BOOLEAN, live : BOOLEAN, timer : BOOLEAN]
GroupT == [on : BOOLEAN, csm : 0 .. NCsm, gid : {0} \cup GroupIds, n : 0 .. UserN,
           scene : BOOLEAN, start : 0 .. UserN, freeQ : Seq(User), liveQ : Seq(User),
           liveN : 0 .. UserN, active : BOOLEAN, armed : BOOLEAN]
ChainT == [Bucket -> Seq(Csm)]

\* The users of a group r, and that each is in its queues once.
Own(r)  == Range(r.freeQ) \cup Range(r.liveQ)
Once(r) == IsInjective(r.freeQ) /\ IsInjective(r.liveQ) /\ Range(r.freeQ) \cap Range(r.liveQ) = {}

\* The queues of the pool p and the groups G share no user and leave none out.
Sole(p, G) ==
  /\ IsInjective(p) /\ \A g \in Group : Once(G[g])
  /\ \A g \in Group : Range(p) \cap Own(G[g]) = {}
  /\ \A g, h \in Group : g # h => Own(G[g]) \cap Own(G[h]) = {}
  /\ \A u \in User : u \in Range(p) \/ \E g \in Group : u \in Own(G[g])

\* A timer belongs to a user that was enabled, and such a user points to a group.
Pointed(us) == \A u \in User : (us[u].timer => us[u].enable) /\ (us[u].enable => us[u].grp \in Group)

Stopped(p, us) == \A u \in Range(p) : ~us[u].timer

Plain(r) == ~r.on => r = NoGroup

\* A consumer points to the groups that point to it.
Linked(G, P) ==
  /\ \A g \in Group : G[g].on => /\ G[g].csm \in Csm /\ G[g].gid \in GroupIds
                                 /\ P[G[g].csm][G[g].gid] = g
  /\ \A c \in Csm, i \in GroupIds :
       P[c][i] # 0 => G[P[c][i]].on /\ G[P[c][i]].csm = c /\ G[P[c][i]].gid = i

\* A consumer that was never taken has no group and is not in the table.
Spare == /\ IsInjective(csms)
         /\ \A c \in Range(csms) : c \notin Objects(table) /\ \A i \in GroupIds : gps[c][i] = 0

\* An object is in one chain of the table t, once.
Apart(t) ==
  /\ \A b \in Bucket : IsInjective(t.chain[b])
  /\ \A b, d \in Bucket : b # d => Range(t.chain[b]) \cap Range(t.chain[d]) = {}

\* Objects in the table and free nodes are not more than there are nodes.
Filed(t) ==
  /\ Apart(t)
  /\ IsFiniteSet(Objects(t)) /\ Cardinality(Objects(t)) + t.free <= NodeN

\* The users a group starts with, of which no more are live.
Goal(r)  == IF r.scene THEN r.start ELSE r.n
Below(r) == r.start <= r.n /\ r.liveN <= r.n

\* A group that is to be served: freed, or not yet under its scene.
Due(r) == r.on => ~r.armed /\ r.liveN <= Goal(r)

\* The list of tasks, and of it what the callback keeps.
Listed ==
  /\ IsInjective(tasks) /\ IsInjective(kept) /\ Range(tasks) \cap Range(kept) = {}
  /\ \A g \in Range(tasks) \cup Range(kept) : Due(grp[g])
  /\ taskN <= sims
  /\ IF pc \in {"task", "activate"} THEN Len(kept) <= ti /\ ti <= taskN ELSE kept = <<>> /\ ti = 0
  /\ pc = "activate" => ti < taskN

\* The group that a loop is at.
Looping ==
  /\ pc \in {"activate", "add", "drop"} => cur \in Group /\ grp[cur].on
  /\ pc = "activate" => /\ cur \notin Range(tasks) \cup Range(kept) /\ ~grp[cur].armed
                        /\ grp[cur].liveN + left <= Goal(grp[cur])
  /\ pc = "add"  => grp[cur].armed /\ grp[cur].liveN + left <= grp[cur].n
  /\ pc = "drop" => grp[cur].armed /\ left <= grp[cur].liveN

UsersOK ==
  /\ pool \in Seq(User) /\ freeN \in 0 .. UserN /\ freeN = Len(pool)
  /\ usr \in [User -> UserT] /\ Pointed(usr) /\ Stopped(pool, usr)

GroupsOK == grp \in [Group -> GroupT] /\ \A g \in Group : Plain(grp[g]) /\ Below(grp[g])

OwnersOK ==
  /\ csms \in Seq(Csm) /\ cid \in [Csm -> {0} \cup Ids] /\ gps \in [Csm -> [GroupIds -> 0 .. NGroup]]
  /\ table.chain \in ChainT /\ table.free \in 0 .. NodeN
  /\ Spare /\ Filed(table)

TasksOK ==
  /\ tasks \in Seq(Group) /\ kept \in Seq(Group) /\ taskN \in 0 .. MaxSim /\ ti \in 0 .. MaxSim
  /\ taskFlag \in BOOLEAN /\ evTask \in BOOLEAN
  /\ Listed

LoopOK ==
  /\ pc \in {"idle", "task", "activate", "add", "drop", "quit"} /\ left \in 0 .. UserN
  /\ cur \in IF pc = "quit" THEN Csm ELSE 0 .. NGroup
  /\ Looping

BudgetOK == up \in BOOLEAN /\ sims \in 0 .. MaxSim /\ ctls \in 0 .. MaxCtl /\ fails \in 0 .. MaxFail

IndInv ==
  /\ UsersOK /\ GroupsOK /\ Sole(pool, grp)
  /\ OwnersOK /\ Linked(grp, gps)
  /\ TasksOK /\ LoopOK /\ BudgetOK
-----------------------------------------------------------------------------
(***************************************************************************)
(* Queues.                                                                 *)
(***************************************************************************)
LEMMA RangeIs ==
  ASSUME NEW q, NEW x
  PROVE  x \in Range(q) <=> \E k \in DOMAIN q : q[k] = x
  BY DEF Range

LEMMA InjectiveIs ==
  ASSUME NEW q
  PROVE  IsInjective(q) <=> \A j, k \in DOMAIN q : q[j] = q[k] => j = k
  BY DEF IsInjective

\* A queue behind another.
LEMMA ConcatQ ==
  ASSUME NEW T, NEW a \in Seq(T), NEW b \in Seq(T)
  PROVE  /\ a \o b \in Seq(T) /\ Len(a \o b) = Len(a) + Len(b)
         /\ Range(a \o b) = Range(a) \cup Range(b)
         /\ IsInjective(a) /\ IsInjective(b) /\ Range(a) \cap Range(b) = {} => IsInjective(a \o b)
<1> DEFINE c == a \o b
<1>0. Len(a) \in Nat /\ Len(b) \in Nat /\ DOMAIN a = 1 .. Len(a) /\ DOMAIN b = 1 .. Len(b)
  OBVIOUS
<1>1. /\ c \in Seq(T) /\ Len(c) = Len(a) + Len(b) /\ DOMAIN c = 1 .. Len(a) + Len(b)
      /\ \A i \in 1 .. Len(a) + Len(b) : c[i] = IF i <= Len(a) THEN a[i] ELSE b[i - Len(a)]
  BY SMTT(30)
<1> HIDE DEF c
<1>2. \A i \in DOMAIN c : \/ i \in DOMAIN a /\ c[i] = a[i]
                          \/ ~(i \in DOMAIN a) /\ i - Len(a) \in DOMAIN b /\ c[i] = b[i - Len(a)]
  BY <1>0, <1>1
<1>3. \A i \in DOMAIN a : i \in DOMAIN c /\ c[i] = a[i]
  BY <1>0, <1>1
<1>4. ASSUME NEW i \in DOMAIN b PROVE i + Len(a) \in DOMAIN c /\ c[i + Len(a)] = b[i]
  <2>1. i + Len(a) \in 1 .. Len(a) + Len(b) /\ ~(i + Len(a) <= Len(a)) /\ (i + Len(a)) - Len(a) = i
    BY <1>0, <1>4
  <2> QED BY <1>1, <2>1
<1>5. ASSUME NEW x PROVE x \in Range(c) <=> x \in Range(a) \cup Range(b)
  BY <1>2, <1>3, <1>4, RangeIs
<1>6. ASSUME IsInjective(a), IsInjective(b), Range(a) \cap Range(b) = {} PROVE IsInjective(c)
  <2>1. ASSUME NEW j \in DOMAIN c, NEW k \in DOMAIN c, c[j] = c[k] PROVE j = k
    <3>1. CASE j \in DOMAIN a /\ k \in DOMAIN a
      BY <1>3, <1>6, <2>1, <3>1, InjectiveIs
    <3>2. CASE ~(j \in DOMAIN a) /\ ~(k \in DOMAIN a)
      <4>1. j - Len(a) \in DOMAIN b /\ k - Len(a) \in DOMAIN b /\ b[j - Len(a)] = b[k - Len(a)]
        BY <1>2, <2>1, <3>2
      <4>2. j - Len(a) = k - Len(a)
        BY <1>6, <4>1, InjectiveIs
      <4> QED BY <1>0, <1>1, <2>1, <4>2
    <3>3. CASE j \in DOMAIN a /\ ~(k \in DOMAIN a)
      BY <1>2, <1>6, <2>1, <3>3, RangeIs
    <3>4. CASE ~(j \in DOMAIN a) /\ k \in DOMAIN a
      BY <1>2, <1>6, <2>1, <3>4, RangeIs
    <3> QED BY <3>1, <3>2, <3>3, <3>4
  <2> QED BY <2>1, InjectiveIs
<1> QED BY <1>1, <1>5, <1>6 DEF c

LEMMA OneQ ==
  ASSUME NEW T, NEW x \in T
  PROVE  <<x>> \in Seq(T) /\ Len(<<x>>) = 1 /\ Range(<<x>>) = {x} /\ IsInjective(<<x>>)
<1>1. DOMAIN <<x>> = {1} /\ <<x>>[1] = x
  OBVIOUS
<1>2. \A y : y \in Range(<<x>>) <=> y = x
  BY <1>1, RangeIs
<1>3. IsInjective(<<x>>)
  BY <1>1, InjectiveIs
<1> QED BY <1>2, <1>3

LEMMA EmptyQ == Range(<<>>) = {} /\ IsInjective(<<>>)
  BY DEF Range, IsInjective

\* An element put at the head.
LEMMA ConsQ ==
  ASSUME NEW T, NEW x \in T, NEW q \in Seq(T)
  PROVE  /\ <<x>> \o q \in Seq(T) /\ Len(<<x>> \o q) = Len(q) + 1 /\ Range(<<x>> \o q) = {x} \cup Range(q)
         /\ IsInjective(q) /\ x \notin Range(q) => IsInjective(<<x>> \o q)
<1> DEFINE o == <<x>>
<1>1. o \in Seq(T) /\ Len(o) = 1 /\ Range(o) = {x} /\ IsInjective(o)
  BY OneQ
<1> HIDE DEF o
<1>2. /\ o \o q \in Seq(T) /\ Len(o \o q) = Len(o) + Len(q) /\ Range(o \o q) = Range(o) \cup Range(q)
      /\ IsInjective(o) /\ IsInjective(q) /\ Range(o) \cap Range(q) = {} => IsInjective(o \o q)
  BY <1>1, ConcatQ, ZenonT(60)
<1>3. Len(q) \in Nat
  OBVIOUS
<1> QED BY <1>1, <1>2, <1>3 DEF o

\* An element put at the end.
LEMMA AppendQ ==
  ASSUME NEW T, NEW x \in T, NEW q \in Seq(T)
  PROVE  /\ Append(q, x) \in Seq(T) /\ Range(Append(q, x)) = {x} \cup Range(q)
         /\ IsInjective(q) /\ x \notin Range(q) => IsInjective(Append(q, x))
<1> DEFINE o == <<x>>
<1>1. o \in Seq(T) /\ Len(o) = 1 /\ Range(o) = {x} /\ IsInjective(o)
  BY OneQ
<1>2. Append(q, x) = q \o o
  OBVIOUS
<1> HIDE DEF o
<1>3. /\ q \o o \in Seq(T) /\ Range(q \o o) = Range(q) \cup Range(o)
      /\ IsInjective(q) /\ IsInjective(o) /\ Range(q) \cap Range(o) = {} => IsInjective(q \o o)
  BY <1>1, ConcatQ
<1> QED BY <1>1, <1>2, <1>3

\* A part of a queue.
LEMMA PartQ ==
  ASSUME NEW T, NEW q \in Seq(T), NEW m \in 1 .. Len(q) + 1, NEW n \in 0 .. Len(q), m <= n + 1
  PROVE  /\ SubSeq(q, m, n) \in Seq(T) /\ Len(SubSeq(q, m, n)) = n - m + 1
         /\ \A x : x \in Range(SubSeq(q, m, n)) <=> \E k \in m .. n : q[k] = x
         /\ IsInjective(q) => IsInjective(SubSeq(q, m, n))
<1> DEFINE p == SubSeq(q, m, n)
<1>0. Len(q) \in Nat /\ DOMAIN q = 1 .. Len(q) /\ m \in Nat /\ n \in Nat /\ n - m + 1 \in Nat
  OBVIOUS
<1>1. /\ p \in Seq(T) /\ Len(p) = n - m + 1
      /\ \A i \in 1 .. n - m + 1 : p[i] = q[i + m - 1]
  BY <1>0, SMTT(30)
<1> HIDE DEF p
<1>2. DOMAIN p = 1 .. n - m + 1
  BY <1>1
<1>3. ASSUME NEW x, NEW k \in m .. n, q[k] = x PROVE x \in Range(p)
  <2>1. k - m + 1 \in DOMAIN p /\ (k - m + 1) + m - 1 = k
    BY <1>0, <1>2
  <2>2. p[k - m + 1] = q[k]
    BY <1>1, <1>2, <2>1
  <2> QED BY <1>3, <2>1, <2>2, RangeIs
<1>4. ASSUME NEW x, x \in Range(p) PROVE \E k \in m .. n : q[k] = x
  <2>1. PICK i \in DOMAIN p : p[i] = x
    BY <1>4, RangeIs
  <2>2. i + m - 1 \in m .. n
    BY <1>0, <1>2, <2>1
  <2>3. q[i + m - 1] = x
    BY <1>1, <1>2, <2>1
  <2> QED BY <2>2, <2>3
<1>5. ASSUME IsInjective(q) PROVE IsInjective(p)
  <2>1. ASSUME NEW j \in DOMAIN p, NEW k \in DOMAIN p, p[j] = p[k] PROVE j = k
    <3>1. j + m - 1 \in DOMAIN q /\ k + m - 1 \in DOMAIN q /\ j \in Int /\ k \in Int
      BY <1>0, <1>2, <2>1
    <3>2. q[j + m - 1] = q[k + m - 1]
      BY <1>1, <1>2, <2>1
    <3>3. j + m - 1 = k + m - 1
      BY <1>5, <3>1, <3>2, InjectiveIs
    <3> QED BY <1>0, <3>1, <3>3
  <2> QED BY <2>1, InjectiveIs
<1> QED BY <1>1, <1>3, <1>4, <1>5 DEF p

\* The element at the head goes.
LEMMA TailQ ==
  ASSUME NEW T, NEW q \in Seq(T), q # <<>>, IsInjective(q)
  PROVE  /\ Head(q) \in Range(q) /\ Head(q) \in T /\ Tail(q) \in Seq(T)
         /\ Range(Tail(q)) = Range(q) \ {Head(q)} /\ IsInjective(Tail(q))
<1>0. Len(q) \in Nat \ {0} /\ DOMAIN q = 1 .. Len(q) /\ 1 \in DOMAIN q
  OBVIOUS
<1>1. Head(q) = q[1] /\ q[1] \in T /\ Tail(q) = SubSeq(q, 2, Len(q))
  OBVIOUS
<1> DEFINE p == SubSeq(q, 2, Len(q))
<1>2. p \in Seq(T) /\ IsInjective(p) /\ \A x : x \in Range(p) <=> \E k \in 2 .. Len(q) : q[k] = x
  <2>1. 2 \in 1 .. Len(q) + 1 /\ Len(q) \in 0 .. Len(q) /\ 2 <= Len(q) + 1
    BY <1>0
  <2> QED BY <2>1, PartQ
<1> HIDE DEF p
<1>3. ASSUME NEW x PROVE x \in Range(p) <=> x \in Range(q) /\ x # q[1]
  <2>1. ASSUME NEW k \in 2 .. Len(q), q[k] = x PROVE x \in Range(q) /\ x # q[1]
    <3>1. k \in DOMAIN q /\ k # 1
      BY <1>0, <2>1
    <3> QED BY <1>0, <2>1, <3>1, RangeIs, InjectiveIs
  <2>2. ASSUME NEW k \in DOMAIN q, q[k] = x, x # q[1] PROVE k \in 2 .. Len(q)
    BY <1>0, <2>2
  <2> QED BY <1>2, <2>1, <2>2, RangeIs
<1>4. q[1] \in Range(q)
  BY <1>0, RangeIs
<1> QED BY <1>1, <1>2, <1>3, <1>4 DEF p

\* The element at the end goes.
LEMMA FrontQ ==
  ASSUME NEW T, NEW q \in Seq(T), q # <<>>, IsInjective(q)
  PROVE  /\ Last(q) \in Range(q) /\ Last(q) \in T /\ Front(q) \in Seq(T)
         /\ Range(Front(q)) = Range(q) \ {Last(q)} /\ IsInjective(Front(q))
<1> DEFINE n == Len(q)
           p == SubSeq(q, 1, n - 1)
<1>0. n \in Nat \ {0} /\ DOMAIN q = 1 .. n /\ n \in DOMAIN q /\ q[n] \in T
  OBVIOUS
<1>1. Last(q) = q[n] /\ Front(q) = p
  BY DEF Last, Front
<1>2. p \in Seq(T) /\ IsInjective(p) /\ \A x : x \in Range(p) <=> \E k \in 1 .. n - 1 : q[k] = x
  <2>1. 1 \in 1 .. n + 1 /\ n - 1 \in 0 .. n /\ 1 <= (n - 1) + 1
    BY <1>0
  <2> QED BY <2>1, PartQ
<1> HIDE DEF p, n
<1>3. ASSUME NEW x PROVE x \in Range(p) <=> x \in Range(q) /\ x # q[n]
  <2>1. ASSUME NEW k \in 1 .. n - 1, q[k] = x PROVE x \in Range(q) /\ x # q[n]
    <3>1. k \in DOMAIN q /\ k # n
      BY <1>0, <2>1
    <3> QED BY <1>0, <2>1, <3>1, RangeIs, InjectiveIs
  <2>2. ASSUME NEW k \in DOMAIN q, q[k] = x, x # q[n] PROVE k \in 1 .. n - 1
    BY <1>0, <2>2
  <2> QED BY <1>2, <2>1, <2>2, RangeIs
<1>4. q[n] \in Range(q)
  BY <1>0, RangeIs
<1> QED BY <1>0, <1>1, <1>2, <1>3, <1>4

\* The first n elements and the rest.
LEMMA SplitQ ==
  ASSUME NEW T, NEW q \in Seq(T), IsInjective(q), NEW n \in 0 .. Len(q)
  PROVE  /\ SubSeq(q, 1, n) \in Seq(T) /\ SubSeq(q, n + 1, Len(q)) \in Seq(T)
         /\ Len(SubSeq(q, n + 1, Len(q))) = Len(q) - n
         /\ IsInjective(SubSeq(q, 1, n)) /\ IsInjective(SubSeq(q, n + 1, Len(q)))
         /\ Range(SubSeq(q, 1, n)) \cap Range(SubSeq(q, n + 1, Len(q))) = {}
         /\ Range(SubSeq(q, 1, n)) \cup Range(SubSeq(q, n + 1, Len(q))) = Range(q)
<1> DEFINE l == Len(q)
           a == SubSeq(q, 1, n)
           b == SubSeq(q, n + 1, l)
<1>0. l \in Nat /\ n \in Nat /\ DOMAIN q = 1 .. l
  OBVIOUS
<1>1. /\ a \in Seq(T) /\ IsInjective(a) /\ \A x : x \in Range(a) <=> \E k \in 1 .. n : q[k] = x
  <2>1. 1 \in 1 .. l + 1 /\ n \in 0 .. l /\ 1 <= n + 1
    BY <1>0
  <2> QED BY <2>1, PartQ
<1>2. /\ b \in Seq(T) /\ IsInjective(b) /\ \A x : x \in Range(b) <=> \E k \in n + 1 .. l : q[k] = x
      /\ Len(b) = l - (n + 1) + 1
  <2>1. n + 1 \in 1 .. l + 1 /\ l \in 0 .. l /\ n + 1 <= l + 1
    BY <1>0
  <2> QED BY <2>1, PartQ
<1>3. l - (n + 1) + 1 = l - n
  BY <1>0
<1>4. n <= l
  OBVIOUS
<1> HIDE DEF a, b, l
<1>5. ASSUME NEW x, x \in Range(a), x \in Range(b) PROVE FALSE
  <2>1. PICK j \in 1 .. n : q[j] = x
    BY <1>1, <1>5
  <2>2. PICK k \in n + 1 .. l : q[k] = x
    BY <1>2, <1>5
  <2>3. j \in DOMAIN q /\ k \in DOMAIN q /\ j # k
    BY <1>0, <1>4
  <2> QED BY <2>1, <2>2, <2>3, InjectiveIs
<1>6. ASSUME NEW x PROVE x \in Range(a) \cup Range(b) <=> x \in Range(q)
  <2>1. \A k : k \in DOMAIN q <=> k \in 1 .. n \/ k \in n + 1 .. l
    BY <1>0, <1>4
  <2> QED BY <1>1, <1>2, <2>1, RangeIs
<1> QED BY <1>1, <1>2, <1>3, <1>5, <1>6 DEF a, b, l

LEMMA ReverseQ ==
  ASSUME NEW T, NEW q \in Seq(T), IsInjective(q)
  PROVE  /\ Reverse(q) \in Seq(T) /\ Len(Reverse(q)) = Len(q)
         /\ Range(Reverse(q)) = Range(q) /\ IsInjective(Reverse(q))
<1> DEFINE r == Reverse(q)
           n == Len(q)
<1>0. n \in Nat /\ DOMAIN q = 1 .. n /\ \A i \in 1 .. n : q[i] \in T
  OBVIOUS
<1>1. r = [i \in 1 .. n |-> q[(n - i) + 1]]
  BY DEF Reverse
<1> HIDE DEF r, n
<1>2. \A i \in 1 .. n : (n - i) + 1 \in 1 .. n /\ (n - ((n - i) + 1)) + 1 = i
  BY <1>0
<1>3. r \in [1 .. n -> T]
  BY <1>0, <1>1, <1>2
<1>4. r \in Seq(T) /\ Len(r) = n /\ DOMAIN r = 1 .. n
  BY <1>0, <1>3
<1>5. ASSUME NEW x PROVE x \in Range(r) <=> x \in Range(q)
  <2>1. ASSUME NEW i \in 1 .. n, r[i] = x PROVE x \in Range(q)
    BY <1>0, <1>1, <1>2, <2>1, RangeIs
  <2>2. ASSUME NEW i \in 1 .. n, q[i] = x PROVE x \in Range(r)
    <3>1. r[(n - i) + 1] = q[(n - ((n - i) + 1)) + 1]
      BY <1>1, <1>2
    <3> QED BY <1>2, <1>4, <2>2, <3>1, RangeIs
  <2> QED BY <1>0, <1>4, <2>1, <2>2, RangeIs
<1>6. ASSUME NEW j \in 1 .. n, NEW k \in 1 .. n, r[j] = r[k] PROVE j = k
  <2>1. (n - j) + 1 = (n - k) + 1
    BY <1>0, <1>1, <1>2, <1>6, InjectiveIs
  <2> QED BY <1>0, <1>6, <2>1
<1>7. IsInjective(r)
  BY <1>4, <1>6, InjectiveIs
<1> QED BY <1>4, <1>5, <1>7 DEF r, n

\* One element goes, wherever it is.
LEMMA RemoveQ ==
  ASSUME NEW T, NEW q \in Seq(T), IsInjective(q), NEW j \in DOMAIN q
  PROVE  /\ RemoveAt(q, j) \in Seq(T) /\ IsInjective(RemoveAt(q, j))
         /\ Range(RemoveAt(q, j)) = Range(q) \ {q[j]}
<1> DEFINE n == Len(q)
           a == SubSeq(q, 1, j - 1)
           b == SubSeq(q, j + 1, n)
<1>0. n \in Nat /\ DOMAIN q = 1 .. n /\ j \in 1 .. n
  OBVIOUS
<1>1. a \in Seq(T) /\ IsInjective(a) /\ \A x : x \in Range(a) <=> \E k \in 1 .. j - 1 : q[k] = x
  <2>1. 1 \in 1 .. n + 1 /\ j - 1 \in 0 .. n /\ 1 <= (j - 1) + 1
    BY <1>0
  <2> QED BY <2>1, PartQ
<1>2. b \in Seq(T) /\ IsInjective(b) /\ \A x : x \in Range(b) <=> \E k \in j + 1 .. n : q[k] = x
  <2>1. j + 1 \in 1 .. n + 1 /\ n \in 0 .. n /\ j + 1 <= n + 1
    BY <1>0
  <2> QED BY <2>1, PartQ
<1>3. RemoveAt(q, j) = a \o b
  BY DEF RemoveAt
<1> HIDE DEF a, b, n
<1>4. \A k : k \in 1 .. j - 1 \/ k \in j + 1 .. n <=> k \in DOMAIN q /\ k # j
  BY <1>0
<1>5. \A k, l : k \in 1 .. j - 1 /\ l \in j + 1 .. n => k # l
  BY <1>0
<1>6. Range(a) \cap Range(b) = {}
  BY <1>1, <1>2, <1>4, <1>5, InjectiveIs
<1>7. ASSUME NEW x PROVE x \in Range(a) \cup Range(b) <=> x \in Range(q) /\ x # q[j]
  <2>1. x \in Range(a) \cup Range(b) <=> \E k \in DOMAIN q : k # j /\ q[k] = x
    BY <1>1, <1>2, <1>4
  <2> QED BY <2>1, RangeIs, InjectiveIs
<1>8. a \o b \in Seq(T) /\ Range(a \o b) = Range(a) \cup Range(b) /\ IsInjective(a \o b)
  BY <1>1, <1>2, <1>6, ConcatQ
<1> QED BY <1>3, <1>7, <1>8

\* ntg_queue_remove of x, which may not be there.
LEMMA UnlinkQ ==
  ASSUME NEW T, NEW q \in Seq(T), IsInjective(q), NEW x
  PROVE  /\ RemoveFirst(q, x) \in Seq(T) /\ IsInjective(RemoveFirst(q, x))
         /\ Range(RemoveFirst(q, x)) = Range(q) \ {x}
<1> DEFINE S == {i \in 1 .. Len(q) : q[i] = x}
           j == Min(S)
<1>0. Len(q) \in Nat /\ DOMAIN q = 1 .. Len(q)
  OBVIOUS
<1>1. CASE x \in Range(q)
  <2>1. S \subseteq Nat /\ S # {}
    BY <1>0, <1>1, RangeIs
  <2>2. j \in S
    <3> HIDE DEF S
    <3> QED BY <2>1, MinNat
  <2>3. j \in DOMAIN q /\ q[j] = x
    BY <1>0, <2>2
  <2>4. RemoveFirst(q, x) = RemoveAt(q, j)
    BY <1>0, <1>1, <2>1, RangeIs DEF RemoveFirst, SelectInSeq
  <2> HIDE DEF j
  <2> QED BY <2>3, <2>4, RemoveQ
<1>2. CASE x \notin Range(q)
  <2>1. RemoveFirst(q, x) = q
    BY <1>0, <1>2, RangeIs DEF RemoveFirst
  <2> QED BY <1>2, <2>1
<1> QED BY <1>1, <1>2

\* A queue of the numbers up to n in which each is once is not longer than n.
LEMMA LengthQ ==
  ASSUME NEW n \in Nat, NEW q \in Seq(1 .. n), IsInjective(q)
  PROVE  Len(q) <= n
<1> DEFINE A == 1 .. Len(q)
           B == 1 .. n
<1>1. Len(q) \in Nat /\ q \in [A -> B] /\ DOMAIN q = A
  OBVIOUS
<1>2. IsFiniteSet(A) /\ Cardinality(A) = Len(q) /\ IsFiniteSet(B) /\ Cardinality(B) = n
  <2>1. 1 \in Int /\ n \in Int /\ Len(q) \in Int
    BY <1>1
  <2>2. IsFiniteSet(1 .. n) /\ Cardinality(1 .. n) = IF 1 > n THEN 0 ELSE n - 1 + 1
    BY <2>1, FS_Interval
  <2>3. IsFiniteSet(1 .. Len(q)) /\ Cardinality(1 .. Len(q)) = IF 1 > Len(q) THEN 0 ELSE Len(q) - 1 + 1
    BY <2>1, FS_Interval
  <2> QED BY <1>1, <2>2, <2>3
<1> HIDE DEF A, B
<1>3. ASSUME Cardinality(B) < Cardinality(A) PROVE FALSE
  <2>1. \E x, y \in A : x # y /\ q[x] = q[y]
    BY <1>1, <1>2, <1>3, FS_PigeonHole
  <2> QED BY <1>1, <2>1, InjectiveIs
<1> QED BY <1>1, <1>2, <1>3

-----------------------------------------------------------------------------
(***************************************************************************)
(* All queues together.                                                    *)
(***************************************************************************)

\* Users move between the pool and one group, or within the group.
LEMMA SwapSole ==
  ASSUME NEW p, NEW G, Sole(p, G), NEW g \in Group, NEW p2, NEW G2,
         \A h \in Group : h # g => G2[h] = G[h],
         IsInjective(p2), Once(G2[g]), Range(p2) \cap Own(G2[g]) = {},
         Range(p2) \cup Own(G2[g]) = Range(p) \cup Own(G[g])
  PROVE  Sole(p2, G2)
<1>1. \A h \in Group : Once(G2[h])
  BY DEF Sole
<1>2. \A h \in Group : Range(p2) \cap Own(G2[h]) = {}
  BY DEF Sole
<1>3. \A h, k \in Group : h # k => Own(G2[h]) \cap Own(G2[k]) = {}
  BY DEF Sole
<1>4. \A u \in User : u \in Range(p2) \/ \E h \in Group : u \in Own(G2[h])
  BY DEF Sole
<1> QED BY <1>1, <1>2, <1>3, <1>4 DEF Sole

\* A user that is not in the pool goes to group g.
LEMMA HopSole ==
  ASSUME NEW p, NEW G, Sole(p, G), NEW g \in Group, NEW u, u \notin Range(p), NEW G2,
         \A h \in Group : Once(G2[h]),
         Own(G2[g]) = Own(G[g]) \cup {u},
         \A h \in Group : h # g => Own(G2[h]) = Own(G[h]) \ {u}
  PROVE  Sole(p, G2)
<1>1. \A h \in Group : Range(p) \cap Own(G2[h]) = {}
  BY DEF Sole
<1>2. \A h, k \in Group : h # k => Own(G2[h]) \cap Own(G2[k]) = {}
  BY DEF Sole
<1>3. \A v \in User : v \in Range(p) \/ \E h \in Group : v \in Own(G2[h])
  BY DEF Sole
<1> QED BY <1>1, <1>2, <1>3 DEF Sole

\* Each user has one place.
LEMMA OnePlace ==
  ASSUME UsersOK, GroupsOK, Sole(pool, grp), NEW u \in User
  PROVE  Cardinality(Places(u)) = 1
<1>1. ASSUME NEW g \in 0 .. NGroup
      PROVE  Held(g) \in Seq(User) /\ IsInjective(Held(g))
             /\ Range(Held(g)) = IF g = 0 THEN Range(pool) ELSE Own(grp[g])
  <2>1. CASE g = 0
    BY <2>1 DEF Held, UsersOK, Sole
  <2>2. CASE g # 0
    <3>1. g \in Group
      BY <2>2, UsersAssumption DEF Group, UsersAssumption
    <3>2. grp[g].freeQ \in Seq(User) /\ grp[g].liveQ \in Seq(User) /\ Once(grp[g])
      BY <3>1 DEF GroupsOK, GroupT, Sole
    <3> QED BY <2>2, <3>2, ConcatQ DEF Held, Own, Once
  <2> QED BY <2>1, <2>2
<1>2. \A g, h \in 0 .. NGroup : u \in Range(Held(g)) /\ u \in Range(Held(h)) => g = h
  <2>1. \A g \in 0 .. NGroup : g # 0 => g \in Group
    BY UsersAssumption DEF Group, UsersAssumption
  <2>2. ASSUME NEW g \in 0 .. NGroup, NEW h \in 0 .. NGroup, u \in Range(Held(g)), u \in Range(Held(h)), g # h
        PROVE  FALSE
    <3>1. CASE g = 0
      BY <1>1, <2>1, <2>2, <3>1 DEF Sole
    <3>2. CASE h = 0
      BY <1>1, <2>1, <2>2, <3>2 DEF Sole
    <3>3. CASE g # 0 /\ h # 0
      <4>1. g \in Group /\ h \in Group /\ u \in Own(grp[g]) /\ u \in Own(grp[h])
        BY <1>1, <2>1, <2>2, <3>3
      <4> QED BY <2>2, <4>1 DEF Sole
    <3> QED BY <3>1, <3>2, <3>3
  <2> QED BY <2>2
<1>3. \E g \in 0 .. NGroup : u \in Range(Held(g))
  <2>1. \A g \in Group : g \in 0 .. NGroup /\ g # 0
    BY UsersAssumption DEF Group, UsersAssumption
  <2>2. 0 \in 0 .. NGroup
    BY UsersAssumption DEF UsersAssumption
  <2> QED BY <1>1, <2>1, <2>2 DEF Sole
<1>3a. PICK g \in 0 .. NGroup : u \in Range(Held(g))
  BY <1>3
<1>4. PICK k \in DOMAIN Held(g) : Held(g)[k] = u
  BY <1>3a, RangeIs
<1>5. ASSUME NEW x PROVE x \in Places(u) <=> x = <<g, k>>
  <2>1. x \in Places(u) <=> \E h \in 0 .. NGroup : \E j \in DOMAIN Held(h) : Held(h)[j] = u /\ x = <<h, j>>
    BY DEF Places
  <2>2. ASSUME NEW h \in 0 .. NGroup, NEW j \in DOMAIN Held(h), Held(h)[j] = u PROVE h = g /\ j = k
    BY <1>1, <1>2, <1>3a, <1>4, <2>2, RangeIs, InjectiveIs
  <2> QED BY <1>4, <2>1, <2>2
<1>6. Places(u) = {<<g, k>>}
  BY <1>5
<1> QED BY <1>6, FS_Singleton

-----------------------------------------------------------------------------
(***************************************************************************)
(* The start.                                                              *)
(***************************************************************************)
Fresh ==
  /\ pool = [k \in 1 .. UserN |-> k] /\ freeN = UserN
  /\ usr = [u \in User |-> NoUser] /\ grp = [g \in Group |-> NoGroup]
  /\ csms = [k \in 1 .. NCsm |-> k] /\ cid = [c \in Csm |-> 0]
  /\ gps = [c \in Csm |-> [i \in GroupIds |-> 0]] /\ table = EmptyTable
  /\ tasks = <<>> /\ taskN = 0 /\ taskFlag = FALSE /\ evTask = FALSE
  /\ pc = "idle" /\ cur = 0 /\ left = 0 /\ ti = 0 /\ kept = <<>>

\* The numbers up to n in order.
LEMMA CountQ ==
  ASSUME NEW n \in Nat
  PROVE  LET q == [k \in 1 .. n |-> k]
         IN  q \in Seq(1 .. n) /\ Len(q) = n /\ IsInjective(q) /\ Range(q) = 1 .. n
<1> DEFINE q == [k \in 1 .. n |-> k]
<1>1. q \in Seq(1 .. n) /\ Len(q) = n /\ DOMAIN q = 1 .. n /\ \A k \in 1 .. n : q[k] = k
  OBVIOUS
<1> HIDE DEF q
<1>2. \A x : x \in Range(q) <=> x \in 1 .. n
  BY <1>1, RangeIs
<1>3. IsInjective(q)
  BY <1>1, InjectiveIs
<1> QED BY <1>1, <1>2, <1>3 DEF q

LEMMA Nothing ==
  NoGroup \in GroupT /\ Once(NoGroup) /\ Own(NoGroup) = {} /\ Plain(NoGroup) /\ Below(NoGroup)
<1>1. 0 \in 0 .. NCsm /\ 0 \in 0 .. UserN
  BY UsersAssumption DEF UsersAssumption
<1>2. /\ NoGroup \in GroupT /\ NoGroup.freeQ = <<>> /\ NoGroup.liveQ = <<>> /\ NoGroup.start = 0
      /\ NoGroup.n = 0 /\ NoGroup.liveN = 0
  BY <1>1 DEF NoGroup, GroupT
<1> QED BY <1>2, EmptyQ DEF Once, Own, Plain, Below

LEMMA FreshInv ==
  ASSUME Fresh, BudgetOK PROVE IndInv
<1>0. /\ UserN \in Nat /\ NCsm \in Nat /\ NGroup \in Nat /\ MaxSim \in Nat /\ NodeN \in Nat
      /\ 0 \in 0 .. UserN /\ 0 \in 0 .. NGroup /\ 0 \in 0 .. MaxSim
  BY UsersAssumption, HashTableAssumption DEF UsersAssumption, HashTableAssumption
<1>1. /\ pool \in Seq(User) /\ Len(pool) = UserN /\ IsInjective(pool) /\ Range(pool) = User
      /\ csms \in Seq(Csm) /\ IsInjective(csms) /\ Range(csms) = Csm
  BY <1>0, CountQ DEF Fresh, User, Csm
<1>2. usr \in [User -> UserT] /\ \A u \in User : ~usr[u].timer /\ ~usr[u].enable
  BY <1>0 DEF Fresh, UserT, NoUser
<1>3. UsersOK
  <2>1. Pointed(usr) /\ Stopped(pool, usr)
    BY <1>1, <1>2 DEF Pointed, Stopped
  <2>2. freeN = UserN
    BY DEF Fresh
  <2> QED BY <1>0, <1>1, <1>2, <2>1, <2>2 DEF UsersOK
<1>4. /\ grp \in [Group -> GroupT]
      /\ \A g \in Group : grp[g] = NoGroup /\ ~grp[g].on
  BY Nothing DEF Fresh, NoGroup
<1>5. GroupsOK
  BY <1>4, Nothing DEF GroupsOK
<1>6. Sole(pool, grp)
  BY <1>1, <1>4, Nothing DEF Sole
<1>7. Linked(grp, gps)
  BY <1>4 DEF Linked, Fresh
<1>8. OwnersOK
  <2>1. \A b \in Bucket : table.chain[b] = <<>>
    BY DEF Fresh, EmptyTable
  <2>2. Objects(table) = {}
    BY <2>1, EmptyQ DEF Objects
  <2>3. IsFiniteSet({}) /\ Cardinality({}) = 0
    BY FS_EmptySet
  <2>4. table.chain \in ChainT /\ table.free = NodeN
    BY DEF Fresh, EmptyTable, ChainT
  <2>5. Filed(table)
    BY <1>0, <2>1, <2>2, <2>3, <2>4, EmptyQ DEF Filed, Apart
  <2>6. Spare
    BY <1>1, <2>2 DEF Spare, Fresh
  <2>7. cid \in [Csm -> {0} \cup Ids] /\ gps \in [Csm -> [GroupIds -> 0 .. NGroup]]
    BY <1>0 DEF Fresh
  <2> QED BY <1>0, <1>1, <2>4, <2>5, <2>6, <2>7 DEF OwnersOK
<1>9. TasksOK
  <2>1. tasks = <<>> /\ kept = <<>> /\ taskN = 0 /\ ti = 0 /\ pc = "idle" /\ sims \in Nat
    BY DEF Fresh, BudgetOK
  <2>2. Listed
    BY <2>1, EmptyQ DEF Listed
  <2>3. taskFlag \in BOOLEAN /\ evTask \in BOOLEAN
    BY DEF Fresh
  <2>4. tasks \in Seq(Group) /\ kept \in Seq(Group)
    BY <2>1
  <2> QED BY <1>0, <2>1, <2>2, <2>3, <2>4 DEF TasksOK
<1>10. LoopOK
  BY <1>0 DEF LoopOK, Looping, Fresh
<1> QED BY <1>3, <1>5, <1>6, <1>7, <1>8, <1>9, <1>10 DEF IndInv

LEMMA InitInv == Init => IndInv
<1> SUFFICES ASSUME Init PROVE IndInv
  OBVIOUS
<1>1. Fresh
  BY DEF Init, Fresh
<1>2. BudgetOK
  BY UsersAssumption DEF Init, BudgetOK, UsersAssumption
<1> QED BY <1>1, <1>2, FreshInv

-----------------------------------------------------------------------------
(***************************************************************************)
(* What a step leaves alone.                                               *)
(***************************************************************************)
LEMMA UsersFrame == UsersOK /\ UNCHANGED users => UsersOK'
  BY DEF UsersOK, Pointed, Stopped, users

LEMMA GroupsFrame == GroupsOK /\ UNCHANGED grp => GroupsOK'
  BY DEF GroupsOK

LEMMA SoleFrame == Sole(pool, grp) /\ UNCHANGED <<users, grp>> => Sole(pool, grp)'
  BY DEF Sole, users

LEMMA OwnersFrame == OwnersOK /\ UNCHANGED owner => OwnersOK'
  BY DEF OwnersOK, Spare, Filed, Apart, owner

LEMMA LinkedFrame == Linked(grp, gps) /\ UNCHANGED <<grp, gps>> => Linked(grp, gps)'
  BY DEF Linked

LEMMA TasksFrame ==
  ASSUME TasksOK, BudgetOK, UNCHANGED <<queue, kept, ti, grp, pc>>, sims' \in Nat, sims <= sims'
  PROVE  TasksOK'
<1>1. /\ UNCHANGED <<tasks, taskN, taskFlag, evTask, kept, ti, grp, pc>>
      /\ taskN \in Nat /\ sims \in Nat
  BY DEF TasksOK, BudgetOK, queue
<1>2. taskN <= sims'
  BY <1>1 DEF TasksOK, Listed
<1>3. Listed'
  BY <1>1, <1>2 DEF TasksOK, Listed
<1> QED BY <1>1, <1>3 DEF TasksOK

LEMMA LoopFrame == LoopOK /\ UNCHANGED <<loop, grp, tasks>> => LoopOK'
  BY DEF LoopOK, Looping, loop

\* A step that touches no user and no group.
LEMMA QuietStep ==
  ASSUME IndInv, UNCHANGED <<users, grp, owner>>, TasksOK', LoopOK', BudgetOK'
  PROVE  IndInv'
<1>1. UsersOK' /\ GroupsOK' /\ Sole(pool, grp)'
  BY UsersFrame, GroupsFrame, SoleFrame DEF IndInv
<1>2. OwnersOK' /\ Linked(grp, gps)'
  BY OwnersFrame, LinkedFrame DEF IndInv, owner
<1> QED BY <1>1, <1>2 DEF IndInv

LEMMA BreakStep ==
  ASSUME IndInv, Break, UNCHANGED ctls, sims' \in 0 .. MaxSim, sims <= sims'
  PROVE  IndInv'
<1>1. UNCHANGED <<users, grp, owner, queue, loop, fails>> /\ up' = FALSE
  BY DEF Break
<1>2. BudgetOK'
  BY <1>1 DEF IndInv, BudgetOK
<1>3. TasksOK'
  <2>1. sims' \in Nat /\ UNCHANGED <<queue, kept, ti, grp, pc>>
    BY <1>1 DEF loop
  <2> QED BY <2>1, TasksFrame DEF IndInv
<1>4. LoopOK'
  BY <1>1, LoopFrame DEF IndInv, queue
<1> QED BY <1>1, <1>2, <1>3, <1>4, QuietStep
-----------------------------------------------------------------------------
(***************************************************************************)
(* The loop of tasks and the beginning and end of callbacks.               *)
(***************************************************************************)
LEMMA TaskStartStep == IndInv /\ TaskStart => IndInv'
<1> SUFFICES ASSUME IndInv, TaskStart PROVE IndInv'
  OBVIOUS
<1>1. /\ pc = "idle" /\ pc' = "task" /\ ti' = 0 /\ kept' = <<>> /\ evTask' = FALSE
      /\ UNCHANGED <<users, grp, owner, tasks, taskN, taskFlag, cur, left, up, sims, ctls, fails>>
  BY DEF TaskStart, Idle, budget
<1>2. BudgetOK'
  BY <1>1 DEF IndInv, BudgetOK
<1>3. kept = <<>> /\ ti = 0 /\ taskN \in 0 .. MaxSim /\ Len(<<>>) = 0
  BY <1>1 DEF IndInv, TasksOK, Listed
<1>4. Listed'
  BY <1>1, <1>3 DEF IndInv, TasksOK, Listed
<1>5. TasksOK'
  BY <1>1, <1>3, <1>4 DEF IndInv, TasksOK
<1>6. LoopOK'
  BY <1>1 DEF IndInv, LoopOK, Looping
<1> QED BY <1>1, <1>2, <1>5, <1>6, QuietStep

LEMMA BatchIs ==
  ASSUME NEW a \in Nat, NEW b \in Nat
  PROVE  Min({a, b}) \in Nat /\ Min({a, b}) <= a
<1>1. Min({a, b}) \in {a, b} /\ \A y \in {a, b} : Min({a, b}) <= y
  <2> DEFINE S == {a, b}
  <2>1. S \subseteq Nat /\ S # {}
    OBVIOUS
  <2> HIDE DEF S
  <2>2. Min(S) \in S /\ \A y \in S : Min(S) <= y
    BY <2>1, MinNat
  <2> QED BY <2>2 DEF S
<1> QED BY <1>1

\* Counters and the fields of a group.
LEMMA GroupNumbers ==
  ASSUME GroupsOK, NEW g \in Group
  PROVE  /\ g \in Nat \ {0} /\ g \in 0 .. NGroup /\ grp[g] \in GroupT
         /\ grp[g].liveN \in 0 .. UserN /\ grp[g].n \in 0 .. UserN /\ grp[g].start \in 0 .. UserN
         /\ Target(g) = Goal(grp[g]) /\ Goal(grp[g]) \in 0 .. UserN /\ Goal(grp[g]) <= grp[g].n
         /\ grp[g].liveN <= grp[g].n
<1>1. g \in Nat \ {0} /\ g \in 0 .. NGroup
  BY UsersAssumption DEF UsersAssumption, Group
<1>2. grp[g] \in GroupT /\ Below(grp[g])
  BY DEF GroupsOK
<1>3. grp[g].liveN \in 0 .. UserN /\ grp[g].n \in 0 .. UserN /\ grp[g].start \in 0 .. UserN
  BY <1>2 DEF GroupT
<1>4. Target(g) = Goal(grp[g])
  BY DEF Target, Goal
<1>5. grp[g].start <= grp[g].n /\ grp[g].liveN <= grp[g].n
  BY <1>2 DEF Below
<1>6. Goal(grp[g]) \in 0 .. UserN /\ Goal(grp[g]) <= grp[g].n
  BY <1>3, <1>5 DEF Goal
<1> QED BY <1>1, <1>2, <1>3, <1>4, <1>5, <1>6

LEMMA TaskGroupStep == IndInv /\ TaskGroup => IndInv'
<1> SUFFICES ASSUME IndInv, TaskGroup PROVE IndInv'
  OBVIOUS
<1>0. pc = "task" /\ ti < taskN /\ UNCHANGED <<sims, ctls>>
  BY DEF TaskGroup
<1>1. CASE Break
  <2>1. sims' \in 0 .. MaxSim /\ sims <= sims'
    BY <1>0 DEF IndInv, BudgetOK
  <2> QED BY <1>0, <1>1, <2>1, BreakStep
<1>2. CASE ~(tasks = <<>> \/ ~grp[Head(tasks)].on)
  <2> DEFINE g == Head(tasks)
  <2>1. /\ tasks # <<>> /\ grp[g].on /\ cur' = g /\ tasks' = Tail(tasks) /\ pc' = "activate" /\ left' = BatchOf(g)
        /\ UNCHANGED <<users, grp, owner, taskN, taskFlag, evTask, ti, kept, up, fails>>
    BY <1>2 DEF TaskGroup
  <2>2. /\ tasks \in Seq(Group) /\ IsInjective(tasks)
    BY DEF IndInv, TasksOK, Listed
  <2>3. /\ g \in Range(tasks) /\ g \in Group /\ Tail(tasks) \in Seq(Group)
        /\ Range(Tail(tasks)) = Range(tasks) \ {g} /\ IsInjective(Tail(tasks))
    BY <2>1, <2>2, TailQ
  <2> HIDE DEF g
  <2>4. Due(grp[g]) /\ g \notin Range(kept)
    BY <2>3 DEF IndInv, TasksOK, Listed
  <2>5. ~grp[g].armed /\ grp[g].liveN <= Goal(grp[g])
    BY <2>1, <2>4 DEF Due
  <2>6. /\ Target(g) = Goal(grp[g]) /\ Goal(grp[g]) \in 0 .. UserN /\ grp[g].liveN \in 0 .. UserN
        /\ g \in 0 .. NGroup /\ Batch \in Nat /\ UserN \in Nat
    BY <2>3, GroupNumbers, UsersAssumption DEF IndInv, UsersAssumption
  <2>7. left' \in Nat /\ left' <= Goal(grp[g]) - grp[g].liveN
    <3>1. left' = Min({Goal(grp[g]) - grp[g].liveN, Batch})
      BY <2>1, <2>6 DEF BatchOf
    <3>2. Goal(grp[g]) - grp[g].liveN \in Nat
      BY <2>5, <2>6
    <3> QED BY <2>6, <3>1, <3>2, BatchIs
  <2>8. left' \in 0 .. UserN /\ grp[g].liveN + left' <= Goal(grp[g])
    BY <2>6, <2>7
  <2>9. BudgetOK'
    BY <1>0, <2>1 DEF IndInv, BudgetOK
  <2>10. Listed'
    BY <1>0, <2>1, <2>3 DEF IndInv, TasksOK, Listed
  <2>11. TasksOK'
    BY <2>1, <2>3, <2>10 DEF IndInv, TasksOK
  <2>12. LoopOK'
    <3>1. Looping'
      BY <2>1, <2>3, <2>4, <2>5, <2>8 DEF Looping
    <3> QED BY <2>1, <2>6, <2>8, <3>1 DEF LoopOK
  <2> QED BY <2>1, <2>9, <2>11, <2>12, QuietStep
<1> QED BY <1>1, <1>2 DEF TaskGroup

LEMMA TaskDoneStep == IndInv /\ TaskDone => IndInv'
<1> SUFFICES ASSUME IndInv, TaskDone PROVE IndInv'
  OBVIOUS
<1>1. /\ pc = "task" /\ ti >= taskN /\ tasks' = kept /\ taskN' = Len(kept) /\ taskFlag' = (kept # <<>>)
      /\ pc' = "idle" /\ ti' = 0 /\ kept' = <<>>
      /\ UNCHANGED <<users, grp, owner, cur, left, up, sims, ctls>>
  BY DEF TaskDone
<1>2. evTask' \in BOOLEAN /\ fails' \in 0 .. MaxFail
  <2>1. Again(kept # <<>>) /\ fails \in 0 .. MaxFail /\ MaxFail \in Nat
    BY UsersAssumption DEF TaskDone, IndInv, BudgetOK, UsersAssumption
  <2>2. (evTask' = (kept # <<>>) \/ evTask' = FALSE) /\ (fails' = fails \/ Fails)
    BY <2>1 DEF Again
  <2>3. fails' \in 0 .. MaxFail
    BY <2>1, <2>2 DEF Fails
  <2>4. evTask' \in BOOLEAN
    BY <2>2, Zenon
  <2> QED BY <2>3, <2>4
<1>3. BudgetOK'
  BY <1>1, <1>2 DEF IndInv, BudgetOK
<1>4. /\ kept \in Seq(Group) /\ Len(kept) \in Nat /\ Len(kept) <= ti /\ ti <= taskN /\ taskN <= sims
      /\ taskN \in 0 .. MaxSim /\ ti \in 0 .. MaxSim /\ sims \in Nat
      /\ IsInjective(kept) /\ \A g \in Range(kept) : Due(grp[g])
  BY <1>1 DEF IndInv, TasksOK, Listed, BudgetOK
<1>5. Len(kept) <= sims /\ Len(kept) \in 0 .. MaxSim /\ 0 \in 0 .. MaxSim
  <2>1. \A a, b, c, d, m : /\ a \in Nat /\ b \in 0 .. m /\ c \in 0 .. m /\ d \in Nat /\ m \in Nat
                             /\ a <= b /\ b <= c /\ c <= d
                             => a <= d /\ a \in 0 .. m /\ 0 \in 0 .. m
    OBVIOUS
  <2>2. MaxSim \in Nat
    BY UsersAssumption DEF UsersAssumption
  <2> QED BY <1>4, <2>1, <2>2
<1>6. Listed'
  BY <1>1, <1>4, <1>5, EmptyQ DEF Listed
<1>7. taskFlag' \in BOOLEAN /\ kept' \in Seq(Group)
  BY <1>1
<1>8. TasksOK'
  BY <1>1, <1>2, <1>4, <1>5, <1>6, <1>7 DEF TasksOK
<1>9. LoopOK'
  BY <1>1 DEF IndInv, LoopOK, Looping
<1> QED BY <1>1, <1>3, <1>8, <1>9, QuietStep

LEMMA ControlDoneStep == IndInv /\ ControlDone => IndInv'
<1> SUFFICES ASSUME IndInv, ControlDone PROVE IndInv'
  OBVIOUS
<1>1. /\ pc \in {"add", "drop"} /\ pc' = "idle" /\ cur' = 0
      /\ UNCHANGED <<users, grp, owner, queue, left, ti, kept, up, budget>>
  BY DEF ControlDone
<1>2. BudgetOK'
  BY <1>1 DEF IndInv, BudgetOK, budget
<1>3. TasksOK'
  BY <1>1 DEF IndInv, TasksOK, Listed, queue, budget
<1>4. 0 \in 0 .. NGroup
  BY UsersAssumption DEF UsersAssumption
<1>5. LoopOK'
  BY <1>1, <1>4 DEF IndInv, LoopOK, Looping
<1> QED BY <1>1, <1>2, <1>3, <1>5, QuietStep

LEMMA ControlStep ==
  ASSUME IndInv, NEW g \in Group, NEW n \in 0 .. UserN, Control(g, n) PROVE IndInv'
<1>1. /\ pc = "idle" /\ grp[g].on /\ grp[g].armed /\ n <= grp[g].n /\ n # grp[g].liveN /\ cur' = g
      /\ UNCHANGED <<users, grp, owner, queue, ti, kept, up, budget>>
  BY DEF Control, Idle
<1>2. /\ g \in 0 .. NGroup /\ grp[g].liveN \in 0 .. UserN /\ grp[g].n \in 0 .. UserN /\ UserN \in Nat
  BY GroupNumbers, UsersAssumption DEF IndInv, UsersAssumption
<1>3. BudgetOK'
  BY <1>1 DEF IndInv, BudgetOK, budget
<1>4. pc' \in {"add", "drop"}
  BY DEF Control
<1>5. TasksOK'
  BY <1>1, <1>4 DEF IndInv, TasksOK, Listed, queue, budget
<1>6. LoopOK'
  <2>1. CASE n > grp[g].liveN
    <3>1. pc' = "add" /\ left' = n - grp[g].liveN
      BY <2>1 DEF Control
    <3>2. left' \in 0 .. UserN /\ grp[g].liveN + left' <= grp[g].n
      BY <1>1, <1>2, <2>1, <3>1
    <3> QED BY <1>1, <1>2, <3>1, <3>2 DEF LoopOK, Looping
  <2>2. CASE ~(n > grp[g].liveN)
    <3>1. pc' = "drop" /\ left' = grp[g].liveN - n
      BY <2>2 DEF Control
    <3>2. left' \in 0 .. UserN /\ left' <= grp[g].liveN
      BY <1>1, <1>2, <2>2, <3>1
    <3> QED BY <1>1, <1>2, <3>1, <3>2 DEF LoopOK, Looping
  <2> QED BY <2>1, <2>2
<1> QED BY <1>1, <1>3, <1>5, <1>6, QuietStep

-----------------------------------------------------------------------------
(***************************************************************************)
(* Steps that change groups, but not who owns them.                        *)
(***************************************************************************)
Same(r, s) ==
  /\ s \in GroupT /\ s.on = r.on /\ s.csm = r.csm /\ s.gid = r.gid /\ s.n = r.n
  /\ s.scene = r.scene /\ s.start = r.start

LEMMA OwnedGroup ==
  ASSUME OwnersOK, NEW c \in Csm, NEW i \in GroupIds, gps[c][i] # 0
  PROVE  gps[c][i] \in Group
<1>1. gps[c][i] \in 0 .. NGroup
  BY DEF OwnersOK
<1> QED BY <1>1, UsersAssumption DEF UsersAssumption, Group

LEMMA SameGroups ==
  ASSUME GroupsOK, OwnersOK, Linked(grp, gps), UNCHANGED gps, grp' \in [Group -> GroupT],
         \A h \in Group : /\ Same(grp[h], grp'[h]) /\ grp'[h].liveN <= grp'[h].n
                          /\ ~grp[h].on => grp'[h] = grp[h]
  PROVE  GroupsOK' /\ Linked(grp, gps)'
<1>1. \A h \in Group : Plain(grp'[h]) /\ Below(grp'[h])
  <2> SUFFICES ASSUME NEW h \in Group PROVE Plain(grp'[h]) /\ Below(grp'[h])
    OBVIOUS
  <2>1. Below(grp'[h])
    BY DEF GroupsOK, Same, Below
  <2>2. Plain(grp'[h])
    BY DEF GroupsOK, Same, Plain
  <2> QED BY <2>1, <2>2
<1>2. Linked(grp, gps)'
  <2>1. \A g \in Group : grp'[g].on => /\ grp'[g].csm \in Csm /\ grp'[g].gid \in GroupIds
                                       /\ gps'[grp'[g].csm][grp'[g].gid] = g
    BY DEF Linked, Same
  <2>2. ASSUME NEW c \in Csm, NEW i \in GroupIds, gps[c][i] # 0
        PROVE  grp'[gps[c][i]].on /\ grp'[gps[c][i]].csm = c /\ grp'[gps[c][i]].gid = i
    <3>1. gps[c][i] \in Group
      BY <2>2, OwnedGroup
    <3>2. grp[gps[c][i]].on /\ grp[gps[c][i]].csm = c /\ grp[gps[c][i]].gid = i
      BY <2>2 DEF Linked
    <3> QED BY <3>1, <3>2 DEF Same
  <2> QED BY <2>1, <2>2 DEF Linked
<1> QED BY <1>1, <1>2 DEF GroupsOK

\* The fields of a group whose flags change.
LEMMA FlagFields ==
  ASSUME NEW r \in GroupT, NEW y \in BOOLEAN
  PROVE  LET s == [r EXCEPT !.active = FALSE, !.armed = y]
         IN  Same(r, s) /\ s.freeQ = r.freeQ /\ s.liveQ = r.liveQ /\ s.liveN = r.liveN /\ s.armed = y
  BY DEF GroupT, Same

LEMMA ActivateDoneStep == IndInv /\ ActivateDone => IndInv'
<1> SUFFICES ASSUME IndInv, ActivateDone PROVE IndInv'
  OBVIOUS
<1> DEFINE g == cur
           arms == grp[g].scene /\ grp[g].liveN = grp[g].start
<1>1. /\ pc = "activate" /\ left = 0 /\ kept' = (IF Started(g) THEN kept ELSE <<g>> \o kept)
      /\ pc' = "task" /\ cur' = 0 /\ ti' = ti + 1
      /\ UNCHANGED <<users, owner, queue, left, up, sims, ctls>>
  BY DEF ActivateDone
<1>2. \/ grp' = [grp EXCEPT ![g].active = FALSE, ![g].armed = @ \/ arms] /\ UNCHANGED fails
      \/ arms /\ Fails /\ grp' = [grp EXCEPT ![g].active = FALSE]
  BY DEF ActivateDone
<1>3. /\ g \in Group /\ grp[g].on /\ g \notin Range(tasks) \cup Range(kept) /\ ~grp[g].armed
      /\ grp[g].liveN + left <= Goal(grp[g])
  BY <1>1 DEF IndInv, LoopOK, Looping
<1>4. grp \in [Group -> GroupT] /\ grp[g] \in GroupT /\ grp[g].armed \in BOOLEAN
  BY <1>3 DEF IndInv, GroupsOK, GroupT
<1>5. PICK y \in BOOLEAN : grp' = [grp EXCEPT ![g] = [grp[g] EXCEPT !.active = FALSE, !.armed = y]] /\ (y => arms)
  <2>1. CASE grp' = [grp EXCEPT ![g].active = FALSE, ![g].armed = @ \/ arms]
    <3>1. grp' = [grp EXCEPT ![g] = [grp[g] EXCEPT !.active = FALSE, !.armed = arms]]
      BY <1>3, <1>4, <2>1
    <3> QED BY <3>1
  <2>2. CASE grp' = [grp EXCEPT ![g].active = FALSE]
    <3>1. [grp[g] EXCEPT !.active = FALSE] = [grp[g] EXCEPT !.active = FALSE, !.armed = FALSE]
      BY <1>3, <1>4 DEF GroupT
    <3>2. grp' = [grp EXCEPT ![g] = [grp[g] EXCEPT !.active = FALSE, !.armed = FALSE]]
      BY <2>2, <3>1
    <3> QED BY <3>2
  <2> QED BY <1>2, <2>1, <2>2
<1> DEFINE s == [grp[g] EXCEPT !.active = FALSE, !.armed = y]
<1>6. /\ Same(grp[g], s) /\ s.freeQ = grp[g].freeQ /\ s.liveQ = grp[g].liveQ /\ s.liveN = grp[g].liveN /\ s.armed = y
  <2> HIDE DEF g
  <2> QED BY <1>4, FlagFields
<1> HIDE DEF s, g
<1>7. /\ grp' \in [Group -> GroupT] /\ grp'[g] = s /\ \A h \in Group : h # g => grp'[h] = grp[h]
  BY <1>3, <1>4, <1>5, <1>6 DEF s, Same
<1>8. \A h \in Group : grp[h] \in GroupT /\ Same(grp[h], grp[h])
  BY <1>4 DEF Same
<1>9. GroupsOK' /\ Linked(grp, gps)'
  <2>1. \A h \in Group : /\ Same(grp[h], grp'[h]) /\ grp'[h].liveN <= grp'[h].n
                         /\ ~grp[h].on => grp'[h] = grp[h]
    <3> SUFFICES ASSUME NEW h \in Group
                 PROVE  /\ Same(grp[h], grp'[h]) /\ grp'[h].liveN <= grp'[h].n
                        /\ ~grp[h].on => grp'[h] = grp[h]
      OBVIOUS
    <3>1. grp[h].liveN <= grp[h].n
      BY GroupNumbers DEF IndInv
    <3> QED BY <1>3, <1>6, <1>7, <1>8, <3>1 DEF Same
  <2>2. UNCHANGED gps
    BY <1>1 DEF owner
  <2> QED BY <1>7, <2>1, <2>2, SameGroups DEF IndInv
<1>10. Sole(pool, grp)'
  <2>1. Own(grp'[g]) = Own(grp[g]) /\ (Once(grp[g]) => Once(grp'[g]))
    BY <1>6, <1>7 DEF Own, Once
  <2>2. Sole(pool, grp) /\ IsInjective(pool) /\ Once(grp[g]) /\ Range(pool) \cap Own(grp[g]) = {}
    BY <1>3 DEF IndInv, Sole
  <2>3. Sole(pool, grp')
    BY <1>3, <1>7, <2>1, <2>2, SwapSole
  <2> QED BY <1>1, <2>3 DEF users
<1>11. Started(g) \/ ~arms
  BY <1>3 DEF Started, Target
<1>12. TasksOK'
  <2>1. /\ tasks \in Seq(Group) /\ kept \in Seq(Group) /\ taskN \in 0 .. MaxSim /\ ti \in 0 .. MaxSim
        /\ Len(kept) \in Nat /\ Len(kept) <= ti /\ ti < taskN /\ taskN <= sims
        /\ IsInjective(tasks) /\ IsInjective(kept) /\ Range(tasks) \cap Range(kept) = {}
        /\ \A h \in Range(tasks) \cup Range(kept) : Due(grp[h])
    BY <1>1 DEF IndInv, TasksOK, Listed
  <2>2. UNCHANGED <<tasks, taskN, taskFlag, evTask>>
    BY <1>1 DEF queue
  <2>3. \A h \in Range(tasks) \cup Range(kept) : h \in Group
    BY <2>1, RangeIs
  <2>4. \A h \in Range(tasks) \cup Range(kept) : Due(grp'[h])
    BY <1>3, <1>7, <2>1, <2>3
  <2>5. ti' \in 0 .. MaxSim /\ ti' <= taskN /\ Len(kept) + 1 <= ti' /\ Len(kept) <= ti'
    BY <1>1, <2>1, UsersAssumption DEF UsersAssumption
  <2>6. /\ kept' \in Seq(Group) /\ Len(kept') <= ti' /\ IsInjective(kept') /\ Range(tasks) \cap Range(kept') = {}
        /\ \A h \in Range(tasks) \cup Range(kept') : Due(grp'[h])
    <3>1. CASE Started(g)
      BY <1>1, <2>1, <2>4, <2>5, <3>1
    <3>2. CASE ~Started(g)
      <4>1. kept' = <<g>> \o kept
        BY <1>1, <3>2 DEF g
      <4>2. /\ kept' \in Seq(Group) /\ Len(kept') = Len(kept) + 1 /\ Range(kept') = {g} \cup Range(kept)
            /\ IsInjective(kept')
        BY <1>3, <2>1, <4>1, ConsQ
      <4>3. Due(grp'[g])
        <5>1. ~y
          BY <1>5, <1>11, <3>2 DEF g
        <5>2. Goal(s) = Goal(grp[g]) /\ s.liveN = grp[g].liveN /\ grp[g].liveN \in Nat
          BY <1>3, <1>6, GroupNumbers DEF Goal, Same, IndInv
        <5>3. grp[g].liveN + 0 <= Goal(grp[g])
          BY <1>1, <1>3
        <5> QED BY <1>6, <1>7, <5>1, <5>2, <5>3 DEF Due
      <4> QED BY <1>3, <2>1, <2>4, <2>5, <4>2, <4>3
    <3> QED BY <3>1, <3>2
  <2>7. Listed'
    BY <1>1, <2>1, <2>2, <2>5, <2>6 DEF Listed
  <2> QED BY <2>1, <2>2, <2>5, <2>6, <2>7 DEF IndInv, TasksOK
<1>13. LoopOK'
  <2>1. 0 \in 0 .. NGroup
    BY UsersAssumption DEF UsersAssumption
  <2> QED BY <1>1, <2>1 DEF IndInv, LoopOK, Looping
<1>14. BudgetOK'
  BY <1>1, <1>2, UsersAssumption DEF IndInv, BudgetOK, Fails, UsersAssumption
<1>15. UsersOK' /\ OwnersOK'
  BY <1>1, UsersFrame, OwnersFrame DEF IndInv
<1> QED BY <1>9, <1>10, <1>12, <1>13, <1>14, <1>15 DEF IndInv

\* One user that is not in the pool changes.
LEMMA UserStep ==
  ASSUME UsersOK, NEW u \in User, u \notin Range(pool), NEW w \in UserT,
         w.timer => w.enable, w.enable => w.grp \in Group,
         usr' = [usr EXCEPT ![u] = w], UNCHANGED <<pool, freeN>>
  PROVE  UsersOK'
<1>1. usr' \in [User -> UserT] /\ usr'[u] = w /\ \A x \in User : x # u => usr'[x] = usr[x]
  BY DEF UsersOK
<1>2. Pointed(usr')
  BY <1>1 DEF UsersOK, Pointed
<1>3. Stopped(pool, usr')
  <2>1. \A x \in Range(pool) : x \in User
    BY RangeIs DEF UsersOK
  <2> QED BY <1>1, <2>1 DEF UsersOK, Stopped
<1> QED BY <1>1, <1>2, <1>3 DEF UsersOK

\* One turn of a loop moves a user within the group cur.
LEMMA LoopMove ==
  ASSUME IndInv, pc \in {"activate", "add", "drop"}, left > 0,
         NEW s, Same(grp[cur], s), s.armed = grp[cur].armed, Once(s), Own(s) = Own(grp[cur]),
         \/ s.liveN = grp[cur].liveN
         \/ pc # "drop" /\ s.liveN = grp[cur].liveN + 1
         \/ pc = "drop" /\ s.liveN = grp[cur].liveN - 1,
         grp' = [grp EXCEPT ![cur] = s], left' = left - 1,
         UNCHANGED <<pool, freeN, owner, queue, pc, cur, ti, kept, sims>>
  PROVE  GroupsOK' /\ Linked(grp, gps)' /\ Sole(pool, grp)' /\ OwnersOK' /\ TasksOK' /\ LoopOK'
<1> DEFINE g == cur
<1>1. g \in Group /\ grp[g].on
  BY DEF IndInv, LoopOK, Looping
<1>2. grp \in [Group -> GroupT]
  BY DEF IndInv, GroupsOK
<1> HIDE DEF g
<1>3. /\ grp' \in [Group -> GroupT] /\ grp'[g] = s /\ \A h \in Group : h # g => grp'[h] = grp[h]
  BY <1>1, <1>2 DEF Same, g
<1>4. \A h \in Group : grp[h] \in GroupT /\ Same(grp[h], grp[h])
  BY <1>2 DEF Same
<1>5. /\ grp[g].liveN \in 0 .. UserN /\ grp[g].n \in 0 .. UserN /\ Goal(grp[g]) <= grp[g].n
      /\ Goal(grp[g]) \in 0 .. UserN /\ grp[g].liveN <= grp[g].n /\ UserN \in Nat /\ left \in 0 .. UserN
  BY <1>1, GroupNumbers, UsersAssumption DEF IndInv, UsersAssumption, LoopOK
<1>6. /\ s.n = grp[g].n /\ Goal(s) = Goal(grp[g]) /\ s.on = grp[g].on /\ Same(grp[g], s)
      /\ s.armed = grp[g].armed /\ s.liveN \in Int
  BY <1>5 DEF Same, Goal, g
<1>7. /\ pc = "activate" => grp[g].liveN + left <= Goal(grp[g]) /\ ~grp[g].armed
                            /\ g \notin Range(tasks) \cup Range(kept)
      /\ pc = "add"  => grp[g].armed /\ grp[g].liveN + left <= grp[g].n
      /\ pc = "drop" => grp[g].armed /\ left <= grp[g].liveN
  BY DEF IndInv, LoopOK, Looping, g
<1>8. /\ pc = "activate" => s.liveN + left' <= Goal(s)
      /\ pc = "add"  => s.liveN + left' <= s.n
      /\ pc = "drop" => left' <= s.liveN
      /\ s.liveN <= s.n /\ left' \in 0 .. UserN
  <2>1. \/ s.liveN = grp[g].liveN
        \/ pc # "drop" /\ s.liveN = grp[g].liveN + 1
        \/ pc = "drop" /\ s.liveN = grp[g].liveN - 1
    BY DEF g
  <2>2. left' = left - 1 /\ left > 0
    OBVIOUS
  <2>3. CASE pc = "activate"
    BY <1>5, <1>6, <1>7, <2>1, <2>2, <2>3
  <2>4. CASE pc = "add"
    BY <1>5, <1>6, <1>7, <2>1, <2>2, <2>4
  <2>5. CASE pc = "drop"
    BY <1>5, <1>6, <1>7, <2>1, <2>2, <2>5
  <2> QED BY <2>3, <2>4, <2>5
<1>9. GroupsOK' /\ Linked(grp, gps)'
  <2>1. \A h \in Group : /\ Same(grp[h], grp'[h]) /\ grp'[h].liveN <= grp'[h].n
                         /\ ~grp[h].on => grp'[h] = grp[h]
    <3> SUFFICES ASSUME NEW h \in Group
                 PROVE  /\ Same(grp[h], grp'[h]) /\ grp'[h].liveN <= grp'[h].n
                        /\ ~grp[h].on => grp'[h] = grp[h]
      OBVIOUS
    <3>1. grp[h].liveN <= grp[h].n
      BY GroupNumbers DEF IndInv
    <3>2. CASE h = g
      BY <1>1, <1>3, <1>6, <1>8, <3>2
    <3>3. CASE h # g
      BY <1>3, <1>4, <3>1, <3>3
    <3> QED BY <3>2, <3>3
  <2>2. UNCHANGED gps
    BY DEF owner
  <2> QED BY <1>3, <2>1, <2>2, SameGroups DEF IndInv
<1>10. Sole(pool, grp)'
  <2>1. Own(grp'[g]) = Own(grp[g]) /\ Once(grp'[g])
    BY <1>3 DEF g
  <2>2. Sole(pool, grp) /\ IsInjective(pool) /\ Range(pool) \cap Own(grp[g]) = {}
    BY <1>1 DEF IndInv, Sole
  <2>3. /\ Range(pool) \cap Own(grp'[g]) = {}
        /\ Range(pool) \cup Own(grp'[g]) = Range(pool) \cup Own(grp[g])
    BY <2>1, <2>2
  <2> DEFINE G == grp'
  <2>4. /\ \A h \in Group : h # g => G[h] = grp[h]
        /\ Once(G[g]) /\ Range(pool) \cap Own(G[g]) = {}
        /\ Range(pool) \cup Own(G[g]) = Range(pool) \cup Own(grp[g])
    BY <1>3, <2>1, <2>3
  <2> HIDE DEF G
  <2>5. Sole(pool, G)
    BY <1>1, <2>2, <2>4, SwapSole
  <2> QED BY <2>5 DEF G
<1>11. TasksOK'
  <2>1. UNCHANGED <<tasks, taskN, taskFlag, evTask>>
    BY DEF queue
  <2>2. tasks \in Seq(Group) /\ kept \in Seq(Group) /\ \A h \in Range(tasks) \cup Range(kept) : Due(grp[h])
    BY DEF IndInv, TasksOK, Listed
  <2>3. \A h \in Range(tasks) \cup Range(kept) : h \in Group
    BY <2>2, RangeIs
  <2>4. \A h \in Range(tasks) \cup Range(kept) : h # g
    BY <1>1, <1>7, <2>2 DEF Due
  <2>5. \A h \in Range(tasks) \cup Range(kept) : Due(grp'[h])
    BY <1>3, <2>2, <2>3, <2>4
  <2>6. Listed'
    BY <2>1, <2>5 DEF IndInv, TasksOK, Listed
  <2> QED BY <2>1, <2>6 DEF IndInv, TasksOK
<1>12. LoopOK'
  <2>1. tasks' = tasks
    BY DEF queue
  <2>2. cur' = g /\ cur = g
    BY DEF g
  <2>3. Looping'
    BY <1>1, <1>3, <1>6, <1>7, <1>8, <2>1, <2>2 DEF Looping
  <2> QED BY <1>8, <2>3 DEF IndInv, LoopOK
<1>13. OwnersOK'
  BY OwnersFrame DEF IndInv
<1> QED BY <1>9, <1>10, <1>11, <1>12, <1>13

LEMMA EnableStep ==
  ASSUME IndInv, pc \in {"activate", "add"}, left > 0, EnableUser(cur), UNCHANGED <<sims, ctls>>
  PROVE  IndInv'
<1> DEFINE g == cur
           r == grp[g]
           u == Head(r.freeQ)
           v == IF usr[u].enable THEN usr[u] ELSE [usr[u] EXCEPT !.grp = g]
<1>1. CASE Break
  <2>1. sims' \in 0 .. MaxSim /\ sims <= sims'
    BY DEF IndInv, BudgetOK
  <2> QED BY <1>1, <2>1, BreakStep
<1>2. CASE ~Break
  <2>1. /\ r.freeQ # <<>> /\ left' = left - 1
        /\ UNCHANGED <<pool, freeN, owner, queue, pc, cur, ti, kept, up>>
    BY <1>2 DEF EnableUser
  <2>2. \/ /\ usr' = [usr EXCEPT ![u] = [v EXCEPT !.enable = TRUE, !.timer = TRUE, !.live = TRUE]]
           /\ grp' = [grp EXCEPT ![g].freeQ = Tail(@), ![g].liveQ = <<u>> \o @, ![g].liveN = @ + 1]
           /\ UNCHANGED fails
        \/ /\ Fails
           /\ \E e \in {v.enable, TRUE} : usr' = [usr EXCEPT ![u] = [v EXCEPT !.enable = e]]
           /\ grp' = [grp EXCEPT ![g].freeQ = Append(Tail(@), u)]
    BY <1>2 DEF EnableUser
  <2>3. g \in Group /\ r.on
    BY DEF IndInv, LoopOK, Looping
  <2>4. grp \in [Group -> GroupT] /\ r \in GroupT /\ r.freeQ \in Seq(User) /\ r.liveQ \in Seq(User)
    BY <2>3 DEF IndInv, GroupsOK, GroupT
  <2>5. IsInjective(r.freeQ) /\ IsInjective(r.liveQ) /\ Range(r.freeQ) \cap Range(r.liveQ) = {}
        /\ Range(pool) \cap Own(r) = {}
    BY <2>3 DEF IndInv, Sole, Once
  <2>6. /\ u \in Range(r.freeQ) /\ u \in User /\ Tail(r.freeQ) \in Seq(User)
        /\ Range(Tail(r.freeQ)) = Range(r.freeQ) \ {u} /\ IsInjective(Tail(r.freeQ))
    BY <2>1, <2>4, <2>5, TailQ
  <2>7. u \notin Range(pool)
    BY <2>5, <2>6 DEF Own
  <2>8. usr[u] \in UserT /\ (usr[u].timer => usr[u].enable) /\ (usr[u].enable => usr[u].grp \in Group)
    BY <2>6 DEF IndInv, UsersOK, Pointed
  <2>9. v \in UserT /\ v.grp \in Group /\ (v.timer => v.enable)
    <3>1. g \in 0 .. NGroup
      BY <2>3, GroupNumbers DEF IndInv
    <3> HIDE DEF u, g
    <3> QED BY <2>3, <2>8, <3>1 DEF UserT
  <2>10. UsersOK' /\ fails' \in 0 .. MaxFail
    <3>0. fails \in 0 .. MaxFail /\ MaxFail \in Nat
      BY UsersAssumption DEF IndInv, BudgetOK, UsersAssumption
    <3> HIDE DEF v, u
    <3>1. \A e \in BOOLEAN : LET w == [v EXCEPT !.enable = e]
                             IN  w \in UserT /\ w.grp = v.grp /\ w.timer = v.timer /\ w.enable = e
      BY <2>9 DEF UserT
    <3>2. LET w == [v EXCEPT !.enable = TRUE, !.timer = TRUE, !.live = TRUE]
          IN  w \in UserT /\ w.grp = v.grp /\ w.enable = TRUE
      BY <2>9 DEF UserT
    <3>3. PICK w \in UserT : usr' = [usr EXCEPT ![u] = w] /\ w.grp \in Group /\ (w.timer => w.enable)
      <4>1. v.enable \in BOOLEAN
        BY <2>9 DEF UserT
      <4>2. CASE usr' = [usr EXCEPT ![u] = [v EXCEPT !.enable = TRUE, !.timer = TRUE, !.live = TRUE]]
        BY <2>9, <3>2, <4>2
      <4>3. CASE usr' = [usr EXCEPT ![u] = [v EXCEPT !.enable = v.enable]]
        BY <2>9, <3>1, <4>1, <4>3
      <4>4. CASE usr' = [usr EXCEPT ![u] = [v EXCEPT !.enable = TRUE]]
        BY <2>9, <3>1, <4>4
      <4> QED BY <2>2, <4>2, <4>3, <4>4
    <3>4. UsersOK'
      BY <2>1, <2>6, <2>7, <3>3, UserStep DEF IndInv
    <3>5. fails' \in 0 .. MaxFail
      BY <2>2, <3>0 DEF Fails
    <3> QED BY <3>4, <3>5
  <2>11. \E s : /\ Same(r, s) /\ s.armed = r.armed /\ Once(s) /\ Own(s) = Own(r)
                /\ (s.liveN = r.liveN \/ s.liveN = r.liveN + 1)
                /\ grp' = [grp EXCEPT ![g] = s]
    <3>1. CASE grp' = [grp EXCEPT ![g].freeQ = Tail(@), ![g].liveQ = <<u>> \o @, ![g].liveN = @ + 1]
      <4> DEFINE a == Tail(r.freeQ)
                 b == <<u>> \o r.liveQ
                 m == r.liveN + 1
                 s == [r EXCEPT !.freeQ = a, !.liveQ = b, !.liveN = m]
      <4>1. b \in Seq(User) /\ Range(b) = {u} \cup Range(r.liveQ) /\ IsInjective(b)
        <5>1. u \notin Range(r.liveQ)
          BY <2>5, <2>6
        <5> HIDE DEF u, r
        <5> QED BY <2>4, <2>5, <2>6, <5>1, ConsQ
      <4>2. m \in 0 .. UserN
        <5>1. /\ r.liveN \in 0 .. UserN /\ r.n \in 0 .. UserN /\ Goal(r) <= r.n /\ Goal(r) \in 0 .. UserN
              /\ UserN \in Nat /\ left \in 0 .. UserN
          BY <2>3, GroupNumbers, UsersAssumption DEF IndInv, UsersAssumption, LoopOK
        <5>2. r.liveN + left <= Goal(r) \/ r.liveN + left <= r.n
          BY DEF IndInv, LoopOK, Looping
        <5> QED BY <5>1, <5>2
      <4>3. a \in Seq(User) /\ Range(a) = Range(r.freeQ) \ {u} /\ IsInjective(a)
        BY <2>6
      <4>4. grp' = [grp EXCEPT ![g] = s]
        BY <2>3, <2>4, <3>1
      <4> HIDE DEF a, b, m, u, g, r
      <4>5. Same(r, s) /\ s.freeQ = a /\ s.liveQ = b /\ s.liveN = m /\ s.armed = r.armed
        BY <2>4, <4>1, <4>2, <4>3 DEF GroupT, Same
      <4> HIDE DEF s
      <4>6. Once(s) /\ Own(s) = Own(r)
        BY <2>5, <2>6, <4>1, <4>3, <4>5 DEF Once, Own
      <4> QED BY <4>4, <4>5, <4>6 DEF m
    <3>2. CASE grp' = [grp EXCEPT ![g].freeQ = Append(Tail(@), u)]
      <4> DEFINE a == Append(Tail(r.freeQ), u)
                 s == [r EXCEPT !.freeQ = a, !.liveQ = r.liveQ, !.liveN = r.liveN]
      <4>1. a \in Seq(User) /\ Range(a) = {u} \cup Range(Tail(r.freeQ)) /\ IsInjective(a)
        <5> HIDE DEF u, r
        <5> QED BY <2>6, AppendQ, ZenonT(60)
      <4>2. r.liveN \in 0 .. UserN
        BY <2>4 DEF GroupT
      <4>3. s = [r EXCEPT !.freeQ = a]
        <5> HIDE DEF a, r
        <5> QED BY <2>4 DEF GroupT
      <4>4. grp' = [grp EXCEPT ![g] = s]
        <5>1. grp' = [grp EXCEPT ![g] = [r EXCEPT !.freeQ = a]]
          BY <2>3, <2>4, <3>2
        <5> QED BY <4>3, <5>1
      <4> HIDE DEF a, u, g, r
      <4>5. Same(r, s) /\ s.freeQ = a /\ s.liveQ = r.liveQ /\ s.liveN = r.liveN /\ s.armed = r.armed
        BY <2>4, <4>1, <4>2 DEF GroupT, Same
      <4> HIDE DEF s
      <4>6. Once(s) /\ Own(s) = Own(r)
        BY <2>5, <2>6, <4>1, <4>5 DEF Once, Own
      <4> QED BY <4>4, <4>5, <4>6
    <3> QED BY <2>2, <3>1, <3>2
  <2>12. GroupsOK' /\ Linked(grp, gps)' /\ Sole(pool, grp)' /\ OwnersOK' /\ TasksOK' /\ LoopOK'
    <3>1. PICK s : /\ Same(r, s) /\ s.armed = r.armed /\ Once(s) /\ Own(s) = Own(r)
                   /\ (s.liveN = r.liveN \/ s.liveN = r.liveN + 1)
                   /\ grp' = [grp EXCEPT ![g] = s]
      BY <2>11
    <3>2. UNCHANGED <<pool, freeN, owner, queue, pc, cur, ti, kept, sims>>
      BY <2>1
    <3>3. \/ s.liveN = grp[cur].liveN
          \/ pc # "drop" /\ s.liveN = grp[cur].liveN + 1
          \/ pc = "drop" /\ s.liveN = grp[cur].liveN - 1
      BY <3>1
    <3>4. pc \in {"activate", "add", "drop"}
      OBVIOUS
    <3> QED BY <2>1, <3>1, <3>2, <3>3, <3>4, LoopMove
  <2>13. BudgetOK'
    BY <2>1, <2>10 DEF IndInv, BudgetOK
  <2> QED BY <2>10, <2>12, <2>13 DEF IndInv
<1> QED BY <1>1, <1>2

LEMMA ActivateStep == IndInv /\ (Activate \/ ControlAdd) => IndInv'
  BY EnableStep DEF Activate, ControlAdd

LEMMA ControlDropStep == IndInv /\ ControlDrop => IndInv'
<1> SUFFICES ASSUME IndInv, ControlDrop PROVE IndInv'
  OBVIOUS
<1> DEFINE g == cur
           r == grp[g]
           u == Last(r.liveQ)
           a == Append(r.freeQ, u)
           b == Front(r.liveQ)
           m == r.liveN - 1
           s == [r EXCEPT !.freeQ = a, !.liveQ = b, !.liveN = m]
<1>0. pc = "drop" /\ left > 0 /\ UNCHANGED <<sims, ctls>>
  BY DEF ControlDrop
<1>1. CASE Break
  <2>1. sims' \in 0 .. MaxSim /\ sims <= sims'
    BY <1>0 DEF IndInv, BudgetOK
  <2> QED BY <1>0, <1>1, <2>1, BreakStep
<1>2. CASE r.liveQ # <<>>
  <2>1. /\ usr' = [usr EXCEPT ![u].live = FALSE]
        /\ grp' = [grp EXCEPT ![g].liveQ = b, ![g].freeQ = a, ![g].liveN = m]
        /\ left' = left - 1 /\ UNCHANGED <<pool, freeN, owner, queue, pc, cur, ti, kept, up, fails>>
    BY <1>2 DEF ControlDrop
  <2>2. g \in Group /\ r.on /\ left <= r.liveN
    BY <1>0 DEF IndInv, LoopOK, Looping
  <2>3. grp \in [Group -> GroupT] /\ r \in GroupT /\ r.freeQ \in Seq(User) /\ r.liveQ \in Seq(User)
    BY <2>2 DEF IndInv, GroupsOK, GroupT
  <2>4. IsInjective(r.freeQ) /\ IsInjective(r.liveQ) /\ Range(r.freeQ) \cap Range(r.liveQ) = {}
        /\ Range(pool) \cap Own(r) = {}
    BY <2>2 DEF IndInv, Sole, Once
  <2>5. /\ u \in Range(r.liveQ) /\ u \in User /\ b \in Seq(User)
        /\ Range(b) = Range(r.liveQ) \ {u} /\ IsInjective(b)
    BY <1>2, <2>3, <2>4, FrontQ
  <2>6. u \notin Range(pool) /\ u \notin Range(r.freeQ)
    BY <2>4, <2>5 DEF Own
  <2>7. a \in Seq(User) /\ Range(a) = {u} \cup Range(r.freeQ) /\ IsInjective(a)
    <3> HIDE DEF u, r
    <3> QED BY <2>3, <2>4, <2>5, <2>6, AppendQ
  <2>8. m \in 0 .. UserN /\ m = r.liveN - 1
    <3>1. r.liveN \in 0 .. UserN /\ UserN \in Nat /\ left \in 0 .. UserN
      BY <2>2, GroupNumbers, UsersAssumption DEF IndInv, UsersAssumption, LoopOK
    <3> QED BY <1>0, <2>2, <3>1
  <2>9. grp' = [grp EXCEPT ![g] = s]
    <3>1. [[r EXCEPT !.liveQ = b] EXCEPT !.freeQ = a] = [[r EXCEPT !.freeQ = a] EXCEPT !.liveQ = b]
      <4> HIDE DEF a, b, r
      <4> QED BY <2>3 DEF GroupT
    <3>2. grp' = [grp EXCEPT ![g] = [[[r EXCEPT !.liveQ = b] EXCEPT !.freeQ = a] EXCEPT !.liveN = m]]
      BY <2>1, <2>2, <2>3
    <3> QED BY <3>1, <3>2
  <2>10. UsersOK'
    <3>1. usr \in [User -> UserT] /\ usr[u] \in UserT /\ (usr[u].timer => usr[u].enable)
          /\ (usr[u].enable => usr[u].grp \in Group)
      BY <2>5 DEF IndInv, UsersOK, Pointed
    <3> DEFINE w == [usr[u] EXCEPT !.live = FALSE]
    <3>2. w \in UserT /\ w.timer = usr[u].timer /\ w.enable = usr[u].enable /\ w.grp = usr[u].grp
      <4> HIDE DEF u
      <4> QED BY <3>1 DEF UserT
    <3>3. usr' = [usr EXCEPT ![u] = w]
      BY <2>1
    <3> HIDE DEF w, u
    <3> QED BY <2>1, <2>5, <2>6, <3>1, <3>2, <3>3, UserStep DEF IndInv
  <2> HIDE DEF a, b, m, u
  <2>11. Same(r, s) /\ s.freeQ = a /\ s.liveQ = b /\ s.liveN = m /\ s.armed = r.armed
    <3> HIDE DEF g, r
    <3> QED BY <2>3, <2>5, <2>7, <2>8 DEF GroupT, Same
  <2> HIDE DEF s
  <2>12. Once(s) /\ Own(s) = Own(r)
    BY <2>4, <2>5, <2>7, <2>11 DEF Once, Own
  <2>13. GroupsOK' /\ Linked(grp, gps)' /\ Sole(pool, grp)' /\ OwnersOK' /\ TasksOK' /\ LoopOK'
    <3>1. UNCHANGED <<pool, freeN, owner, queue, pc, cur, ti, kept, sims>>
      BY <1>0, <2>1
    <3>2. \/ s.liveN = grp[cur].liveN
          \/ pc # "drop" /\ s.liveN = grp[cur].liveN + 1
          \/ pc = "drop" /\ s.liveN = grp[cur].liveN - 1
      BY <1>0, <2>8, <2>11
    <3>3. pc \in {"activate", "add", "drop"}
      BY <1>0
    <3> QED BY <1>0, <2>1, <2>9, <2>11, <2>12, <3>1, <3>2, <3>3, LoopMove
  <2>14. BudgetOK'
    BY <1>0, <2>1 DEF IndInv, BudgetOK
  <2> QED BY <2>10, <2>13, <2>14 DEF IndInv
<1> QED BY <1>1, <1>2 DEF ControlDrop

LEMMA RespawnStep == IndInv /\ Respawn => IndInv'
<1> SUFFICES ASSUME IndInv, Respawn PROVE IndInv'
  OBVIOUS
<1>1. Fresh'
  BY DEF Respawn, Fresh
<1>2. BudgetOK'
  BY DEF Respawn, IndInv, BudgetOK, budget
<1> QED BY <1>1, <1>2, FreshInv, PTL

\* A step of an idle process that changes users and queues of groups only.
LEMMA IdleStep ==
  ASSUME IndInv, pc = "idle", UsersOK', Sole(pool, grp)', grp' \in [Group -> GroupT],
         \A h \in Group : /\ Same(grp[h], grp'[h]) /\ grp'[h].liveN = grp[h].liveN
                          /\ grp'[h].armed = grp[h].armed
                          /\ ~grp[h].on => grp'[h] = grp[h],
         UNCHANGED <<owner, queue, loop, sims>>, BudgetOK'
  PROVE  IndInv'
<1>1. GroupsOK' /\ Linked(grp, gps)'
  <2>1. \A h \in Group : /\ Same(grp[h], grp'[h]) /\ grp'[h].liveN <= grp'[h].n
                         /\ ~grp[h].on => grp'[h] = grp[h]
    <3> SUFFICES ASSUME NEW h \in Group PROVE grp'[h].liveN <= grp'[h].n
      OBVIOUS
    <3>1. grp[h].liveN <= grp[h].n
      BY GroupNumbers DEF IndInv
    <3> QED BY <3>1 DEF Same
  <2>2. UNCHANGED gps
    BY DEF owner
  <2> QED BY <2>1, <2>2, SameGroups DEF IndInv
<1>2. TasksOK'
  <2>1. UNCHANGED <<tasks, taskN, taskFlag, evTask, pc, ti, kept>>
    BY DEF queue, loop
  <2>2. tasks \in Seq(Group) /\ kept \in Seq(Group) /\ \A h \in Range(tasks) \cup Range(kept) : Due(grp[h])
    BY DEF IndInv, TasksOK, Listed
  <2>3. \A h \in Range(tasks) \cup Range(kept) : h \in Group
    BY <2>2, RangeIs
  <2>4. \A h \in Range(tasks) \cup Range(kept) : Due(grp'[h])
    BY <2>2, <2>3 DEF Due, Same, Goal
  <2>5. Listed'
    BY <2>1, <2>4 DEF IndInv, TasksOK, Listed
  <2> QED BY <2>1, <2>5 DEF IndInv, TasksOK
<1>3. LoopOK'
  <2>1. UNCHANGED <<pc, cur, left>>
    BY DEF loop
  <2> QED BY <2>1 DEF IndInv, LoopOK, Looping
<1>4. OwnersOK'
  BY OwnersFrame DEF IndInv
<1> QED BY <1>1, <1>2, <1>3, <1>4 DEF IndInv

LEMMA TimeoutStep ==
  ASSUME IndInv, NEW u \in User, Timeout(u) PROVE IndInv'
<1> DEFINE g == usr[u].grp
<1>0. pc = "idle" /\ usr[u].timer /\ UNCHANGED <<sims, ctls>>
  BY DEF Timeout, Idle
<1>1. CASE Break
  <2>1. sims' \in 0 .. MaxSim /\ sims <= sims'
    BY <1>0 DEF IndInv, BudgetOK
  <2> QED BY <1>0, <1>1, <2>1, BreakStep
<1>2. CASE ~Break
  <2>1. UNCHANGED <<pool, freeN, owner, queue, loop, up>>
    BY <1>2 DEF Timeout
  <2>2. \/ (\E more \in BOOLEAN : Rearm(u, more)) /\ UNCHANGED grp
        \/ /\ grp[g].scene /\ usr' = [usr EXCEPT ![u].timer = FALSE] /\ UNCHANGED fails
           /\ grp' = [h \in Group |->
                [grp[h] EXCEPT !.liveQ = RemoveFirst(@, u),
                               !.freeQ = IF h = g THEN Append(RemoveFirst(@, u), u)
                                                  ELSE RemoveFirst(@, u)]]
    BY <1>2 DEF Timeout
  <2>3. /\ usr \in [User -> UserT] /\ usr[u] \in UserT /\ (usr[u].timer => usr[u].enable)
        /\ (usr[u].enable => usr[u].grp \in Group)
    BY DEF IndInv, UsersOK, Pointed
  <2>4. u \notin Range(pool)
    BY <1>0 DEF IndInv, UsersOK, Stopped
  <2>5. UsersOK' /\ fails' \in 0 .. MaxFail
    <3>1. PICK x \in BOOLEAN, y \in BOOLEAN :
            usr' = [usr EXCEPT ![u] = [usr[u] EXCEPT !.live = x, !.timer = y]]
      <4>0. usr[u].live \in BOOLEAN /\ usr[u].timer \in BOOLEAN
        BY <2>3 DEF UserT
      <4>1. ASSUME NEW x \in BOOLEAN
            PROVE  [usr[u] EXCEPT !.live = x] = [usr[u] EXCEPT !.live = x, !.timer = usr[u].timer]
        BY <2>3 DEF UserT
      <4>2. [usr[u] EXCEPT !.timer = FALSE] = [usr[u] EXCEPT !.live = usr[u].live, !.timer = FALSE]
        BY <2>3 DEF UserT
      <4>3. ASSUME NEW x \in BOOLEAN, usr' = [usr EXCEPT ![u].live = x]
            PROVE  usr' = [usr EXCEPT ![u] = [usr[u] EXCEPT !.live = x, !.timer = usr[u].timer]]
        BY <4>1, <4>3
      <4>4. ASSUME NEW x \in BOOLEAN, usr' = [usr EXCEPT ![u].live = x, ![u].timer = FALSE]
            PROVE  usr' = [usr EXCEPT ![u] = [usr[u] EXCEPT !.live = x, !.timer = FALSE]]
        BY <2>3, <4>4
      <4>5. ASSUME usr' = [usr EXCEPT ![u].timer = FALSE]
            PROVE  usr' = [usr EXCEPT ![u] = [usr[u] EXCEPT !.live = usr[u].live, !.timer = FALSE]]
        BY <4>2, <4>5
      <4>6. \/ \E x \in BOOLEAN : \/ usr' = [usr EXCEPT ![u].live = x]
                                  \/ usr' = [usr EXCEPT ![u].live = x, ![u].timer = FALSE]
            \/ usr' = [usr EXCEPT ![u].timer = FALSE]
        BY <2>2 DEF Rearm
      <4> QED BY <4>0, <4>3, <4>4, <4>5, <4>6
    <3> DEFINE w == [usr[u] EXCEPT !.live = x, !.timer = y]
    <3>2. w \in UserT /\ w.enable = usr[u].enable /\ w.grp = usr[u].grp
      BY <2>3, <3>1 DEF UserT
    <3>3. w.enable /\ w.grp \in Group
      BY <1>0, <2>3, <3>2
    <3> HIDE DEF w
    <3>4. UsersOK'
      BY <2>1, <2>4, <3>1, <3>2, <3>3, UserStep DEF IndInv, w
    <3>5. fails \in 0 .. MaxFail /\ MaxFail \in Nat
      BY UsersAssumption DEF IndInv, BudgetOK, UsersAssumption
    <3>6. fails' = fails \/ Fails
      BY <2>2 DEF Rearm
    <3>7. fails' \in 0 .. MaxFail
      BY <3>5, <3>6 DEF Fails
    <3> QED BY <3>4, <3>7
  <2>6. BudgetOK'
    BY <1>0, <2>1, <2>5 DEF IndInv, BudgetOK
  <2>7. grp \in [Group -> GroupT] /\ \A h \in Group : grp[h] \in GroupT /\ Same(grp[h], grp[h])
    BY DEF IndInv, GroupsOK, Same
  <2>8. CASE UNCHANGED grp
    <3>1. Sole(pool, grp)'
      BY <2>1, <2>8 DEF IndInv, Sole
    <3> QED BY <1>0, <2>1, <2>5, <2>6, <2>7, <2>8, <3>1, IdleStep
  <2>9. CASE /\ grp[g].scene
             /\ grp' = [h \in Group |->
                  [grp[h] EXCEPT !.liveQ = RemoveFirst(@, u),
                                 !.freeQ = IF h = g THEN Append(RemoveFirst(@, u), u)
                                                    ELSE RemoveFirst(@, u)]]
    <3>0. g \in Group
      BY <1>0, <2>3
    <3> HIDE DEF g
    <3>1. ASSUME NEW h \in Group
          PROVE  /\ Same(grp[h], grp'[h]) /\ grp'[h].liveN = grp[h].liveN /\ grp'[h].armed = grp[h].armed
                 /\ ~grp[h].on => grp'[h] = grp[h]
                 /\ Once(grp'[h])
                 /\ Own(grp'[h]) = IF h = g THEN Own(grp[h]) \cup {u} ELSE Own(grp[h]) \ {u}
      <4> DEFINE r == grp[h]
                 b == RemoveFirst(r.liveQ, u)
                 c == RemoveFirst(r.freeQ, u)
                 a == IF h = g THEN Append(c, u) ELSE c
                 s == [r EXCEPT !.liveQ = b, !.freeQ = a]
      <4>1. grp'[h] = s
        BY <2>9
      <4>2. r \in GroupT /\ r.freeQ \in Seq(User) /\ r.liveQ \in Seq(User)
        BY <2>7 DEF GroupT
      <4>3. IsInjective(r.freeQ) /\ IsInjective(r.liveQ) /\ Range(r.freeQ) \cap Range(r.liveQ) = {}
        BY DEF IndInv, Sole, Once
      <4>4. b \in Seq(User) /\ IsInjective(b) /\ Range(b) = Range(r.liveQ) \ {u}
        BY <4>2, <4>3, UnlinkQ
      <4>5. c \in Seq(User) /\ IsInjective(c) /\ Range(c) = Range(r.freeQ) \ {u}
        BY <4>2, <4>3, UnlinkQ
      <4>6. /\ a \in Seq(User) /\ IsInjective(a)
            /\ Range(a) = IF h = g THEN {u} \cup Range(c) ELSE Range(c)
        <5> HIDE DEF c
        <5>1. u \notin Range(c)
          BY <4>5
        <5>2. Append(c, u) \in Seq(User) /\ IsInjective(Append(c, u)) /\ Range(Append(c, u)) = {u} \cup Range(c)
          BY <4>5, <5>1, AppendQ
        <5> QED BY <4>5, <5>2
      <4>7. r.on \/ (h # g /\ r = NoGroup /\ b = <<>> /\ a = <<>> /\ r.freeQ = <<>> /\ r.liveQ = <<>>)
        <5>1. ASSUME ~r.on PROVE h # g /\ r = NoGroup /\ b = <<>> /\ a = <<>> /\ r.freeQ = <<>> /\ r.liveQ = <<>>
          <6>1. r = NoGroup
            BY <5>1 DEF IndInv, GroupsOK, Plain
          <6>2. r.scene = FALSE /\ r.freeQ = <<>> /\ r.liveQ = <<>>
            BY <6>1 DEF NoGroup
          <6>3. RemoveFirst(<<>>, u) = <<>>
            BY DEF RemoveFirst
          <6> QED BY <2>9, <6>1, <6>2, <6>3
        <5> QED BY <5>1
      <4> HIDE DEF a, b, c, r
      <4>8. /\ Same(r, s) /\ s.freeQ = a /\ s.liveQ = b /\ s.liveN = r.liveN /\ s.armed = r.armed
        BY <4>2, <4>4, <4>6 DEF GroupT, Same
      <4>9. ~r.on => s = r
        <5>1. ASSUME b = r.liveQ, a = r.freeQ PROVE s = r
          BY <4>2, <5>1 DEF GroupT
        <5> QED BY <4>7, <5>1
      <4> HIDE DEF s
      <4>10. Once(s)
        BY <4>3, <4>4, <4>5, <4>6, <4>8 DEF Once
      <4>11. Own(s) = IF h = g THEN Own(r) \cup {u} ELSE Own(r) \ {u}
        BY <4>4, <4>5, <4>6, <4>8 DEF Own
      <4> QED BY <4>1, <4>8, <4>9, <4>10, <4>11 DEF r
    <3>2. grp' \in [Group -> GroupT]
      <4>1. grp' = [h \in Group |-> grp'[h]]
        BY <2>9
      <4> QED BY <3>1, <4>1 DEF Same
    <3>3. Sole(pool, grp)'
      <4> DEFINE G == grp'
      <4>1. /\ \A h \in Group : Once(G[h]) /\ Own(G[g]) = Own(grp[g]) \cup {u}
            /\ \A h \in Group : h # g => Own(G[h]) = Own(grp[h]) \ {u}
        BY <3>0, <3>1
      <4> HIDE DEF G
      <4>2. Sole(pool, G)
        BY <2>4, <3>0, <4>1, HopSole DEF IndInv
      <4> QED BY <2>1, <4>2 DEF G
    <3> QED BY <1>0, <2>1, <2>5, <2>6, <3>1, <3>2, <3>3, IdleStep
  <2> QED BY <2>2, <2>8, <2>9
<1> QED BY <1>1, <1>2

-----------------------------------------------------------------------------
(***************************************************************************)
(* Groups that are freed.                                                  *)
(***************************************************************************)
LEMMA FreeStep ==
  ASSUME IndInv, pc \in {"idle", "quit"}, NEW g \in Group, grp[g].on, GroupFree(g),
         UNCHANGED <<csms, cid, table, pc, cur, left, ti, kept, up, sims, fails>>, BudgetOK'
  PROVE  IndInv'
<1> DEFINE r == grp[g]
           q == r.freeQ \o r.liveQ
<1>1. /\ gps' = Disown(g) /\ tasks' = (IF r.active THEN RemoveFirst(tasks, g) ELSE tasks)
      /\ usr' = Quiet(g) /\ pool' = GivenBack(g) \o pool /\ freeN' = freeN + Len(GivenBack(g))
      /\ grp' = [grp EXCEPT ![g] = NoGroup] /\ UNCHANGED <<taskN, taskFlag, evTask>>
  BY DEF GroupFree
<1>2. grp \in [Group -> GroupT] /\ r \in GroupT /\ r.freeQ \in Seq(User) /\ r.liveQ \in Seq(User)
  BY DEF IndInv, GroupsOK, GroupT
<1>3. /\ IsInjective(r.freeQ) /\ IsInjective(r.liveQ) /\ Range(r.freeQ) \cap Range(r.liveQ) = {}
      /\ Range(pool) \cap Own(r) = {} /\ IsInjective(pool) /\ Sole(pool, grp)
  BY DEF IndInv, Sole, Once
<1>4. /\ pool \in Seq(User) /\ freeN = Len(pool) /\ usr \in [User -> UserT] /\ Pointed(usr) /\ Stopped(pool, usr)
  BY DEF IndInv, UsersOK
<1>5. q \in Seq(User) /\ Range(q) = Own(r) /\ IsInjective(q)
  BY <1>2, <1>3, ConcatQ DEF Own
<1>6. GivenBack(g) = Reverse(q)
  BY DEF GivenBack
<1>q. \A x : x \in Range(grp[g].freeQ \o grp[g].liveQ) <=> x \in Own(r)
  BY <1>5
<1> HIDE DEF q, r
<1>7. GivenBack(g) \in Seq(User) /\ Range(GivenBack(g)) = Own(r) /\ IsInjective(GivenBack(g))
  BY <1>5, <1>6, ReverseQ
<1>8. /\ pool' \in Seq(User) /\ Len(pool') = Len(GivenBack(g)) + Len(pool)
      /\ Range(pool') = Own(r) \cup Range(pool) /\ IsInjective(pool')
  BY <1>1, <1>3, <1>4, <1>7, ConcatQ
<1>9. freeN' = Len(pool') /\ freeN' \in 0 .. UserN
  <2>1. Len(pool) \in Nat /\ Len(GivenBack(g)) \in Nat /\ Len(pool') \in Nat /\ UserN \in Nat
    BY <1>4, <1>7, <1>8, UsersAssumption DEF UsersAssumption
  <2>2. Len(pool') <= UserN
    <3> DEFINE p == pool'
    <3>1. p \in Seq(1 .. UserN) /\ IsInjective(p)
      BY <1>8 DEF User
    <3> HIDE DEF p
    <3>2. Len(p) <= UserN
      BY <2>1, <3>1, LengthQ
    <3> QED BY <3>2 DEF p
  <2>3. freeN' = Len(pool')
    BY <1>1, <1>4, <1>8, <2>1
  <2> QED BY <2>1, <2>2, <2>3
<1>10. /\ usr' \in [User -> UserT]
       /\ \A u \in User : /\ usr'[u].enable = usr[u].enable /\ usr'[u].grp = usr[u].grp
                          /\ u \in Own(r) => ~usr'[u].timer
                          /\ u \notin Own(r) => usr'[u] = usr[u]
                          /\ usr'[u].timer => usr[u].timer
  <2>1. usr' = [u \in User |-> IF u \in Own(r) THEN [usr[u] EXCEPT !.timer = FALSE] ELSE usr[u]]
    BY <1>1, <1>q DEF Quiet
  <2>2. ASSUME NEW u \in User
        PROVE  LET w == [usr[u] EXCEPT !.timer = FALSE]
               IN  w \in UserT /\ w.enable = usr[u].enable /\ w.grp = usr[u].grp /\ w.timer = FALSE
    <3>1. usr[u] \in UserT
      BY <1>4
    <3> QED BY <3>1 DEF UserT
  <2>3. ASSUME NEW u \in User
        PROVE  /\ usr'[u] \in UserT /\ usr'[u].enable = usr[u].enable /\ usr'[u].grp = usr[u].grp
               /\ u \in Own(r) => ~usr'[u].timer
               /\ u \notin Own(r) => usr'[u] = usr[u]
               /\ usr'[u].timer => usr[u].timer
    BY <1>4, <2>1, <2>2
  <2>4. usr' = [u \in User |-> usr'[u]]
    BY <2>1
  <2> QED BY <2>3, <2>4
<1>11. UsersOK'
  <2>1. Pointed(usr')
    BY <1>4, <1>10 DEF Pointed
  <2>2. Stopped(pool', usr')
    <3>1. \A x \in Range(pool') : x \in User
      BY <1>8, RangeIs
    <3> QED BY <1>4, <1>8, <1>10, <3>1 DEF Stopped
  <2> QED BY <1>8, <1>9, <1>10, <2>1, <2>2 DEF UsersOK
<1>12. /\ grp' \in [Group -> GroupT] /\ grp'[g] = NoGroup /\ \A h \in Group : h # g => grp'[h] = grp[h]
  BY <1>1, <1>2, Nothing
<1>13. GroupsOK'
  BY <1>12, Nothing DEF IndInv, GroupsOK
<1>14. Sole(pool, grp)'
  <2> DEFINE G == grp'
             p == pool'
  <2>1. /\ \A h \in Group : h # g => G[h] = grp[h]
        /\ IsInjective(p) /\ Once(G[g]) /\ Range(p) \cap Own(G[g]) = {}
        /\ Range(p) \cup Own(G[g]) = Range(pool) \cup Own(grp[g])
    BY <1>8, <1>12, Nothing DEF r
  <2> HIDE DEF G, p
  <2>2. Sole(p, G)
    BY <1>3, <2>1, SwapSole
  <2> QED BY <2>2 DEF G, p
<1>15. /\ grp[g].csm \in Csm /\ grp[g].gid \in GroupIds /\ gps[grp[g].csm][grp[g].gid] = g
  BY DEF IndInv, Linked
<1>16. /\ gps' \in [Csm -> [GroupIds -> 0 .. NGroup]]
       /\ gps'[grp[g].csm][grp[g].gid] = 0
       /\ \A c \in Csm, i \in GroupIds : ~(c = grp[g].csm /\ i = grp[g].gid) => gps'[c][i] = gps[c][i]
  <2>1. gps \in [Csm -> [GroupIds -> 0 .. NGroup]] /\ 0 \in 0 .. NGroup
    BY UsersAssumption DEF IndInv, OwnersOK, UsersAssumption
  <2> QED BY <1>1, <1>15, <2>1 DEF Disown
<1>17. Linked(grp, gps)'
  <2>1. ASSUME NEW h \in Group, grp'[h].on
        PROVE  grp'[h].csm \in Csm /\ grp'[h].gid \in GroupIds /\ gps'[grp'[h].csm][grp'[h].gid] = h
    <3>1. h # g
      BY <1>12, <2>1 DEF NoGroup
    <3>2. grp'[h] = grp[h] /\ grp[h].on /\ grp[h].csm \in Csm /\ grp[h].gid \in GroupIds
          /\ gps[grp[h].csm][grp[h].gid] = h
      BY <1>12, <2>1, <3>1 DEF IndInv, Linked
    <3>3. ~(grp[h].csm = grp[g].csm /\ grp[h].gid = grp[g].gid)
      BY <1>15, <3>1, <3>2
    <3> QED BY <1>16, <3>2, <3>3
  <2>2. ASSUME NEW c \in Csm, NEW i \in GroupIds, gps'[c][i] # 0
        PROVE  grp'[gps'[c][i]].on /\ grp'[gps'[c][i]].csm = c /\ grp'[gps'[c][i]].gid = i
    <3>1. ~(c = grp[g].csm /\ i = grp[g].gid) /\ gps'[c][i] = gps[c][i]
      BY <1>16, <2>2
    <3>2. gps[c][i] \in Group
      BY <2>2, <3>1, OwnedGroup DEF IndInv
    <3>3. grp[gps[c][i]].on /\ grp[gps[c][i]].csm = c /\ grp[gps[c][i]].gid = i
      BY <2>2, <3>1 DEF IndInv, Linked
    <3>4. gps[c][i] # g
      BY <3>1, <3>3
    <3> QED BY <1>12, <3>1, <3>2, <3>3, <3>4
  <2> QED BY <2>1, <2>2 DEF Linked
<1>18. OwnersOK'
  <2>1. csms \in Seq(Csm) /\ Spare /\ Filed(table) /\ gps \in [Csm -> [GroupIds -> 0 .. NGroup]]
    BY DEF IndInv, OwnersOK
  <2>2. \A c \in Range(csms) : c \in Csm
    BY <2>1, RangeIs
  <2>3. ASSUME NEW c \in Range(csms), NEW i \in GroupIds PROVE gps'[c][i] = 0
    <3>1. gps[c][i] = 0 /\ c \in Csm
      BY <2>1, <2>2 DEF Spare
    <3>2. CASE c = grp[g].csm /\ i = grp[g].gid
      BY <1>16, <3>2
    <3>3. CASE ~(c = grp[g].csm /\ i = grp[g].gid)
      BY <1>16, <3>1, <3>3
    <3> QED BY <3>2, <3>3
  <2>4. Spare'
    BY <2>1, <2>3 DEF Spare
  <2>5. Filed(table)'
    BY <2>1 DEF Filed, Apart
  <2> QED BY <1>16, <2>4, <2>5 DEF IndInv, OwnersOK
<1>19. TasksOK'
  <2>1. /\ tasks \in Seq(Group) /\ kept = <<>> /\ kept \in Seq(Group) /\ IsInjective(tasks)
        /\ \A h \in Range(tasks) : Due(grp[h])
    BY DEF IndInv, TasksOK, Listed
  <2>2. tasks' \in Seq(Group) /\ IsInjective(tasks') /\ Range(tasks') \subseteq Range(tasks)
    <3>1. CASE r.active
      BY <1>1, <2>1, <3>1, UnlinkQ
    <3>2. CASE ~r.active
      BY <1>1, <2>1, <3>2
    <3> QED BY <3>1, <3>2
  <2>3. \A h \in Range(tasks) : h \in Group
    BY <2>1, RangeIs
  <2>4. ~NoGroup.on
    BY DEF NoGroup
  <2>5. \A h \in Range(tasks') : Due(grp'[h])
    <3>1. Due(NoGroup)
      BY <2>4 DEF Due
    <3> QED BY <1>12, <2>1, <2>2, <2>3, <3>1
  <2>6. Listed'
    BY <1>1, <2>1, <2>2, <2>5, EmptyQ DEF IndInv, TasksOK, Listed
  <2> QED BY <1>1, <2>2, <2>6 DEF IndInv, TasksOK
<1>20. LoopOK'
  BY DEF IndInv, LoopOK, Looping
<1> QED BY <1>11, <1>13, <1>14, <1>17, <1>18, <1>19, <1>20 DEF IndInv

-----------------------------------------------------------------------------
(***************************************************************************)
(* The table of consumers.                                                 *)
(***************************************************************************)
LEMMA BucketOf ==
  ASSUME NEW k \in Nat PROVE k % Size \in Bucket
  BY HashTableAssumption DEF HashTableAssumption, Bucket

LEMMA ObjectsIs ==
  ASSUME NEW t, NEW c
  PROVE  c \in Objects(t) <=> \E b \in Bucket : c \in Range(t.chain[b])
  BY DEF Objects

\* What is found is in the table.
LEMMA FindIs ==
  ASSUME NEW t, t.chain \in ChainT, NEW ids, NEW k \in Nat, Found(t, ids, k)
  PROVE  /\ Min(Hits(t, ids, k)) \in DOMAIN t.chain[k % Size]
         /\ FindNode(t, ids, k) \in Range(t.chain[k % Size])
         /\ FindNode(t, ids, k) \in Objects(t) /\ FindNode(t, ids, k) \in Csm
<1> DEFINE ch == t.chain[k % Size]
           S == Hits(t, ids, k)
<1>1. k % Size \in Bucket /\ ch \in Seq(Csm)
  BY BucketOf DEF ChainT
<1>2. S \subseteq DOMAIN ch /\ S # {} /\ DOMAIN ch \subseteq Nat
  BY <1>1 DEF Hits, Found
<1>3. Min(S) \in S
  <2> HIDE DEF S, ch
  <2> QED BY <1>2, MinNat
<1>4. FindNode(t, ids, k) = ch[Min(S)]
  BY DEF FindNode
<1>5. Min(S) \in DOMAIN ch /\ ch[Min(S)] \in Csm
  BY <1>1, <1>2, <1>3
<1> QED BY <1>1, <1>4, <1>5, RangeIs, ObjectsIs

\* One chain becomes s, with objects that were in it or not in the table.
Relinked(t, m, s, t2) == /\ t2.chain = [t.chain EXCEPT ![m] = s]
                         /\ \A c \in Range(s) : c \in Range(t.chain[m]) \/ c \notin Objects(t)
Rest(t, m) == Objects(t) \ Range(t.chain[m])

LEMMA ChainFiled ==
  ASSUME NEW t, t.chain \in ChainT, Filed(t), NEW m \in Bucket, NEW s \in Seq(Csm), IsInjective(s), NEW t2,
         Relinked(t, m, s, t2)
  PROVE  t2.chain \in ChainT /\ Apart(t2) /\ Objects(t2) = Range(s) \cup Rest(t, m)
<1>0. \A c \in Range(s) : c \in Range(t.chain[m]) \/ c \notin Objects(t)
  BY DEF Relinked
<1>1. t2.chain \in ChainT /\ t2.chain[m] = s /\ \A b \in Bucket : b # m => t2.chain[b] = t.chain[b]
  BY DEF ChainT, Relinked
<1>2. \A b \in Bucket : IsInjective(t2.chain[b])
  BY <1>1 DEF Filed, Apart
<1>3. ASSUME NEW b \in Bucket, b # m PROVE Range(t2.chain[b]) \cap Range(s) = {}
  BY <1>0, <1>1, <1>3, ObjectsIs DEF Filed, Apart
<1>4. ASSUME NEW b \in Bucket, NEW d \in Bucket, b # d PROVE Range(t2.chain[b]) \cap Range(t2.chain[d]) = {}
  <2>1. CASE b = m
    BY <1>1, <1>3, <1>4, <2>1
  <2>2. CASE d = m
    BY <1>1, <1>3, <1>4, <2>2
  <2>3. CASE b # m /\ d # m
    BY <1>1, <1>4, <2>3 DEF Filed, Apart
  <2> QED BY <2>1, <2>2, <2>3
<1>5. ASSUME NEW c PROVE c \in Objects(t2) <=> c \in Range(s) \/ (c \in Objects(t) /\ c \notin Range(t.chain[m]))
  <2>1. c \in Objects(t2) <=> c \in Range(s) \/ \E b \in Bucket : b # m /\ c \in Range(t.chain[b])
    <3>1. ASSUME NEW b \in Bucket PROVE c \in Range(t2.chain[b]) <=> IF b = m THEN c \in Range(s) ELSE c \in Range(t.chain[b])
      BY <1>1
    <3>2. c \in Objects(t2) <=> \E b \in Bucket : c \in Range(t2.chain[b])
      BY ObjectsIs
    <3> QED BY <3>1, <3>2
  <2>2. (\E b \in Bucket : b # m /\ c \in Range(t.chain[b])) <=> c \in Objects(t) /\ c \notin Range(t.chain[m])
    BY ObjectsIs DEF Filed, Apart
  <2> QED BY <2>1, <2>2
<1>6. Objects(t2) = Range(s) \cup Rest(t, m)
  BY <1>5 DEF Rest
<1> QED BY <1>1, <1>2, <1>4, <1>6 DEF Apart

LEMMA PutTable ==
  ASSUME NEW t, t.chain \in ChainT, t.free \in 0 .. NodeN, CanInsert(t), Filed(t), NEW k \in Nat,
         NEW c \in Csm, c \notin Objects(t), NEW t2, t2 = InsertNode(t, k, c)
  PROVE  t2.chain \in ChainT /\ t2.free \in 0 .. NodeN /\ Filed(t2) /\ Objects(t2) = Objects(t) \cup {c}
<1> DEFINE m == k % Size
           s == <<c>> \o t.chain[m]
<1>1. m \in Bucket
  BY BucketOf
<1>2. t2.chain = [t.chain EXCEPT ![m] = s] /\ t2.free = t.free - 1 /\ t.free > 0 /\ NodeN \in Nat
  BY HashTableAssumption DEF InsertNode, CanInsert, HashTableAssumption
<1>3. t.chain[m] \in Seq(Csm) /\ IsInjective(t.chain[m]) /\ c \notin Range(t.chain[m])
  BY <1>1, ObjectsIs DEF ChainT, Filed, Apart
<1> HIDE DEF m
<1>4. s \in Seq(Csm) /\ IsInjective(s) /\ Range(s) = {c} \cup Range(t.chain[m])
  BY <1>3, ConsQ
<1> HIDE DEF s
<1>5. t2.chain \in ChainT /\ Apart(t2) /\ Objects(t2) = Range(s) \cup Rest(t, m)
  <2>1. Relinked(t, m, s, t2)
    BY <1>2, <1>4 DEF Relinked
  <2> QED BY <1>1, <1>4, <2>1, ChainFiled
<1>6. Objects(t2) = Objects(t) \cup {c}
  <2>1. Range(t.chain[m]) \subseteq Objects(t)
    BY <1>1, ObjectsIs
  <2> QED BY <1>4, <1>5, <2>1 DEF Rest
<1>7. IsFiniteSet(Objects(t)) /\ Cardinality(Objects(t)) + t.free <= NodeN
  BY DEF Filed
<1>8. /\ IsFiniteSet(Objects(t2)) /\ Cardinality(Objects(t2)) = Cardinality(Objects(t)) + 1
      /\ Cardinality(Objects(t)) \in Nat
  BY <1>6, <1>7, FS_AddElement, FS_CardinalityType
<1>9. Cardinality(Objects(t2)) + t2.free <= NodeN /\ t2.free \in 0 .. NodeN
  BY <1>2, <1>7, <1>8
<1> QED BY <1>5, <1>6, <1>8, <1>9 DEF Filed

LEMMA CutTable ==
  ASSUME NEW t, t.chain \in ChainT, t.free \in 0 .. NodeN, Filed(t), NEW ids, NEW k \in Nat,
         Found(t, ids, k), NEW t2, t2 = DeleteNode(t, ids, k)
  PROVE  t2.chain \in ChainT /\ t2.free \in 0 .. NodeN /\ Filed(t2) /\ Objects(t2) \subseteq Objects(t)
<1> DEFINE m == k % Size
           ch == t.chain[m]
           j == Min(Hits(t, ids, k))
           s == IF j = 1 THEN <<>> ELSE RemoveAt(ch, j)
<1>1. m \in Bucket
  BY BucketOf
<1>2. t2.chain = [t.chain EXCEPT ![m] = s] /\ t2.free = t.free + 1 /\ NodeN \in Nat
  BY HashTableAssumption DEF DeleteNode, HashTableAssumption
<1>3. ch \in Seq(Csm) /\ IsInjective(ch)
  BY <1>1 DEF ChainT, Filed, Apart
<1>4. j \in DOMAIN ch
  BY FindIs
<1> HIDE DEF j
<1>5. s \in Seq(Csm) /\ IsInjective(s) /\ Range(s) \subseteq Range(ch) \ {ch[j]}
  <2>1. CASE j = 1
    BY <2>1, EmptyQ
  <2>2. CASE j # 1
    BY <1>3, <1>4, <2>2, RemoveQ
  <2> QED BY <2>1, <2>2
<1>6. ch[j] \in Objects(t) /\ Range(ch) \subseteq Objects(t) /\ ch[j] \in Range(ch)
  BY <1>1, <1>4, RangeIs, ObjectsIs
<1> HIDE DEF m, s
<1>7. t2.chain \in ChainT /\ Apart(t2) /\ Objects(t2) = Range(s) \cup Rest(t, m)
  <2>1. Relinked(t, m, s, t2)
    BY <1>2, <1>5 DEF Relinked
  <2> QED BY <1>1, <1>5, <2>1, ChainFiled
<1>8. Objects(t2) \subseteq Objects(t) \ {ch[j]}
  BY <1>5, <1>6, <1>7 DEF Rest
<1>9. IsFiniteSet(Objects(t)) /\ Cardinality(Objects(t)) + t.free <= NodeN /\ Cardinality(Objects(t)) \in Nat
  BY FS_CardinalityType DEF Filed
<1>10. /\ IsFiniteSet(Objects(t) \ {ch[j]})
       /\ Cardinality(Objects(t) \ {ch[j]}) = Cardinality(Objects(t)) - 1
  BY <1>6, <1>9, FS_RemoveElement
<1>11. /\ IsFiniteSet(Objects(t2)) /\ Cardinality(Objects(t2)) \in Nat
       /\ Cardinality(Objects(t2)) <= Cardinality(Objects(t)) - 1
  BY <1>8, <1>10, FS_Subset, FS_CardinalityType
<1>12. Cardinality(Objects(t2)) + t2.free <= NodeN /\ t2.free \in 0 .. NodeN
  BY <1>2, <1>9, <1>11
<1> QED BY <1>7, <1>8, <1>11, <1>12 DEF Filed

-----------------------------------------------------------------------------
(***************************************************************************)
(* Control commands.                                                       *)
(***************************************************************************)

\* A consumer that is found is not a spare one.
LEMMA KnownIs ==
  ASSUME IndInv, NEW i \in Ids, Known(i)
  PROVE  ConsumerOf(i) \in Csm /\ ConsumerOf(i) \in Objects(table) /\ ConsumerOf(i) \notin Range(csms)
<1>1. i \in Nat /\ table.chain \in ChainT /\ Spare
  BY UsersAssumption DEF IndInv, OwnersOK, UsersAssumption
<1>2. ConsumerOf(i) = FindNode(table, cid, i) /\ Found(table, cid, i)
  BY DEF ConsumerOf, Known
<1>3. ConsumerOf(i) \in Csm /\ ConsumerOf(i) \in Objects(table)
  BY <1>1, <1>2, FindIs
<1> QED BY <1>1, <1>3 DEF Spare

LEMMA DeleteStep ==
  ASSUME IndInv, NEW i \in Ids, NEW gid \in GroupIds, Delete(i, gid) PROVE IndInv'
<1> DEFINE g == gps[ConsumerOf(i)][gid]
<1>1. /\ pc = "idle" /\ Known(i) /\ g # 0 /\ GroupFree(g) /\ ctls < MaxCtl /\ ctls' = ctls + 1
      /\ UNCHANGED <<csms, cid, table, pc, cur, left, ti, kept, up, sims, fails>>
  BY DEF Delete, Idle, loop
<1>2. ConsumerOf(i) \in Csm
  BY <1>1, KnownIs
<1>3. g \in Group /\ grp[g].on
  BY <1>1, <1>2, OwnedGroup DEF IndInv, Linked
<1>4. BudgetOK'
  BY <1>1, UsersAssumption DEF IndInv, BudgetOK, UsersAssumption
<1> HIDE DEF g
<1> QED BY <1>1, <1>3, <1>4, FreeStep

LEMMA QuitStep ==
  ASSUME IndInv, NEW i \in Ids, Quit(i) PROVE IndInv'
<1>1. /\ pc = "idle" /\ Known(i) /\ ctls < MaxCtl /\ ctls' = ctls + 1
      /\ table' = DeleteNode(table, cid, i) /\ pc' = "quit" /\ cur' = ConsumerOf(i)
      /\ UNCHANGED <<users, grp, csms, cid, gps, queue, left, ti, kept, up, sims, fails>>
  BY DEF Quit, Idle
<1>2. ConsumerOf(i) \in Csm
  BY <1>1, KnownIs
<1>3. BudgetOK'
  BY <1>1, UsersAssumption DEF IndInv, BudgetOK, UsersAssumption
<1>4. UsersOK' /\ GroupsOK' /\ Sole(pool, grp)' /\ Linked(grp, gps)'
  BY <1>1, UsersFrame, GroupsFrame, SoleFrame, LinkedFrame DEF IndInv
<1>5. TasksOK'
  BY <1>1 DEF IndInv, TasksOK, Listed, queue
<1>6. LoopOK'
  BY <1>1, <1>2 DEF IndInv, LoopOK, Looping
<1>7. OwnersOK'
  <2> DEFINE t == table'
  <2>1. /\ table.chain \in ChainT /\ table.free \in 0 .. NodeN /\ Filed(table) /\ i \in Nat /\ Spare
        /\ csms \in Seq(Csm) /\ cid \in [Csm -> {0} \cup Ids] /\ gps \in [Csm -> [GroupIds -> 0 .. NGroup]]
    BY UsersAssumption DEF IndInv, OwnersOK, UsersAssumption
  <2>2. Found(table, cid, i) /\ t = DeleteNode(table, cid, i)
    BY <1>1 DEF Known
  <2> HIDE DEF t
  <2>3. t.chain \in ChainT /\ t.free \in 0 .. NodeN /\ Filed(t) /\ Objects(t) \subseteq Objects(table)
    BY <2>1, <2>2, CutTable
  <2>4. Filed(table)' /\ table'.chain \in ChainT /\ table'.free \in 0 .. NodeN
    BY <2>3 DEF t, Filed, Apart
  <2>5. Spare'
    <3>1. Objects(table)' \subseteq Objects(table)
      BY <2>3 DEF t, Objects
    <3> QED BY <1>1, <2>1, <3>1 DEF Spare
  <2> QED BY <1>1, <2>1, <2>4, <2>5 DEF OwnersOK
<1> QED BY <1>3, <1>4, <1>5, <1>6, <1>7 DEF IndInv

LEMMA QuitGroupStep == IndInv /\ QuitGroup => IndInv'
<1> SUFFICES ASSUME IndInv, QuitGroup PROVE IndInv'
  OBVIOUS
<1> DEFINE ids == {j \in GroupIds : gps[cur][j] # 0}
<1>1. pc = "quit" /\ UNCHANGED <<csms, cid, table, left, ti, kept, up, sims, ctls, fails>>
  BY DEF QuitGroup, budget
<1>2. cur \in Csm
  BY <1>1 DEF IndInv, LoopOK
<1>3. BudgetOK'
  BY <1>1 DEF IndInv, BudgetOK
<1>4. CASE ids # {}
  <2> DEFINE g == gps[cur][Min(ids)]
  <2>1. GroupFree(g) /\ UNCHANGED <<pc, cur>>
    BY <1>4 DEF QuitGroup
  <2>2. Min(ids) \in ids
    <3>1. ids \subseteq Nat
      BY UsersAssumption DEF UsersAssumption
    <3> HIDE DEF ids
    <3> QED BY <1>4, <3>1, MinNat
  <2>3. Min(ids) \in GroupIds /\ g # 0
    BY <2>2
  <2> HIDE DEF ids
  <2>4. g \in Group /\ grp[g].on
    BY <1>2, <2>3, OwnedGroup DEF IndInv, Linked
  <2> HIDE DEF g
  <2> QED BY <1>1, <1>3, <2>1, <2>4, FreeStep
<1>5. CASE ids = {}
  <2>1. pc' = "idle" /\ cur' = 0 /\ UNCHANGED <<users, grp, gps, queue>>
    BY <1>5 DEF QuitGroup
  <2>2. UNCHANGED <<users, grp, owner>>
    BY <1>1, <2>1 DEF owner
  <2>3. TasksOK'
    BY <1>1, <2>1 DEF IndInv, TasksOK, Listed, queue
  <2>4. LoopOK'
    BY <1>1, <2>1, UsersAssumption DEF IndInv, LoopOK, Looping, UsersAssumption
  <2> QED BY <1>3, <2>2, <2>3, <2>4, QuietStep
<1> QED BY <1>4, <1>5

-----------------------------------------------------------------------------
(***************************************************************************)
(* Simulation commands.                                                    *)
(***************************************************************************)

\* The consumer of the command is in use afterwards, and its groups are as they were.
LEMMA TakeStep ==
  ASSUME IndInv, NEW i \in Ids, HasConsumer(i), TakeConsumer(i)
  PROVE  /\ csms' \in Seq(Csm) /\ IsInjective(csms') /\ cid' \in [Csm -> {0} \cup Ids]
         /\ table'.chain \in ChainT /\ table'.free \in 0 .. NodeN /\ Filed(table')
         /\ Range(csms') \subseteq Range(csms) /\ \A c \in Range(csms') : c \notin Objects(table')
         /\ ConsumerOf(i) \in Csm /\ ConsumerOf(i) \notin Range(csms')
         /\ GpsOf(i) = gps
         /\ ~Known(i) => \A j \in GroupIds : gps[ConsumerOf(i)][j] = 0
<1>1. /\ table.chain \in ChainT /\ table.free \in 0 .. NodeN /\ Filed(table) /\ i \in Nat /\ Spare
      /\ csms \in Seq(Csm) /\ cid \in [Csm -> {0} \cup Ids] /\ gps \in [Csm -> [GroupIds -> 0 .. NGroup]]
  BY UsersAssumption DEF IndInv, OwnersOK, UsersAssumption
<1>2. CASE Known(i)
  <2>1. UNCHANGED <<csms, cid, table>> /\ GpsOf(i) = gps
    BY <1>2 DEF TakeConsumer, GpsOf
  <2>2. ConsumerOf(i) \in Csm /\ ConsumerOf(i) \notin Range(csms)
    BY <1>2, KnownIs
  <2>3. IsInjective(csms) /\ \A c \in Range(csms) : c \notin Objects(table)
    BY <1>1 DEF Spare
  <2> QED BY <1>1, <1>2, <2>1, <2>2, <2>3
<1>3. CASE ~Known(i)
  <2> DEFINE c == Head(csms)
             t == table'
  <2>1. /\ csms # <<>> /\ CanInsert(table) /\ csms' = Tail(csms) /\ cid' = [cid EXCEPT ![c] = i]
        /\ t = InsertNode(table, i, c) /\ ConsumerOf(i) = c
    BY <1>3 DEF HasConsumer, TakeConsumer, ConsumerOf
  <2>2. IsInjective(csms) /\ \A x \in Range(csms) : x \notin Objects(table) /\ \A j \in GroupIds : gps[x][j] = 0
    BY <1>1 DEF Spare
  <2>3. /\ c \in Range(csms) /\ c \in Csm /\ Tail(csms) \in Seq(Csm)
        /\ Range(Tail(csms)) = Range(csms) \ {c} /\ IsInjective(Tail(csms))
    BY <1>1, <2>1, <2>2, TailQ
  <2> HIDE DEF c, t
  <2>4. c \notin Objects(table) /\ \A j \in GroupIds : gps[c][j] = 0
    BY <2>2, <2>3
  <2>6. t.chain \in ChainT /\ t.free \in 0 .. NodeN /\ Filed(t) /\ Objects(t) = Objects(table) \cup {c}
    BY <1>1, <2>1, <2>3, <2>4, PutTable
  <2>7. \A x \in Range(csms') : x \notin Objects(t)
    BY <2>1, <2>2, <2>3, <2>6
  <2>8. GpsOf(i) = gps
    <3>1. GpsOf(i) = [gps EXCEPT ![c] = [j \in GroupIds |-> 0]]
      BY <1>3, <2>1 DEF GpsOf
    <3>2. gps[c] = [j \in GroupIds |-> 0]
      <4>1. gps[c] \in [GroupIds -> 0 .. NGroup]
        BY <1>1, <2>3
      <4> QED BY <2>4, <4>1
    <3> QED BY <1>1, <2>3, <3>1, <3>2
  <2>9. cid' \in [Csm -> {0} \cup Ids]
    BY <1>1, <2>1, <2>3
  <2>10. /\ table'.chain \in ChainT /\ table'.free \in 0 .. NodeN /\ Filed(table')
         /\ \A x \in Range(csms') : x \notin Objects(table')
    BY <2>6, <2>7 DEF t
  <2> QED BY <2>1, <2>3, <2>4, <2>8, <2>9, <2>10
<1> QED BY <1>2, <1>3

LEMMA CommandIs ==
  ASSUME IndInv, NEW i \in Ids, NEW gid \in GroupIds, Command(i, gid)
  PROVE  /\ pc = "idle" /\ sims' = sims + 1 /\ sims \in Nat /\ sims' \in 0 .. MaxSim /\ sims <= sims'
         /\ Known(i) => gps[ConsumerOf(i)][gid] = 0
  BY UsersAssumption DEF Command, Idle, IndInv, BudgetOK, UsersAssumption

\* The command changes consumers only.
LEMMA TakenStep ==
  ASSUME IndInv, OwnersOK', UNCHANGED <<users, grp, gps, queue, loop>>, BudgetOK', sims <= sims'
  PROVE  IndInv'
<1>1. UsersOK' /\ GroupsOK' /\ Sole(pool, grp)' /\ Linked(grp, gps)'
  BY UsersFrame, GroupsFrame, SoleFrame, LinkedFrame DEF IndInv
<1>2. TasksOK'
  <2>1. sims' \in Nat /\ UNCHANGED <<queue, kept, ti, grp, pc>>
    BY DEF BudgetOK, loop
  <2> QED BY <2>1, TasksFrame DEF IndInv
<1>3. LoopOK'
  BY LoopFrame DEF IndInv, queue
<1> QED BY <1>1, <1>2, <1>3 DEF IndInv

LEMMA NoConsumerStep ==
  ASSUME IndInv, NEW i \in Ids, NEW gid \in GroupIds, SimulationNoConsumer(i, gid) PROVE IndInv'
<1>1. /\ Command(i, gid) /\ csms' = (IF csms = <<>> THEN csms ELSE Tail(csms))
      /\ UNCHANGED <<users, grp, cid, gps, table, queue, loop, up, ctls, fails>>
  BY DEF SimulationNoConsumer
<1>2. sims' \in 0 .. MaxSim /\ sims <= sims'
  BY <1>1, CommandIs
<1>3. BudgetOK'
  BY <1>1, <1>2 DEF IndInv, BudgetOK
<1>4. csms \in Seq(Csm) /\ Spare /\ Filed(table)
  BY DEF IndInv, OwnersOK
<1>5. csms' \in Seq(Csm) /\ IsInjective(csms') /\ Range(csms') \subseteq Range(csms)
  <2>1. CASE csms = <<>>
    BY <1>1, <1>4, <2>1 DEF Spare
  <2>2. CASE csms # <<>>
    BY <1>1, <1>4, <2>2, TailQ DEF Spare
  <2> QED BY <2>1, <2>2
<1>6. Spare'
  BY <1>1, <1>4, <1>5 DEF Spare
<1>7. Filed(table)'
  BY <1>1, <1>4 DEF Filed, Apart
<1>8. OwnersOK'
  BY <1>1, <1>5, <1>6, <1>7 DEF IndInv, OwnersOK
<1> QED BY <1>1, <1>2, <1>3, <1>8, TakenStep

LEMMA FailsStep ==
  ASSUME IndInv, NEW i \in Ids, NEW gid \in GroupIds, SimulationFails(i, gid) PROVE IndInv'
<1>1. /\ Command(i, gid) /\ HasConsumer(i) /\ Fails /\ TakeConsumer(i) /\ gps' = GpsOf(i)
      /\ UNCHANGED <<users, grp, queue, loop, up, ctls>>
  BY DEF SimulationFails
<1>2. sims' \in 0 .. MaxSim /\ sims <= sims'
  BY <1>1, CommandIs
<1>3. BudgetOK'
  BY <1>1, <1>2, UsersAssumption DEF IndInv, BudgetOK, Fails, UsersAssumption
<1>4. /\ csms' \in Seq(Csm) /\ IsInjective(csms') /\ cid' \in [Csm -> {0} \cup Ids]
      /\ table'.chain \in ChainT /\ table'.free \in 0 .. NodeN /\ Filed(table')
      /\ Range(csms') \subseteq Range(csms) /\ \A c \in Range(csms') : c \notin Objects(table')
      /\ GpsOf(i) = gps
  BY <1>1, TakeStep
<1>5. Spare'
  BY <1>1, <1>4 DEF IndInv, OwnersOK, Spare, Objects
<1>6. Filed(table)'
  BY <1>4 DEF Filed, Apart
<1>7. OwnersOK'
  BY <1>1, <1>4, <1>5, <1>6 DEF IndInv, OwnersOK
<1> QED BY <1>1, <1>2, <1>3, <1>4, <1>7, TakenStep

LEMMA TooManyStep ==
  ASSUME IndInv, NEW i \in Ids, NEW gid \in GroupIds, NEW n \in User, SimulationTooMany(i, gid, n)
  PROVE  IndInv'
<1>1. Command(i, gid) /\ Break /\ UNCHANGED ctls
  BY DEF SimulationTooMany
<1>2. sims' \in 0 .. MaxSim /\ sims <= sims'
  BY <1>1, CommandIs
<1> QED BY <1>1, <1>2, BreakStep

\* The new group.
NewGroup(c, gid, n, scene, start, q) ==
  [NoGroup EXCEPT !.on = TRUE, !.csm = c, !.gid = gid, !.n = n, !.scene = scene, !.start = start,
                  !.active = TRUE, !.freeQ = q]

LEMMA NewFields ==
  ASSUME NEW c \in Csm, NEW gid \in GroupIds, NEW n \in User, NEW scene \in BOOLEAN,
         NEW start \in 0 .. n, NEW q \in Seq(User), IsInjective(q)
  PROVE  LET r == NewGroup(c, gid, n, scene, start, q)
         IN  /\ r \in GroupT /\ r.on /\ r.csm = c /\ r.gid = gid /\ Plain(r) /\ Below(r) /\ Due(r)
             /\ Once(r) /\ Own(r) = Range(q)
<1> DEFINE r == NewGroup(c, gid, n, scene, start, q)
<1>1. /\ c \in 0 .. NCsm /\ n \in 0 .. UserN /\ start \in 0 .. UserN /\ n \in Nat /\ start \in Nat /\ start <= n
  BY UsersAssumption DEF UsersAssumption, Csm, User
<1>2. NoGroup \in GroupT /\ NoGroup.liveQ = <<>> /\ NoGroup.liveN = 0 /\ NoGroup.armed = FALSE
  BY Nothing DEF NoGroup
<1>3. /\ r \in GroupT /\ r.on = TRUE /\ r.csm = c /\ r.gid = gid /\ r.n = n /\ r.scene = scene /\ r.start = start
      /\ r.freeQ = q /\ r.liveQ = NoGroup.liveQ /\ r.liveN = NoGroup.liveN /\ r.armed = NoGroup.armed
  BY <1>1, <1>2 DEF NewGroup, GroupT
<1> HIDE DEF r
<1>4. Plain(r) /\ Below(r) /\ Due(r)
  BY <1>1, <1>2, <1>3 DEF Plain, Below, Due, Goal
<1>5. Once(r) /\ Own(r) = Range(q)
  BY <1>2, <1>3, EmptyQ DEF Once, Own
<1> QED BY <1>3, <1>4, <1>5 DEF r

LEMMA SimulationStep ==
  ASSUME IndInv, NEW i \in Ids, NEW gid \in GroupIds, NEW n \in User, NEW g \in Group,
         NEW scene \in Scenes, NEW start \in IF scene THEN 0 .. n ELSE {0},
         Simulation(i, gid, n, g, scene, start)
  PROVE  IndInv'
<1>1. /\ Command(i, gid) /\ HasConsumer(i) /\ freeN >= n /\ ~grp[g].on /\ UNCHANGED ctls
  BY DEF Simulation
<1>2. /\ sims' \in 0 .. MaxSim /\ sims <= sims' /\ pc = "idle" /\ sims' = sims + 1 /\ sims \in Nat
      /\ Known(i) => gps[ConsumerOf(i)][gid] = 0
  BY <1>1, CommandIs
<1>3. CASE Break
  BY <1>1, <1>2, <1>3, BreakStep
<1>4. CASE ~Break
  <2> DEFINE c == ConsumerOf(i)
             a == SubSeq(pool, 1, n)
             b == SubSeq(pool, n + 1, Len(pool))
             q == Reverse(a)
             r == NewGroup(c, gid, n, scene, start, q)
  <2>1. /\ g \notin Range(tasks) /\ TakeConsumer(i) /\ gps' = [GpsOf(i) EXCEPT ![c][gid] = g]
        /\ pool' = b /\ freeN' = freeN - n /\ grp' = [grp EXCEPT ![g] = r]
        /\ tasks' = <<g>> \o tasks /\ taskN' = taskN + 1 /\ UNCHANGED <<usr, loop, up>>
    BY <1>4 DEF Simulation, NewGroup
  <2>2. \/ UNCHANGED <<taskFlag, evTask, fails>>
        \/ taskFlag' = TRUE /\ evTask' = TRUE /\ UNCHANGED fails
        \/ Fails /\ UNCHANGED <<taskFlag, evTask>>
    BY <1>4 DEF Simulation
  <2>3. /\ csms' \in Seq(Csm) /\ IsInjective(csms') /\ cid' \in [Csm -> {0} \cup Ids]
        /\ table'.chain \in ChainT /\ table'.free \in 0 .. NodeN /\ Filed(table')
        /\ Range(csms') \subseteq Range(csms) /\ \A x \in Range(csms') : x \notin Objects(table')
        /\ c \in Csm /\ c \notin Range(csms') /\ GpsOf(i) = gps
        /\ ~Known(i) => \A j \in GroupIds : gps[c][j] = 0
    BY <1>1, <2>1, TakeStep
  <2>4. gps[c][gid] = 0
    BY <1>2, <2>3
  <2> HIDE DEF c
  <2>5. pool \in Seq(User) /\ freeN = Len(pool) /\ freeN \in 0 .. UserN /\ IsInjective(pool) /\ Sole(pool, grp)
    BY DEF IndInv, UsersOK, Sole
  <2>6. n \in 0 .. Len(pool) /\ UserN \in Nat
    BY <1>1, <2>5, UsersAssumption DEF UsersAssumption, User
  <2>7. /\ a \in Seq(User) /\ b \in Seq(User) /\ Len(b) = Len(pool) - n /\ IsInjective(a) /\ IsInjective(b)
        /\ Range(a) \cap Range(b) = {} /\ Range(a) \cup Range(b) = Range(pool)
    BY <2>5, <2>6, SplitQ
  <2> HIDE DEF a, b
  <2>8. q \in Seq(User) /\ Range(q) = Range(a) /\ IsInjective(q)
    BY <2>7, ReverseQ
  <2> HIDE DEF q
  <2>9. /\ r \in GroupT /\ r.on /\ r.csm = c /\ r.gid = gid /\ Plain(r) /\ Below(r) /\ Due(r)
        /\ Once(r) /\ Own(r) = Range(q)
    <3>1. scene \in BOOLEAN
      BY UsersAssumption DEF UsersAssumption
    <3>2. start \in 0 .. n
      BY <2>6
    <3> QED BY <2>3, <2>8, <3>1, <3>2, NewFields
  <2> HIDE DEF r
  <2>10. grp' \in [Group -> GroupT] /\ grp'[g] = r /\ \A h \in Group : h # g => grp'[h] = grp[h]
    BY <2>1, <2>9 DEF IndInv, GroupsOK
  <2>11. grp[g] = NoGroup
    BY <1>1 DEF IndInv, GroupsOK, Plain
  <2>12. UsersOK'
    <3>1. freeN' = Len(pool') /\ freeN' \in 0 .. UserN
      BY <2>1, <2>5, <2>6, <2>7
    <3>2. Stopped(pool', usr')
      BY <2>1, <2>7 DEF IndInv, UsersOK, Stopped
    <3> QED BY <2>1, <2>7, <3>1, <3>2 DEF IndInv, UsersOK, Pointed
  <2>13. GroupsOK'
    BY <2>9, <2>10 DEF IndInv, GroupsOK
  <2>14. Sole(pool, grp)'
    <3> DEFINE G == grp'
    <3>1. /\ \A h \in Group : h # g => G[h] = grp[h]
          /\ IsInjective(b) /\ Once(G[g]) /\ Range(b) \cap Own(G[g]) = {}
          /\ Range(b) \cup Own(G[g]) = Range(pool) \cup Own(grp[g])
      BY <2>7, <2>8, <2>9, <2>10, <2>11, Nothing
    <3> HIDE DEF G
    <3>2. Sole(b, G)
      BY <2>5, <3>1, SwapSole
    <3> QED BY <2>1, <3>2 DEF G
  <2>15. /\ gps' \in [Csm -> [GroupIds -> 0 .. NGroup]] /\ gps'[c][gid] = g
         /\ \A x \in Csm, j \in GroupIds : ~(x = c /\ j = gid) => gps'[x][j] = gps[x][j]
    <3>1. gps \in [Csm -> [GroupIds -> 0 .. NGroup]] /\ g \in 0 .. NGroup
      BY GroupNumbers DEF IndInv, OwnersOK
    <3> QED BY <2>1, <2>3, <3>1
  <2>16. Linked(grp, gps)'
    <3>1. ASSUME NEW h \in Group, grp'[h].on
          PROVE  grp'[h].csm \in Csm /\ grp'[h].gid \in GroupIds /\ gps'[grp'[h].csm][grp'[h].gid] = h
      <4>1. CASE h = g
        BY <2>3, <2>9, <2>10, <2>15, <4>1
      <4>2. CASE h # g
        <5>1. /\ grp'[h] = grp[h] /\ grp[h].csm \in Csm /\ grp[h].gid \in GroupIds
              /\ gps[grp[h].csm][grp[h].gid] = h
          BY <2>10, <3>1, <4>2 DEF IndInv, Linked
        <5>2. h # 0
          BY UsersAssumption DEF UsersAssumption, Group
        <5>3. ~(grp[h].csm = c /\ grp[h].gid = gid)
          BY <2>4, <5>1, <5>2
        <5> QED BY <2>15, <5>1, <5>3
      <4> QED BY <4>1, <4>2
    <3>2. ASSUME NEW x \in Csm, NEW j \in GroupIds, gps'[x][j] # 0
          PROVE  grp'[gps'[x][j]].on /\ grp'[gps'[x][j]].csm = x /\ grp'[gps'[x][j]].gid = j
      <4>1. CASE x = c /\ j = gid
        BY <2>9, <2>10, <2>15, <4>1
      <4>2. CASE ~(x = c /\ j = gid)
        <5>1. gps'[x][j] = gps[x][j] /\ gps[x][j] # 0
          BY <2>15, <3>2, <4>2
        <5>2. gps[x][j] \in Group
          BY <5>1, OwnedGroup DEF IndInv
        <5>3. grp[gps[x][j]].on /\ grp[gps[x][j]].csm = x /\ grp[gps[x][j]].gid = j
          BY <5>1 DEF IndInv, Linked
        <5>4. gps[x][j] # g
          BY <1>1, <5>3
        <5> QED BY <2>10, <5>1, <5>2, <5>3, <5>4
      <4> QED BY <4>1, <4>2
    <3> QED BY <3>1, <3>2 DEF Linked
  <2>17. OwnersOK'
    <3>1. csms \in Seq(Csm) /\ Spare
      BY DEF IndInv, OwnersOK
    <3>2. ASSUME NEW x \in Range(csms'), NEW j \in GroupIds PROVE gps'[x][j] = 0
      <4>1. x \in Range(csms) /\ x # c
        BY <2>3
      <4>2. x \in Csm /\ gps[x][j] = 0
        BY <3>1, <4>1, RangeIs DEF Spare
      <4> QED BY <2>15, <4>1, <4>2
    <3>3. Spare'
      BY <2>3, <3>2 DEF Spare, Objects
    <3>4. Filed(table)'
      BY <2>3 DEF Filed, Apart
    <3> QED BY <2>3, <2>15, <3>3, <3>4 DEF OwnersOK
  <2>18. BudgetOK'
    BY <1>1, <1>2, <2>1, <2>2, UsersAssumption, SMTT(30) DEF IndInv, BudgetOK, Fails, UsersAssumption
  <2>19. TasksOK'
    <3>1. /\ tasks \in Seq(Group) /\ kept = <<>> /\ kept \in Seq(Group) /\ ti = 0 /\ IsInjective(tasks)
          /\ taskN \in 0 .. MaxSim /\ taskN <= sims /\ ti \in 0 .. MaxSim
          /\ \A h \in Range(tasks) : Due(grp[h])
      BY <1>2 DEF IndInv, TasksOK, Listed
    <3>2. UNCHANGED <<pc, ti, kept>>
      BY <2>1 DEF loop
    <3>3. tasks' \in Seq(Group) /\ Range(tasks') = {g} \cup Range(tasks) /\ IsInjective(tasks')
      BY <2>1, <3>1, ConsQ
    <3>4. \A h \in Range(tasks) : h \in Group
      BY <3>1, RangeIs
    <3>5. \A h \in Range(tasks') : Due(grp'[h])
      BY <2>1, <2>9, <2>10, <3>1, <3>3, <3>4
    <3>6. taskN' <= sims' /\ taskN' \in 0 .. MaxSim
      BY <1>2, <2>1, <3>1, UsersAssumption, SMTT(30) DEF UsersAssumption
    <3>7. taskFlag' \in BOOLEAN /\ evTask' \in BOOLEAN
      BY <2>2, Zenon DEF IndInv, TasksOK
    <3>8. Listed'
      BY <1>2, <3>1, <3>2, <3>3, <3>5, <3>6, EmptyQ DEF Listed
    <3> QED BY <3>1, <3>2, <3>3, <3>6, <3>7, <3>8 DEF TasksOK
  <2>20. LoopOK'
    BY <1>2, <2>1 DEF IndInv, LoopOK, Looping, loop
  <2> QED BY <2>12, <2>13, <2>14, <2>16, <2>17, <2>18, <2>19, <2>20 DEF IndInv
<1> QED BY <1>3, <1>4

-----------------------------------------------------------------------------
(***************************************************************************)
(* The theorems.                                                           *)
(***************************************************************************)
LEMMA NextInv == IndInv /\ [Next]_vars => IndInv'
<1> SUFFICES ASSUME IndInv, [Next]_vars PROVE IndInv'
  OBVIOUS
<1>1. CASE Commands
  <2>1. PICK i \in Ids, gid \in GroupIds :
          \/ SimulationNoConsumer(i, gid) \/ SimulationFails(i, gid) \/ Delete(i, gid) \/ Quit(i)
          \/ \E n \in User : SimulationTooMany(i, gid, n)
          \/ \E n \in User, g \in Group, scene \in Scenes : \E start \in IF scene THEN 0 .. n ELSE {0} :
               Simulation(i, gid, n, g, scene, start)
    BY <1>1 DEF Commands
  <2>2. CASE SimulationNoConsumer(i, gid)
    BY <2>2, NoConsumerStep
  <2>3. CASE SimulationFails(i, gid)
    BY <2>3, FailsStep
  <2>4. CASE Delete(i, gid)
    BY <2>4, DeleteStep
  <2>5. CASE Quit(i)
    BY <2>5, QuitStep
  <2>6. CASE \E n \in User : SimulationTooMany(i, gid, n)
    BY <2>6, TooManyStep
  <2>7. CASE \E n \in User, g \in Group, scene \in Scenes : \E start \in IF scene THEN 0 .. n ELSE {0} :
               Simulation(i, gid, n, g, scene, start)
    BY <2>7, SimulationStep
  <2> QED BY <2>1, <2>2, <2>3, <2>4, <2>5, <2>6, <2>7
<1>2. CASE Callback
  BY <1>2, QuitGroupStep, TaskGroupStep, ActivateStep, ActivateDoneStep, TaskDoneStep,
     ControlDropStep, ControlDoneStep DEF Callback
<1>3. CASE \E g \in Group, n \in 0 .. UserN : Control(g, n)
  BY <1>3, ControlStep
<1>4. CASE \E u \in User : Timeout(u)
  BY <1>4, TimeoutStep
<1>5. CASE UNCHANGED vars
  <2>1. UNCHANGED <<users, grp, owner, queue, loop, up, sims, ctls, fails>>
    BY <1>5 DEF vars, budget
  <2>2. BudgetOK'
    BY <2>1 DEF IndInv, BudgetOK
  <2>3. UNCHANGED <<users, grp, gps, queue, loop>> /\ sims <= sims'
    BY <2>1 DEF owner, IndInv, BudgetOK
  <2>4. OwnersOK'
    BY <2>1, OwnersFrame DEF IndInv
  <2> QED BY <2>2, <2>3, <2>4, TakenStep
<1> QED BY <1>1, <1>2, <1>3, <1>4, <1>5, TaskStartStep, RespawnStep DEF Next

\* However commands, timers, scenes, failing calls and new processes follow each other,
\* ntg_user_get_user and ntg_user_group_free keep every user object in exactly one place, the
\* pool or one queue of one group, and free_user_n is the length of the pool.
THEOREM UsersKept == Spec => []UsersConserved
<1>1. IndInv => UsersConserved
  <2> SUFFICES ASSUME IndInv PROVE UsersConserved
    OBVIOUS
  <2>1. TypeOK
    BY DEF IndInv, UsersOK, GroupsOK, OwnersOK, TasksOK, LoopOK, BudgetOK, TypeOK, UserT, GroupT, ChainT
  <2>2. \A u \in User : Cardinality(Places(u)) = 1
    BY OnePlace DEF IndInv
  <2>3. freeN = Len(pool)
    BY DEF IndInv, UsersOK
  <2> QED BY <2>1, <2>2, <2>3 DEF UsersConserved
<1> QED BY <1>1, InitInv, NextInv, PTL DEF Spec

\* A freed group is not used: ntg_user_group_free clears the pointer of the consumer and stops
\* the timers of all users it gives back, and every group that is not freed can still be
\* reached from its consumer, so that a control command or the end of the consumer frees it.
THEOREM GroupsReached == Spec => []GroupsOwned
<1>1. IndInv => GroupsOwned
  <2> SUFFICES ASSUME IndInv PROVE GroupsOwned
    OBVIOUS
  <2>1. \A k \in DOMAIN pool : ~usr[pool[k]].timer
    <3>1. \A k \in DOMAIN pool : pool[k] \in Range(pool)
      BY RangeIs
    <3> QED BY <3>1 DEF IndInv, UsersOK, Stopped
  <2>2. \A g \in Group : grp[g].on => gps[grp[g].csm][grp[g].gid] = g
    BY DEF IndInv, Linked
  <2>3. \A c \in Csm, i \in GroupIds : gps[c][i] # 0 => grp[gps[c][i]].on
    BY DEF IndInv, Linked
  <2> QED BY <2>1, <2>2, <2>3 DEF GroupsOwned
<1> QED BY <1>1, InitInv, NextInv, PTL DEF Spec
=============================================================================
