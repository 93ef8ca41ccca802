--------------------------- MODULE DispatchProofs ---------------------------
(***************************************************************************)
(* Theorems about Dispatch for any number of slots, processes, requests    *)
(* and messages.  The virtual process counts every OPEN, so the bound of   *)
(* its ntg_last_process, and that it has caught up with the master's, are  *)
(* facts about the OPENs still in its channel: a function f on the         *)
(* positions of the queue says how far the count has come by then.         *)
(***************************************************************************)
EXTENDS Dispatch, NatLemmas

\* What a message adds to ntg_last_process.
Adds(m) == IF m.cmd = "OPEN" THEN 1 ELSE 0

\* When all messages of q have been handled a count that is v now is top at most.
AtMost(q, v, top) ==
  \E f \in [0 .. Len(q) -> Int] :
    /\ v <= f[0] /\ \A k \in 0 .. Len(q) : f[k] <= top
    /\ \A k \in 1 .. Len(q) : f[k - 1] + Adds(q[k]) <= f[k]

\* And low at least.
AtLeast(q, v, low) ==
  \E f \in [0 .. Len(q) -> Int] :
    /\ f[0] <= v /\ low <= f[Len(q)]
    /\ \A k \in 1 .. Len(q) : f[k] <= f[k - 1] + Adds(q[k])

Speaks(m, s) == m.cmd \in {"OPEN", "CLOSE"} /\ m.slot = s

\* When all messages of q have been handled the descriptor of slot s is that of child p.
Told(q, vf, s, p) ==
  \/ \E k \in DOMAIN q : /\ q[k].cmd = "OPEN" /\ q[k].slot = s /\ q[k].fd = p
                         /\ \A l \in DOMAIN q : k < l => ~Speaks(q[l], s)
  \/ vf[s] = p /\ \A l \in DOMAIN q : ~Speaks(q[l], s)

\* The slots the master has a child in, or gave none up in.
Used == {s \in Start .. mlast - 1 : mpid[s] # -1}

\* OPENs sent, at most: one for each start that was due, two for each child, one for each
\* failure and one for each slot given up.
Top == Start + 3 * np + (Boot + adds - todo) + fails - Cardinality(Used)

\* The parts of the type invariant.
MasterT ==
  /\ mpid \in [Slot -> -1 .. MaxPid] /\ mopen \in [Slot -> BOOLEAN]
  /\ exited \in [Slot -> BOOLEAN] /\ mlast \in Slot /\ pslot \in 0 .. NSlots
  /\ mpc \in {"idle", "reap"} /\ ri \in Slot /\ cmd \in {"OPEN", "CLOSE"}
  /\ cfd \in -1 .. MaxPid /\ todo \in 0 .. Boot + MaxExtra /\ np \in 0 .. MaxPid
  /\ crashes \in 0 .. MaxCrash /\ fails \in 0 .. MaxExtra /\ adds \in 0 .. MaxExtra
  /\ fails + adds <= MaxExtra

KidsT ==
  /\ st \in [Pid -> {"none", "run", "dead", "fatal"}] /\ home \in [Pid -> 0 .. NSlots]
  /\ queue \in [Pid -> 0 .. QLen] /\ busy \in [Pid -> 0 .. Pool]
  /\ final \in [Pid -> 0 .. Interval]
  /\ \A p \in Pid : st[p] # "none" => home[p] # 0 /\ p <= np

\* The messages; an OPEN never carries the pid of a slot given up.
ChanT ==
  /\ vin \in Seq(Msg) /\ Len(vin) <= InLen /\ lost \in BOOLEAN
  /\ \A k \in DOMAIN vin : vin[k].cmd = "OPEN" => vin[k].pid # -1

ViewT ==
  /\ vpid \in [VSlot -> -1 .. MaxPid] /\ vfd \in [VSlot -> -1 .. MaxPid]
  /\ vexit \in [VSlot -> BOOLEAN] /\ vlast \in VSlot
  /\ \A i \in VSlot : vpid[i] # -1

\* A slot is sent no more requests than there were, after what it last fed back.
LoadT ==
  /\ reqs \in [VSlot -> 0 .. MaxReq + Pool]
  /\ \A i \in VSlot : reqs[i] + (IF vpc = "send" THEN 1 ELSE 0) <= Pool + rq
  /\ rq \in 0 .. MaxReq /\ vpc \in {"idle", "send"}

BlcT ==
  /\ cur \in VSlot /\ bn \in Int /\ minr \in 0 .. MaxReq + Pool
  /\ cp \in VSlot /\ cp <= Start + rq /\ calls \in 0 .. Warmup /\ users \in BOOLEAN

\* Every slot a request has tried is marked, the next one is not among them.
Loop ==
  /\ tried \subseteq VSlot
  /\ vpc = "send" => policy = "dynamic" /\ cur \notin tried /\ \A i \in tried : vexit[i]

Bound == AtMost(vin, vlast, Top)

\* What the master knows of its children, and what it has told the virtual process.
Live(s) == mpid[s] \in Pid /\ st[mpid[s]] = "run"

Known == \A s \in Slot : mpid[s] <= np /\ (exited[s] => ~Live(s))

Caught ==
  ~lost => /\ AtLeast(vin, vlast, mlast)
           /\ \A s \in Start .. mlast - 1 : Live(s) => Told(vin, vfd, s, mpid[s])

IndInv ==
  /\ MasterT /\ KidsT /\ ChanT /\ ViewT /\ LoadT /\ BlcT
  /\ Loop /\ Bound /\ Known /\ Caught
-----------------------------------------------------------------------------
(***************************************************************************)
(* Numbers and queues.                                                     *)
(***************************************************************************)
VLast == NSlots + 4 * MaxPid + MaxReq + 2

LEMMA Numbers ==
  /\ MaxPid \in Nat /\ MaxPid = Boot + MaxCrash + MaxExtra /\ VSlot = 1 .. VLast /\ VLast \in Nat
  /\ NSlots + 1 <= VLast /\ MaxReq + 2 <= VLast /\ 4 * MaxPid + 2 <= VLast
  /\ Pid = 1 .. MaxPid /\ Slot = 1 .. NSlots + 1 /\ Start = 1
  /\ NSlots \in Nat \ {0} /\ Boot \in Nat /\ QLen \in Nat /\ InLen \in Nat /\ Pool \in Nat
  /\ Interval \in Nat \ {0} /\ Warmup \in Nat \ {0} /\ MaxCrash \in Nat /\ MaxExtra \in Nat /\ MaxReq \in Nat
<1>1. MaxPid \in Nat /\ MaxPid = Boot + MaxCrash + MaxExtra
  BY DispatchAssumption DEF DispatchAssumption, MaxPid
<1> QED BY <1>1, DispatchAssumption DEF DispatchAssumption, VLast, VSlot, Pid, Slot, Start

LEMMA AddsIs == ASSUME NEW m PROVE Adds(m) \in {0, 1} /\ (m.cmd = "OPEN" => Adds(m) = 1) /\ (m.cmd # "OPEN" => Adds(m) = 0)
  BY DEF Adds

LEMMA AppendIs ==
  ASSUME NEW T, NEW q \in Seq(T), NEW m \in T
  PROVE  /\ Append(q, m) \in Seq(T) /\ Len(Append(q, m)) = Len(q) + 1 /\ Len(q) \in Nat
         /\ DOMAIN q = 1 .. Len(q) /\ DOMAIN Append(q, m) = 1 .. Len(q) + 1
         /\ \A k \in 1 .. Len(q) : Append(q, m)[k] = q[k]
         /\ Append(q, m)[Len(q) + 1] = m
  OBVIOUS

LEMMA TailIs ==
  ASSUME NEW T, NEW q \in Seq(T), q # <<>>
  PROVE  /\ Tail(q) \in Seq(T) /\ Len(Tail(q)) = Len(q) - 1 /\ Len(q) \in Nat \ {0}
         /\ DOMAIN q = 1 .. Len(q) /\ DOMAIN Tail(q) = 1 .. Len(q) - 1
         /\ \A k \in 1 .. Len(q) - 1 : Tail(q)[k] = q[k + 1]
         /\ Head(q) = q[1] /\ Head(q) \in T
  OBVIOUS

LEMMA AtMostAppend ==
  ASSUME NEW q \in Seq(Msg), NEW m \in Msg, NEW v \in Int, NEW top \in Int, NEW top2 \in Int,
         AtMost(q, v, top), top + Adds(m) <= top2
  PROVE  AtMost(q, v, top2) /\ AtMost(Append(q, m), v, top2)
<1> DEFINE n == Len(q)
           q2 == Append(q, m)
<1>1. PICK f \in [0 .. n -> Int] :
        /\ v <= f[0] /\ \A k \in 0 .. n : f[k] <= top
        /\ \A k \in 1 .. n : f[k - 1] + Adds(q[k]) <= f[k]
  BY DEF AtMost
<1>2. n \in Nat /\ Len(q2) = n + 1 /\ q2[n + 1] = m /\ \A k \in 1 .. n : q2[k] = q[k]
  BY AppendIs
<1>3. Adds(m) \in {0, 1}
  BY AddsIs
<1> DEFINE g == [k \in 0 .. n + 1 |-> IF k <= n THEN f[k] ELSE f[n] + Adds(m)]
<1> HIDE DEF n, q2
<1>4. g \in [0 .. n + 1 -> Int] /\ (\A k \in 0 .. n : g[k] = f[k]) /\ g[n + 1] = f[n] + Adds(m)
  BY <1>2, <1>3
<1> HIDE DEF g
<1>5. v <= g[0] /\ \A k \in 0 .. n + 1 : g[k] <= top2
  <2>1. \A k \in 0 .. n : f[k] \in Int /\ f[k] <= top
    BY <1>1
  <2>2. \A k \in 0 .. n : g[k] <= top2
    BY <1>3, <1>4, <2>1
  <2>3. g[n + 1] <= top2
    BY <1>2, <1>3, <1>4, <2>1
  <2> QED BY <1>1, <1>2, <1>4, <2>2, <2>3
<1>6. \A k \in 1 .. n + 1 : g[k - 1] + Adds(q2[k]) <= g[k]
  <2>1. ASSUME NEW k \in 1 .. n PROVE g[k - 1] + Adds(q2[k]) <= g[k]
    BY <1>1, <1>2, <1>4, <2>1
  <2>2. g[(n + 1) - 1] + Adds(q2[n + 1]) <= g[n + 1]
    <3>1. (n + 1) - 1 = n /\ f[n] \in Int
      BY <1>1, <1>2
    <3> QED BY <1>2, <1>3, <1>4, <3>1
  <2> QED BY <1>2, <2>1, <2>2
<1>7. AtMost(q2, v, top2)
  BY <1>2, <1>4, <1>5, <1>6 DEF AtMost
<1>8. AtMost(q, v, top2)
  <2>1. \A k \in 0 .. n : f[k] \in Int /\ f[k] <= top2
    BY <1>1, <1>3
  <2> QED BY <1>1, <2>1 DEF AtMost, n
<1> QED BY <1>7, <1>8 DEF q2

LEMMA AtMostTail ==
  ASSUME NEW q \in Seq(Msg), q # <<>>, NEW v \in Int, NEW top \in Int, AtMost(q, v, top)
  PROVE  AtMost(Tail(q), v + Adds(Head(q)), top)
<1> DEFINE n == Len(q)
           q2 == Tail(q)
<1>1. PICK f \in [0 .. n -> Int] :
        /\ v <= f[0] /\ \A k \in 0 .. n : f[k] <= top
        /\ \A k \in 1 .. n : f[k - 1] + Adds(q[k]) <= f[k]
  BY DEF AtMost
<1>2. n \in Nat \ {0} /\ Len(q2) = n - 1 /\ Head(q) = q[1] /\ \A k \in 1 .. n - 1 : q2[k] = q[k + 1]
  BY TailIs
<1>3. Adds(q[1]) \in {0, 1}
  BY AddsIs
<1> DEFINE g == [k \in 0 .. n - 1 |-> f[k + 1]]
<1> HIDE DEF n, q2
<1>4. g \in [0 .. n - 1 -> Int] /\ \A k \in 0 .. n - 1 : g[k] = f[k + 1]
  BY <1>2
<1> HIDE DEF g
<1>5. v + Adds(q[1]) <= g[0]
  <2>1. f[1 - 1] + Adds(q[1]) <= f[1] /\ f[0] \in Int /\ f[1] \in Int /\ g[0] = f[1]
    BY <1>1, <1>2, <1>4
  <2> QED BY <1>1, <1>3, <2>1
<1>6. \A k \in 0 .. n - 1 : g[k] <= top
  BY <1>1, <1>2, <1>4
<1>7. ASSUME NEW k \in 1 .. n - 1 PROVE g[k - 1] + Adds(q2[k]) <= g[k]
  <2>1. k + 1 \in 1 .. n /\ k - 1 \in 0 .. n - 1 /\ (k - 1) + 1 = k /\ (k + 1) - 1 = k
    BY <1>2
  <2>2. f[k] + Adds(q[k + 1]) <= f[k + 1]
    BY <1>1, <2>1
  <2> QED BY <1>2, <1>4, <2>1, <2>2
<1>8. AtMost(q2, v + Adds(q[1]), top)
  BY <1>2, <1>4, <1>5, <1>6, <1>7 DEF AtMost
<1> QED BY <1>2, <1>8 DEF q2

LEMMA AtMostNow ==
  ASSUME NEW q \in Seq(Msg), NEW v \in Int, NEW top \in Int, AtMost(q, v, top) PROVE v <= top
<1>1. PICK f \in [0 .. Len(q) -> Int] : v <= f[0] /\ \A k \in 0 .. Len(q) : f[k] <= top
  BY DEF AtMost
<1>2. 0 \in 0 .. Len(q)
  OBVIOUS
<1>3. f[0] <= top /\ f[0] \in Int
  BY <1>1, <1>2
<1> QED BY <1>1, <1>3

LEMMA AtLeastAppend ==
  ASSUME NEW q \in Seq(Msg), NEW m \in Msg, NEW v \in Int, NEW low \in Int, NEW low2 \in Int,
         AtLeast(q, v, low), low2 <= low + Adds(m)
  PROVE  AtLeast(Append(q, m), v, low2)
<1> DEFINE n == Len(q)
           q2 == Append(q, m)
<1>1. PICK f \in [0 .. n -> Int] :
        /\ f[0] <= v /\ low <= f[n]
        /\ \A k \in 1 .. n : f[k] <= f[k - 1] + Adds(q[k])
  BY DEF AtLeast
<1>2. n \in Nat /\ Len(q2) = n + 1 /\ q2[n + 1] = m /\ \A k \in 1 .. n : q2[k] = q[k]
  BY AppendIs
<1>3. Adds(m) \in {0, 1}
  BY AddsIs
<1> DEFINE g == [k \in 0 .. n + 1 |-> IF k <= n THEN f[k] ELSE f[n] + Adds(m)]
<1> HIDE DEF n, q2
<1>4. g \in [0 .. n + 1 -> Int] /\ (\A k \in 0 .. n : g[k] = f[k]) /\ g[n + 1] = f[n] + Adds(m)
  BY <1>2, <1>3
<1> HIDE DEF g
<1>5. g[0] <= v /\ low2 <= g[n + 1]
  <2>1. f[n] \in Int /\ g[0] = f[0]
    BY <1>1, <1>2, <1>4
  <2> QED BY <1>1, <1>3, <1>4, <2>1
<1>6. \A k \in 1 .. n + 1 : g[k] <= g[k - 1] + Adds(q2[k])
  <2>1. ASSUME NEW k \in 1 .. n PROVE g[k] <= g[k - 1] + Adds(q2[k])
    BY <1>1, <1>2, <1>4, <2>1
  <2>2. g[n + 1] <= g[(n + 1) - 1] + Adds(q2[n + 1])
    <3>1. (n + 1) - 1 = n /\ f[n] \in Int
      BY <1>1, <1>2
    <3> QED BY <1>2, <1>3, <1>4, <3>1
  <2> QED BY <1>2, <2>1, <2>2
<1>7. AtLeast(q2, v, low2)
  BY <1>2, <1>4, <1>5, <1>6 DEF AtLeast
<1> QED BY <1>7 DEF q2

LEMMA AtLeastTail ==
  ASSUME NEW q \in Seq(Msg), q # <<>>, NEW v \in Int, NEW low \in Int, AtLeast(q, v, low)
  PROVE  AtLeast(Tail(q), v + Adds(Head(q)), low)
<1> DEFINE n == Len(q)
           q2 == Tail(q)
<1>1. PICK f \in [0 .. n -> Int] :
        /\ f[0] <= v /\ low <= f[n]
        /\ \A k \in 1 .. n : f[k] <= f[k - 1] + Adds(q[k])
  BY DEF AtLeast
<1>2. n \in Nat \ {0} /\ Len(q2) = n - 1 /\ Head(q) = q[1] /\ \A k \in 1 .. n - 1 : q2[k] = q[k + 1]
  BY TailIs
<1>3. Adds(q[1]) \in {0, 1}
  BY AddsIs
<1> DEFINE g == [k \in 0 .. n - 1 |-> f[k + 1]]
<1> HIDE DEF n, q2
<1>4. g \in [0 .. n - 1 -> Int] /\ \A k \in 0 .. n - 1 : g[k] = f[k + 1]
  BY <1>2
<1> HIDE DEF g
<1>5. g[0] <= v + Adds(q[1])
  <2>1. f[1] <= f[1 - 1] + Adds(q[1]) /\ f[0] \in Int /\ f[1] \in Int /\ g[0] = f[1]
    BY <1>1, <1>2, <1>4
  <2> QED BY <1>1, <1>3, <2>1
<1>6. low <= g[n - 1]
  <2>1. n - 1 \in 0 .. n - 1 /\ (n - 1) + 1 = n
    BY <1>2
  <2> QED BY <1>1, <1>4, <2>1
<1>7. ASSUME NEW k \in 1 .. n - 1 PROVE g[k] <= g[k - 1] + Adds(q2[k])
  <2>1. k + 1 \in 1 .. n /\ k - 1 \in 0 .. n - 1 /\ (k - 1) + 1 = k /\ (k + 1) - 1 = k
    BY <1>2
  <2>2. f[k + 1] <= f[k] + Adds(q[k + 1])
    BY <1>1, <2>1
  <2> QED BY <1>2, <1>4, <2>1, <2>2
<1>8. AtLeast(q2, v + Adds(q[1]), low)
  BY <1>2, <1>4, <1>5, <1>6, <1>7 DEF AtLeast
<1> QED BY <1>2, <1>8 DEF q2

LEMMA AtLeastNow ==
  ASSUME NEW v \in Int, NEW low \in Int, AtLeast(<<>>, v, low) PROVE low <= v
<1>1. PICK f \in [0 .. 0 -> Int] : f[0] <= v /\ low <= f[0]
  BY DEF AtLeast
<1>2. f[0] \in Int
  OBVIOUS
<1> QED BY <1>1, <1>2

\* A message about another slot, or one that says the same, changes nothing; an OPEN tells.
LEMMA ToldAppend ==
  ASSUME NEW q \in Seq(Msg), NEW m \in Msg, NEW vf, NEW s, NEW p,
         \/ m.cmd = "OPEN" /\ m.slot = s /\ m.fd = p
         \/ ~Speaks(m, s) /\ Told(q, vf, s, p)
  PROVE  Told(Append(q, m), vf, s, p)
<1> DEFINE n == Len(q)
           q2 == Append(q, m)
<1>1. n \in Nat /\ DOMAIN q = 1 .. n /\ DOMAIN q2 = 1 .. n + 1 /\ q2[n + 1] = m /\ \A k \in 1 .. n : q2[k] = q[k]
  BY AppendIs
<1> HIDE DEF n, q2
<1>2. CASE m.cmd = "OPEN" /\ m.slot = s /\ m.fd = p
  <2>1. n + 1 \in DOMAIN q2 /\ \A l \in DOMAIN q2 : ~(n + 1 < l)
    BY <1>1
  <2>2. Told(q2, vf, s, p)
    BY <1>1, <1>2, <2>1 DEF Told
  <2> QED BY <2>2 DEF q2
<1>3. CASE ~Speaks(m, s) /\ vf[s] = p /\ \A l \in DOMAIN q : ~Speaks(q[l], s)
  <2>1. \A l \in DOMAIN q2 : l \in DOMAIN q \/ l = n + 1
    BY <1>1
  <2>2. \A l \in DOMAIN q2 : ~Speaks(q2[l], s)
    BY <1>1, <1>3, <2>1
  <2>3. Told(q2, vf, s, p)
    BY <1>3, <2>2 DEF Told
  <2> QED BY <2>3 DEF q2
<1>4. ASSUME ~Speaks(m, s), NEW k \in DOMAIN q, q[k].cmd = "OPEN", q[k].slot = s, q[k].fd = p,
             \A l \in DOMAIN q : k < l => ~Speaks(q[l], s)
      PROVE  Told(Append(q, m), vf, s, p)
  <2>1. k \in DOMAIN q2 /\ q2[k] = q[k] /\ \A l \in DOMAIN q2 : l \in DOMAIN q \/ l = n + 1
    BY <1>1
  <2>2. \A l \in DOMAIN q2 : k < l => ~Speaks(q2[l], s)
    BY <1>1, <1>4, <2>1
  <2>3. Told(q2, vf, s, p)
    BY <1>4, <2>1, <2>2 DEF Told
  <2> QED BY <2>3 DEF q2
<1> QED BY <1>2, <1>3, <1>4 DEF Told

\* What a message that is handled does to the descriptors.
LEMMA ToldTail ==
  ASSUME NEW q \in Seq(Msg), q # <<>>, NEW vf, NEW vf2, NEW s, NEW p, Told(q, vf, s, p),
         IF Speaks(Head(q), s) THEN Head(q).cmd = "OPEN" => vf2[s] = Head(q).fd ELSE vf2[s] = vf[s]
  PROVE  Told(Tail(q), vf2, s, p)
<1> DEFINE n == Len(q)
           q2 == Tail(q)
<1>1. /\ n \in Nat \ {0} /\ DOMAIN q = 1 .. n /\ DOMAIN q2 = 1 .. n - 1 /\ Head(q) = q[1]
      /\ \A k \in 1 .. n - 1 : q2[k] = q[k + 1]
  BY TailIs
<1> HIDE DEF n, q2
<1>2. \A l \in DOMAIN q2 : l + 1 \in DOMAIN q /\ q2[l] = q[l + 1] /\ 1 < l + 1
  BY <1>1
<1>3. CASE vf[s] = p /\ \A l \in DOMAIN q : ~Speaks(q[l], s)
  <2>1. ~Speaks(Head(q), s) /\ \A l \in DOMAIN q2 : ~Speaks(q2[l], s)
    BY <1>1, <1>2, <1>3
  <2>2. Told(q2, vf2, s, p)
    BY <1>3, <2>1 DEF Told
  <2> QED BY <2>2 DEF q2
<1>4. ASSUME NEW k \in DOMAIN q, q[k].cmd = "OPEN", q[k].slot = s, q[k].fd = p,
             \A l \in DOMAIN q : k < l => ~Speaks(q[l], s)
      PROVE  Told(Tail(q), vf2, s, p)
  <2>1. CASE k = 1
    <3>1. vf2[s] = p /\ \A l \in DOMAIN q2 : ~Speaks(q2[l], s)
      BY <1>1, <1>2, <1>4, <2>1 DEF Speaks
    <3>2. Told(q2, vf2, s, p)
      BY <3>1 DEF Told
    <3> QED BY <3>2 DEF q2
  <2>2. CASE k # 1
    <3>1. k - 1 \in DOMAIN q2 /\ q2[k - 1] = q[k]
      BY <1>1, <1>4, <2>2
    <3>2. \A l \in DOMAIN q2 : k - 1 < l => ~Speaks(q2[l], s)
      BY <1>1, <1>2, <1>4
    <3>3. Told(q2, vf2, s, p)
      BY <1>4, <3>1, <3>2 DEF Told
    <3> QED BY <3>3 DEF q2
  <2> QED BY <2>1, <2>2
<1> QED BY <1>3, <1>4 DEF Told
-----------------------------------------------------------------------------
(***************************************************************************)
(* What the actions are made of.                                           *)
(***************************************************************************)
LEMMA PushIs ==
  ASSUME NEW q \in Seq(Msg), NEW m \in Msg, Len(q) <= InLen, m.cmd = "OPEN" => m.pid # -1,
         \A k \in DOMAIN q : q[k].cmd = "OPEN" => q[k].pid # -1
  PROVE  /\ Push(q, m) \in Seq(Msg) /\ Len(Push(q, m)) <= InLen
         /\ \A k \in DOMAIN Push(q, m) : Push(q, m)[k].cmd = "OPEN" => Push(q, m)[k].pid # -1
         /\ Push(q, m) = q \/ Push(q, m) = Append(q, m)
         /\ ~(Len(Push(q, m)) < Len(q) + 1) => Push(q, m) = Append(q, m)
         /\ Len(Push(q, m)) <= Len(q) + 1
<1>1. /\ Append(q, m) \in Seq(Msg) /\ Len(Append(q, m)) = Len(q) + 1 /\ Len(q) \in Nat
      /\ DOMAIN q = 1 .. Len(q) /\ DOMAIN Append(q, m) = 1 .. Len(q) + 1
      /\ \A k \in 1 .. Len(q) : Append(q, m)[k] = q[k]
      /\ Append(q, m)[Len(q) + 1] = m
  BY AppendIs
<1>2. InLen \in Nat
  BY Numbers
<1>3. CASE Len(q) < InLen
  <2>1. Push(q, m) = Append(q, m)
    BY <1>3 DEF Push
  <2> DEFINE q2 == Append(q, m)
  <2>2. \A k \in DOMAIN q2 : k \in DOMAIN q \/ k = Len(q) + 1
    BY <1>1
  <2> HIDE DEF q2
  <2>3. \A k \in DOMAIN q2 : q2[k].cmd = "OPEN" => q2[k].pid # -1
    BY <1>1, <2>2 DEF q2
  <2>4. Len(q2) <= InLen
    BY <1>1, <1>2, <1>3 DEF q2
  <2> QED BY <1>1, <2>1, <2>3, <2>4 DEF q2
<1>4. CASE ~(Len(q) < InLen)
  <2>1. Push(q, m) = q
    BY <1>4 DEF Push
  <2>2. Len(q) < Len(q) + 1 /\ Len(q) <= Len(q) + 1
    BY <1>1
  <2> QED BY <2>1, <2>2
<1> QED BY <1>3, <1>4

LEMMA Pass1Is ==
  ASSUME ChanT, NEW m \in Msg, m.cmd = "OPEN" => m.pid # -1, Pass1(m)
  PROVE  /\ ChanT' /\ (vin' = vin \/ vin' = Append(vin, m))
         /\ ~lost' => ~lost /\ vin' = Append(vin, m)
<1>1. vin' = Push(vin, m) /\ lost' = (lost \/ Len(vin') < Len(vin) + 1)
  BY DEF Pass1
<1>2. /\ vin' \in Seq(Msg) /\ Len(vin') <= InLen
      /\ \A k \in DOMAIN vin' : vin'[k].cmd = "OPEN" => vin'[k].pid # -1
      /\ vin' = vin \/ vin' = Append(vin, m)
      /\ ~(Len(vin') < Len(vin) + 1) => vin' = Append(vin, m)
  BY <1>1, PushIs DEF ChanT
<1>3. lost' \in BOOLEAN /\ (~lost' => ~lost /\ vin' = Append(vin, m))
  BY <1>1, <1>2, Zenon DEF ChanT
<1> QED BY <1>2, <1>3 DEF ChanT

LEMMA Pass2Is ==
  ASSUME ChanT, NEW m1 \in Msg, NEW m2 \in Msg, Pass2(m1, m2),
         (m1.cmd = "OPEN" => m1.pid # -1) /\ (m2.cmd = "OPEN" => m2.pid # -1)
  PROVE  /\ ChanT'
         /\ \E q \in {vin, Append(vin, m1)} : vin' = q \/ vin' = Append(q, m2)
         /\ ~lost' => ~lost /\ vin' = Append(Append(vin, m1), m2)
<1> DEFINE q == Push(vin, m1)
<1>1. vin' = Push(q, m2) /\ lost' = (lost \/ Len(vin') < Len(vin) + 2)
  BY DEF Pass2
<1>2. /\ q \in Seq(Msg) /\ Len(q) <= InLen
      /\ \A k \in DOMAIN q : q[k].cmd = "OPEN" => q[k].pid # -1
      /\ q = vin \/ q = Append(vin, m1)
      /\ ~(Len(q) < Len(vin) + 1) => q = Append(vin, m1)
      /\ Len(q) <= Len(vin) + 1
  BY PushIs DEF ChanT
<1> HIDE DEF q
<1>3. /\ vin' \in Seq(Msg) /\ Len(vin') <= InLen
      /\ \A k \in DOMAIN vin' : vin'[k].cmd = "OPEN" => vin'[k].pid # -1
      /\ vin' = q \/ vin' = Append(q, m2)
      /\ ~(Len(vin') < Len(q) + 1) => vin' = Append(q, m2)
      /\ Len(vin') <= Len(q) + 1
  BY <1>1, <1>2, PushIs
<1>4. ASSUME ~(Len(vin') < Len(vin) + 2) PROVE vin' = Append(Append(vin, m1), m2)
  <2>1. Len(vin') \in Nat /\ Len(vin) \in Nat /\ Len(q) \in Nat
    BY <1>2, <1>3 DEF ChanT
  <2>2. ~(Len(vin') < Len(q) + 1) /\ ~(Len(q) < Len(vin) + 1)
    BY <1>2, <1>3, <1>4, <2>1
  <2> QED BY <1>2, <1>3, <2>2
<1>5. lost' \in BOOLEAN /\ (~lost' => ~lost /\ vin' = Append(Append(vin, m1), m2))
  BY <1>1, <1>4, Zenon DEF ChanT
<1>6. ChanT'
  BY <1>3, <1>5 DEF ChanT
<1>7. \E r \in {vin, Append(vin, m1)} : vin' = r \/ vin' = Append(r, m2)
  BY <1>2, <1>3
<1> QED BY <1>5, <1>6, <1>7

LEMMA MsgIs ==
  ASSUME NEW c \in {"OPEN", "CLOSE", "SIMULATION"}, NEW s \in Slot, NEW p \in -1 .. MaxPid, NEW f \in -1 .. MaxPid
  PROVE  /\ ChannelMsg(c, s, p, f) \in Msg /\ ChannelMsg(c, s, p, f).cmd = c /\ ChannelMsg(c, s, p, f).slot = s
         /\ ChannelMsg(c, s, p, f).pid = p /\ ChannelMsg(c, s, p, f).fd = f
<1>1. 0 \in 0 .. Pool
  BY Numbers
<1> QED BY <1>1 DEF ChannelMsg, Msg

LEMMA FreeSlotIs ==
  ASSUME MasterT PROVE FreeSlot \in 1 .. mlast /\ FreeSlot \notin Used
<1> DEFINE holes == {s \in Start .. mlast - 1 : mpid[s] = -1}
<1>1. mlast \in 1 .. NSlots + 1 /\ Start = 1 /\ NSlots \in Nat
  BY Numbers DEF MasterT
<1>2. CASE holes # {}
  <2>1. holes \subseteq Nat
    BY <1>1
  <2>2. Min(holes) \in holes
    <3> HIDE DEF holes
    <3> QED BY <1>2, <2>1, MinNat
  <2>3. FreeSlot = Min(holes)
    BY <1>2 DEF FreeSlot
  <2> QED BY <1>1, <2>2, <2>3 DEF Used
<1>3. CASE holes = {}
  <2>1. FreeSlot = mlast
    BY <1>3 DEF FreeSlot
  <2> QED BY <1>1, <2>1 DEF Used
<1> QED BY <1>2, <1>3

LEMMA UsedIs ==
  ASSUME MasterT PROVE IsFiniteSet(Used) /\ Cardinality(Used) \in Nat /\ Top \in Int /\ Top <= VLast - 1
<1>1. IsFiniteSet(Start .. mlast - 1)
  BY FS_Interval, Numbers DEF MasterT
<1>2. Used \in SUBSET (Start .. mlast - 1)
  BY DEF Used
<1>3. IsFiniteSet(Used)
  BY <1>1, <1>2, FS_Subset
<1>4. Cardinality(Used) \in Nat
  BY <1>3, FS_CardinalityType
<1> DEFINE n == Cardinality(Used)
<1> HIDE DEF n
<1>5. n \in Nat
  BY <1>4 DEF n
<1>6. Top = Start + 3 * np + (Boot + adds - todo) + fails - n
  BY DEF Top, n
<1>7. np \in Nat /\ np <= MaxPid /\ todo \in Nat /\ fails \in Nat /\ adds \in Nat /\ fails + adds <= MaxExtra
  BY Numbers DEF MasterT
<1>8. Top \in Int /\ Top <= VLast - 1
  BY <1>5, <1>6, <1>7, Numbers
<1> QED BY <1>3, <1>4, <1>8

\* A new child.
LEMMA ForkIs ==
  ASSUME MasterT, KidsT, Known, NEW s \in 1 .. NSlots, Fork(s)
  PROVE  /\ KidsT' /\ Known'
         /\ mpid' \in [Slot -> -1 .. MaxPid] /\ mopen' \in [Slot -> BOOLEAN] /\ exited' \in [Slot -> BOOLEAN]
         /\ pslot' \in 0 .. NSlots /\ np' \in 0 .. MaxPid /\ np' = np + 1 /\ np + 1 \in Pid /\ fails' = fails
         /\ mpid'[s] = np + 1 /\ s \in Slot
         /\ \A t \in Slot : t # s => mpid'[t] = mpid[t] /\ (Live(t)' => Live(t))
<1>1. np \in Nat /\ np < MaxPid /\ MaxPid \in Nat /\ np + 1 \in Pid /\ Pid = 1 .. MaxPid /\ s \in Slot /\ s # 0
  BY Numbers DEF MasterT, Fork
<1>2. /\ np' = np + 1 /\ mpid' = [mpid EXCEPT ![s] = np + 1] /\ mopen' = [mopen EXCEPT ![s] = TRUE]
      /\ exited' = [exited EXCEPT ![s] = FALSE] /\ pslot' = s
      /\ st' = [st EXCEPT ![np + 1] = "run"] /\ home' = [home EXCEPT ![np + 1] = s]
      /\ UNCHANGED <<queue, busy, final, fails>>
  BY DEF Fork
<1>3. /\ mpid' \in [Slot -> -1 .. MaxPid] /\ mopen' \in [Slot -> BOOLEAN] /\ exited' \in [Slot -> BOOLEAN]
      /\ pslot' \in 0 .. NSlots /\ np' \in 0 .. MaxPid /\ mpid'[s] = np + 1 /\ exited'[s] = FALSE
      /\ \A t \in Slot : t # s => mpid'[t] = mpid[t] /\ exited'[t] = exited[t]
  BY <1>1, <1>2, Numbers DEF MasterT
<1>4. /\ st' \in [Pid -> {"none", "run", "dead", "fatal"}] /\ home' \in [Pid -> 0 .. NSlots]
      /\ home'[np + 1] = s /\ \A p \in Pid : p # np + 1 => st'[p] = st[p] /\ home'[p] = home[p]
  BY <1>1, <1>2 DEF KidsT
<1>5. ASSUME NEW p \in Pid, st'[p] # "none" PROVE home'[p] # 0 /\ p <= np'
  <2>1. CASE p = np + 1
    BY <1>1, <1>2, <1>4, <2>1
  <2>2. CASE p # np + 1
    <3>1. home[p] # 0 /\ p <= np
      BY <1>4, <1>5, <2>2 DEF KidsT
    <3> QED BY <1>1, <1>2, <1>4, <2>2, <3>1
  <2> QED BY <2>1, <2>2
<1>6. KidsT'
  BY <1>2, <1>4, <1>5 DEF KidsT
<1>7. ASSUME NEW t \in Slot, t # s PROVE mpid'[t] = mpid[t] /\ (Live(t)' <=> Live(t)) /\ mpid'[t] <= np'
  <2>1. mpid[t] <= np /\ mpid[t] \in Int
    BY DEF Known, MasterT
  <2>2. mpid[t] # np + 1 /\ mpid[t] <= np + 1
    BY <1>1, <2>1
  <2> QED BY <1>2, <1>3, <1>4, <1>7, <2>2 DEF Live
<1>8. Known'
  <2>1. ASSUME NEW t \in Slot PROVE mpid'[t] <= np' /\ (exited'[t] => ~Live(t)')
    <3>1. CASE t = s
      BY <1>1, <1>2, <1>3, <3>1
    <3>2. CASE t # s
      BY <1>3, <1>7, <3>2 DEF Known
    <3> QED BY <3>1, <3>2
  <2> QED BY <2>1 DEF Known
<1> QED BY <1>1, <1>2, <1>3, <1>6, <1>7, <1>8

\* The live process with the fewest requests exists if any is live.
LEMMA UpdateIs ==
  ASSUME NEW ve, NEW rs \in [VSlot -> 0 .. MaxReq + Pool], NEW vl \in VSlot, Update(ve, rs, vl)
  PROVE  /\ bn' \in Nat /\ cur' \in VSlot /\ minr' = rs[cur']
         /\ bn' # 0 => ~ve[cur']
         /\ bn' = 0 => Pros(ve, vl) = {}
<1> DEFINE pros == Pros(ve, vl)
           least == {i \in pros : \A j \in pros : rs[i] <= rs[j]}
           c == IF pros = {} THEN Start ELSE Min(least)
<1>1. bn' = Cardinality(pros) /\ cur' = c /\ minr' = rs[c]
  BY DEF Update
<1>2. vl \in 1 .. VLast /\ VLast \in Nat /\ VSlot = 1 .. VLast /\ Start = 1 /\ MaxReq + Pool \in Nat
  BY Numbers
<1>3. pros \in SUBSET (Start .. vl - 1) /\ pros \subseteq VSlot /\ \A i \in pros : ~ve[i]
  BY <1>2 DEF Pros
<1> HIDE DEF pros
<1>4. IsFiniteSet(pros) /\ Cardinality(pros) \in Nat /\ (Cardinality(pros) = 0 <=> pros = {})
  <2>1. IsFiniteSet(Start .. vl - 1)
    BY <1>2, FS_Interval
  <2>2. IsFiniteSet(pros)
    BY <1>3, <2>1, FS_Subset
  <2> QED BY <2>2, FS_CardinalityType, FS_EmptySet
<1>5. pros \subseteq Nat /\ \A i \in pros : rs[i] \in Nat
  BY <1>2, <1>3
<1>6. ASSUME pros # {} PROVE Min(least) \in pros
  <2> DEFINE V == {rs[i] : i \in pros}
  <2>1. V \subseteq Nat
    BY <1>5
  <2>2. V # {}
    BY <1>6
  <2>3. Min(V) \in V /\ \A y \in V : Min(V) <= y
    <3> HIDE DEF V
    <3> QED BY <2>1, <2>2, MinNat
  <2>4. PICK i \in pros : rs[i] = Min(V)
    BY <2>3
  <2>5. i \in least
    BY <2>3, <2>4
  <2>6. least \subseteq pros
    OBVIOUS
  <2>7. least \subseteq Nat
    BY <1>5, <2>6
  <2> HIDE DEF least
  <2> QED BY <2>5, <2>6, <2>7, MinNat
<1>7. Start \in VSlot
  BY <1>2
<1> DEFINE lo == Min(least)
<1>8. c = IF pros = {} THEN Start ELSE lo
  OBVIOUS
<1>9. pros # {} => lo \in pros
  BY <1>6
<1> HIDE DEF c, lo, least
<1>10. c \in VSlot /\ (pros # {} => ~ve[c])
  BY <1>3, <1>7, <1>8, <1>9
<1> QED BY <1>1, <1>4, <1>10 DEF pros
-----------------------------------------------------------------------------
(***************************************************************************)
(* What an action leaves alone.                                            *)
(***************************************************************************)
TopInt == MasterT => Top \in Int

LEMMA TopIsInt == TopInt
  BY UsedIs DEF TopInt

LEMMA TopIsIntNext == MasterT' => Top' \in Int
<1>1. TopInt'
  BY TopIsInt, PTL
<1> QED BY <1>1 DEF TopInt

LEMMA VirtualSame ==
  ASSUME ViewT, LoadT, BlcT, Loop, UNCHANGED <<view, blc, policy>>
  PROVE  ViewT' /\ LoadT' /\ BlcT' /\ Loop' /\ vfd' = vfd /\ vlast' = vlast /\ vlast \in Int
<1>1. UNCHANGED <<vpid, vfd, vexit, reqs, vlast, cur, bn, minr, cp, calls, users, vpc, tried, rq, policy>>
  BY DEF view, blc
<1>2. ViewT' /\ LoadT'
  BY <1>1 DEF ViewT, LoadT
<1>3. BlcT' /\ Loop'
  BY <1>1 DEF BlcT, Loop
<1> QED BY <1>1, <1>2, <1>3, Numbers DEF ViewT

LEMMA MasterSame ==
  ASSUME MasterT, Known, UNCHANGED <<master, st>>
  PROVE  /\ MasterT' /\ Known' /\ Top' = Top /\ mlast' = mlast
         /\ \A s \in Slot : mpid'[s] = mpid[s] /\ (Live(s)' <=> Live(s))
<1>1. UNCHANGED <<mpid, mopen, exited, mlast, pslot, mpc, ri, cmd, cfd, todo, np, crashes, fails, adds, st>>
  BY DEF master
<1>2. Used' = Used
  BY <1>1 DEF Used
<1>3. \A s \in Slot : mpid'[s] = mpid[s] /\ (Live(s)' <=> Live(s))
  BY <1>1 DEF Live
<1>4. Top' = Top
  BY <1>1, <1>2 DEF Top
<1> QED BY <1>1, <1>3, <1>4 DEF MasterT, Known

LEMMA AtMostMore ==
  ASSUME NEW q \in Seq(Msg), NEW v \in Int, NEW top \in Int, NEW top2 \in Int, AtMost(q, v, top), top <= top2
  PROVE  AtMost(q, v, top2)
<1>1. PICK f \in [0 .. Len(q) -> Int] :
        /\ v <= f[0] /\ \A k \in 0 .. Len(q) : f[k] <= top
        /\ \A k \in 1 .. Len(q) : f[k - 1] + Adds(q[k]) <= f[k]
  BY DEF AtMost
<1>2. \A k \in 0 .. Len(q) : f[k] \in Int /\ f[k] <= top2
  BY <1>1
<1> QED BY <1>1, <1>2 DEF AtMost

\* A step that sends the virtual process nothing and starts no child.
LEMMA Quiet ==
  ASSUME IndInv, UNCHANGED <<vin, lost, vfd, vlast>>,
         MasterT', KidsT', ViewT', LoadT', BlcT', Loop', Known', Top <= Top', mlast' = mlast,
         \A s \in Slot : Live(s)' => Live(s) /\ mpid'[s] = mpid[s]
  PROVE  IndInv'
<1>1. ChanT'
  BY DEF IndInv, ChanT
<1>2. Top \in Int /\ Top' \in Int /\ vlast \in Int
  <2>1. MasterT /\ vlast \in VSlot
    BY DEF IndInv, ViewT
  <2>2. Top \in Int
    BY <2>1, UsedIs
  <2>3. Top' \in Int
    BY TopIsIntNext
  <2> QED BY <2>1, <2>2, <2>3, Numbers
<1>3. Bound'
  <2>1. AtMost(vin, vlast, Top')
    BY <1>2, AtMostMore DEF IndInv, Bound, ChanT
  <2> QED BY <2>1 DEF Bound
<1>4. Caught'
  <2>1. ASSUME ~lost' PROVE /\ AtLeast(vin', vlast', mlast')
                            /\ \A s \in Start .. mlast' - 1 : Live(s)' => Told(vin', vfd', s, mpid'[s])
    <3>1. AtLeast(vin, vlast, mlast) /\ \A s \in Start .. mlast - 1 : Live(s) => Told(vin, vfd, s, mpid[s])
      BY <2>1 DEF IndInv, Caught
    <3>2. \A s \in Start .. mlast - 1 : s \in Slot
      BY Numbers DEF IndInv, MasterT
    <3> QED BY <3>1, <3>2
  <2> QED BY <2>1 DEF Caught
<1> QED BY <1>1, <1>3, <1>4 DEF IndInv

\* A step of the master that sends the virtual process message m.
LEMMA Tell ==
  ASSUME IndInv, NEW m \in Msg, m.cmd = "OPEN" => m.pid # -1, Pass1(m), UNCHANGED <<view, blc, policy>>,
         MasterT', KidsT', Known', Top + 1 <= Top', mlast' <= mlast + Adds(m),
         \A s \in Start .. mlast' - 1 : Live(s)' =>
           \/ m.cmd = "OPEN" /\ m.slot = s /\ m.fd = mpid'[s]
           \/ s < mlast /\ Live(s) /\ mpid'[s] = mpid[s] /\ m.slot # s
  PROVE  IndInv'
<1>1. /\ ChanT' /\ (vin' = vin \/ vin' = Append(vin, m))
      /\ ~lost' => ~lost /\ vin' = Append(vin, m)
  BY Pass1Is DEF IndInv
<1>2. ViewT' /\ LoadT' /\ BlcT' /\ Loop' /\ vfd' = vfd /\ vlast' = vlast /\ vlast \in Int
  BY VirtualSame DEF IndInv
<1>3. Top \in Int /\ Top' \in Int /\ Adds(m) \in {0, 1}
  <2>1. Top \in Int
    BY UsedIs DEF IndInv
  <2>2. Top' \in Int
    BY TopIsIntNext
  <2> QED BY <2>1, <2>2, AddsIs
<1>4. Bound'
  <2>1. Top + Adds(m) <= Top'
    BY <1>3
  <2>2. AtMost(vin, vlast, Top') /\ AtMost(Append(vin, m), vlast, Top')
    BY <1>2, <1>3, <2>1, AtMostAppend DEF IndInv, Bound, ChanT
  <2> QED BY <1>1, <1>2, <2>2 DEF Bound
<1>5. ASSUME ~lost' PROVE AtLeast(vin', vlast', mlast')
  <2>1. mlast \in Int /\ mlast' \in Int
    BY Numbers DEF IndInv, MasterT
  <2>2. AtLeast(vin, vlast, mlast)
    BY <1>1, <1>5 DEF IndInv, Caught
  <2>3. AtLeast(Append(vin, m), vlast, mlast')
    BY <1>2, <2>1, <2>2, AtLeastAppend DEF IndInv, ChanT
  <2> QED BY <1>1, <1>2, <1>5, <2>3
<1>6. ASSUME ~lost', NEW s \in Start .. mlast' - 1, Live(s)' PROVE Told(vin', vfd', s, mpid'[s])
  <2> DEFINE p == mpid'[s]
  <2>1. \/ m.cmd = "OPEN" /\ m.slot = s /\ m.fd = p
        \/ ~Speaks(m, s) /\ Told(vin, vfd, s, p)
    <3>1. CASE m.cmd = "OPEN" /\ m.slot = s /\ m.fd = p
      BY <3>1
    <3>2. CASE s < mlast /\ Live(s) /\ mpid'[s] = mpid[s] /\ m.slot # s
      <4>1. s \in Start .. mlast - 1
        BY <3>2, Numbers DEF IndInv, MasterT
      <4>2. Told(vin, vfd, s, mpid[s])
        BY <1>1, <1>6, <3>2, <4>1 DEF IndInv, Caught
      <4> QED BY <3>2, <4>2 DEF Speaks
    <3> QED BY <1>6, <3>1, <3>2
  <2> HIDE DEF p
  <2>2. Told(Append(vin, m), vfd, s, p)
    BY <2>1, ToldAppend DEF IndInv, ChanT
  <2> QED BY <1>1, <1>2, <1>6, <2>2 DEF p
<1>7. Caught'
  BY <1>5, <1>6 DEF Caught
<1> QED BY <1>1, <1>2, <1>4, <1>7 DEF IndInv
-----------------------------------------------------------------------------
(***************************************************************************)
(* The master.                                                             *)
(***************************************************************************)
Nums ==
  /\ mlast \in 1 .. NSlots + 1 /\ ri \in 1 .. NSlots + 1 /\ pslot \in 0 .. NSlots /\ np \in Nat /\ np <= MaxPid
  /\ todo \in Nat /\ todo <= Boot + MaxExtra /\ fails \in Nat /\ adds \in Nat /\ fails + adds <= MaxExtra
  /\ Start = 1 /\ NSlots \in Nat /\ NSlots # 0 /\ MaxPid \in Nat /\ MaxExtra \in Nat /\ Boot \in Nat
  /\ Slot = 1 .. NSlots + 1 /\ Pid = 1 .. MaxPid /\ \A s \in Slot : mpid[s] \in -1 .. MaxPid

LEMMA MasterNums == ASSUME MasterT PROVE Nums
  BY Numbers DEF MasterT, Nums

LEMMA StartTrafficInv == ASSUME IndInv, StartTraffic, UNCHANGED policy PROVE IndInv'
<1> DEFINE s == FreeSlot
           m == ChannelMsg("OPEN", s, np + 1, np + 1)
<1>1. MasterT /\ KidsT /\ Known
  BY DEF IndInv
<1>0. Nums
  BY <1>1, MasterNums
<1>2. /\ mpc = "idle" /\ todo > 0 /\ s <= NSlots /\ todo' = todo - 1 /\ Fork(s)
      /\ mlast' = (IF s = mlast THEN mlast + 1 ELSE mlast) /\ Pass1(m)
      /\ UNCHANGED <<mpc, ri, cmd, cfd, crashes, adds, view, blc>>
  BY DEF StartTraffic
<1>3. s \in 1 .. mlast /\ s \notin Used
  BY <1>1, FreeSlotIs
<1> HIDE DEF s
<1>4. s \in 1 .. NSlots
  BY <1>0, <1>2, <1>3 DEF Nums
<1>5. /\ KidsT' /\ Known'
      /\ mpid' \in [Slot -> -1 .. MaxPid] /\ mopen' \in [Slot -> BOOLEAN] /\ exited' \in [Slot -> BOOLEAN]
      /\ pslot' \in 0 .. NSlots /\ np' \in 0 .. MaxPid /\ np' = np + 1 /\ np + 1 \in Pid /\ fails' = fails
      /\ mpid'[s] = np + 1 /\ s \in Slot
      /\ \A t \in Slot : t # s => mpid'[t] = mpid[t] /\ (Live(t)' => Live(t))
  BY <1>1, <1>2, <1>4, ForkIs
<1>6. mlast' \in Slot /\ mlast' <= mlast + 1 /\ \A t \in Start .. mlast' - 1 : t \in Slot /\ (t # s => t \in Start .. mlast - 1)
  BY <1>0, <1>2, <1>3, <1>4 DEF Nums
<1>7. MasterT'
  <2>1. todo' \in 0 .. Boot + MaxExtra
    BY <1>0, <1>2 DEF Nums
  <2> QED BY <1>1, <1>2, <1>5, <1>6, <2>1 DEF MasterT
<1>8. Used' = Used \cup {s}
  <2>1. \A t : t \in Used' => t \in Used \cup {s}
    <3> SUFFICES ASSUME NEW t \in Used', t # s PROVE t \in Used
      OBVIOUS
    <3>1. t \in Start .. mlast' - 1 /\ mpid'[t] # -1
      BY DEF Used
    <3> QED BY <1>5, <1>6, <3>1 DEF Used
  <2>2. s \in Used'
    <3>1. s \in Start .. mlast' - 1 /\ np + 1 # -1
      BY <1>0, <1>2, <1>3, <1>4 DEF Nums
    <3> QED BY <1>5, <3>1 DEF Used
  <2>3. ASSUME NEW t \in Used PROVE t \in Used'
    <3>1. t \in Start .. mlast - 1 /\ mpid[t] # -1 /\ t # s
      BY <1>3 DEF Used
    <3>2. t \in Slot /\ t \in Start .. mlast' - 1
      BY <1>0, <1>2, <3>1 DEF Nums
    <3> QED BY <1>5, <3>1, <3>2 DEF Used
  <2> QED BY <2>1, <2>2, <2>3
<1>9. Top + 1 <= Top'
  <2> DEFINE n == Cardinality(Used)
  <2>1. n \in Nat /\ Cardinality(Used') = n + 1
    BY <1>1, <1>3, <1>8, UsedIs, FS_AddElement
  <2> HIDE DEF n
  <2>2. /\ Top = Start + 3 * np + (Boot + adds - todo) + fails - n
        /\ Top' = Start + 3 * np' + (Boot + adds' - todo') + fails' - (n + 1)
    BY <2>1 DEF Top, n
  <2> QED BY <1>0, <1>2, <1>5, <2>1, <2>2 DEF Nums
<1>10. m \in Msg /\ m.cmd = "OPEN" /\ m.slot = s /\ m.pid = np + 1 /\ m.fd = np + 1
  <2>1. np + 1 \in -1 .. MaxPid
    BY <1>0, <1>5 DEF Nums
  <2> QED BY <1>5, <2>1, MsgIs
<1> HIDE DEF m
<1>11. m.pid # -1 /\ mlast' <= mlast + Adds(m)
  BY <1>0, <1>6, <1>10, AddsIs DEF Nums
<1>12. \A t \in Start .. mlast' - 1 : Live(t)' =>
           \/ m.cmd = "OPEN" /\ m.slot = t /\ m.fd = mpid'[t]
           \/ t < mlast /\ Live(t) /\ mpid'[t] = mpid[t] /\ m.slot # t
  <2> SUFFICES ASSUME NEW t \in Start .. mlast' - 1, Live(t)', t # s
               PROVE  t < mlast /\ Live(t) /\ mpid'[t] = mpid[t]
    BY <1>5, <1>10
  <2>1. t \in Slot /\ t \in Start .. mlast - 1
    BY <1>6
  <2>2. t < mlast
    BY <1>0, <2>1 DEF Nums
  <2> QED BY <1>5, <2>1, <2>2
<1>13. UNCHANGED <<view, blc, policy>>
  BY <1>2
<1> QED BY <1>2, <1>5, <1>7, <1>9, <1>10, <1>11, <1>12, <1>13, Tell

LEMMA StartTrafficFailsInv == ASSUME IndInv, StartTrafficFails, UNCHANGED policy PROVE IndInv'
<1>1. MasterT /\ KidsT /\ Known /\ ViewT /\ LoadT /\ BlcT /\ Loop
  BY DEF IndInv
<1>0. Nums
  BY <1>1, MasterNums
<1>2. /\ mpc = "idle" /\ todo > 0 /\ (fails' = IF FreeSlot <= NSlots THEN fails + 1 ELSE fails)
      /\ fails' + adds <= MaxExtra /\ todo' = todo - 1
      /\ UNCHANGED <<mpid, mopen, exited, mlast, mpc, ri, cmd, cfd, np, crashes, adds, kids, view, blc>>
  BY DEF StartTrafficFails
<1>3. UNCHANGED <<st, home, queue, busy, final>>
  BY <1>2 DEF kids
<1>4. FreeSlot \in 1 .. mlast
  BY <1>1, FreeSlotIs
<1>5. pslot' = pslot \/ (pslot' = FreeSlot /\ FreeSlot <= NSlots)
  BY DEF StartTrafficFails
<1>6. fails' \in Nat /\ fails <= fails' /\ todo' \in Nat /\ todo' <= Boot + MaxExtra
  BY <1>0, <1>2, <1>4 DEF Nums
<1>7. MasterT'
  <2>1. pslot' \in 0 .. NSlots
    BY <1>0, <1>4, <1>5 DEF Nums
  <2>2. fails' \in 0 .. MaxExtra /\ todo' \in 0 .. Boot + MaxExtra
    BY <1>0, <1>2, <1>6 DEF Nums
  <2> QED BY <1>1, <1>2, <2>1, <2>2 DEF MasterT
<1>8. KidsT' /\ Known'
  BY <1>1, <1>2, <1>3 DEF KidsT, Known, Live
<1>9. Top + 1 <= Top'
  <2> DEFINE n == Cardinality(Used)
  <2>1. n \in Nat /\ Used' = Used
    BY <1>1, <1>2, UsedIs DEF Used
  <2> HIDE DEF n
  <2>2. /\ Top = Start + 3 * np + (Boot + adds - todo) + fails - n
        /\ Top' = Start + 3 * np + (Boot + adds - todo') + fails' - n
    BY <1>2, <2>1 DEF Top, n
  <2> QED BY <1>0, <1>2, <1>6, <2>1, <2>2 DEF Nums
<1>10. \A t \in Slot : mpid'[t] = mpid[t] /\ (Live(t)' <=> Live(t))
  BY <1>2, <1>3 DEF Live
<1>11. CASE UNCHANGED <<vin, lost>>
  <2>1. ViewT' /\ LoadT' /\ BlcT' /\ Loop' /\ vfd' = vfd /\ vlast' = vlast
    BY <1>1, <1>2, VirtualSame
  <2>2. Top <= Top'
    <3>1. Top \in Int /\ Top' \in Int
      BY <1>1, <1>7, UsedIs, TopIsIntNext
    <3> QED BY <1>9, <3>1
  <2> QED BY <1>2, <1>7, <1>8, <1>10, <1>11, <2>1, <2>2, Quiet
<1>12. CASE pslot # 0 /\ mpid[pslot] \in Pid /\ Pass1(ChannelMsg("OPEN", pslot, mpid[pslot], mpid[pslot]))
  <2> DEFINE m == ChannelMsg("OPEN", pslot, mpid[pslot], mpid[pslot])
  <2>1. pslot \in Slot /\ mpid[pslot] \in -1 .. MaxPid /\ mpid[pslot] # -1
    BY <1>0, <1>12 DEF Nums
  <2>2. m \in Msg /\ m.cmd = "OPEN" /\ m.slot = pslot /\ m.pid = mpid[pslot] /\ m.fd = mpid[pslot]
    BY <2>1, MsgIs
  <2>3. Pass1(m)
    BY <1>12
  <2> HIDE DEF m
  <2>4. m.pid # -1 /\ mlast' <= mlast + Adds(m)
    BY <1>0, <1>2, <2>1, <2>2, AddsIs DEF Nums
  <2>5. \A t \in Start .. mlast' - 1 : Live(t)' =>
           \/ m.cmd = "OPEN" /\ m.slot = t /\ m.fd = mpid'[t]
           \/ t < mlast /\ Live(t) /\ mpid'[t] = mpid[t] /\ m.slot # t
    <3>1. \A t \in Start .. mlast' - 1 : t \in Slot /\ t < mlast
      BY <1>0, <1>2 DEF Nums
    <3> QED BY <1>10, <2>2, <3>1
  <2>6. UNCHANGED <<view, blc, policy>>
    BY <1>2
  <2> QED BY <1>7, <1>8, <1>9, <2>2, <2>3, <2>4, <2>5, <2>6, Tell
<1> QED BY <1>11, <1>12 DEF StartTrafficFails

LEMMA SigAddInv == ASSUME IndInv, SigAdd, UNCHANGED policy PROVE IndInv'
<1>1. MasterT /\ KidsT /\ Known /\ ViewT /\ LoadT /\ BlcT /\ Loop
  BY DEF IndInv
<1>0. Nums
  BY <1>1, MasterNums
<1>2. /\ todo = 0 /\ fails + adds < MaxExtra /\ adds' = adds + 1 /\ todo' = 1
      /\ UNCHANGED <<mpid, mopen, exited, mlast, pslot, mpc, ri, cmd, cfd, np, crashes, fails,
                     kids, vin, lost, view, blc>>
  BY DEF SigAdd
<1>3. UNCHANGED <<st, home, queue, busy, final>>
  BY <1>2 DEF kids
<1>4. adds' \in 0 .. MaxExtra /\ todo' \in 0 .. Boot + MaxExtra /\ fails' + adds' <= MaxExtra
  BY <1>0, <1>2 DEF Nums
<1>5. MasterT'
  BY <1>1, <1>2, <1>4 DEF MasterT
<1>6. KidsT' /\ Known'
  BY <1>1, <1>2, <1>3 DEF KidsT, Known, Live
<1>7. Top <= Top'
  <2> DEFINE n == Cardinality(Used)
  <2>1. n \in Nat /\ Used' = Used
    BY <1>1, <1>2, UsedIs DEF Used
  <2> HIDE DEF n
  <2>2. /\ Top = Start + 3 * np + (Boot + adds - todo) + fails - n
        /\ Top' = Start + 3 * np + (Boot + adds' - todo') + fails - n
    BY <1>2, <2>1 DEF Top, n
  <2> QED BY <1>0, <1>2, <2>1, <2>2 DEF Nums
<1>8. \A t \in Slot : Live(t)' => Live(t) /\ mpid'[t] = mpid[t]
  BY <1>2, <1>3 DEF Live
<1>9. ViewT' /\ LoadT' /\ BlcT' /\ Loop' /\ vfd' = vfd /\ vlast' = vlast
  BY <1>1, <1>2, VirtualSame
<1> QED BY <1>2, <1>5, <1>6, <1>7, <1>8, <1>9, Quiet

LEMMA PassSimulationInv == ASSUME IndInv, PassSimulation, UNCHANGED policy PROVE IndInv'
<1> DEFINE m == ChannelMsg("SIMULATION", Start, -1, -1)
<1>1. MasterT /\ KidsT /\ Known /\ ViewT /\ LoadT /\ BlcT /\ Loop /\ ChanT /\ Bound /\ Caught
  BY DEF IndInv
<1>2. Len(vin) < InLen /\ vin' = Append(vin, m) /\ UNCHANGED <<master, kids, lost, view, blc>>
  BY DEF PassSimulation
<1>3. UNCHANGED <<st, home, queue, busy, final>>
  BY <1>2 DEF kids
<1>4. /\ MasterT' /\ Known' /\ Top' = Top /\ mlast' = mlast
      /\ \A s \in Slot : mpid'[s] = mpid[s] /\ (Live(s)' <=> Live(s))
  BY <1>1, <1>2, <1>3, MasterSame
<1>5. ViewT' /\ LoadT' /\ BlcT' /\ Loop' /\ vfd' = vfd /\ vlast' = vlast /\ vlast \in Int
  BY <1>1, <1>2, VirtualSame
<1>6. KidsT'
  BY <1>1, <1>3, <1>4, <1>2 DEF KidsT, master
<1>7. m \in Msg /\ m.cmd = "SIMULATION" /\ Adds(m) = 0
  <2>1. Start \in Slot /\ -1 \in -1 .. MaxPid
    BY Numbers
  <2>2. m \in Msg /\ m.cmd = "SIMULATION"
    BY <2>1, MsgIs
  <2> HIDE DEF m
  <2> QED BY <2>2, AddsIs
<1> HIDE DEF m
<1>8. vin' = Push(vin, m)
  BY <1>2 DEF Push
<1>9. ChanT'
  <2>1. /\ vin' \in Seq(Msg) /\ Len(vin') <= InLen
        /\ \A k \in DOMAIN vin' : vin'[k].cmd = "OPEN" => vin'[k].pid # -1
    BY <1>1, <1>7, <1>8, PushIs DEF ChanT
  <2> QED BY <1>1, <1>2, <2>1 DEF ChanT
<1>10. Bound'
  <2>1. Top \in Int /\ Top + Adds(m) <= Top
    BY <1>1, <1>7, UsedIs
  <2>2. AtMost(Append(vin, m), vlast, Top)
    BY <1>1, <1>5, <1>7, <2>1, AtMostAppend DEF Bound, ChanT
  <2> QED BY <1>2, <1>4, <1>5, <2>2 DEF Bound
<1>11. ASSUME ~lost' PROVE AtLeast(vin', vlast', mlast')
  <2>1. mlast \in Int /\ mlast <= mlast + Adds(m)
    BY <1>1, <1>7, Numbers DEF MasterT
  <2>2. AtLeast(vin, vlast, mlast)
    BY <1>1, <1>2, <1>11 DEF Caught
  <2>3. AtLeast(Append(vin, m), vlast, mlast)
    BY <1>1, <1>5, <1>7, <2>1, <2>2, AtLeastAppend DEF ChanT
  <2> QED BY <1>2, <1>4, <1>5, <2>3
<1>12. ASSUME ~lost', NEW s \in Start .. mlast' - 1, Live(s)' PROVE Told(vin', vfd', s, mpid'[s])
  <2>1. s \in Slot /\ s \in Start .. mlast - 1
    BY <1>1, <1>4, Numbers DEF MasterT
  <2>2. Told(vin, vfd, s, mpid[s]) /\ ~Speaks(m, s)
    BY <1>1, <1>2, <1>4, <1>7, <1>12, <2>1 DEF Caught, Speaks
  <2>3. Told(Append(vin, m), vfd, s, mpid[s])
    BY <1>1, <1>7, <2>2, ToldAppend DEF ChanT
  <2> QED BY <1>2, <1>4, <1>5, <2>1, <2>3
<1>13. Caught'
  BY <1>11, <1>12 DEF Caught
<1> QED BY <1>4, <1>5, <1>6, <1>9, <1>10, <1>13 DEF IndInv

\* The steps of a reap pass that tell nothing.
LEMMA ReapQuiet ==
  ASSUME IndInv, UNCHANGED <<mpid, mopen, mlast, pslot, todo, np, crashes, fails, adds, kids, vin, lost, view, blc, policy>>,
         exited' \in [Slot -> BOOLEAN], mpc' \in {"idle", "reap"}, ri' \in Slot, cmd' \in {"OPEN", "CLOSE"},
         cfd' \in -1 .. MaxPid, \A s \in Slot : exited'[s] => exited[s] \/ ~Live(s)
  PROVE  IndInv'
<1>1. MasterT /\ KidsT /\ Known /\ ViewT /\ LoadT /\ BlcT /\ Loop
  BY DEF IndInv
<1>2. UNCHANGED <<st, home, queue, busy, final>>
  BY DEF kids
<1>3. MasterT'
  BY <1>1 DEF MasterT
<1>4. \A s \in Slot : mpid'[s] = mpid[s] /\ (Live(s)' <=> Live(s))
  BY <1>2 DEF Live
<1>5. KidsT'
  BY <1>1, <1>2 DEF KidsT
<1>6. Known'
  BY <1>1, <1>4 DEF Known
<1>7. Top <= Top'
  <2>1. Top' = Top /\ Top \in Int
    BY <1>1, UsedIs DEF Top, Used
  <2> QED BY <2>1
<1>8. ViewT' /\ LoadT' /\ BlcT' /\ Loop' /\ vfd' = vfd /\ vlast' = vlast
  BY <1>1, VirtualSame
<1> QED BY <1>3, <1>4, <1>5, <1>6, <1>7, <1>8, Quiet

LEMMA ReapStartInv == ASSUME IndInv, ReapStart, UNCHANGED policy PROVE IndInv'
<1> DEFINE dead == {s \in Start .. mlast - 1 : mpid[s] \in Pid /\ st[mpid[s]] # "run"}
<1>1. /\ exited' = [s \in Slot |-> exited[s] \/ s \in dead] /\ mpc' = "reap" /\ ri' = Start /\ cmd' = "CLOSE" /\ cfd' = -1
      /\ UNCHANGED <<mpid, mopen, mlast, pslot, todo, np, crashes, fails, adds, kids, vin, lost, view, blc>>
  BY DEF ReapStart
<1>2. \A s \in dead : ~Live(s)
  BY DEF Live
<1> HIDE DEF dead
<1>3. exited \in [Slot -> BOOLEAN] /\ Start \in Slot /\ -1 \in -1 .. MaxPid
  BY Numbers DEF IndInv, MasterT
<1>4. exited' \in [Slot -> BOOLEAN]
  BY <1>1, Zenon
<1>5. \A s \in Slot : exited'[s] => exited[s] \/ ~Live(s)
  BY <1>1, <1>2
<1> QED BY <1>1, <1>3, <1>4, <1>5, ReapQuiet

LEMMA ReapSkipInv == ASSUME IndInv, ReapSkip \/ ReapDone, UNCHANGED policy PROVE IndInv'
<1>1. MasterT
  BY DEF IndInv
<1>2. Nums
  BY <1>1, MasterNums
<1>3. /\ UNCHANGED <<mpid, mopen, exited, mlast, pslot, cmd, cfd, todo, np, crashes, fails, adds, kids, vin, lost, view, blc>>
      /\ mpc' \in {"idle", "reap"} /\ (ri' = Start \/ (ri < mlast /\ ri' = ri + 1))
  BY <1>1 DEF ReapSkip, ReapDone, MasterT
<1>4. ri' \in Slot
  BY <1>2, <1>3 DEF Nums
<1>5. exited' \in [Slot -> BOOLEAN] /\ cmd' \in {"OPEN", "CLOSE"} /\ cfd' \in -1 .. MaxPid
  BY <1>1, <1>3 DEF MasterT
<1>6. \A s \in Slot : exited'[s] => exited[s] \/ ~Live(s)
  BY <1>3
<1> QED BY <1>3, <1>4, <1>5, <1>6, ReapQuiet

LEMMA ExitMsgIs ==
  ASSUME MasterT, ri < mlast, mpid[ri] # -1
  PROVE  /\ ExitMsg \in Msg /\ ExitMsg.cmd = cmd /\ ExitMsg.slot = ri /\ ExitMsg.pid # -1 /\ ri \in 1 .. NSlots /\ ri \in Slot
         /\ ri + 1 \in Slot /\ ri \in Used
<1>1. Nums
  BY MasterNums
<1>2. ri \in 1 .. NSlots /\ ri \in Slot /\ ri + 1 \in Slot /\ ri \in Start .. mlast - 1
  BY <1>1 DEF Nums
<1>3. cmd \in {"OPEN", "CLOSE"} /\ cfd \in -1 .. MaxPid /\ mpid[ri] \in -1 .. MaxPid
  BY <1>2 DEF MasterT
<1>4. ExitMsg \in Msg /\ ExitMsg.cmd = cmd /\ ExitMsg.slot = ri /\ ExitMsg.pid = mpid[ri]
  BY <1>2, <1>3, MsgIs DEF ExitMsg
<1> QED BY <1>2, <1>4 DEF Used

LEMMA ReapRespawnInv == ASSUME IndInv, ReapRespawn, UNCHANGED policy PROVE IndInv'
<1> DEFINE m1 == ExitMsg
           m2 == ChannelMsg("OPEN", ri, np + 1, np + 1)
<1>1. MasterT /\ KidsT /\ Known /\ ViewT /\ LoadT /\ BlcT /\ Loop /\ ChanT /\ Bound /\ Caught
  BY DEF IndInv
<1>2. Nums
  BY <1>1, MasterNums
<1>3. /\ ri < mlast /\ mpid[ri] # -1 /\ exited[ri] /\ Fork(ri) /\ Pass2(m1, m2) /\ cmd' = "OPEN" /\ cfd' = np + 1 /\ ri' = ri + 1
      /\ UNCHANGED <<mlast, mpc, todo, crashes, adds, view, blc>>
  BY DEF ReapRespawn
<1>4. /\ m1 \in Msg /\ m1.slot = ri /\ m1.pid # -1 /\ ri \in 1 .. NSlots /\ ri \in Slot /\ ri + 1 \in Slot /\ ri \in Used
  BY <1>1, <1>3, ExitMsgIs
<1>5. /\ KidsT' /\ Known'
      /\ mpid' \in [Slot -> -1 .. MaxPid] /\ mopen' \in [Slot -> BOOLEAN] /\ exited' \in [Slot -> BOOLEAN]
      /\ pslot' \in 0 .. NSlots /\ np' \in 0 .. MaxPid /\ np' = np + 1 /\ np + 1 \in Pid /\ fails' = fails
      /\ mpid'[ri] = np + 1
      /\ \A t \in Slot : t # ri => mpid'[t] = mpid[t] /\ (Live(t)' => Live(t))
  BY <1>1, <1>3, <1>4, ForkIs
<1>6. np + 1 \in -1 .. MaxPid /\ np + 1 # -1
  BY <1>2, <1>5 DEF Nums
<1>7. m2 \in Msg /\ m2.cmd = "OPEN" /\ m2.slot = ri /\ m2.pid # -1 /\ m2.fd = np + 1
  BY <1>4, <1>6, MsgIs
<1> HIDE DEF m1, m2
<1>8. MasterT'
  <2>1. ri' \in Slot /\ cfd' \in -1 .. MaxPid /\ cmd' \in {"OPEN", "CLOSE"}
    BY <1>3, <1>4, <1>6
  <2> QED BY <1>1, <1>3, <1>5, <2>1 DEF MasterT
<1>9. ViewT' /\ LoadT' /\ BlcT' /\ Loop' /\ vfd' = vfd /\ vlast' = vlast /\ vlast \in Int
  BY <1>1, <1>3, VirtualSame
<1>10. /\ ChanT'
       /\ \E q \in {vin, Append(vin, m1)} : vin' = q \/ vin' = Append(q, m2)
       /\ ~lost' => ~lost /\ vin' = Append(Append(vin, m1), m2)
  BY <1>1, <1>3, <1>4, <1>7, Pass2Is
<1>11. Used' = Used
  <2>1. \A t \in Start .. mlast - 1 : t \in Slot
    BY <1>2 DEF Nums
  <2>2. mlast' = mlast
    BY <1>3
  <2>3. \A t \in Start .. mlast - 1 : mpid'[t] # -1 <=> mpid[t] # -1
    BY <1>3, <1>5, <1>6, <2>1
  <2> QED BY <2>2, <2>3 DEF Used
<1>12. Top \in Int /\ Top' \in Int /\ Top + 2 <= Top'
  <2> DEFINE n == Cardinality(Used)
  <2>1. n \in Nat /\ Top \in Int /\ Top' \in Int
    BY <1>1, <1>8, UsedIs, TopIsIntNext
  <2> HIDE DEF n
  <2>2. /\ Top = Start + 3 * np + (Boot + adds - todo) + fails - n
        /\ Top' = Start + 3 * np' + (Boot + adds' - todo') + fails' - n
    BY <1>11 DEF Top, n
  <2>3. adds' = adds /\ todo' = todo /\ fails' = fails /\ np' = np + 1
    BY <1>3, <1>5
  <2> QED BY <1>2, <2>1, <2>2, <2>3 DEF Nums
<1>13. vin \in Seq(Msg) /\ Append(vin, m1) \in Seq(Msg) /\ Adds(m1) \in {0, 1} /\ Adds(m2) = 1
  BY <1>1, <1>4, <1>7, AppendIs, AddsIs DEF ChanT
<1>14. Bound'
  <2>1. Top + Adds(m1) <= Top + 1 /\ (Top + 1) + Adds(m2) <= Top' /\ Top + 1 \in Int
    BY <1>12, <1>13
  <2>2. AtMost(vin, vlast, Top + 1) /\ AtMost(Append(vin, m1), vlast, Top + 1)
    BY <1>1, <1>4, <1>9, <1>12, <1>13, <2>1, AtMostAppend DEF Bound
  <2>3. \A q \in {vin, Append(vin, m1)} : AtMost(q, vlast, Top') /\ AtMost(Append(q, m2), vlast, Top')
    BY <1>7, <1>9, <1>12, <1>13, <2>1, <2>2, AtMostAppend
  <2> QED BY <1>9, <1>10, <2>3 DEF Bound
<1>15. ASSUME ~lost' PROVE AtLeast(vin', vlast', mlast')
  <2>1. mlast \in Int /\ mlast <= mlast + Adds(m1) /\ mlast <= mlast + Adds(m2)
    BY <1>2, <1>13 DEF Nums
  <2>2. AtLeast(vin, vlast, mlast)
    BY <1>1, <1>10, <1>15 DEF Caught
  <2>3. AtLeast(Append(vin, m1), vlast, mlast)
    BY <1>4, <1>9, <1>13, <2>1, <2>2, AtLeastAppend
  <2>4. AtLeast(Append(Append(vin, m1), m2), vlast, mlast)
    BY <1>7, <1>9, <1>13, <2>1, <2>3, AtLeastAppend
  <2> QED BY <1>3, <1>9, <1>10, <1>15, <2>4
<1>16. ASSUME ~lost', NEW s \in Start .. mlast' - 1, Live(s)' PROVE Told(vin', vfd', s, mpid'[s])
  <2>1. s \in Slot /\ s \in Start .. mlast - 1
    BY <1>2, <1>3 DEF Nums
  <2>2. CASE s = ri
    <3>1. Told(Append(Append(vin, m1), m2), vfd, s, np + 1)
      BY <1>7, <1>13, <2>2, ToldAppend
    <3> QED BY <1>5, <1>9, <1>10, <1>16, <2>2, <3>1
  <2>3. CASE s # ri
    <3>1. mpid'[s] = mpid[s] /\ Told(vin, vfd, s, mpid[s]) /\ ~Speaks(m1, s) /\ ~Speaks(m2, s)
      BY <1>1, <1>4, <1>5, <1>7, <1>10, <1>16, <2>1, <2>3 DEF Caught, Speaks
    <3>2. Told(Append(vin, m1), vfd, s, mpid[s])
      BY <1>4, <1>13, <3>1, ToldAppend
    <3>3. Told(Append(Append(vin, m1), m2), vfd, s, mpid[s])
      BY <1>7, <1>13, <3>1, <3>2, ToldAppend
    <3> QED BY <1>9, <1>10, <1>16, <3>1, <3>3
  <2> QED BY <2>2, <2>3
<1>17. Caught'
  BY <1>15, <1>16 DEF Caught
<1> QED BY <1>5, <1>8, <1>9, <1>10, <1>14, <1>17 DEF IndInv

LEMMA ReapRespawnFailsInv == ASSUME IndInv, ReapRespawnFails, UNCHANGED policy PROVE IndInv'
<1> DEFINE m == ExitMsg
<1>1. MasterT /\ KidsT /\ Known
  BY DEF IndInv
<1>2. Nums
  BY <1>1, MasterNums
<1>3. /\ ri < mlast /\ mpid[ri] # -1 /\ exited[ri] /\ fails + adds < MaxExtra /\ fails' = fails + 1
      /\ mopen' = [mopen EXCEPT ![ri] = FALSE] /\ pslot' \in {pslot, ri} /\ Pass1(m) /\ ri' = ri + 1
      /\ UNCHANGED <<mpid, exited, mlast, mpc, cmd, cfd, todo, np, crashes, adds, kids, view, blc>>
  BY DEF ReapRespawnFails
<1>4. UNCHANGED <<st, home, queue, busy, final>>
  BY <1>3 DEF kids
<1>5. /\ m \in Msg /\ m.slot = ri /\ m.pid # -1 /\ ri \in 1 .. NSlots /\ ri \in Slot /\ ri + 1 \in Slot
  BY <1>1, <1>3, ExitMsgIs
<1> HIDE DEF m
<1>6. MasterT'
  <2>1. fails' \in 0 .. MaxExtra /\ fails' + adds' <= MaxExtra /\ pslot' \in 0 .. NSlots
    BY <1>2, <1>3, <1>5 DEF Nums
  <2>2. mopen' \in [Slot -> BOOLEAN]
    BY <1>1, <1>3 DEF MasterT
  <2> QED BY <1>1, <1>3, <1>5, <2>1, <2>2 DEF MasterT
<1>7. \A t \in Slot : mpid'[t] = mpid[t] /\ (Live(t)' <=> Live(t))
  BY <1>3, <1>4 DEF Live
<1>8. KidsT' /\ Known'
  BY <1>1, <1>3, <1>4, <1>7 DEF KidsT, Known
<1>9. Top + 1 <= Top'
  <2> DEFINE n == Cardinality(Used)
  <2>1. n \in Nat /\ Used' = Used
    BY <1>1, <1>3, UsedIs DEF Used
  <2> HIDE DEF n
  <2>2. /\ Top = Start + 3 * np + (Boot + adds - todo) + fails - n
        /\ Top' = Start + 3 * np + (Boot + adds - todo) + fails' - n
    BY <1>3, <2>1 DEF Top, n
  <2> QED BY <1>2, <1>3, <2>1, <2>2 DEF Nums
<1>10. mlast' <= mlast + Adds(m)
  BY <1>2, <1>3, AddsIs DEF Nums
<1>11. \A t \in Start .. mlast' - 1 : Live(t)' =>
           \/ m.cmd = "OPEN" /\ m.slot = t /\ m.fd = mpid'[t]
           \/ t < mlast /\ Live(t) /\ mpid'[t] = mpid[t] /\ m.slot # t
  <2>1. \A t \in Start .. mlast' - 1 : t \in Slot /\ t < mlast
    BY <1>2, <1>3 DEF Nums
  <2>2. ~Live(ri)
    BY <1>1, <1>3, <1>5 DEF Known
  <2> QED BY <1>5, <1>7, <2>1, <2>2
<1>12. UNCHANGED <<view, blc, policy>>
  BY <1>3
<1> QED BY <1>3, <1>5, <1>6, <1>8, <1>9, <1>10, <1>11, <1>12, Tell

LEMMA ReapDropInv == ASSUME IndInv, ReapDrop, UNCHANGED policy PROVE IndInv'
<1> DEFINE m == ExitMsg
<1>1. MasterT /\ KidsT /\ Known
  BY DEF IndInv
<1>2. Nums
  BY <1>1, MasterNums
<1>3. /\ ri < mlast /\ mpid[ri] # -1 /\ exited[ri] /\ mopen' = [mopen EXCEPT ![ri] = FALSE]
      /\ Pass1(m) /\ ri' = ri + 1
      /\ UNCHANGED <<exited, pslot, mpc, cmd, cfd, todo, np, crashes, fails, adds, kids, view, blc>>
  BY DEF ReapDrop
<1>4. \/ ri = mlast - 1 /\ mlast' = mlast - 1 /\ mpid' = mpid
      \/ ri # mlast - 1 /\ mpid' = [mpid EXCEPT ![ri] = -1] /\ mlast' = mlast
  BY DEF ReapDrop
<1>5. UNCHANGED <<st, home, queue, busy, final>>
  BY <1>3 DEF kids
<1>6. /\ m \in Msg /\ m.slot = ri /\ m.pid # -1 /\ ri \in 1 .. NSlots /\ ri \in Slot /\ ri + 1 \in Slot /\ ri \in Used
  BY <1>1, <1>3, ExitMsgIs
<1> HIDE DEF m
<1>7. /\ mpid' \in [Slot -> -1 .. MaxPid] /\ mlast' \in Slot /\ mlast' <= mlast
      /\ \A t \in Slot : t # ri => mpid'[t] = mpid[t]
      /\ mpid'[ri] \in {-1, mpid[ri]}
  <2>1. mpid' \in [Slot -> -1 .. MaxPid] /\ mpid'[ri] \in {-1, mpid[ri]} /\ \A t \in Slot : t # ri => mpid'[t] = mpid[t]
    <3>1. -1 \in -1 .. MaxPid /\ mpid \in [Slot -> -1 .. MaxPid]
      BY <1>1, Numbers DEF MasterT
    <3> QED BY <1>4, <1>6, <3>1
  <2>2. mlast' = mlast - 1 \/ mlast' = mlast
    BY <1>4
  <2>3. mlast' \in Slot /\ mlast' <= mlast
    BY <1>2, <1>3, <2>2 DEF Nums
  <2> QED BY <2>1, <2>3
<1>8. MasterT'
  <2>1. mopen' \in [Slot -> BOOLEAN]
    BY <1>1, <1>3 DEF MasterT
  <2> QED BY <1>1, <1>3, <1>6, <1>7, <2>1 DEF MasterT
<1>9. \A t \in Slot : t # ri => (Live(t)' <=> Live(t))
  BY <1>5, <1>7 DEF Live
<1>10. \A t \in Slot : t = ri => ~Live(t) /\ ~Live(t)'
  <2>1. ~Live(ri)
    BY <1>1, <1>3, <1>6 DEF Known
  <2>2. -1 \notin Pid
    BY Numbers
  <2> QED BY <1>5, <1>7, <2>1, <2>2 DEF Live
<1>11. KidsT'
  BY <1>1, <1>3, <1>5 DEF KidsT
<1>12. Known'
  <2> SUFFICES ASSUME NEW t \in Slot PROVE mpid'[t] <= np' /\ (exited'[t] => ~Live(t)')
    BY DEF Known
  <2>1. mpid'[t] \in {-1, mpid[t]}
    BY <1>7
  <2>2. mpid[t] <= np /\ -1 <= np
    BY <1>1, <1>2 DEF Known, Nums
  <2>3. mpid'[t] <= np'
    BY <1>3, <2>1, <2>2
  <2> QED BY <1>1, <1>3, <1>9, <1>10, <2>3 DEF Known
<1>13. Used' = Used \ {ri}
  <2>1. CASE ri = mlast - 1 /\ mlast' = mlast - 1 /\ mpid' = mpid
    <3>1. Start .. mlast' - 1 = (Start .. mlast - 1) \ {ri}
      BY <1>2, <2>1 DEF Nums
    <3> QED BY <2>1, <3>1 DEF Used
  <2>2. CASE mpid' = [mpid EXCEPT ![ri] = -1] /\ mlast' = mlast
    <3>1. \A t \in Start .. mlast - 1 : t \in Slot
      BY <1>2 DEF Nums
    <3>2. mpid'[ri] = -1
      BY <1>1, <1>6, <2>2 DEF MasterT
    <3> QED BY <1>7, <2>2, <3>1, <3>2 DEF Used
  <2> QED BY <1>4, <2>1, <2>2
<1>14. Top + 1 <= Top'
  <2> DEFINE n == Cardinality(Used)
  <2>1. n \in Nat /\ Cardinality(Used') = n - 1
    BY <1>1, <1>6, <1>13, UsedIs, FS_RemoveElement
  <2> HIDE DEF n
  <2>2. /\ Top = Start + 3 * np + (Boot + adds - todo) + fails - n
        /\ Top' = Start + 3 * np + (Boot + adds - todo) + fails - (n - 1)
    BY <1>3, <2>1 DEF Top, n
  <2> QED BY <1>2, <2>1, <2>2 DEF Nums
<1>15. mlast' <= mlast + Adds(m)
  <2>1. mlast' \in Int /\ mlast \in Int /\ Adds(m) \in {0, 1}
    BY <1>2, <1>7, AddsIs, Numbers DEF Nums
  <2> QED BY <1>7, <2>1
<1>16. \A t \in Start .. mlast' - 1 : Live(t)' =>
           \/ m.cmd = "OPEN" /\ m.slot = t /\ m.fd = mpid'[t]
           \/ t < mlast /\ Live(t) /\ mpid'[t] = mpid[t] /\ m.slot # t
  <2>1. mlast' \in 1 .. NSlots + 1 /\ mlast' <= mlast
    BY <1>7, Numbers
  <2> DEFINE l == mlast'
  <2> HIDE DEF l
  <2>2. l \in 1 .. NSlots + 1 /\ l <= mlast
    BY <2>1 DEF l
  <2>3. \A t \in Start .. l - 1 : t \in Slot /\ t < mlast
    BY <1>2, <2>2 DEF Nums
  <2>4. \A t \in Start .. mlast' - 1 : t \in Slot /\ t < mlast
    BY <2>3 DEF l
  <2> QED BY <1>6, <1>7, <1>9, <1>10, <2>4
<1>17. UNCHANGED <<view, blc, policy>>
  BY <1>3
<1> QED BY <1>3, <1>6, <1>8, <1>11, <1>12, <1>14, <1>15, <1>16, <1>17, Tell
-----------------------------------------------------------------------------
(***************************************************************************)
(* The virtual process.                                                    *)
(***************************************************************************)

\* What reading a message does to the channel and what is known of it.
LEMMA ReadIs ==
  ASSUME IndInv, NEW c, ReadChannel(c), UNCHANGED <<master, kids, lost>>,
         vlast' = vlast + Adds(Head(vin)),
         \A s \in Slot : IF Speaks(Head(vin), s) THEN c = "OPEN" => vfd'[s] = Head(vin).fd ELSE vfd'[s] = vfd[s]
  PROVE  /\ MasterT' /\ KidsT' /\ ChanT' /\ Bound' /\ Known' /\ Caught' /\ vlast' \in VSlot
<1>1. MasterT /\ KidsT /\ Known /\ ViewT /\ ChanT /\ Bound /\ Caught
  BY DEF IndInv
<1>2. vin # <<>> /\ Head(vin).cmd = c /\ vin' = Tail(vin)
  BY DEF ReadChannel
<1>3. UNCHANGED <<st, home, queue, busy, final>>
  BY DEF kids
<1>4. /\ MasterT' /\ Known' /\ Top' = Top /\ mlast' = mlast
      /\ \A s \in Slot : mpid'[s] = mpid[s] /\ (Live(s)' <=> Live(s))
  BY <1>1, <1>3, MasterSame
<1>5. KidsT'
  BY <1>1, <1>3 DEF KidsT, master
<1>6. /\ vin \in Seq(Msg) /\ vin' \in Seq(Msg) /\ Len(vin') = Len(vin) - 1 /\ Len(vin) \in Nat \ {0} /\ Len(vin) <= InLen
      /\ DOMAIN vin = 1 .. Len(vin) /\ DOMAIN vin' = 1 .. Len(vin) - 1 /\ \A k \in 1 .. Len(vin) - 1 : vin'[k] = vin[k + 1]
      /\ Head(vin) = vin[1]
  BY <1>1, <1>2, TailIs DEF ChanT
<1>7. ChanT'
  <2>1. Len(vin') <= InLen
    BY <1>6, Numbers
  <2>2. \A k \in DOMAIN vin' : k + 1 \in DOMAIN vin /\ vin'[k] = vin[k + 1]
    BY <1>6
  <2>3. \A k \in DOMAIN vin' : vin'[k].cmd = "OPEN" => vin'[k].pid # -1
    BY <1>1, <2>2 DEF ChanT
  <2> QED BY <1>1, <1>6, <2>1, <2>3 DEF ChanT
<1>8. vlast \in Int /\ vlast \in 1 .. VLast /\ Top \in Int /\ Top <= VLast - 1 /\ mlast \in Int /\ Adds(Head(vin)) \in {0, 1}
  <2>1. vlast \in Int /\ vlast \in 1 .. VLast
    BY <1>1, Numbers DEF ViewT
  <2>2. Top \in Int /\ Top <= VLast - 1
    BY <1>1, UsedIs
  <2>3. mlast \in Int
    BY <1>1, Numbers DEF MasterT
  <2> QED BY <2>1, <2>2, <2>3, AddsIs
<1>9. AtMost(vin', vlast', Top)
  BY <1>1, <1>2, <1>6, <1>8, AtMostTail DEF Bound
<1>10. vlast' \in VSlot
  <2>1. vlast' \in Int
    BY <1>8
  <2>2. vlast' <= Top
    BY <1>6, <1>8, <1>9, <2>1, AtMostNow
  <2>3. vlast' \in 1 .. VLast
    BY <1>8, <2>2, Numbers
  <2> QED BY <2>3, Numbers
<1>11. ASSUME ~lost' PROVE AtLeast(vin', vlast', mlast')
  <2>1. AtLeast(vin, vlast, mlast)
    BY <1>1, <1>11 DEF Caught
  <2> QED BY <1>2, <1>4, <1>6, <1>8, <2>1, AtLeastTail
<1>12. ASSUME ~lost', NEW s \in Start .. mlast' - 1, Live(s)' PROVE Told(vin', vfd', s, mpid'[s])
  <2>1. s \in Slot /\ s \in Start .. mlast - 1
    <3>1. Nums
      BY <1>1, MasterNums
    <3> QED BY <1>4, <3>1 DEF Nums
  <2>2. Told(vin, vfd, s, mpid[s])
    BY <1>1, <1>4, <1>12, <2>1 DEF Caught
  <2>3. IF Speaks(Head(vin), s) THEN Head(vin).cmd = "OPEN" => vfd'[s] = Head(vin).fd ELSE vfd'[s] = vfd[s]
    BY <1>2, <2>1
  <2>4. Told(Tail(vin), vfd', s, mpid[s])
    BY <1>2, <1>6, <2>2, <2>3, ToldTail
  <2> QED BY <1>2, <1>4, <2>1, <2>4
<1>13. Caught'
  BY <1>11, <1>12 DEF Caught
<1> QED BY <1>4, <1>5, <1>7, <1>9, <1>10, <1>13 DEF Bound

LEMMA HeadIs ==
  ASSUME ChanT, NEW c, ReadChannel(c)
  PROVE  /\ Head(vin) \in Msg /\ Head(vin).cmd = c /\ Head(vin).slot \in Slot /\ Head(vin).slot \in VSlot /\ Slot \subseteq VSlot
         /\ Head(vin).pid \in -1 .. MaxPid /\ Head(vin).fd \in -1 .. MaxPid /\ Head(vin).reqs \in 0 .. Pool
         /\ (c = "OPEN" => Head(vin).pid # -1) /\ vpc = "idle"
         /\ (c = "OPEN" => Adds(Head(vin)) = 1) /\ (c # "OPEN" => Adds(Head(vin)) = 0)
<1>1. vin # <<>> /\ Head(vin).cmd = c /\ vpc = "idle" /\ vin \in Seq(Msg)
  BY DEF ReadChannel, ChanT
<1>2. Head(vin) = vin[1] /\ 1 \in DOMAIN vin /\ Head(vin) \in Msg
  BY <1>1, TailIs
<1>3. c = "OPEN" => Head(vin).pid # -1
  BY <1>1, <1>2 DEF ChanT
<1>4. Slot \subseteq VSlot
  BY Numbers
<1> QED BY <1>1, <1>2, <1>3, <1>4, AddsIs DEF Msg

LEMMA HandleOpenInv == ASSUME IndInv, HandleOpen, UNCHANGED policy PROVE IndInv'
<1> DEFINE m == Head(vin)
<1>1. ViewT /\ LoadT /\ BlcT /\ Loop /\ ChanT
  BY DEF IndInv
<1>2. /\ ReadChannel("OPEN") /\ vpid' = [vpid EXCEPT ![m.slot] = m.pid] /\ vfd' = [vfd EXCEPT ![m.slot] = m.fd]
      /\ vlast' = vlast + 1 /\ bn' = vlast' - Start
      /\ UNCHANGED <<master, kids, lost, vexit, reqs, cur, minr, cp, calls, users, vpc, tried, rq>>
  BY DEF HandleOpen
<1>3. /\ m.cmd = "OPEN" /\ m.slot \in VSlot /\ Slot \subseteq VSlot /\ m.pid \in -1 .. MaxPid /\ m.fd \in -1 .. MaxPid
      /\ m.pid # -1 /\ Adds(m) = 1
  BY <1>1, <1>2, HeadIs
<1>4. \A s \in Slot : IF Speaks(m, s) THEN "OPEN" = "OPEN" => vfd'[s] = m.fd ELSE vfd'[s] = vfd[s]
  <2>1. vfd \in [VSlot -> -1 .. MaxPid]
    BY <1>1 DEF ViewT
  <2> HIDE DEF m
  <2> QED BY <1>2, <1>3, <2>1 DEF Speaks
<1>5. MasterT' /\ KidsT' /\ ChanT' /\ Bound' /\ Known' /\ Caught' /\ vlast' \in VSlot
  BY <1>2, <1>3, <1>4, ReadIs
<1> HIDE DEF m
<1>6. ViewT'
  <2>1. vpid \in [VSlot -> -1 .. MaxPid] /\ vfd \in [VSlot -> -1 .. MaxPid] /\ \A i \in VSlot : vpid[i] # -1
    BY <1>1 DEF ViewT
  <2>2. vpid' \in [VSlot -> -1 .. MaxPid] /\ vfd' \in [VSlot -> -1 .. MaxPid] /\ \A i \in VSlot : vpid'[i] # -1
    BY <1>2, <1>3, <2>1
  <2> QED BY <1>1, <1>2, <1>5, <2>2 DEF ViewT
<1>7. LoadT' /\ Loop'
  BY <1>1, <1>2 DEF LoadT, Loop
<1>8. bn' \in Int
  BY <1>2, <1>5, Numbers
<1>9. BlcT'
  BY <1>1, <1>2, <1>8 DEF BlcT
<1> QED BY <1>5, <1>6, <1>7, <1>9 DEF IndInv

LEMMA HandleCloseInv == ASSUME IndInv, HandleClose, UNCHANGED policy PROVE IndInv'
<1> DEFINE m == Head(vin)
<1>1. ViewT /\ LoadT /\ BlcT /\ Loop /\ ChanT
  BY DEF IndInv
<1>2. /\ ReadChannel("CLOSE") /\ vfd' = [vfd EXCEPT ![m.slot] = -1]
      /\ UNCHANGED <<master, kids, lost, vpid, vexit, reqs, vlast, blc>>
  BY DEF HandleClose
<1>3. m.cmd = "CLOSE" /\ m.slot \in VSlot /\ Slot \subseteq VSlot /\ Adds(m) = 0
  BY <1>1, <1>2, HeadIs
<1>4. \A s \in Slot : IF Speaks(m, s) THEN "CLOSE" = "OPEN" => vfd'[s] = m.fd ELSE vfd'[s] = vfd[s]
  <2>1. vfd \in [VSlot -> -1 .. MaxPid]
    BY <1>1 DEF ViewT
  <2> HIDE DEF m
  <2> QED BY <1>2, <1>3, <2>1 DEF Speaks
<1>5. vlast' = vlast + Adds(m)
  BY <1>1, <1>2, <1>3, Numbers DEF ViewT
<1>6. MasterT' /\ KidsT' /\ ChanT' /\ Bound' /\ Known' /\ Caught' /\ vlast' \in VSlot
  BY <1>2, <1>4, <1>5, ReadIs
<1> HIDE DEF m
<1>7. ViewT'
  <2>1. -1 \in -1 .. MaxPid
    BY Numbers
  <2>2. vfd' \in [VSlot -> -1 .. MaxPid]
    BY <1>1, <1>2, <2>1 DEF ViewT
  <2> QED BY <1>1, <1>2, <1>6, <2>2 DEF ViewT
<1>8. LoadT' /\ Loop' /\ BlcT'
  BY <1>1, <1>2 DEF LoadT, Loop, BlcT, blc
<1> QED BY <1>6, <1>7, <1>8 DEF IndInv

LEMMA HandleSimulationInv == ASSUME IndInv, HandleSimulation, UNCHANGED policy PROVE IndInv'
<1>1. ViewT /\ LoadT /\ BlcT /\ Loop /\ ChanT
  BY DEF IndInv
<1>2. /\ ReadChannel("SIMULATION") /\ users' = TRUE
      /\ UNCHANGED <<master, kids, lost, vpid, vfd, vexit, reqs, vlast, cur, bn, minr, cp, calls, vpc, tried, rq>>
  BY DEF HandleSimulation, view
<1>3. Head(vin).cmd = "SIMULATION" /\ Adds(Head(vin)) = 0
  BY <1>1, <1>2, HeadIs
<1>4. \A s \in Slot : IF Speaks(Head(vin), s) THEN "SIMULATION" = "OPEN" => vfd'[s] = Head(vin).fd ELSE vfd'[s] = vfd[s]
  BY <1>2, <1>3
<1>5. vlast' = vlast + Adds(Head(vin))
  BY <1>1, <1>2, <1>3, Numbers DEF ViewT
<1>6. MasterT' /\ KidsT' /\ ChanT' /\ Bound' /\ Known' /\ Caught'
  BY <1>2, <1>4, <1>5, ReadIs
<1>7. ViewT' /\ LoadT' /\ Loop'
  BY <1>1, <1>2 DEF ViewT, LoadT, Loop
<1>8. BlcT'
  BY <1>1, <1>2 DEF BlcT
<1> QED BY <1>6, <1>7, <1>8 DEF IndInv

LEMMA HandleFeedbackInv == ASSUME IndInv, HandleFeedback, UNCHANGED policy PROVE IndInv'
<1> DEFINE m == Head(vin)
<1>1. ViewT /\ LoadT /\ BlcT /\ Loop /\ ChanT
  BY DEF IndInv
<1>2. /\ ReadChannel("FEEDBACK") /\ reqs' = [reqs EXCEPT ![m.slot] = m.reqs]
      /\ UNCHANGED <<master, kids, lost, vpid, vfd, vexit, vlast, cp, calls, users, vpc, tried, rq>>
  BY DEF HandleFeedback
<1>3. Update(vexit, reqs', vlast) \/ UNCHANGED <<bn, cur, minr>>
  BY DEF HandleFeedback
<1>4. m.cmd = "FEEDBACK" /\ Adds(m) = 0 /\ m.slot \in VSlot /\ m.reqs \in 0 .. Pool /\ vpc = "idle"
  BY <1>1, <1>2, HeadIs
<1>5. \A s \in Slot : IF Speaks(m, s) THEN "FEEDBACK" = "OPEN" => vfd'[s] = m.fd ELSE vfd'[s] = vfd[s]
  BY <1>2, <1>4
<1>6. vlast' = vlast + Adds(m)
  BY <1>1, <1>2, <1>4, Numbers DEF ViewT
<1>7. MasterT' /\ KidsT' /\ ChanT' /\ Bound' /\ Known' /\ Caught'
  BY <1>2, <1>5, <1>6, ReadIs
<1> HIDE DEF m
<1>8. LoadT'
  <2>1. /\ reqs \in [VSlot -> 0 .. MaxReq + Pool] /\ rq \in 0 .. MaxReq /\ MaxReq \in Nat /\ Pool \in Nat
        /\ \A i \in VSlot : reqs[i] + 0 <= Pool + rq
    BY <1>1, <1>4, Numbers DEF LoadT
  <2>2. m.reqs \in 0 .. MaxReq + Pool /\ m.reqs + 0 <= Pool + rq
    BY <1>4, <2>1
  <2>3. reqs' \in [VSlot -> 0 .. MaxReq + Pool] /\ \A i \in VSlot : reqs'[i] = m.reqs \/ reqs'[i] = reqs[i]
    BY <1>2, <1>4, <2>1, <2>2
  <2>4. \A i \in VSlot : reqs'[i] + 0 <= Pool + rq
    BY <2>1, <2>2, <2>3
  <2> QED BY <1>2, <1>4, <2>1, <2>3, <2>4 DEF LoadT
<1>9. bn' \in Int /\ cur' \in VSlot /\ minr' \in 0 .. MaxReq + Pool
  <2>1. CASE Update(vexit, reqs', vlast)
    <3>1. vlast \in VSlot /\ reqs' \in [VSlot -> 0 .. MaxReq + Pool]
      BY <1>1, <1>8 DEF ViewT, LoadT
    <3>2. bn' \in Nat /\ cur' \in VSlot /\ minr' = (reqs')[cur']
      BY <2>1, <3>1, UpdateIs
    <3> QED BY <3>1, <3>2
  <2>2. CASE UNCHANGED <<bn, cur, minr>>
    BY <1>1, <2>2 DEF BlcT
  <2> QED BY <1>3, <2>1, <2>2
<1>10. BlcT'
  BY <1>1, <1>2, <1>9 DEF BlcT
<1>11. ViewT' /\ Loop'
  BY <1>1, <1>2, <1>4 DEF ViewT, Loop
<1> QED BY <1>7, <1>8, <1>10, <1>11 DEF IndInv

\* A step that the master and the channel do not take part in.
LEMMA Apart ==
  ASSUME IndInv, UNCHANGED <<master, st, vin, lost, vfd, vlast>>, KidsT', ViewT', LoadT', BlcT', Loop'
  PROVE  IndInv'
<1>1. MasterT /\ Known
  BY DEF IndInv
<1>2. /\ MasterT' /\ Known' /\ Top' = Top /\ mlast' = mlast
      /\ \A s \in Slot : mpid'[s] = mpid[s] /\ (Live(s)' <=> Live(s))
  BY <1>1, MasterSame
<1>3. Top <= Top'
  <2>1. Top \in Int
    BY <1>1, UsedIs
  <2> QED BY <1>2, <2>1
<1> QED BY <1>2, <1>3, Quiet

LEMMA RequestInv == ASSUME IndInv, Request, UNCHANGED policy PROVE IndInv'
<1>1. KidsT /\ ViewT /\ LoadT /\ BlcT /\ Loop
  BY DEF IndInv
<1>2. /\ policy = "dynamic" /\ vpc = "idle" /\ rq < MaxReq /\ vpc' = "send" /\ tried' = {} /\ rq' = rq + 1
      /\ UNCHANGED <<master, kids, vin, lost, view, cur, bn, minr, cp, calls, users>>
  BY DEF Request
<1>3. UNCHANGED <<st, home, queue, busy, final, vpid, vfd, vexit, reqs, vlast>>
  BY <1>2 DEF kids, view
<1>4. /\ rq \in 0 .. MaxReq /\ MaxReq \in Nat /\ Pool \in Nat /\ Start = 1 /\ VLast \in Nat /\ VSlot = 1 .. VLast
      /\ reqs \in [VSlot -> 0 .. MaxReq + Pool] /\ \A i \in VSlot : reqs[i] + 0 <= Pool + rq
  BY <1>1, <1>2, Numbers DEF LoadT
<1>5. KidsT' /\ ViewT'
  BY <1>1, <1>2, <1>3 DEF KidsT, ViewT, master
<1>6. LoadT'
  <2>1. rq' \in 0 .. MaxReq /\ \A i \in VSlot : reqs[i] + 1 <= Pool + rq'
    BY <1>2, <1>4
  <2> QED BY <1>2, <1>3, <1>4, <2>1 DEF LoadT
<1>7. BlcT'
  <2>1. cp \in VSlot /\ cp <= Start + rq
    BY <1>1 DEF BlcT
  <2>2. cp <= Start + rq'
    BY <1>2, <1>4, <2>1
  <2> QED BY <1>1, <1>2, <2>2 DEF BlcT
<1>8. Loop'
  BY <1>2 DEF Loop
<1>9. UNCHANGED <<master, st, vin, lost, vfd, vlast>>
  BY <1>2, <1>3
<1> QED BY <1>5, <1>6, <1>7, <1>8, <1>9, Apart

\* A request more in the channel of a child that accepts it.
LEMMA Accepted ==
  ASSUME KidsT, NEW i, Accepts(i), queue' = [queue EXCEPT ![vfd[i]] = @ + 1], UNCHANGED <<np, st, home, busy, final>>
  PROVE  KidsT'
<1>1. vfd[i] \in Pid /\ queue[vfd[i]] < QLen /\ QLen \in Nat
  BY Numbers DEF Accepts, Peer
<1>2. queue \in [Pid -> 0 .. QLen]
  BY DEF KidsT
<1>3. queue' \in [Pid -> 0 .. QLen]
  BY <1>1, <1>2
<1> QED BY <1>3 DEF KidsT

LEMMA SendOkInv == ASSUME IndInv, SendOk, UNCHANGED policy PROVE IndInv'
<1>1. KidsT /\ ViewT /\ LoadT /\ BlcT /\ Loop
  BY DEF IndInv
<1>2. /\ vpc = "send" /\ Accepts(cur) /\ queue' = [queue EXCEPT ![vfd[cur]] = @ + 1] /\ reqs' = [reqs EXCEPT ![cur] = @ + 1]
      /\ Update(vexit, reqs', vlast) /\ vpc' = "idle"
      /\ UNCHANGED <<master, st, home, busy, final, vin, lost, vpid, vfd, vexit, vlast, cp, calls, users, tried, rq>>
  BY DEF SendOk
<1>3. KidsT'
  <2>1. UNCHANGED np
    BY <1>2 DEF master
  <2> QED BY <1>1, <1>2, <2>1, Accepted
<1>4. /\ rq \in 0 .. MaxReq /\ MaxReq \in Nat /\ Pool \in Nat /\ cur \in VSlot /\ vlast \in VSlot
      /\ reqs \in [VSlot -> 0 .. MaxReq + Pool] /\ \A i \in VSlot : reqs[i] + 1 <= Pool + rq
  BY <1>1, <1>2, Numbers DEF LoadT, BlcT, ViewT
<1>5. reqs' \in [VSlot -> 0 .. MaxReq + Pool] /\ \A i \in VSlot : reqs'[i] + 0 <= Pool + rq
  <2>1. reqs[cur] + 1 \in 0 .. MaxReq + Pool
    BY <1>4
  <2>2. reqs' \in [VSlot -> 0 .. MaxReq + Pool]
    BY <1>2, <1>4, <2>1
  <2>3. \A i \in VSlot : reqs'[i] = IF i = cur THEN reqs[cur] + 1 ELSE reqs[i]
    BY <1>2, <1>4
  <2>4. \A i \in VSlot : reqs'[i] + 0 <= Pool + rq
    BY <1>4, <2>3
  <2> QED BY <2>2, <2>4
<1>6. LoadT'
  BY <1>2, <1>4, <1>5 DEF LoadT
<1>7. BlcT'
  <2>1. bn' \in Nat /\ cur' \in VSlot /\ minr' = (reqs')[cur']
    BY <1>2, <1>4, <1>5, UpdateIs
  <2>2. minr' \in 0 .. MaxReq + Pool
    BY <1>5, <2>1
  <2> QED BY <1>1, <1>2, <2>1, <2>2 DEF BlcT
<1>8. ViewT' /\ Loop'
  BY <1>1, <1>2 DEF ViewT, Loop
<1> QED BY <1>2, <1>3, <1>6, <1>7, <1>8, Apart

LEMMA SendFailsInv == ASSUME IndInv, SendFails, UNCHANGED policy PROVE IndInv' /\ (bn' = 0 => Pros(vexit', vlast) = {})
<1>1. KidsT /\ ViewT /\ LoadT /\ BlcT /\ Loop
  BY DEF IndInv
<1>2. /\ vpc = "send" /\ vexit' = [vexit EXCEPT ![cur] = TRUE] /\ reqs' = [reqs EXCEPT ![cur] = 0]
      /\ Update(vexit', reqs', vlast) /\ tried' = tried \cup {cur} /\ (vpc' = IF bn' # 0 THEN "send" ELSE "idle")
      /\ UNCHANGED <<master, kids, vin, lost, vpid, vfd, vlast, cp, calls, users, rq>>
  BY DEF SendFails, Mark
<1>3. UNCHANGED <<st, home, queue, busy, final>>
  BY <1>2 DEF kids
<1>4. /\ rq \in 0 .. MaxReq /\ MaxReq \in Nat /\ Pool \in Nat /\ cur \in VSlot /\ vlast \in VSlot
      /\ reqs \in [VSlot -> 0 .. MaxReq + Pool] /\ \A i \in VSlot : reqs[i] + 1 <= Pool + rq
  BY <1>1, <1>2, Numbers DEF LoadT, BlcT, ViewT
<1>5. reqs' \in [VSlot -> 0 .. MaxReq + Pool] /\ \A i \in VSlot : reqs'[i] + 1 <= Pool + rq
  <2>1. 0 \in 0 .. MaxReq + Pool /\ 0 + 1 <= Pool + rq
    BY <1>4
  <2>2. reqs' \in [VSlot -> 0 .. MaxReq + Pool]
    BY <1>2, <1>4, <2>1
  <2>3. \A i \in VSlot : reqs'[i] = IF i = cur THEN 0 ELSE reqs[i]
    BY <1>2, <1>4
  <2>4. \A i \in VSlot : reqs'[i] + 1 <= Pool + rq
    BY <1>4, <2>1, <2>3
  <2> QED BY <2>2, <2>4
<1>6. LoadT'
  <2>1. \A i \in VSlot : reqs'[i] + 0 <= Pool + rq
    BY <1>4, <1>5
  <2> QED BY <1>2, <1>4, <1>5, <2>1 DEF LoadT
<1>7. /\ bn' \in Nat /\ cur' \in VSlot /\ minr' = (reqs')[cur']
      /\ (bn' # 0 => ~(vexit')[cur']) /\ (bn' = 0 => Pros(vexit', vlast) = {})
  BY <1>2, <1>4, <1>5, UpdateIs
<1>8. BlcT'
  <2>1. minr' \in 0 .. MaxReq + Pool
    BY <1>5, <1>7
  <2> QED BY <1>1, <1>2, <1>7, <2>1 DEF BlcT
<1>9. vexit' \in [VSlot -> BOOLEAN] /\ \A i \in VSlot : (vexit'[i] <=> (i = cur \/ vexit[i]))
  BY <1>1, <1>2, <1>4 DEF ViewT
<1>10. ViewT'
  BY <1>1, <1>2, <1>9 DEF ViewT
<1>11. Loop'
  <2>1. tried' \subseteq VSlot /\ \A i \in tried' : vexit'[i]
    BY <1>1, <1>2, <1>4, <1>9 DEF Loop
  <2>2. vpc' = "send" => cur' \notin tried'
    BY <1>2, <1>7, <2>1
  <2> QED BY <1>1, <1>2, <2>1, <2>2 DEF Loop
<1>12. KidsT'
  BY <1>1, <1>2, <1>3 DEF KidsT, master
<1>13. UNCHANGED <<master, st, vin, lost, vfd, vlast>>
  BY <1>2, <1>3
<1>14. IndInv'
  BY <1>6, <1>8, <1>10, <1>11, <1>12, <1>13, Apart
<1> QED BY <1>7, <1>14

\* No slot has the type the polling balancer looks for, so it stays where it is.
LEMMA PollTargetIs == PollTarget = cp
<1>1. {i \in cp .. vlast - 1 : vpid[i] # -1 /\ ~vexit[i] /\ TypeInVirtual(i) = "TRAFFIC"} = {}
  BY DEF TypeInVirtual
<1>2. {i \in Start .. cp - 1 : vpid[i] # -1 /\ ~vexit[i] /\ TypeInVirtual(i) = "TRAFFIC"} = {}
  BY DEF TypeInVirtual
<1> QED BY <1>1, <1>2 DEF PollTarget

LEMMA PollInv == ASSUME IndInv, Poll, UNCHANGED policy PROVE IndInv'
<1>1. KidsT /\ ViewT /\ LoadT /\ BlcT /\ Loop
  BY DEF IndInv
<1>2. /\ policy = "polling" /\ rq < MaxReq /\ rq' = rq + 1
      /\ UNCHANGED <<master, st, home, busy, final, vin, lost, vpid, vfd, reqs, vlast, cur, bn, minr, users, vpc, tried>>
  BY DEF Poll
<1>3. /\ calls' = calls + 1 \/ calls' = Warmup
      /\ calls' = calls + 1 => calls + 1 < Warmup \/ calls' = Warmup
      /\ cp' = cp \/ cp' = Start \/ cp' = cp + 1
      /\ UNCHANGED queue \/ (Accepts(cp) /\ queue' = [queue EXCEPT ![vfd[cp]] = @ + 1])
      /\ UNCHANGED vexit \/ vexit' = [vexit EXCEPT ![cp] = TRUE]
  <2>1. CASE calls + 1 < Warmup
    BY <2>1 DEF Poll
  <2>2. CASE ~(calls + 1 < Warmup)
    BY <2>2, PollTargetIs DEF Poll, Mark
  <2> QED BY <2>1, <2>2
<1>4. /\ rq \in 0 .. MaxReq /\ MaxReq \in Nat /\ Pool \in Nat /\ Start = 1 /\ VLast \in Nat /\ VSlot = 1 .. VLast
      /\ MaxReq + 2 <= VLast /\ Warmup \in Nat /\ calls \in 0 .. Warmup /\ cp \in VSlot /\ cp <= Start + rq
  BY <1>1, Numbers DEF LoadT, BlcT
<1>5. vpc # "send" /\ vpc = "idle"
  BY <1>1, <1>2 DEF Loop, LoadT
<1>6. KidsT'
  <2>1. UNCHANGED np
    BY <1>2 DEF master
  <2>2. CASE UNCHANGED queue
    BY <1>1, <1>2, <2>1, <2>2 DEF KidsT
  <2>3. CASE Accepts(cp) /\ queue' = [queue EXCEPT ![vfd[cp]] = @ + 1]
    BY <1>1, <1>2, <2>1, <2>3, Accepted
  <2> QED BY <1>3, <2>2, <2>3
<1>7. ViewT'
  <2>1. vexit' \in [VSlot -> BOOLEAN]
    BY <1>1, <1>3 DEF ViewT
  <2> QED BY <1>1, <1>2, <2>1 DEF ViewT
<1>8. rq' \in 0 .. MaxReq
  BY <1>2, <1>4
<1>9. LoadT'
  <2>1. reqs \in [VSlot -> 0 .. MaxReq + Pool] /\ \A i \in VSlot : reqs[i] + 0 <= Pool + rq
    BY <1>1, <1>5 DEF LoadT
  <2>2. \A i \in VSlot : reqs[i] + 0 <= Pool + rq'
    BY <1>2, <1>4, <2>1
  <2> QED BY <1>2, <1>5, <1>8, <2>1, <2>2 DEF LoadT
<1>10. cp' \in VSlot /\ cp' <= Start + rq' /\ calls' \in 0 .. Warmup
  BY <1>2, <1>3, <1>4
<1>11. BlcT'
  BY <1>1, <1>2, <1>10 DEF BlcT
<1>12. Loop'
  BY <1>1, <1>2, <1>5 DEF Loop
<1> QED BY <1>2, <1>6, <1>7, <1>9, <1>11, <1>12, Apart
-----------------------------------------------------------------------------
(***************************************************************************)
(* The traffic processes.                                                  *)
(***************************************************************************)
LEMMA TakeRequestInv == ASSUME IndInv, NEW p \in Pid, TakeRequest(p), UNCHANGED policy PROVE IndInv'
<1>1. KidsT /\ ViewT /\ LoadT /\ BlcT /\ Loop
  BY DEF IndInv
<1>2. /\ queue[p] > 0 /\ queue' = [queue EXCEPT ![p] = @ - 1]
      /\ busy' = [busy EXCEPT ![p] = IF @ < Pool THEN @ + 1 ELSE @]
      /\ UNCHANGED <<master, st, home, final, vin, lost, view, blc>>
  BY DEF TakeRequest
<1>3. queue[p] \in 0 .. QLen /\ busy[p] \in 0 .. Pool /\ QLen \in Nat /\ Pool \in Nat
  BY <1>1, Numbers DEF KidsT
<1>4. queue[p] - 1 \in 0 .. QLen /\ (IF busy[p] < Pool THEN busy[p] + 1 ELSE busy[p]) \in 0 .. Pool
  BY <1>2, <1>3
<1>5. queue' \in [Pid -> 0 .. QLen] /\ busy' \in [Pid -> 0 .. Pool]
  BY <1>1, <1>2, <1>4 DEF KidsT
<1>6. KidsT'
  BY <1>1, <1>2, <1>5 DEF KidsT, master
<1>7. ViewT' /\ LoadT' /\ BlcT' /\ Loop' /\ vfd' = vfd /\ vlast' = vlast
  BY <1>1, <1>2, VirtualSame
<1> QED BY <1>2, <1>6, <1>7, Apart

\* A message that is not the master's may be added or dropped.
LEMMA Feed ==
  ASSUME IndInv, NEW m \in Msg, m.cmd = "FEEDBACK", vin' = Push(vin, m), UNCHANGED <<master, st, lost, view, blc, policy>>, KidsT'
  PROVE  IndInv'
<1>1. MasterT /\ KidsT /\ Known /\ ViewT /\ LoadT /\ BlcT /\ Loop /\ ChanT /\ Bound /\ Caught
  BY DEF IndInv
<1>2. /\ MasterT' /\ Known' /\ Top' = Top /\ mlast' = mlast
      /\ \A s \in Slot : mpid'[s] = mpid[s] /\ (Live(s)' <=> Live(s))
  BY <1>1, MasterSame
<1>3. ViewT' /\ LoadT' /\ BlcT' /\ Loop' /\ vfd' = vfd /\ vlast' = vlast /\ vlast \in Int
  BY <1>1, VirtualSame
<1>4. Adds(m) = 0 /\ \A s : ~Speaks(m, s)
  BY AddsIs DEF Speaks
<1>5. /\ vin' \in Seq(Msg) /\ Len(vin') <= InLen
      /\ \A k \in DOMAIN vin' : vin'[k].cmd = "OPEN" => vin'[k].pid # -1
      /\ vin' = vin \/ vin' = Append(vin, m)
  BY <1>1, PushIs DEF ChanT
<1>6. ChanT'
  BY <1>1, <1>5 DEF ChanT
<1>7. CASE vin' = vin
  <2>1. UNCHANGED <<vin, lost, vfd, vlast>>
    BY <1>3, <1>7
  <2> QED BY <1>3, <2>1, Apart
<1>8. CASE vin' = Append(vin, m)
  <2>1. Bound'
    <3>1. Top \in Int /\ Top + Adds(m) <= Top
      BY <1>1, <1>4, UsedIs
    <3>2. AtMost(Append(vin, m), vlast, Top)
      BY <1>1, <1>3, <3>1, AtMostAppend DEF Bound, ChanT
    <3> QED BY <1>2, <1>3, <1>8, <3>2 DEF Bound
  <2>2. ASSUME ~lost' PROVE AtLeast(vin', vlast', mlast')
    <3>1. mlast \in Int /\ mlast <= mlast + Adds(m)
      BY <1>1, <1>4, Numbers DEF MasterT
    <3>2. AtLeast(vin, vlast, mlast)
      BY <1>1, <2>2 DEF Caught
    <3>3. AtLeast(Append(vin, m), vlast, mlast)
      BY <1>1, <1>3, <3>1, <3>2, AtLeastAppend DEF ChanT
    <3> QED BY <1>2, <1>3, <1>8, <3>3
  <2>3. ASSUME ~lost', NEW s \in Start .. mlast' - 1, Live(s)' PROVE Told(vin', vfd', s, mpid'[s])
    <3>1. s \in Slot /\ s \in Start .. mlast - 1
      <4>1. Nums
        BY <1>1, MasterNums
      <4> QED BY <1>2, <4>1 DEF Nums
    <3>2. Told(vin, vfd, s, mpid[s])
      BY <1>1, <1>2, <2>3, <3>1 DEF Caught
    <3>3. Told(Append(vin, m), vfd, s, mpid[s])
      BY <1>1, <1>4, <3>2, ToldAppend DEF ChanT
    <3> QED BY <1>2, <1>3, <1>8, <3>1, <3>3
  <2>4. Caught'
    BY <2>2, <2>3 DEF Caught
  <2> QED BY <1>2, <1>3, <1>6, <2>1, <2>4 DEF IndInv
<1> QED BY <1>5, <1>7, <1>8

LEMMA EndRequestInv == ASSUME IndInv, NEW p \in Pid, EndRequest(p), UNCHANGED policy PROVE IndInv'
<1> DEFINE m == [cmd |-> "FEEDBACK", slot |-> home[p], pid |-> p, fd |-> -1, reqs |-> busy[p]]
<1>1. KidsT /\ ViewT /\ LoadT /\ BlcT /\ Loop
  BY DEF IndInv
<1>2. /\ st[p] = "run" /\ busy[p] > 0 /\ (busy' = busy \/ busy' = [busy EXCEPT ![p] = @ - 1])
      /\ UNCHANGED <<master, st, home, queue, lost, view, blc>>
  BY DEF EndRequest
<1>3. \/ final' = [final EXCEPT ![p] = 0] /\ vin' = Push(vin, m)
      \/ final' = [final EXCEPT ![p] = @ + 1] /\ ~(final[p] + 1 >= Interval) /\ vin' = vin
      \/ final' = final /\ vin' = vin
  BY DEF EndRequest
<1>4. /\ busy[p] \in 0 .. Pool /\ final[p] \in 0 .. Interval /\ Pool \in Nat /\ Interval \in Nat /\ MaxPid \in Nat
      /\ p \in 1 .. MaxPid /\ home[p] \in 0 .. NSlots /\ home[p] # 0 /\ Slot = 1 .. NSlots + 1 /\ NSlots \in Nat
  BY <1>1, <1>2, Numbers DEF KidsT
<1>5. busy' \in [Pid -> 0 .. Pool]
  <2>1. busy[p] - 1 \in 0 .. Pool
    BY <1>2, <1>4
  <2> QED BY <1>1, <1>2, <2>1 DEF KidsT
<1>6. final' \in [Pid -> 0 .. Interval]
  <2>1. 0 \in 0 .. Interval /\ (~(final[p] + 1 >= Interval) => final[p] + 1 \in 0 .. Interval)
    BY <1>4
  <2> QED BY <1>1, <1>3, <2>1 DEF KidsT
<1>7. KidsT'
  BY <1>1, <1>2, <1>5, <1>6 DEF KidsT, master
<1>8. m \in Msg /\ m.cmd = "FEEDBACK"
  <2>1. home[p] \in Slot /\ p \in -1 .. MaxPid /\ -1 \in -1 .. MaxPid
    BY <1>4
  <2> QED BY <1>4, <2>1 DEF Msg
<1> HIDE DEF m
<1>9. CASE vin' = Push(vin, m)
  BY <1>2, <1>7, <1>8, <1>9, Feed
<1>10. CASE vin' = vin
  <2>1. ViewT' /\ LoadT' /\ BlcT' /\ Loop' /\ vfd' = vfd /\ vlast' = vlast
    BY <1>1, <1>2, VirtualSame
  <2> QED BY <1>2, <1>7, <1>10, <2>1, Apart
<1> QED BY <1>3, <1>9, <1>10

LEMMA DieInv == ASSUME IndInv, NEW p \in Pid, NEW how \in {"dead", "fatal"}, Die(p, how), UNCHANGED policy PROVE IndInv'
<1>1. MasterT /\ KidsT /\ Known /\ ViewT /\ LoadT /\ BlcT /\ Loop
  BY DEF IndInv
<1>2. /\ st[p] = "run" /\ crashes < MaxCrash /\ crashes' = crashes + 1 /\ st' = [st EXCEPT ![p] = how]
      /\ UNCHANGED <<mpid, mopen, exited, mlast, pslot, mpc, ri, cmd, cfd, todo, np, fails, adds,
                     home, queue, busy, final, vin, lost, view, blc>>
  BY DEF Die
<1>3. MasterT'
  <2>1. crashes' \in 0 .. MaxCrash
    BY <1>1, <1>2, Numbers DEF MasterT
  <2> QED BY <1>1, <1>2, <2>1 DEF MasterT
<1>4. st' \in [Pid -> {"none", "run", "dead", "fatal"}] /\ \A q \in Pid : st'[q] = IF q = p THEN how ELSE st[q]
  BY <1>1, <1>2 DEF KidsT
<1>5. KidsT'
  BY <1>1, <1>2, <1>4 DEF KidsT
<1>6. \A s \in Slot : mpid'[s] = mpid[s] /\ (Live(s)' => Live(s))
  BY <1>2, <1>4 DEF Live
<1>7. Known'
  BY <1>1, <1>2, <1>6 DEF Known
<1>8. Top <= Top'
  <2>1. Top' = Top /\ Top \in Int
    BY <1>1, <1>2, UsedIs DEF Top, Used
  <2> QED BY <2>1
<1>9. ViewT' /\ LoadT' /\ BlcT' /\ Loop' /\ vfd' = vfd /\ vlast' = vlast
  BY <1>1, <1>2, VirtualSame
<1> QED BY <1>2, <1>3, <1>5, <1>6, <1>7, <1>8, <1>9, Quiet
-----------------------------------------------------------------------------
(***************************************************************************)
(* The theorems.                                                           *)
(***************************************************************************)
LEMMA InitInv == ASSUME Init PROVE IndInv
<1>1. /\ NSlots \in Nat \ {0} /\ MaxPid \in Nat /\ Slot = 1 .. NSlots + 1 /\ Start = 1 /\ VSlot = 1 .. VLast /\ VLast \in Nat
      /\ MaxReq \in Nat /\ Pool \in Nat /\ QLen \in Nat /\ InLen \in Nat /\ Interval \in Nat /\ Warmup \in Nat
      /\ Boot \in Nat /\ MaxExtra \in Nat /\ MaxCrash \in Nat /\ Pid = 1 .. MaxPid /\ NSlots + 1 <= VLast
  BY Numbers
<1>2. 0 \in -1 .. MaxPid /\ -1 \in -1 .. MaxPid /\ Start \in Slot /\ Start \in VSlot /\ 0 \in 0 .. MaxReq + Pool
  BY <1>1
<1>3. MasterT
  <2>1. Boot \in 0 .. Boot + MaxExtra /\ 0 \in 0 .. MaxPid /\ 0 \in 0 .. MaxCrash /\ 0 \in 0 .. MaxExtra
        /\ 0 + 0 <= MaxExtra /\ 0 \in 0 .. NSlots
    BY <1>1
  <2>2. mpid \in [Slot -> -1 .. MaxPid] /\ mopen \in [Slot -> BOOLEAN] /\ exited \in [Slot -> BOOLEAN]
    BY <1>2 DEF Init
  <2> QED BY <1>2, <2>1, <2>2 DEF Init, MasterT
<1>4. KidsT
  <2>1. 0 \in 0 .. QLen /\ 0 \in 0 .. Pool /\ 0 \in 0 .. Interval /\ 0 \in 0 .. NSlots
    BY <1>1
  <2> QED BY <2>1 DEF Init, KidsT
<1>5. ChanT
  <2>1. vin = <<>> /\ lost = FALSE
    BY DEF Init
  <2>2. vin \in Seq(Msg) /\ Len(vin) = 0 /\ DOMAIN vin = {}
    BY <2>1
  <2>3. Len(vin) <= InLen
    BY <1>1, <2>2
  <2>4. lost \in BOOLEAN
    BY <2>1
  <2> QED BY <2>2, <2>3, <2>4 DEF ChanT
<1>6. ViewT
  BY <1>2 DEF Init, ViewT
<1>7. LoadT
  <2>1. reqs = [i \in VSlot |-> 0] /\ vpc = "idle" /\ rq = 0
    BY DEF Init
  <2>2. 0 + 0 <= Pool + 0 /\ 0 \in 0 .. MaxReq
    BY <1>1
  <2> QED BY <1>2, <2>1, <2>2 DEF LoadT
<1>8. BlcT
  <2>1. cur = Start /\ bn = -1 /\ minr = 0 /\ cp = Start /\ calls = 0 /\ users = FALSE /\ rq = 0
    BY DEF Init
  <2>2. 0 \in 0 .. Warmup /\ Start <= Start + 0
    BY <1>1
  <2>3. users \in BOOLEAN
    BY <2>1
  <2>4. cp <= Start + rq /\ bn \in Int
    BY <2>1, <2>2
  <2> QED BY <1>2, <2>1, <2>2, <2>3, <2>4 DEF BlcT
<1>9. Loop
  BY DEF Init, Loop
<1>10. Known
  <2>1. \A s \in Slot : mpid[s] = 0 /\ exited[s] = FALSE
    BY DEF Init
  <2>2. np = 0
    BY DEF Init
  <2> QED BY <2>1, <2>2 DEF Known
<1>11. vin = <<>> /\ vlast = 1 /\ mlast = 1 /\ Len(vin) = 0
  BY <1>1 DEF Init
<1> DEFINE f == [k \in 0 .. 0 |-> 1]
<1>12. f \in [0 .. 0 -> Int] /\ f[0] = 1 /\ \A k \in 0 .. 0 : f[k] = 1
  OBVIOUS
<1> HIDE DEF f
<1>13. Top = 1
  <2>1. Start .. mlast - 1 = {}
    BY <1>1, <1>11
  <2>2. Used = {}
    BY <2>1 DEF Used
  <2>3. Cardinality(Used) = 0
    BY <2>2, FS_EmptySet
  <2>4. np = 0 /\ todo = Boot /\ adds = 0 /\ fails = 0
    BY DEF Init
  <2> QED BY <1>1, <2>3, <2>4 DEF Top
<1>14. Bound
  <2>1. \A k \in 1 .. 0 : FALSE
    OBVIOUS
  <2> QED BY <1>11, <1>12, <1>13, <2>1 DEF Bound, AtMost
<1>15. Caught
  <2>1. \A k \in 1 .. 0 : FALSE
    OBVIOUS
  <2>2. AtLeast(vin, vlast, mlast)
    BY <1>11, <1>12, <2>1 DEF AtLeast
  <2>3. \A s \in Start .. mlast - 1 : FALSE
    BY <1>1, <1>11
  <2> QED BY <2>2, <2>3 DEF Caught
<1> QED BY <1>3, <1>4, <1>5, <1>6, <1>7, <1>8, <1>9, <1>10, <1>14, <1>15 DEF IndInv

LEMMA SameInv == ASSUME IndInv, UNCHANGED vars PROVE IndInv'
<1>1. KidsT /\ ViewT /\ LoadT /\ BlcT /\ Loop
  BY DEF IndInv
<1>2. UNCHANGED <<policy, master, kids, vin, lost, view, blc>>
  BY DEF vars
<1>3. UNCHANGED <<st, home, queue, busy, final>>
  BY <1>2 DEF kids
<1>4. KidsT'
  BY <1>1, <1>2, <1>3 DEF KidsT, master
<1>5. ViewT' /\ LoadT' /\ BlcT' /\ Loop' /\ vfd' = vfd /\ vlast' = vlast
  BY <1>1, <1>2, VirtualSame
<1> QED BY <1>2, <1>3, <1>4, <1>5, Apart

LEMMA NextInv == ASSUME IndInv, [Next]_vars PROVE IndInv'
<1>1. ASSUME Master, UNCHANGED policy PROVE IndInv'
  BY <1>1, StartTrafficInv, StartTrafficFailsInv, SigAddInv, PassSimulationInv, ReapStartInv, ReapSkipInv,
     ReapRespawnInv, ReapRespawnFailsInv, ReapDropInv DEF Master
<1>2. ASSUME Virtual, UNCHANGED policy PROVE IndInv'
  BY <1>2, HandleOpenInv, HandleCloseInv, HandleSimulationInv, HandleFeedbackInv, RequestInv, SendOkInv,
     SendFailsInv, PollInv DEF Virtual
<1>3. ASSUME Traffic, UNCHANGED policy PROVE IndInv'
  BY <1>3, TakeRequestInv, EndRequestInv, DieInv DEF Traffic
<1> QED BY <1>1, <1>2, <1>3, SameInv DEF Next

LEMMA Inductive == Spec => []IndInv
<1>1. Init => IndInv
  BY InitInv
<1>2. IndInv /\ [Next]_vars => IndInv'
  BY NextInv
<1> QED BY <1>1, <1>2, PTL DEF Spec

LEMMA Typed == IndInv => TypeOK
  BY DEF IndInv, TypeOK, MasterT, KidsT, ChanT, ViewT, LoadT, BlcT, Loop

\* The loop that looks for a process to take a request (ntg_user_balance_process_request)
\* tries no slot twice, whatever was respawned, dropped or marked meanwhile.
THEOREM TriesEachOnce == Spec => []NoSlotTriedTwice
<1>1. IndInv => NoSlotTriedTwice
  BY DEF IndInv, Loop, NoSlotTriedTwice
<1> QED BY <1>1, Inductive, PTL

\* The unchecked count of the OPEN handler: ntg_last_process of the virtual process stays inside
\* ntg_processes[] as long as three times the forks and the starts and failures together are
\* fewer than its entries, and only so long is it known to.
THEOREM CountIsOfForks == Spec => []LastProcessCounts
<1>1. IndInv => LastProcessCounts
  <2> SUFFICES ASSUME IndInv PROVE LastProcessCounts
    OBVIOUS
  <2>1. MasterT /\ ChanT /\ ViewT /\ AtMost(vin, vlast, Top)
    BY DEF IndInv, Bound
  <2>2. Cardinality(Used) \in Nat /\ Top \in Int
    BY <2>1, UsedIs
  <2>3. vlast \in Int /\ vin \in Seq(Msg)
    BY <2>1, Numbers DEF ViewT, ChanT
  <2>4. vlast <= Top
    BY <2>1, <2>2, <2>3, AtMostNow
  <2>5. np \in Int /\ adds \in Int /\ todo \in Int /\ fails \in Int /\ Boot \in Int /\ Start = 1
    BY <2>1, Numbers DEF MasterT
  <2> QED BY <2>2, <2>3, <2>4, <2>5 DEF LastProcessCounts, Top
<1> QED BY <1>1, Inductive, PTL

\* Once the virtual process has handled every OPEN and CLOSE and none was dropped, its copy
\* of ntg_processes[] leads to every live traffic process of the master's table, whatever
\* crashes, respawns, failing forks and additions went before.
THEOREM CopyCatchesUp == Spec => []Reachable
<1>1. IndInv => Reachable
  <2> SUFFICES ASSUME IndInv, vin = <<>>, ~lost, NEW s \in Start .. mlast - 1, mpid[s] \in Pid, st[mpid[s]] = "run"
               PROVE  s < vlast /\ vfd[s] = mpid[s]
    BY DEF Reachable
  <2>1. AtLeast(<<>>, vlast, mlast) /\ Told(<<>>, vfd, s, mpid[s])
    BY DEF IndInv, Caught, Live
  <2>2. vlast \in Int /\ mlast \in Int /\ Start = 1
    BY Numbers DEF IndInv, ViewT, MasterT
  <2>3. mlast <= vlast
    BY <2>1, <2>2, AtLeastNow
  <2>4. s < vlast
    BY <2>2, <2>3
  <2>5. vfd[s] = mpid[s]
    BY <2>1 DEF Told
  <2> QED BY <2>4, <2>5
<1> QED BY <1>1, Inductive, PTL

\* The balancer gives a request up only when every slot it knows of is marked as exiting: a
\* process that has not refused a write is never passed over.
THEOREM NobodyPassedOver == Spec => GivesUpOnlyWhenAllMarked
<1>1. IndInv /\ [Next]_vars =>
        [vpc = "send" /\ vpc' = "idle" /\ queue' = queue => \A i \in Start .. vlast - 1 : vexit'[i]]_vars
  <2> SUFFICES ASSUME IndInv, Next, vpc = "send", vpc' = "idle", queue' = queue, NEW i \in Start .. vlast - 1
               PROVE  vexit'[i]
    BY DEF vars
  <2>1. vpc' # vpc
    OBVIOUS
  <2>2. ~Master
    BY <2>1 DEF Master, StartTraffic, StartTrafficFails, SigAdd, PassSimulation, ReapStart, ReapSkip,
                ReapRespawn, ReapRespawnFails, ReapDrop, ReapDone, blc
  <2>3. ~Traffic
    BY <2>1 DEF Traffic, TakeRequest, EndRequest, Die, blc
  <2>4. ~HandleOpen /\ ~HandleClose /\ ~HandleSimulation /\ ~HandleFeedback /\ ~Request
    BY DEF HandleOpen, HandleClose, HandleSimulation, HandleFeedback, ReadChannel, Request
  <2>5. ~Poll
    BY <2>1 DEF Poll
  <2>6. ~SendOk
    <3> SUFFICES ASSUME SendOk PROVE FALSE
      OBVIOUS
    <3>1. vfd[cur] \in Pid /\ queue' = [queue EXCEPT ![vfd[cur]] = @ + 1]
      BY DEF SendOk, Accepts, Peer
    <3>2. queue \in [Pid -> 0 .. QLen]
      BY DEF IndInv, KidsT
    <3>3. queue'[vfd[cur]] = queue[vfd[cur]] + 1 /\ queue[vfd[cur]] \in Int
      BY <3>1, <3>2
    <3> QED BY <3>3
  <2>7. SendFails /\ UNCHANGED policy
    BY <2>2, <2>3, <2>4, <2>5, <2>6 DEF Next, Virtual
  <2>8. bn' = 0
    BY <2>7 DEF SendFails
  <2>9. Pros(vexit', vlast) = {}
    BY <2>7, <2>8, SendFailsInv
  <2>10. vpid[i] # -1
    <3>1. vlast \in VSlot /\ \A j \in VSlot : vpid[j] # -1
      BY DEF IndInv, ViewT
    <3>2. i \in VSlot
      BY <3>1, Numbers
    <3> QED BY <3>1, <3>2
  <2> QED BY <2>9, <2>10 DEF Pros
<1> QED BY <1>1, Inductive, PTL DEF Spec, GivesUpOnlyWhenAllMarked
=============================================================================
