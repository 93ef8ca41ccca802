---------------------------- MODULE RemoteProofs ----------------------------
(***************************************************************************)
(* Theorems about Remote for any table, any number of connections and any  *)
(* front end.  A connection is deleted from the table by the id it has     *)
(* now, so all depends on the id of an entry never changing: Steady says   *)
(* which front ends see to that.  The operators of HashTable are reasoned  *)
(* about first, for a table t and ids that need not be the variables.      *)
(***************************************************************************)
EXTENDS Remote, NatLemmas

\* No connection changes its id: it sends one message, or always the same id.
Steady ==
  \/ MaxMsg <= 1
  \/ "null" \notin front.kinds /\ \A c \in Conn : \A k, l \in front.ids[c] : k = l

ChainT == [Bucket -> Seq(Conn)]

\* OneEntryPerId for a table t under the ids `ids'.
Sorted(t, ids) ==
  \A b \in Bucket : \A i, j \in DOMAIN t.chain[b] :
    /\ ids[t.chain[b][i]] % Size = b
    /\ i # j => ids[t.chain[b][i]] # ids[t.chain[b][j]]

\* Every connection has an id of its own, in a bucket of its own.
OwnIds ==
  /\ "null" \notin front.kinds
  /\ \A c \in Conn : \E k \in front.ids[c] : front.ids[c] = {k}
  /\ \A c, d \in Conn : c # d => \A k \in front.ids[c], l \in front.ids[d] : k % Size # l % Size

\* The nodes in the chains and in the pool are never more than there are.
Counted(t) == IsFiniteSet(Places(t)) /\ Nodes(t) \in Int /\ Nodes(t) <= NodeN

\* What any front end leaves true.
Base == front \in FrontEnds /\ TypeOK /\ Counted(table)

\* The id of an entry came with a command; without null messages it is one the front end sends.
Came ==
  \A c \in Objects(table) : sent[c] > 0 /\ ("null" \notin front.kinds => id[c] \in front.ids[c])

\* What front ends that are steady leave true; none of their nodes is lost while every
\* connection has an id and a bucket of its own.
Good ==
  /\ Objects(table) \subseteq open /\ Sorted(table, id) /\ Came
  /\ OwnIds => Nodes(table) = NodeN

IndInv == Base /\ (Steady => Good)

\* A step loses no node, or those behind a head that is deleted.
Lost(t, t2, b) == Len(t.chain[b]) > 1 /\ t2.chain[b] = <<>> /\ Nodes(t2) = Nodes(t) - (Len(t.chain[b]) - 1)
Kept(t, t2)    == Nodes(t2) = Nodes(t) \/ \E b \in Bucket : Lost(t, t2, b)
-----------------------------------------------------------------------------
(***************************************************************************)
(* The table.                                                              *)
(***************************************************************************)
LEMMA BucketOf ==
  ASSUME NEW k \in Nat PROVE k % Size \in Bucket
  BY HashTableAssumption DEF HashTableAssumption, Bucket

LEMMA ObjectsIs ==
  ASSUME NEW t, NEW c
  PROVE  c \in Objects(t) <=> \E b \in Bucket : \E i \in DOMAIN t.chain[b] : t.chain[b][i] = c
  BY DEF Objects, Range

LEMMA PlacesIs ==
  ASSUME NEW t, NEW e
  PROVE  e \in Places(t) <=> \E b \in Bucket : \E i \in DOMAIN t.chain[b] : e = <<b, i>>
  BY DEF Places

\* RemoveAt takes one element out and keeps the order of the others.
LEMMA RemoveIs ==
  ASSUME NEW s \in Seq(Conn), NEW j \in DOMAIN s
  PROVE  /\ RemoveAt(s, j) \in Seq(Conn) /\ Len(RemoveAt(s, j)) = Len(s) - 1
         /\ \A i \in 1 .. Len(s) - 1 : RemoveAt(s, j)[i] = s[IF i < j THEN i ELSE i + 1]
<1> DEFINE a == SubSeq(s, 1, j - 1)
           z == SubSeq(s, j + 1, Len(s))
<1>1. j \in 1 .. Len(s) /\ Len(s) \in Nat
  OBVIOUS
<1>2. a \in Seq(Conn) /\ Len(a) = j - 1 /\ \A i \in 1 .. j - 1 : a[i] = s[i]
  BY <1>1
<1>3. z \in Seq(Conn) /\ Len(z) = Len(s) - j /\ \A i \in 1 .. Len(s) - j : z[i] = s[i + j]
  BY <1>1
<1>4. RemoveAt(s, j) = a \o z
  BY DEF RemoveAt
<1> HIDE DEF a, z
<1>5. /\ a \o z \in Seq(Conn) /\ Len(a \o z) = Len(a) + Len(z)
      /\ \A i \in 1 .. Len(a) + Len(z) : (a \o z)[i] = IF i <= Len(a) THEN a[i] ELSE z[i - Len(a)]
  BY <1>2, <1>3, SMTT(30)
<1>6. ASSUME NEW i \in 1 .. Len(s) - 1 PROVE (a \o z)[i] = s[IF i < j THEN i ELSE i + 1]
  <2>1. CASE i < j
    BY <1>1, <1>2, <1>3, <1>5, <2>1, SMTT(30)
  <2>2. CASE ~(i < j)
    <3>1. i - (j - 1) \in 1 .. Len(s) - j /\ (i - (j - 1)) + j = i + 1
      BY <1>1, <2>2
    <3>2. z[i - (j - 1)] = s[i + 1]
      BY <1>3, <3>1
    <3>3. i \in 1 .. Len(a) + Len(z) /\ ~(i <= Len(a)) /\ i - Len(a) = i - (j - 1)
      BY <1>1, <1>2, <1>3, <2>2
    <3>4. (a \o z)[i] = z[i - (j - 1)]
      BY <1>5, <3>3
    <3> QED BY <2>2, <3>2, <3>4
  <2> QED BY <2>1, <2>2
<1>7. Len(a) + Len(z) = Len(s) - 1
  BY <1>1, <1>2, <1>3
<1> QED BY <1>4, <1>5, <1>6, <1>7

\* What ntg_hash_insert_node does to the chains.
LEMMA InsertIs ==
  ASSUME NEW t, t.chain \in ChainT, NEW k \in Nat, NEW c \in Conn, NEW t2, t2 = InsertNode(t, k, c)
  PROVE  /\ t2.chain \in ChainT /\ t2.free = t.free - 1
         /\ \A b \in Bucket : b # k % Size => t2.chain[b] = t.chain[b]
         /\ Len(t2.chain[k % Size]) = Len(t.chain[k % Size]) + 1 /\ t2.chain[k % Size][1] = c
         /\ \A i \in DOMAIN t.chain[k % Size] : t2.chain[k % Size][i + 1] = t.chain[k % Size][i]
<1> DEFINE m == k % Size
           s == <<c>> \o t.chain[m]
<1>1. m \in Bucket
  BY BucketOf
<1>2. t2.chain = [t.chain EXCEPT ![m] = s] /\ t2.free = t.free - 1
  BY DEF InsertNode
<1> HIDE DEF m
<1>3. t.chain[m] \in Seq(Conn)
  BY <1>1 DEF ChainT
<1>4. /\ s \in Seq(Conn) /\ Len(s) = Len(t.chain[m]) + 1 /\ s[1] = c
      /\ \A i \in DOMAIN t.chain[m] : s[i + 1] = t.chain[m][i]
  BY <1>3
<1> HIDE DEF s
<1>5. t2.chain \in ChainT /\ t2.chain[m] = s /\ \A b \in Bucket : b # m => t2.chain[b] = t.chain[b]
  BY <1>1, <1>2, <1>4 DEF ChainT
<1> QED BY <1>2, <1>4, <1>5 DEF m

\* The node found under k goes, with all nodes behind it if it is the head.
Cut(t, t2, ids, k) ==
  /\ t2.chain \in ChainT /\ t2.free = t.free + 1
  /\ \A b \in Bucket : b # k % Size => t2.chain[b] = t.chain[b]
  /\ \E j \in DOMAIN t.chain[k % Size] :
       /\ ids[t.chain[k % Size][j]] = k
       /\ \/ t2.chain[k % Size] = <<>>
          \/ /\ j # 1 /\ Len(t2.chain[k % Size]) = Len(t.chain[k % Size]) - 1
             /\ \A i \in DOMAIN t2.chain[k % Size] :
                  t2.chain[k % Size][i] = t.chain[k % Size][IF i < j THEN i ELSE i + 1]

\* What ntg_hash_delete_node does to the chains.
LEMMA DeleteIs ==
  ASSUME NEW t, t.chain \in ChainT, NEW ids, NEW k \in Nat, NEW t2, t2 = DeleteNode(t, ids, k)
  PROVE  \/ ~Found(t, ids, k) /\ t2 = t
         \/ Cut(t, t2, ids, k)
<1> DEFINE m == k % Size
           ch == t.chain[m]
           j == Min(Hits(t, ids, k))
           s == IF j = 1 THEN <<>> ELSE RemoveAt(ch, j)
<1>1. m \in Bucket
  BY BucketOf
<1>2. CASE ~Found(t, ids, k)
  BY <1>2 DEF DeleteNode
<1>3. CASE Found(t, ids, k)
  <2>1. t2.chain = [t.chain EXCEPT ![m] = s] /\ t2.free = t.free + 1
    BY <1>3 DEF DeleteNode
  <2>2. ch \in Seq(Conn)
    BY <1>1 DEF ChainT
  <2>3. Hits(t, ids, k) \subseteq Nat /\ Hits(t, ids, k) # {} /\ Hits(t, ids, k) = {i \in DOMAIN ch : ids[ch[i]] = k}
    BY <1>3, <2>2 DEF Hits, Found
  <2>4. j \in DOMAIN ch /\ ids[ch[j]] = k
    <3>1. j \in Hits(t, ids, k)
      BY <2>3, MinNat
    <3> QED BY <2>3, <3>1
  <2> HIDE DEF j, ch
  <2>5. /\ s \in Seq(Conn)
        /\ \/ s = <<>>
           \/ /\ j # 1 /\ Len(s) = Len(ch) - 1
              /\ \A i \in DOMAIN s : s[i] = ch[IF i < j THEN i ELSE i + 1]
    <3>1. CASE j = 1
      BY <3>1
    <3>2. CASE j # 1
      <4>1. /\ s \in Seq(Conn) /\ Len(s) = Len(ch) - 1
            /\ \A i \in 1 .. Len(ch) - 1 : s[i] = ch[IF i < j THEN i ELSE i + 1]
        BY <2>2, <2>4, <3>2, RemoveIs
      <4>2. DOMAIN s = 1 .. Len(ch) - 1
        BY <4>1
      <4> QED BY <3>2, <4>1, <4>2
    <3> QED BY <3>1, <3>2
  <2> HIDE DEF m, s
  <2>6. t2.chain \in ChainT /\ t2.chain[m] = s /\ \A b \in Bucket : b # m => t2.chain[b] = t.chain[b]
    BY <1>1, <2>1, <2>5 DEF ChainT
  <2> QED BY <2>1, <2>4, <2>5, <2>6 DEF m, ch, Cut
<1> QED BY <1>2, <1>3
-----------------------------------------------------------------------------
(***************************************************************************)
(* Entries.                                                                *)
(***************************************************************************)

\* The order of the entries depends on their own ids only.
LEMMA SortedFrame ==
  ASSUME NEW t, NEW ids, NEW ids2, Sorted(t, ids), \A c \in Objects(t) : ids2[c] = ids[c]
  PROVE  Sorted(t, ids2)
<1>1. ASSUME NEW b \in Bucket, NEW i \in DOMAIN t.chain[b] PROVE ids2[t.chain[b][i]] = ids[t.chain[b][i]]
  <2>1. t.chain[b][i] \in Objects(t)
    BY ObjectsIs
  <2> QED BY <2>1
<1> QED BY <1>1 DEF Sorted

\* A connection whose id is not in the table is put into it.
LEMMA InsertSorted ==
  ASSUME NEW t, t.chain \in ChainT, NEW ids, NEW c \in Conn, ids[c] \in Nat,
         Sorted(t, ids), ~Found(t, ids, ids[c]),
         NEW t2, t2 = InsertNode(t, ids[c], c)
  PROVE  Sorted(t2, ids) /\ Objects(t2) = Objects(t) \cup {c}
<1> DEFINE m == ids[c] % Size
<1>1. /\ t2.chain \in ChainT
      /\ \A b \in Bucket : b # m => t2.chain[b] = t.chain[b]
      /\ Len(t2.chain[m]) = Len(t.chain[m]) + 1 /\ t2.chain[m][1] = c
      /\ \A i \in DOMAIN t.chain[m] : t2.chain[m][i + 1] = t.chain[m][i]
  BY InsertIs
<1>2. m \in Bucket
  BY BucketOf
<1>3. \A i \in DOMAIN t.chain[m] : ids[t.chain[m][i]] # ids[c]
  BY DEF Found, Hits
<1>m. m = ids[c] % Size
  OBVIOUS
<1> HIDE DEF m
<1>4. t.chain[m] \in Seq(Conn) /\ t2.chain[m] \in Seq(Conn)
  BY <1>1, <1>2 DEF ChainT
<1>5. \A i \in DOMAIN t2.chain[m] : i = 1 \/ (i - 1 \in DOMAIN t.chain[m] /\ t2.chain[m][i] = t.chain[m][i - 1])
  <2>1. ASSUME NEW i \in DOMAIN t2.chain[m], i # 1
        PROVE  i - 1 \in DOMAIN t.chain[m] /\ t2.chain[m][i] = t.chain[m][i - 1]
    <3>1. i \in 2 .. Len(t.chain[m]) + 1
      BY <1>1, <1>4, <2>1
    <3>2. i - 1 \in DOMAIN t.chain[m] /\ (i - 1) + 1 = i
      BY <1>4, <3>1
    <3> QED BY <1>1, <3>2
  <2> QED BY <2>1
<1>6. Sorted(t2, ids)
  <2>1. ASSUME NEW b \in Bucket, NEW i \in DOMAIN t2.chain[b], NEW j \in DOMAIN t2.chain[b]
        PROVE  /\ ids[t2.chain[b][i]] % Size = b
               /\ i # j => ids[t2.chain[b][i]] # ids[t2.chain[b][j]]
    <3>1. CASE b # m
      BY <1>1, <2>1, <3>1 DEF Sorted
    <3>2. CASE b = m
      <4>1. CASE i = 1 /\ j = 1
        BY <1>1, <1>m, <3>2, <4>1
      <4>2. CASE i = 1 /\ j # 1
        <5>1. j - 1 \in DOMAIN t.chain[m] /\ t2.chain[m][j] = t.chain[m][j - 1]
          BY <1>5, <2>1, <3>2, <4>2
        <5>2. t2.chain[b][i] = c /\ ids[t.chain[m][j - 1]] # ids[c]
          BY <1>1, <1>3, <3>2, <4>2, <5>1
        <5> QED BY <1>m, <3>2, <5>1, <5>2
      <4>3. CASE i # 1 /\ j = 1
        <5>1. i - 1 \in DOMAIN t.chain[m] /\ t2.chain[m][i] = t.chain[m][i - 1]
          BY <1>5, <2>1, <3>2, <4>3
        <5>2. t2.chain[b][j] = c /\ ids[t.chain[m][i - 1]] # ids[c]
          BY <1>1, <1>3, <3>2, <4>3, <5>1
        <5>3. ids[t.chain[m][i - 1]] % Size = m
          BY <1>2, <5>1 DEF Sorted
        <5> QED BY <3>2, <5>1, <5>2, <5>3
      <4>4. CASE i # 1 /\ j # 1
        <5>1. /\ i - 1 \in DOMAIN t.chain[m] /\ t2.chain[m][i] = t.chain[m][i - 1]
              /\ j - 1 \in DOMAIN t.chain[m] /\ t2.chain[m][j] = t.chain[m][j - 1]
          BY <1>5, <2>1, <3>2, <4>4
        <5>2. i # j => i - 1 # j - 1
          BY <1>4, <2>1, <3>2
        <5> QED BY <1>2, <3>2, <5>1, <5>2 DEF Sorted
      <4> QED BY <4>1, <4>2, <4>3, <4>4
    <3> QED BY <3>1, <3>2
  <2> QED BY <2>1 DEF Sorted
<1>7. ASSUME NEW d PROVE d \in Objects(t2) <=> d \in Objects(t) \/ d = c
  <2>1. ASSUME d \in Objects(t2) PROVE d \in Objects(t) \/ d = c
    <3>1. PICK b, i : b \in Bucket /\ i \in DOMAIN t2.chain[b] /\ t2.chain[b][i] = d
      BY <2>1, ObjectsIs
    <3>2. CASE b # m
      BY <1>1, <3>1, <3>2, ObjectsIs
    <3>3. CASE b = m
      BY <1>1, <1>2, <1>5, <3>1, <3>3, ObjectsIs
    <3> QED BY <3>2, <3>3
  <2>2. ASSUME d \in Objects(t) PROVE d \in Objects(t2)
    <3>1. PICK b, i : b \in Bucket /\ i \in DOMAIN t.chain[b] /\ t.chain[b][i] = d
      BY <2>2, ObjectsIs
    <3>2. CASE b # m
      BY <1>1, <3>1, <3>2, ObjectsIs
    <3>3. CASE b = m
      <4>1. i + 1 \in DOMAIN t2.chain[m]
        BY <1>1, <1>4, <3>1, <3>3
      <4> QED BY <1>1, <1>2, <3>1, <3>3, <4>1, ObjectsIs
    <3> QED BY <3>2, <3>3
  <2>3. c \in Objects(t2)
    <3>1. 1 \in DOMAIN t2.chain[m]
      BY <1>1, <1>4
    <3> QED BY <1>1, <1>2, <3>1, ObjectsIs
  <2> QED BY <2>1, <2>2, <2>3
<1> QED BY <1>6, <1>7

\* Deleting by the id of c takes c out of the table and puts nobody in.
LEMMA DeleteSorted ==
  ASSUME NEW t, t.chain \in ChainT, NEW ids, NEW c \in Conn, ids[c] \in Nat,
         Sorted(t, ids), NEW t2, t2 = DeleteNode(t, ids, ids[c])
  PROVE  t2.chain \in ChainT /\ Sorted(t2, ids) /\ c \notin Objects(t2) /\ Objects(t2) \subseteq Objects(t)
<1> DEFINE k == ids[c]
           m == k % Size
<1>1. m \in Bucket
  BY BucketOf
<1>2. ASSUME NEW b \in Bucket, NEW i \in DOMAIN t.chain[b], t.chain[b][i] = c
      PROVE  b = m /\ Found(t, ids, k)
  BY <1>2 DEF Sorted, Found, Hits
<1>3. CASE ~Found(t, ids, k) /\ t2 = t
  BY <1>2, <1>3, ObjectsIs
<1>4. CASE Cut(t, t2, ids, k)
  <2>0. t2.chain \in ChainT /\ \A b \in Bucket : b # m => t2.chain[b] = t.chain[b]
    BY <1>4 DEF Cut
  <2> DEFINE s == t.chain[m]
             s2 == t2.chain[m]
  <2>1. PICK j \in DOMAIN s :
          /\ ids[s[j]] = k
          /\ \/ s2 = <<>>
             \/ /\ j # 1 /\ Len(s2) = Len(s) - 1
                /\ \A i \in DOMAIN s2 : s2[i] = s[IF i < j THEN i ELSE i + 1]
    BY <1>4 DEF Cut
  <2>2. s \in Seq(Conn) /\ s2 \in Seq(Conn)
    BY <1>1, <2>0 DEF ChainT
  <2>3. \A i, l \in DOMAIN s : ids[s[i]] % Size = m /\ (i # l => ids[s[i]] # ids[s[l]])
    BY <1>1 DEF Sorted
  <2> HIDE DEF s, s2, k, m
  <2> DEFINE to(i) == IF i < j THEN i ELSE i + 1
  <2>4. ASSUME NEW i \in DOMAIN s2 PROVE to(i) \in DOMAIN s /\ to(i) # j /\ s2[i] = s[to(i)]
    <3>1. s2 # <<>>
      BY <2>4
    <3>2. Len(s2) = Len(s) - 1 /\ s2[i] = s[to(i)]
      BY <2>1, <3>1
    <3>3. i \in 1 .. Len(s) - 1 /\ j \in 1 .. Len(s) /\ DOMAIN s = 1 .. Len(s) /\ Len(s) \in Nat
      BY <2>2, <3>2
    <3>4. to(i) \in 1 .. Len(s) /\ to(i) # j
      BY <3>3
    <3> QED BY <3>2, <3>3, <3>4
  <2>5. \A i, l \in DOMAIN s2 : i # l => to(i) # to(l)
    BY <2>2
  <2> HIDE DEF to
  <2>6. \A i, l \in DOMAIN s2 : ids[s2[i]] % Size = m /\ (i # l => ids[s2[i]] # ids[s2[l]])
    BY <2>3, <2>4, <2>5
  <2>7. \A i \in DOMAIN s2 : s2[i] # c
    BY <2>1, <2>3, <2>4 DEF k
  <2>8. Sorted(t2, ids)
    <3>1. ASSUME NEW b \in Bucket, NEW i \in DOMAIN t2.chain[b], NEW l \in DOMAIN t2.chain[b]
          PROVE  ids[t2.chain[b][i]] % Size = b /\ (i # l => ids[t2.chain[b][i]] # ids[t2.chain[b][l]])
      <4>1. CASE b # m
        BY <2>0, <3>1, <4>1 DEF Sorted
      <4>2. CASE b = m
        BY <2>6, <3>1, <4>2 DEF s2
      <4> QED BY <4>1, <4>2
    <3> QED BY <3>1 DEF Sorted
  <2>9. ASSUME NEW d \in Objects(t2) PROVE d \in Objects(t) /\ d # c
    <3>1. PICK b, i : b \in Bucket /\ i \in DOMAIN t2.chain[b] /\ t2.chain[b][i] = d
      BY <2>9, ObjectsIs
    <3>2. CASE b # m
      BY <1>2, <2>0, <3>1, <3>2, ObjectsIs
    <3>3. CASE b = m
      <4>1. i \in DOMAIN s2 /\ s2[i] = d
        BY <3>1, <3>3 DEF s2
      <4>2. d # c /\ to(i) \in DOMAIN s /\ s[to(i)] = d
        BY <2>4, <2>7, <4>1
      <4> QED BY <1>1, <4>2, ObjectsIs DEF s
    <3> QED BY <3>2, <3>3
  <2> QED BY <2>0, <2>8, <2>9
<1>5. (~Found(t, ids, k) /\ t2 = t) \/ Cut(t, t2, ids, k)
  BY DeleteIs
<1> QED BY <1>3, <1>4, <1>5
-----------------------------------------------------------------------------
(***************************************************************************)
(* Nodes.                                                                  *)
(***************************************************************************)
LEMMA InsertCounted ==
  ASSUME NEW t, t.chain \in ChainT, NEW k \in Nat, NEW c \in Conn, NEW t2, t2 = InsertNode(t, k, c),
         IsFiniteSet(Places(t)), t.free \in Int
  PROVE  IsFiniteSet(Places(t2)) /\ Nodes(t2) = Nodes(t) /\ Nodes(t) \in Int
<1> DEFINE m == k % Size
           e == <<m, Len(t.chain[m]) + 1>>
<1>1. m \in Bucket
  BY BucketOf
<1>2. /\ t2.chain \in ChainT /\ t2.free = t.free - 1
      /\ \A b \in Bucket : b # m => t2.chain[b] = t.chain[b]
      /\ Len(t2.chain[m]) = Len(t.chain[m]) + 1
  BY InsertIs
<1> HIDE DEF m
<1>3. t.chain[m] \in Seq(Conn) /\ t2.chain[m] \in Seq(Conn)
  BY <1>1, <1>2 DEF ChainT
<1>4. DOMAIN t2.chain[m] = DOMAIN t.chain[m] \cup {Len(t.chain[m]) + 1} /\ Len(t.chain[m]) + 1 \notin DOMAIN t.chain[m]
  BY <1>2, <1>3
<1>5. e \notin Places(t)
  BY <1>4, PlacesIs
<1>6. Places(t2) = Places(t) \cup {e}
  <2>1. ASSUME NEW x \in Places(t2) PROVE x \in Places(t) \cup {e}
    <3>1. PICK b, i : b \in Bucket /\ i \in DOMAIN t2.chain[b] /\ x = <<b, i>>
      BY <2>1, PlacesIs
    <3> QED BY <1>2, <1>4, <3>1, PlacesIs
  <2>2. ASSUME NEW x \in Places(t) PROVE x \in Places(t2)
    <3>1. PICK b, i : b \in Bucket /\ i \in DOMAIN t.chain[b] /\ x = <<b, i>>
      BY <2>2, PlacesIs
    <3> QED BY <1>2, <1>4, <3>1, PlacesIs
  <2>3. e \in Places(t2)
    BY <1>1, <1>4, PlacesIs
  <2> QED BY <2>1, <2>2, <2>3
<1> HIDE DEF e
<1>7. /\ IsFiniteSet(Places(t2)) /\ Cardinality(Places(t)) \in Nat
      /\ Cardinality(Places(t2)) = Cardinality(Places(t)) + 1
  BY <1>5, <1>6, FS_AddElement, FS_CardinalityType
<1>8. t.free \in Int /\ t2.free = t.free - 1
  BY <1>2
<1> QED BY <1>7, <1>8 DEF Nodes

\* A deletion gives one node back and takes one out of the chains, or all of a chain.
LEMMA DeleteCounted ==
  ASSUME NEW t, t.chain \in ChainT, NEW ids, NEW k \in Nat, NEW t2, Cut(t, t2, ids, k),
         IsFiniteSet(Places(t)), t.free \in Int
  PROVE  /\ IsFiniteSet(Places(t2)) /\ Nodes(t) \in Int /\ Nodes(t2) \in Int
         /\ Nodes(t2) = Nodes(t) \/ Lost(t, t2, k % Size)
<1> DEFINE m == k % Size
           s == t.chain[m]
           s2 == t2.chain[m]
           e == <<m, Len(s)>>
<1>1. m \in Bucket
  BY BucketOf
<1>2. /\ t2.chain \in ChainT /\ t2.free = t.free + 1
      /\ \A b \in Bucket : b # m => t2.chain[b] = t.chain[b]
      /\ DOMAIN s # {} /\ (s2 = <<>> \/ Len(s2) = Len(s) - 1)
  BY DEF Cut
<1>m. m = k % Size
  OBVIOUS
<1> HIDE DEF m
<1>3. s \in Seq(Conn) /\ s2 \in Seq(Conn)
  BY <1>1, <1>2 DEF ChainT
<1>4. \A b, i : <<b, i>> \in Places(t) <=> b \in Bucket /\ i \in DOMAIN t.chain[b]
  BY PlacesIs
<1>5. \A b, i : <<b, i>> \in Places(t2) <=> b \in Bucket /\ i \in DOMAIN t2.chain[b]
  BY PlacesIs
<1>s. s = t.chain[m] /\ s2 = t2.chain[m]
  OBVIOUS
<1> HIDE DEF s, s2
<1>6. DOMAIN s = 1 .. Len(s) /\ Len(s) \in Nat \ {0}
  <2>1. DOMAIN s = 1 .. Len(s) /\ Len(s) \in Nat
    BY <1>3
  <2>2. PICK x : x \in 1 .. Len(s)
    BY <1>2, <2>1
  <2> QED BY <2>1, <2>2
<1>7. Cardinality(Places(t)) \in Nat
  BY FS_CardinalityType
<1>8. CASE Len(s2) = Len(s) - 1
  <2>1. DOMAIN s2 = DOMAIN s \ {Len(s)}
    <3>1. DOMAIN s2 = 1 .. Len(s2)
      BY <1>3
    <3>2. DOMAIN s2 = 1 .. Len(s) - 1
      BY <1>8, <3>1
    <3>3. 1 .. Len(s) - 1 = (1 .. Len(s)) \ {Len(s)}
      BY <1>6
    <3> QED BY <1>6, <3>2, <3>3
  <2>2. e \in Places(t)
    BY <1>1, <1>4, <1>6, <1>s
  <2>3. ASSUME NEW x PROVE x \in Places(t2) <=> x \in Places(t) /\ x # e
    <3>1. CASE x \in Places(t2)
      <4>1. PICK b, i : b \in Bucket /\ i \in DOMAIN t2.chain[b] /\ x = <<b, i>>
        BY <3>1, PlacesIs
      <4> QED BY <1>2, <1>4, <1>s, <2>1, <3>1, <4>1
    <3>2. CASE x \in Places(t)
      <4>1. PICK b, i : b \in Bucket /\ i \in DOMAIN t.chain[b] /\ x = <<b, i>>
        BY <3>2, PlacesIs
      <4> QED BY <1>2, <1>5, <1>s, <2>1, <3>2, <4>1
    <3> QED BY <3>1, <3>2
  <2>4. Places(t2) = Places(t) \ {e}
    BY <2>3
  <2> HIDE DEF e
  <2>5. IsFiniteSet(Places(t2)) /\ Cardinality(Places(t2)) = Cardinality(Places(t)) - 1
    BY <2>2, <2>4, FS_RemoveElement
  <2> QED BY <1>2, <1>7, <2>5 DEF Nodes
<1>9. CASE s2 = <<>> /\ Len(s2) # Len(s) - 1
  <2> DEFINE T == {m} \X (1 .. Len(s))
  <2>1. Len(s) > 1
    BY <1>6, <1>9
  <2>2. T \subseteq Places(t)
    <3>1. ASSUME NEW x \in T PROVE x \in Places(t)
      <4>1. PICK i \in 1 .. Len(s) : x = <<m, i>>
        BY <3>1
      <4> QED BY <1>1, <1>4, <1>6, <1>s, <4>1
    <3> QED BY <3>1
  <2>3. ASSUME NEW x PROVE x \in Places(t2) <=> x \in Places(t) /\ x \notin T
    <3>1. CASE x \in Places(t2)
      <4>1. PICK b, i : b \in Bucket /\ i \in DOMAIN t2.chain[b] /\ x = <<b, i>>
        BY <3>1, PlacesIs
      <4>2. b # m
        BY <1>9, <1>s, <4>1
      <4> QED BY <1>2, <1>4, <3>1, <4>1, <4>2
    <3>2. CASE x \in Places(t)
      <4>1. PICK b, i : b \in Bucket /\ i \in DOMAIN t.chain[b] /\ x = <<b, i>>
        BY <3>2, PlacesIs
      <4>2. CASE b = m
        <5>1. x \in T
          BY <1>6, <1>s, <4>1, <4>2
        <5>2. x \notin Places(t2)
          BY <1>5, <1>9, <1>s, <4>1, <4>2
        <5> QED BY <5>1, <5>2
      <4>3. CASE b # m
        BY <1>2, <1>5, <3>2, <4>1, <4>3
      <4> QED BY <4>2, <4>3
    <3> QED BY <3>1, <3>2
  <2>4. Places(t2) = Places(t) \ T /\ Places(t) \cap T = T
    BY <2>2, <2>3
  <2>5. IsFiniteSet(T) /\ Cardinality(T) = Len(s)
    <3>1. IsFiniteSet({m}) /\ Cardinality({m}) = 1
      BY FS_Singleton
    <3>2. IsFiniteSet(1 .. Len(s)) /\ Cardinality(1 .. Len(s)) = Len(s)
      BY <1>6, FS_Interval
    <3>3. IsFiniteSet(T) /\ Cardinality(T) = Cardinality({m}) * Cardinality(1 .. Len(s))
      BY <3>1, <3>2, FS_Product
    <3> QED BY <1>6, <3>1, <3>2, <3>3
  <2> HIDE DEF T
  <2>6. IsFiniteSet(Places(t2)) /\ Cardinality(Places(t2)) = Cardinality(Places(t)) - Len(s)
    <3>1. /\ IsFiniteSet(Places(t) \ T)
          /\ Cardinality(Places(t) \ T) = Cardinality(Places(t)) - Cardinality(Places(t) \cap T)
      BY FS_Difference, Zenon
    <3> QED BY <2>4, <2>5, <3>1, Zenon
  <2>7. Nodes(t) \in Int /\ Nodes(t2) \in Int /\ Nodes(t2) = Nodes(t) - (Len(s) - 1)
    <3> DEFINE n == Cardinality(Places(t))
               n2 == Cardinality(Places(t2))
               f == t.free
               f2 == t2.free
               l == Len(s)
    <3>1. n \in Nat /\ n2 = n - l /\ f \in Int /\ f2 = f + 1 /\ l \in Nat
      BY <1>2, <1>6, <1>7, <2>6
    <3> HIDE DEF n, n2, f, f2, l
    <3>2. n + f \in Int /\ n2 + f2 \in Int /\ n2 + f2 = (n + f) - (l - 1)
      BY <3>1
    <3> QED BY <3>2 DEF Nodes, n, n2, f, f2, l
  <2> QED BY <1>9, <1>m, <1>s, <2>1, <2>6, <2>7 DEF Lost
<1> QED BY <1>2, <1>8, <1>9

\* With ids and buckets of their own no chain has two connections.
LEMMA SingleChains ==
  ASSUME NEW t, t.chain \in ChainT, NEW ids, Sorted(t, ids), OwnIds,
         \A c \in Objects(t) : c \in Conn /\ ids[c] \in front.ids[c]
  PROVE  \A b \in Bucket : Len(t.chain[b]) <= 1
<1> SUFFICES ASSUME NEW b \in Bucket, ~(Len(t.chain[b]) <= 1) PROVE FALSE
  OBVIOUS
<1> DEFINE c == t.chain[b][1]
           d == t.chain[b][2]
<1>1. 1 \in DOMAIN t.chain[b] /\ 2 \in DOMAIN t.chain[b]
  <2>1. t.chain[b] \in Seq(Conn)
    BY DEF ChainT
  <2> QED BY <2>1
<1>2. ids[c] % Size = b /\ ids[d] % Size = b /\ ids[c] # ids[d]
  BY <1>1 DEF Sorted
<1>3. c \in Objects(t) /\ d \in Objects(t)
  BY <1>1, ObjectsIs
<1> HIDE DEF c, d
<1> QED BY <1>2, <1>3 DEF OwnIds
-----------------------------------------------------------------------------
(***************************************************************************)
(* The actions.                                                            *)
(***************************************************************************)
LEMMA IdsAre ==
  /\ Id \subseteq Nat /\ 0 \in Id
  /\ \A f \in FrontEnds : \A c \in Conn : f.ids[c] \subseteq Id
<1>1. \A f \in FrontEnds : \A c \in Conn : f.ids[c] \subseteq Nat
  BY RemoteAssumption DEF RemoteAssumption
<1> QED BY <1>1 DEF Id

\* An answer is written, or dropped with its connection.
LEMMA RespondIs ==
  ASSUME NEW c \in Conn, NEW code \in Code, out \in [Conn -> Seq(Code)],
         Respond(c, code) \/ out' = [out EXCEPT ![c] = <<>>]
  PROVE  out' \in [Conn -> Seq(Code)]
<1>1. out[c] \in Seq(Code)
  OBVIOUS
<1>2. Append(out[c], code) \in Seq(Code) /\ <<>> \in Seq(Code)
  BY <1>1
<1> QED BY <1>2 DEF Respond

LEMMA InitInv == Init => IndInv /\ Nodes(table) = NodeN
<1> SUFFICES ASSUME Init PROVE IndInv /\ Nodes(table) = NodeN
  OBVIOUS
<1>1. table.chain = [b \in Bucket |-> <<>>] /\ table.free = NodeN
  BY DEF Init, EmptyTable
<1>2. Objects(table) = {} /\ Places(table) = {}
  BY <1>1, ObjectsIs, PlacesIs
<1>3. TypeOK
  BY <1>1, IdsAre, RemoteAssumption, HashTableAssumption DEF Init, TypeOK, RemoteAssumption, HashTableAssumption
<1>4. Sorted(table, id)
  BY <1>1 DEF Sorted
<1>5. Counted(table) /\ Nodes(table) = NodeN
  BY <1>1, <1>2, FS_EmptySet, HashTableAssumption DEF Nodes, Counted, HashTableAssumption
<1> QED BY <1>2, <1>3, <1>4, <1>5 DEF Init, IndInv, Base, Good, Came

(***************************************************************************)
(* What holds for any front end: types, and where nodes go.                *)
(***************************************************************************)
LEMMA BaseFrame ==
  ASSUME Base, TypeOK', UNCHANGED <<front, table>> PROVE Base' /\ Kept(table, table')
  BY DEF Base, Counted, Nodes, Places, Kept

LEMMA AcceptBase ==
  ASSUME Base, UNCHANGED front, NEW c \in Conn, Accept(c) PROVE Base' /\ Kept(table, table')
<1>1. TypeOK'
  BY IdsAre, RemoteAssumption DEF Base, TypeOK, Accept, RemoteAssumption
<1> QED BY <1>1, BaseFrame DEF Accept

LEMMA ReadShortBase ==
  ASSUME Base, UNCHANGED front, NEW c \in Conn, ReadShort(c) PROVE Base' /\ Kept(table, table')
<1>1. TypeOK'
  <2>1. /\ TypeOK /\ sent' = [sent EXCEPT ![c] = @ + 1] /\ sent[c] < MaxMsg
        /\ UNCHANGED <<open, id, waiting, table, toV, toM, listening, conns, faults>>
    BY DEF Base, ReadShort
  <2>2. out' \in [Conn -> Seq(Code)]
    BY <2>1, RespondIs DEF ReadShort, TypeOK, Code
  <2>3. sent' \in [Conn -> 0 .. MaxMsg]
    BY <2>1, RemoteAssumption DEF TypeOK, RemoteAssumption
  <2> QED BY <2>1, <2>2, <2>3 DEF TypeOK
<1> QED BY <1>1, BaseFrame DEF ReadShort

LEMMA HandleBase ==
  ASSUME Base, UNCHANGED front, NEW c \in Conn, NEW k \in Id, NEW kind \in {"command", "null"},
         Handle(c, k, kind)
  PROVE  Base' /\ Kept(table, table') /\ Nodes(table') = Nodes(table)
<1>1. TypeOK /\ c \in open /\ sent' = [sent EXCEPT ![c] = @ + 1] /\ id' = [id EXCEPT ![c] = k]
      /\ sent[c] < MaxMsg /\ UNCHANGED <<open, toM, listening, conns, faults>>
  BY DEF Base, Handle
<1>2. sent' \in [Conn -> 0 .. MaxMsg] /\ id' \in [Conn -> Id]
  BY <1>1, RemoteAssumption DEF TypeOK, RemoteAssumption
<1>3. ASSUME UNCHANGED <<table, toV, waiting>>, Respond(c, 101) \/ Respond(c, 102)
      PROVE  Base' /\ Kept(table, table') /\ Nodes(table') = Nodes(table)
  <2>1. out' \in [Conn -> Seq(Code)]
    BY <1>1, <1>3, RespondIs DEF TypeOK, Code
  <2>2. TypeOK'
    BY <1>1, <1>2, <1>3, <2>1 DEF TypeOK
  <2> QED BY <1>3, <2>2, BaseFrame
<1>4. ASSUME CanInsert(table), table' = InsertNode(table, k, c),
             \/ /\ Len(toV) < ChanLen /\ toV' = Append(toV, [id |-> k, kind |-> kind])
                /\ waiting' = waiting \cup {c} /\ UNCHANGED out
             \/ Respond(c, 103) /\ UNCHANGED <<toV, waiting>>
      PROVE  Base' /\ Kept(table, table') /\ Nodes(table') = Nodes(table)
  <2>1. table.chain \in ChainT /\ table.free \in 0 .. NodeN /\ k \in Nat
    BY <1>1, IdsAre DEF TypeOK, ChainT
  <2>2. table'.chain \in ChainT /\ table'.free = table.free - 1
    BY <1>4, <2>1, InsertIs
  <2>3. IsFiniteSet(Places(table')) /\ Nodes(table') = Nodes(table)
    <3>1. IsFiniteSet(Places(table)) /\ table.free \in Int
      BY <2>1 DEF Base, Counted
    <3> QED BY <1>4, <2>1, <3>1, InsertCounted
  <2>4. Counted(table)'
    BY <2>3 DEF Base, Counted
  <2>5. table'.free \in 0 .. NodeN
    BY <1>4, <2>1, <2>2, HashTableAssumption DEF CanInsert, HashTableAssumption
  <2>6. toV' \in Seq(Command) /\ Len(toV') <= ChanLen /\ waiting' \subseteq open' /\ out' \in [Conn -> Seq(Code)]
    <3>1. CASE /\ Len(toV) < ChanLen /\ toV' = Append(toV, [id |-> k, kind |-> kind])
               /\ waiting' = waiting \cup {c} /\ UNCHANGED out
      <4>1. [id |-> k, kind |-> kind] \in Command
        BY DEF Command
      <4>2. toV \in Seq(Command) /\ ChanLen \in Nat
        BY <1>1, RemoteAssumption DEF TypeOK, RemoteAssumption
      <4> HIDE DEF Command
      <4>3. toV' \in Seq(Command) /\ Len(toV') <= ChanLen
        BY <3>1, <4>1, <4>2
      <4> QED BY <1>1, <3>1, <4>3 DEF TypeOK
    <3>2. CASE Respond(c, 103) /\ UNCHANGED <<toV, waiting>>
      BY <1>1, <3>2, RespondIs DEF TypeOK, Code
    <3> QED BY <1>4, <3>1, <3>2
  <2>7. TypeOK'
    BY <1>1, <1>2, <2>2, <2>5, <2>6 DEF TypeOK, ChainT
  <2> QED BY <2>3, <2>4, <2>7 DEF Base, Kept
<1> QED BY <1>3, <1>4 DEF Handle, Exists

LEMMA ReadBase ==
  ASSUME Base, UNCHANGED front, NEW c \in Conn, ReadCommand(c) \/ ReadNull(c)
  PROVE  Base' /\ Kept(table, table')
<1>1. CASE ReadNull(c)
  BY <1>1, HandleBase DEF ReadNull, Base, TypeOK
<1>2. CASE ReadCommand(c)
  BY <1>2, IdsAre, HandleBase DEF ReadCommand, Base
<1> QED BY <1>1, <1>2

LEMMA ReleaseBase ==
  ASSUME Base, UNCHANGED front, NEW c \in Conn, Release(c)
  PROVE  /\ Base' /\ Kept(table, table')
         /\ Nodes(table') = Nodes(table) \/ Lost(table, table', id[c] % Size)
<1>1. TypeOK /\ table.chain \in ChainT /\ table.free \in 0 .. NodeN /\ id[c] \in Nat /\ id \in [Conn -> Id]
  BY IdsAre DEF Base, TypeOK, ChainT
<1>2. table' = DeleteNode(table, id, id[c]) /\ open' = open \ {c} /\ UNCHANGED <<sent, toV, toM, listening, conns, faults>>
      /\ waiting' = waiting \ {c} /\ out' = [out EXCEPT ![c] = <<>>]
  BY DEF Release, Forget
<1>3. id' \in [Conn -> Id]
  <2>1. PICK garbage \in Id : id' = [id EXCEPT ![c] = garbage]
    BY IdsAre DEF Release
  <2> QED BY <1>1, <2>1
<1>4. out' \in [Conn -> Seq(Code)]
  BY <1>1, <1>2, RespondIs DEF TypeOK, Code
<1>5. CASE table' = table
  <2>1. TypeOK'
    BY <1>1, <1>2, <1>3, <1>4, <1>5 DEF TypeOK
  <2> QED BY <1>5, <2>1, BaseFrame
<1>6. CASE Cut(table, table', id, id[c])
  <2>1. IsFiniteSet(Places(table)) /\ table.free \in Int /\ Nodes(table) <= NodeN
    BY <1>1 DEF Base, Counted
  <2>2. /\ IsFiniteSet(Places(table')) /\ Nodes(table) \in Int /\ Nodes(table') \in Int
        /\ Nodes(table') = Nodes(table) \/ Lost(table, table', id[c] % Size)
    BY <1>1, <1>6, <2>1, DeleteCounted
  <2>3. table'.free = table.free + 1 /\ table'.chain \in ChainT
    BY <1>6 DEF Cut
  <2>4. id[c] % Size \in Bucket
    BY <1>1, BucketOf
  <2>5. Nodes(table') <= NodeN
    <3>1. CASE Lost(table, table', id[c] % Size)
      <4>1. table.chain[id[c] % Size] \in Seq(Conn)
        BY <1>1, <2>4 DEF ChainT
      <4>2. Len(table.chain[id[c] % Size]) \in Nat
        BY <4>1
      <4> QED BY <2>1, <2>2, <3>1, <4>2, HashTableAssumption DEF Lost, HashTableAssumption
    <3> QED BY <2>1, <2>2, <3>1
  <2>6. table'.free \in 0 .. NodeN
    <3>1. Cardinality(Places(table')) \in Nat
      BY <2>2, FS_CardinalityType
    <3> QED BY <1>1, <2>3, <2>5, <3>1, HashTableAssumption DEF Nodes, HashTableAssumption
  <2>7. TypeOK'
    BY <1>1, <1>2, <1>3, <1>4, <2>3, <2>6 DEF TypeOK, ChainT
  <2> QED BY <2>2, <2>4, <2>5, <2>7 DEF Base, Counted, Kept
<1> QED BY <1>1, <1>2, <1>5, <1>6, DeleteIs

LEMMA ChannelBase ==
  ASSUME Base, UNCHANGED front, Serve \/ ServeFails \/ ReadResult \/ VirtualRespawn
  PROVE  /\ Base' /\ Kept(table, table')
         /\ UNCHANGED <<open, id, sent, table, conns>>
<1>1. UNCHANGED <<open, id, sent, table, conns>> /\ TypeOK
  BY DEF Base, Serve, ServeFails, ReadResult, VirtualRespawn
<1>0. toV \in Seq(Command) /\ Len(toV) <= ChanLen /\ toM \in Seq(Result) /\ Len(toM) <= ChanLen /\ ChanLen \in Nat
  BY <1>1, RemoteAssumption DEF TypeOK, RemoteAssumption
<1>2. CASE Serve
  <2>1. toV # <<>> /\ toV' = Tail(toV) /\ UNCHANGED <<out, waiting, listening, faults>>
    BY <1>2 DEF Serve
  <2>2. toV' \in Seq(Command) /\ Len(toV') <= ChanLen
    BY <1>0, <2>1
  <2>3. toM' \in Seq(Result) /\ Len(toM') <= ChanLen
    <3>1. Head(toV) \in Command
      BY <1>0, <2>1
    <3>2. CASE UNCHANGED toM
      BY <1>0, <3>2
    <3>3. ASSUME NEW ok \in BOOLEAN, Len(toM) < ChanLen, toM' = Append(toM, [id |-> Head(toV).id, ok |-> ok])
          PROVE  toM' \in Seq(Result) /\ Len(toM') <= ChanLen
      <4>1. [id |-> Head(toV).id, ok |-> ok] \in Result
        BY <3>1 DEF Command, Result
      <4> QED BY <1>0, <3>3, <4>1
    <3> QED BY <1>2, <3>2, <3>3 DEF Serve
  <2>4. TypeOK'
    BY <1>1, <2>1, <2>2, <2>3 DEF TypeOK
  <2> QED BY <1>1, <2>4, BaseFrame
<1>3. CASE ServeFails
  <2>1. toV # <<>> /\ toV' = Tail(toV) /\ UNCHANGED <<out, waiting, toM, listening>> /\ faults < MaxFault /\ faults' = faults + 1
    BY <1>3 DEF ServeFails
  <2>2. toV' \in Seq(Command) /\ Len(toV') <= ChanLen
    BY <1>0, <2>1
  <2>3. faults' \in 0 .. MaxFault
    BY <1>1, <2>1, RemoteAssumption DEF TypeOK, RemoteAssumption
  <2>4. TypeOK'
    BY <1>1, <2>1, <2>2, <2>3 DEF TypeOK
  <2> QED BY <1>1, <2>4, BaseFrame
<1>4. CASE ReadResult
  <2>1. toM # <<>> /\ toM' = Tail(toM) /\ UNCHANGED <<toV, listening, faults>>
    BY <1>4 DEF ReadResult
  <2>2. toM' \in Seq(Result) /\ Len(toM') <= ChanLen
    BY <1>0, <2>1
  <2>3. out' \in [Conn -> Seq(Code)] /\ waiting' \subseteq open'
    <3>1. CASE UNCHANGED <<out, waiting>>
      BY <1>1, <3>1 DEF TypeOK
    <3>2. ASSUME NEW c \in open, NEW code \in Code, Respond(c, code), waiting' = waiting \ {c}
          PROVE  out' \in [Conn -> Seq(Code)] /\ waiting' \subseteq open'
      BY <1>1, <3>2, RespondIs DEF TypeOK
    <3>3. 200 \in Code /\ 103 \in Code
      BY DEF Code
    <3> QED BY <1>4, <3>1, <3>2, <3>3 DEF ReadResult, Answer
  <2>4. TypeOK'
    BY <1>1, <2>1, <2>2, <2>3 DEF TypeOK
  <2> QED BY <1>1, <2>4, BaseFrame
<1>5. CASE VirtualRespawn
  <2>1. TypeOK'
    BY <1>1, <1>5, RemoteAssumption DEF VirtualRespawn, TypeOK, RemoteAssumption
  <2> QED BY <1>1, <2>1, BaseFrame
<1> QED BY <1>2, <1>3, <1>4, <1>5

LEMMA NextBase == Base /\ [Next]_vars => Base' /\ Kept(table, table')
<1> SUFFICES ASSUME Base, [Next]_vars PROVE Base' /\ Kept(table, table')
  OBVIOUS
<1>1. front' = front
  BY DEF Next, vars
<1>2. CASE UNCHANGED vars
  <2>1. TypeOK'
    BY <1>2 DEF Base, TypeOK, vars
  <2> QED BY <1>2, <2>1, BaseFrame DEF vars
<1>3. ASSUME NEW c \in Conn, Flush(c) \/ Disconnect(c) PROVE Base' /\ Kept(table, table')
  BY <1>1, <1>3, ReleaseBase DEF Flush, Disconnect
<1> QED BY <1>1, <1>2, <1>3, AcceptBase, ReadShortBase, ReadBase, ChannelBase DEF Next

(***************************************************************************)
(* What holds for steady front ends: no entry changes its id.              *)
(***************************************************************************)

\* Steps that leave the table and the ids of its entries.
LEMMA SameTable ==
  ASSUME Base, Good, UNCHANGED <<front, table>>, Objects(table) \subseteq open',
         \A c \in Objects(table) : id'[c] = id[c] /\ sent'[c] > 0
  PROVE  Good'
<1>1. Sorted(table, id')
  BY SortedFrame DEF Good
<1>2. (OwnIds => Nodes(table) = NodeN)'
  BY DEF Good, OwnIds
<1>3. Came'
  BY DEF Good, Came
<1> QED BY <1>1, <1>2, <1>3 DEF Good

LEMMA AcceptGood ==
  ASSUME Base, Good, UNCHANGED front, NEW c \in Conn, Accept(c) PROVE Good'
<1>1. c \notin Objects(table) /\ Objects(table) \subseteq open'
  BY DEF Good, Accept
<1>2. \A d \in Objects(table) : id'[d] = id[d] /\ sent'[d] > 0
  BY <1>1 DEF Base, Good, Accept, Came, TypeOK
<1> QED BY <1>1, <1>2, SameTable DEF Accept

LEMMA ReadShortGood ==
  ASSUME Base, Good, UNCHANGED front, NEW c \in Conn, ReadShort(c) PROVE Good'
<1>1. \A d \in Objects(table) : id'[d] = id[d] /\ sent'[d] > 0
  BY RemoteAssumption DEF Base, Good, ReadShort, Came, TypeOK, RemoteAssumption
<1> QED BY <1>1, SameTable DEF ReadShort, Good

\* A message that does not change the id of an entry.
LEMMA HandleGood ==
  ASSUME Base, Good, UNCHANGED front, NEW c \in Conn, NEW k \in Id, NEW kind \in {"command", "null"},
         Handle(c, k, kind), c \in Objects(table) => k = id[c],
         "null" \notin front.kinds => k \in front.ids[c]
  PROVE  Good'
<1>1. TypeOK /\ c \in open /\ sent' = [sent EXCEPT ![c] = @ + 1] /\ id' = [id EXCEPT ![c] = k]
      /\ sent[c] < MaxMsg /\ open' = open
  BY DEF Base, Handle
<1>2. /\ id' \in [Conn -> Id] /\ sent'[c] > 0 /\ id'[c] = k
      /\ \A d \in Conn : d # c => sent'[d] = sent[d] /\ id'[d] = id[d]
  BY <1>1, RemoteAssumption DEF TypeOK, RemoteAssumption
<1>3. \A d \in Objects(table) : id'[d] = id[d] /\ sent'[d] > 0
  <2>1. \A d \in Objects(table) : d \in Conn /\ sent[d] > 0
    BY <1>1 DEF Good, Came, TypeOK
  <2> QED BY <1>2, <2>1
<1>4. CASE UNCHANGED table
  <2>1. Objects(table) \subseteq open'
    BY <1>1 DEF Good
  <2> QED BY <1>3, <1>4, <2>1, SameTable
<1>5. ASSUME ~Found(table, id', k), table' = InsertNode(table, k, c) PROVE Good'
  <2>1. table.chain \in ChainT /\ k \in Nat
    BY <1>1, IdsAre DEF TypeOK, ChainT
  <2>2. Sorted(table, id')
    BY <1>3, SortedFrame DEF Good
  <2>3. Sorted(table', id') /\ Objects(table') = Objects(table) \cup {c}
    BY <1>2, <1>5, <2>1, <2>2, InsertSorted
  <2>4. Came'
    <3>1. ASSUME NEW d \in Objects(table') PROVE sent'[d] > 0 /\ ("null" \notin front'.kinds => id'[d] \in front'.ids[d])
      <4>1. CASE d = c
        BY <1>2, <4>1
      <4>2. CASE d # c
        BY <1>3, <2>3, <3>1, <4>2 DEF Good, Came
      <4> QED BY <4>1, <4>2
    <3> QED BY <3>1 DEF Came
  <2>5. Objects(table') \subseteq open'
    BY <1>1, <2>3 DEF Good
  <2>6. (OwnIds => Nodes(table) = NodeN)'
    <3>1. Nodes(table') = Nodes(table)
      BY HandleBase
    <3> QED BY <3>1 DEF Good, OwnIds
  <2> QED BY <2>3, <2>4, <2>5, <2>6 DEF Good
<1> QED BY <1>4, <1>5 DEF Handle, Exists

LEMMA ReadGood ==
  ASSUME Base, Good, Steady, UNCHANGED front, NEW c \in Conn, ReadCommand(c) \/ ReadNull(c)
  PROVE  Good'
<1>1. CASE ReadNull(c)
  <2>1. "null" \in front.kinds /\ id[c] \in Id /\ Handle(c, id[c], "null")
    BY <1>1 DEF ReadNull, Base, TypeOK
  <2> QED BY <2>1, HandleGood
<1>2. CASE ReadCommand(c)
  <2>1. PICK k \in front.ids[c] : Handle(c, k, "command")
    BY <1>2 DEF ReadCommand
  <2>2. k \in Id
    BY IdsAre DEF Base
  <2>3. ASSUME c \in Objects(table) PROVE k = id[c]
    <3>1. sent[c] > 0 /\ ("null" \notin front.kinds => id[c] \in front.ids[c]) /\ sent[c] \in Nat
      BY <2>3 DEF Base, Good, Came, TypeOK
    <3>2. sent[c] < MaxMsg
      BY <2>1 DEF Handle
    <3>3. ~(MaxMsg <= 1)
      BY <3>1, <3>2, RemoteAssumption DEF RemoteAssumption
    <3> QED BY <3>1, <3>3 DEF Steady
  <2> QED BY <2>1, <2>2, <2>3, HandleGood
<1> QED BY <1>1, <1>2

LEMMA ReleaseGood ==
  ASSUME Base, Good, UNCHANGED front, NEW c \in Conn, Release(c) PROVE Good'
<1>1. TypeOK /\ table.chain \in ChainT /\ id[c] \in Nat /\ id \in [Conn -> Id]
  BY IdsAre DEF Base, TypeOK, ChainT
<1>2. table' = DeleteNode(table, id, id[c]) /\ open' = open \ {c} /\ sent' = sent
  BY DEF Release, Forget
<1>3. table'.chain \in ChainT /\ Sorted(table', id) /\ c \notin Objects(table') /\ Objects(table') \subseteq Objects(table)
  BY <1>1, <1>2, DeleteSorted DEF Good
<1>4. id' = [id EXCEPT ![c] = 0]
  BY <1>3 DEF Release
<1>5. \A d \in Conn : d # c => id'[d] = id[d]
  BY <1>1, <1>4
<1>6. Objects(table') \subseteq Conn /\ Objects(table') \subseteq open'
  BY <1>1, <1>2, <1>3 DEF Good, TypeOK
<1>7. Sorted(table', id')
  BY <1>3, <1>5, <1>6, SortedFrame
<1>8. Came'
  BY <1>2, <1>3, <1>5, <1>6 DEF Good, Came
<1>9. ASSUME OwnIds PROVE Nodes(table') = NodeN
  <2>1. \A d \in Objects(table) : d \in Conn /\ id[d] \in front.ids[d]
    BY <1>1, <1>9 DEF Good, Came, OwnIds, TypeOK
  <2>2. \A b \in Bucket : Len(table.chain[b]) <= 1
    BY <1>1, <1>9, <2>1, SingleChains DEF Good
  <2>3. Len(table.chain[id[c] % Size]) <= 1 /\ Len(table.chain[id[c] % Size]) \in Nat
    <3>1. id[c] % Size \in Bucket
      BY <1>1, BucketOf
    <3>2. table.chain[id[c] % Size] \in Seq(Conn)
      BY <1>1, <3>1 DEF ChainT
    <3>3. Len(table.chain[id[c] % Size]) \in Nat
      BY <3>2
    <3> QED BY <2>2, <3>1, <3>3
  <2>4. ~Lost(table, table', id[c] % Size)
    BY <2>3 DEF Lost
  <2> QED BY <1>9, <2>4, ReleaseBase DEF Good
<1>10. OwnIds' <=> OwnIds
  BY DEF OwnIds
<1> QED BY <1>6, <1>7, <1>8, <1>9, <1>10 DEF Good

LEMMA NextInv == IndInv /\ [Next]_vars => IndInv'
<1> SUFFICES ASSUME IndInv, [Next]_vars PROVE IndInv'
  OBVIOUS
<1>1. front' = front
  BY DEF Next, vars
<1>2. Base /\ Base'
  BY NextBase DEF IndInv
<1>3. Steady' <=> Steady
  BY <1>1 DEF Steady
<1> SUFFICES ASSUME Steady PROVE Good'
  BY <1>2, <1>3 DEF IndInv
<1>4. Good
  BY DEF IndInv
<1>5. CASE UNCHANGED vars \/ Serve \/ ServeFails \/ ReadResult \/ VirtualRespawn
  <2>1. UNCHANGED <<open, id, sent, table>>
    BY <1>5 DEF vars, Serve, ServeFails, ReadResult, VirtualRespawn
  <2>2. Objects(table) \subseteq open' /\ \A c \in Objects(table) : id'[c] = id[c] /\ sent'[c] > 0
    BY <1>4, <2>1 DEF Good, Came
  <2> QED BY <1>1, <1>2, <1>4, <2>1, <2>2, SameTable
<1>6. ASSUME NEW c \in Conn, Flush(c) \/ Disconnect(c) PROVE Good'
  BY <1>1, <1>2, <1>4, <1>6, ReleaseGood DEF Flush, Disconnect
<1> QED BY <1>1, <1>2, <1>4, <1>5, <1>6, AcceptGood, ReadShortGood, ReadGood DEF Next

LEMMA Inductive == Spec => []IndInv
  BY InitInv, NextInv, PTL DEF Spec

\* As long as no connection changes its id, a release by id (ntg_remote_write_cb,
\* ntg_remote_event_cb) leaves no released connection in the table, and a result is meant for
\* one entry only, whatever ids the connections share and whatever nodes the deletion loses.
THEOREM NothingDangles == Spec => [](Steady => NoDangling)
<1>1. IndInv => (Steady => NoDangling)
  BY DEF IndInv, Base, Good, NoDangling, Sorted, OneEntryPerId
<1> QED BY <1>1, Inductive, PTL

\* For every front end, ids shared between connections and colliding in their buckets included,
\* nodes leave the table and its pool only when ntg_hash_delete_node deletes the head of a chain
\* of several, and exactly those behind the head: at all other steps each stays in a chain or in
\* the pool.
THEOREM NodesKept == Spec => NodesConserved
<1>1. Kept(table, table') => \/ Nodes(table') = Nodes(table)
                             \/ \E b \in Bucket : Severed(b) /\ Nodes(table') = Nodes(table) - (Len(table.chain[b]) - 1)
  BY DEF Kept, Lost, Severed
<1>2. Init => Nodes(table) = NodeN
  BY InitInv
<1>3. IndInv /\ [Next]_vars =>
        [\/ Nodes(table') = Nodes(table)
         \/ \E b \in Bucket : Severed(b) /\ Nodes(table') = Nodes(table) - (Len(table.chain[b]) - 1)]_vars
  BY <1>1, NextBase DEF IndInv
<1> QED BY <1>2, <1>3, Inductive, PTL DEF Spec, NodesConserved

\* A front end that gives every connection an id and a bucket of its own never meets such a
\* deletion: the pool keeps all its nodes for ever (ntg_hash_insert_node, ntg_hash_delete_node).
THEOREM OwnIdsLoseNothing == Spec => [](OwnIds => Nodes(table) = NodeN)
<1>1. IndInv => (OwnIds => Nodes(table) = NodeN)
  BY DEF OwnIds, Steady, IndInv, Good
<1> QED BY <1>1, Inductive, PTL
=============================================================================
