----------------------------- MODULE PoolProofs -----------------------------
(***************************************************************************)
(* Theorems about Pool for every block size, alignment, header size,       *)
(* request size and number of blocks, large allocations and descriptors.   *)
(* An operation on the pool is a chain of allocations, each a function of  *)
(* the pool and of what malloc still gives; so the proof is about those    *)
(* functions first (Sound is what they keep, Answer what they return) and  *)
(* about the actions after that.                                           *)
(***************************************************************************)
EXTENDS Pool, NatLemmas, SequenceTheorems

\* Every member of h is named by one entry of l, and the other entries name nothing.  (The
\* large allocations of a pool and the open files of its clean-ups alike.)
Named(l, h) ==
  /\ \A x \in h : \E i \in 1 .. Len(l) : l[i] = x /\ \A j \in 1 .. Len(l) : l[j] = x => j = i
  /\ \A i \in 1 .. Len(l) : l[i] \in h \cup {0}

Region == [blk : Int, lo : Nat, hi : Nat]
Block  == [last : Nat, failed : Nat]
PoolT  == [blocks : Seq(Block), current : Nat, large : Seq(0 .. MaxLarge), held : SUBSET Region]
Alloc1 == [p : PoolT, h : SUBSET (1 .. MaxLarge), left : Nat, at : Region]

\* A region is not empty and lies in the used part of its block, or in memory of the heap.
Placed(p, h, r) ==
  /\ r.lo < r.hi
  /\ IF r.blk > 0 THEN /\ r.blk \in 1 .. Len(p.blocks)
                       /\ Start(r.blk) <= r.lo /\ r.hi <= p.blocks[r.blk].last
                  ELSE -r.blk \in h

\* A pool that is not destroyed, as far as allocating from it goes.
Sound(p, h) ==
  /\ p \in PoolT /\ h \in SUBSET (1 .. MaxLarge)
  /\ p.current \in 1 .. Len(p.blocks)
  /\ \A b \in 1 .. Len(p.blocks) : p.blocks[b].last \in Start(b) .. Size
  /\ \A r \in p.held : Placed(p, h, r)
  /\ \A r, q \in p.held : r = q \/ Apart(r, q)
  /\ Named(p.large, h)

\* What an allocation of size bytes that turns s into t promises: the pool stays sound,
\* what callers have stays theirs, and the answer is NULL or memory nobody had.
Answer(s, t, size) ==
  /\ t \in Alloc1 /\ Sound(t.p, t.h)
  /\ s.p.held \subseteq t.p.held
  /\ \/ t.at = Null
     \/ /\ t.at.blk # 0 /\ t.at.hi = t.at.lo + size
        /\ size > 0 => t.at \in t.p.held /\ t.at \notin s.p.held
-----------------------------------------------------------------------------
(***************************************************************************)
(* Numbers and sequences.                                                  *)
(***************************************************************************)
LEMMA Monotone ==
  ASSUME NEW a \in Nat, NEW i \in Int, NEW j \in Int, i <= j PROVE a * i <= a * j
  OBVIOUS

LEMMA Quotient ==
  ASSUME NEW a \in Nat \ {0}, NEW x \in Int
  PROVE  x % a \in 0 .. a - 1 /\ x \div a \in Int /\ x = a * (x \div a) + (x % a)
  OBVIOUS

\* The sizes, apart from what alignment says of them.
LEMMA PoolNumbers ==
  /\ Size \in Nat /\ Hdr \in Nat /\ DataHdr \in Nat /\ LargeHdr \in Nat /\ CleanHdr \in Nat
  /\ FileHdr \in Nat /\ ArrHdr \in Nat \ {0} /\ ListHdr \in Nat /\ PartHdr \in Nat
  /\ DataHdr <= Hdr /\ Hdr <= Size /\ PageMax \in Nat
  /\ LargeHdr <= Size - Hdr /\ LargeHdr <= PageMax
  /\ Sizes \subseteq Nat /\ EltSize \in Nat \ {0} /\ FirstN \in Nat \ {0}
  /\ MaxLarge \in Nat /\ MaxFd \in Nat /\ LargeTries \in Nat \ {0}
  BY PoolAssumption DEF PoolAssumption

\* ntg_align_ptr does not go back, and not beyond the end of a block whose size is aligned.
LEMMA AlignedWithin ==
  ASSUME NEW x \in Nat
  PROVE  /\ Aligned(x) \in Nat /\ x <= Aligned(x)
         /\ x <= Size => Aligned(x) <= Size
<1> DEFINE m == (-x) % Align
           d == (-x) \div Align
           e == Size \div Align
<1>0. Align \in Nat \ {0} /\ Size \in Nat /\ Size % Align = 0
  BY PoolAssumption DEF PoolAssumption
<1>1. m \in 0 .. Align - 1 /\ d \in Int /\ -x = Align * d + m
  <2> DEFINE y == -x
  <2>1. y \in Int
    OBVIOUS
  <2> HIDE DEF y
  <2>2. y % Align \in 0 .. Align - 1 /\ y \div Align \in Int /\ y = Align * (y \div Align) + (y % Align)
    BY <1>0, <2>1, Quotient
  <2> QED BY <2>2 DEF y
<1>2. e \in Int /\ Size = Align * e
  <2>1. e \in Int /\ Size = Align * e + (Size % Align)
    BY <1>0, Quotient
  <2>2. Align * e \in Int
    BY <1>0, <2>1
  <2> QED BY <1>0, <2>1, <2>2
<1>3. Aligned(x) = x + m
  BY DEF Aligned
<1> HIDE DEF m, d, e
<1>4. Aligned(x) \in Nat /\ x <= Aligned(x)
  BY <1>0, <1>1, <1>3
<1>5. ASSUME x <= Size PROVE Aligned(x) <= Size
  <2>1. Align * d \in Int /\ Align * (-d) = -(Align * d)
    BY <1>0, <1>1
  <2>2. Aligned(x) = Align * (-d)
    BY <1>0, <1>1, <1>3, <2>1
  <2>3. CASE -d <= e
    BY <1>0, <1>1, <1>2, <2>2, <2>3, Monotone
  <2>4. CASE ~(-d <= e)
    <3>1. Align * (e + 1) <= Align * (-d)
      BY <1>0, <1>1, <1>2, <2>4, Monotone
    <3>2. Align * (e + 1) = Align * e + Align
      BY <1>0, <1>2
    <3> QED BY <1>0, <1>1, <1>2, <1>3, <1>5, <2>2, <3>1, <3>2
  <2> QED BY <2>3, <2>4
<1> QED BY <1>4, <1>5

\* The aligned header of a further block.
LEMMA BlockStartIs == BlockStart = DataHdr
<1>1. DataHdr \in Nat /\ Align \in Nat \ {0} /\ DataHdr % Align = 0
  BY PoolAssumption DEF PoolAssumption
<1> DEFINE y == -DataHdr
           k == DataHdr \div Align
<1>2. y \in Int /\ k \in Int /\ DataHdr = Align * k
  BY <1>1, Quotient
<1>3. /\ y % Align \in 0 .. Align - 1 /\ y \div Align \in Int
      /\ y = Align * (y \div Align) + (y % Align)
  <2> HIDE DEF y
  <2> QED BY <1>1, <1>2, Quotient
<1>4. y % Align = 0
  <2> DEFINE d == y \div Align
             m == y % Align
  <2>1. m \in 0 .. Align - 1 /\ d \in Int /\ -(Align * k) = Align * d + m
    BY <1>2, <1>3
  <2> HIDE DEF d, m, y, k
  <2>2. m = Align * (-k - d)
    BY <1>1, <1>2, <2>1
  <2>3. CASE -k - d >= 1
    <3>1. Align * 1 <= Align * (-k - d)
      BY <1>1, <1>2, <2>1, <2>3, Monotone
    <3> QED BY <1>1, <2>1, <2>2, <3>1
  <2>4. CASE -k - d <= 0
    <3>1. Align * (-k - d) <= Align * 0
      BY <1>1, <1>2, <2>1, <2>4, Monotone
    <3> QED BY <1>1, <2>1, <2>2, <3>1 DEF m
  <2> QED BY <1>2, <2>1, <2>3, <2>4
<1> QED BY <1>1, <1>4 DEF BlockStart, Aligned

\* A new entry at the head of the list, for x or, when x is 0, for nothing.
LEMMA NamedAdd ==
  ASSUME NEW T, NEW l \in Seq(T), NEW h, Named(l, h), 0 \notin h, NEW x, x \notin h
  PROVE  Named(<<x>> \o l, IF x = 0 THEN h ELSE h \cup {x})
<1> DEFINE n == <<x>> \o l
<1>1. Len(l) \in Nat
  OBVIOUS
<1>2. /\ Len(n) = Len(l) + 1 /\ n[1] = x
      /\ \A i \in 1 .. Len(l) : n[i + 1] = l[i]
  OBVIOUS
<1>3. \A i \in 1 .. Len(n) : i = 1 \/ (i - 1 \in 1 .. Len(l) /\ n[i] = l[i - 1])
  <2> HIDE DEF n
  <2> QED BY <1>1, <1>2
<1> HIDE DEF n
<1>4. ASSUME NEW y \in h
      PROVE  \E i \in 1 .. Len(n) : n[i] = y /\ \A j \in 1 .. Len(n) : n[j] = y => j = i
  <2>1. PICK i \in 1 .. Len(l) : l[i] = y /\ \A j \in 1 .. Len(l) : l[j] = y => j = i
    BY DEF Named
  <2>2. i + 1 \in 1 .. Len(n) /\ n[i + 1] = y
    BY <1>1, <1>2, <2>1
  <2>3. ASSUME NEW j \in 1 .. Len(n), n[j] = y PROVE j = i + 1
    <3>1. j - 1 \in 1 .. Len(l) /\ l[j - 1] = y
      BY <1>2, <1>3, <2>3
    <3> QED BY <2>1, <3>1
  <2> QED BY <2>2, <2>3
<1>5. ASSUME x # 0
      PROVE  \E i \in 1 .. Len(n) : n[i] = x /\ \A j \in 1 .. Len(n) : n[j] = x => j = i
  <2>1. \A i \in 1 .. Len(l) : l[i] # x
    BY <1>5 DEF Named
  <2>2. 1 \in 1 .. Len(n)
    BY <1>1, <1>2
  <2>3. ASSUME NEW j \in 1 .. Len(n), n[j] = x PROVE j = 1
    BY <1>3, <2>1, <2>3
  <2>4. n[1] = x
    BY <1>2
  <2> QED BY <2>2, <2>3, <2>4
<1>6. \A i \in 1 .. Len(n) : n[i] \in h \cup {x, 0}
  BY <1>2, <1>3 DEF Named
<1>7. Named(n, IF x = 0 THEN h ELSE h \cup {x})
  BY <1>4, <1>5, <1>6 DEF Named
<1> QED BY <1>7 DEF n

\* An entry with nothing is used again.
LEMMA NamedPut ==
  ASSUME NEW T, NEW l \in Seq(T), NEW h, Named(l, h), 0 \notin h, NEW x \in T, x \notin h, x # 0,
         NEW k \in 1 .. Len(l), l[k] = 0
  PROVE  Named([l EXCEPT ![k] = x], h \cup {x})
<1> DEFINE n == [l EXCEPT ![k] = x]
<1>1. Len(n) = Len(l) /\ n[k] = x /\ \A i \in 1 .. Len(l) : i # k => n[i] = l[i]
  OBVIOUS
<1> HIDE DEF n
<1>2. ASSUME NEW y \in h
      PROVE  \E i \in 1 .. Len(n) : n[i] = y /\ \A j \in 1 .. Len(n) : n[j] = y => j = i
  <2>1. PICK i \in 1 .. Len(l) : l[i] = y /\ \A j \in 1 .. Len(l) : l[j] = y => j = i
    BY DEF Named
  <2>2. i # k /\ y # x
    BY <2>1
  <2>3. i \in 1 .. Len(n) /\ n[i] = y
    BY <1>1, <2>1, <2>2
  <2>4. ASSUME NEW j \in 1 .. Len(n), n[j] = y PROVE j = i
    BY <1>1, <2>1, <2>2, <2>4
  <2> QED BY <2>3, <2>4
<1>3. \E i \in 1 .. Len(n) : n[i] = x /\ \A j \in 1 .. Len(n) : n[j] = x => j = i
  BY <1>1 DEF Named
<1>4. \A i \in 1 .. Len(n) : n[i] \in (h \cup {x}) \cup {0}
  BY <1>1 DEF Named
<1>5. Named(n, h \cup {x})
  BY <1>2, <1>3, <1>4 DEF Named
<1> QED BY <1>5 DEF n

\* The entry that names x, the first one there is, is emptied.
LEMMA NamedDrop ==
  ASSUME NEW T, NEW l \in Seq(T), 0 \in T, NEW h, Named(l, h), 0 \notin h, NEW x \in h
  PROVE  LET n == [l EXCEPT ![Min({i \in DOMAIN l : l[i] = x})] = 0]
         IN  Named(n, h \ {x}) /\ n \in Seq(T)
<1> DEFINE S == {i \in DOMAIN l : l[i] = x}
           n == [l EXCEPT ![Min(S)] = 0]
<1>1. PICK k \in 1 .. Len(l) : l[k] = x /\ \A j \in 1 .. Len(l) : l[j] = x => j = k
  BY DEF Named
<1>2. DOMAIN l = 1 .. Len(l) /\ Len(l) \in Nat
  OBVIOUS
<1>3. S \subseteq Nat /\ S # {} /\ \A i \in S : i = k
  BY <1>1, <1>2
<1>4. Min(S) = k
  <2> HIDE DEF S
  <2> QED BY <1>3, MinNat
<1>5. /\ n \in Seq(T) /\ Len(n) = Len(l) /\ n[k] = 0
      /\ \A i \in 1 .. Len(l) : i # k => n[i] = l[i]
  <2> HIDE DEF S
  <2> QED BY <1>1, <1>4
<1> HIDE DEF n
<1>6. ASSUME NEW y \in h \ {x}
      PROVE  \E i \in 1 .. Len(n) : n[i] = y /\ \A j \in 1 .. Len(n) : n[j] = y => j = i
  <2>1. PICK i \in 1 .. Len(l) : l[i] = y /\ \A j \in 1 .. Len(l) : l[j] = y => j = i
    BY DEF Named
  <2> QED BY <1>1, <1>5, <2>1, SMTT(30)
<1>7. \A i \in 1 .. Len(n) : n[i] \in (h \ {x}) \cup {0}
  BY <1>1, <1>5 DEF Named
<1>8. Named(n, h \ {x})
  BY <1>6, <1>7 DEF Named
<1> QED BY <1>5, <1>8 DEF n

\* What Named says, in the words of the properties.
LEMMA NamedOnce ==
  ASSUME NEW T, NEW l \in Seq(T), NEW h, Named(l, h)
  PROVE  /\ \A x \in h : Once(l, x)
         /\ \A i \in DOMAIN l : l[i] \in h \cup {0}
<1>1. DOMAIN l = 1 .. Len(l)
  OBVIOUS
<1>2. ASSUME NEW x \in h PROVE Once(l, x)
  <2>1. PICK i \in 1 .. Len(l) : l[i] = x /\ \A j \in 1 .. Len(l) : l[j] = x => j = i
    BY DEF Named
  <2>2. {j \in DOMAIN l : l[j] = x} = {i}
    BY <1>1, <2>1
  <2> QED BY <2>2, FS_Singleton DEF Once
<1> QED BY <1>1, <1>2 DEF Named
-----------------------------------------------------------------------------
(***************************************************************************)
(* The allocator.                                                          *)
(***************************************************************************)

\* Blocks are added and their used parts grow: all regions stay where they may be.
LEMMA SoundGrows ==
  ASSUME NEW p, NEW h, Sound(p, h), NEW p2 \in PoolT, p2.held = p.held, p2.large = p.large,
         Len(p.blocks) <= Len(p2.blocks), p2.current \in 1 .. Len(p2.blocks),
         \A b \in 1 .. Len(p2.blocks) : p2.blocks[b].last \in Start(b) .. Size,
         \A b \in 1 .. Len(p.blocks) : p.blocks[b].last <= p2.blocks[b].last
  PROVE  Sound(p2, h)
<1>0. p \in PoolT /\ Len(p.blocks) \in Nat /\ Len(p2.blocks) \in Nat
  BY DEF Sound, PoolT
<1>1. ASSUME NEW r \in p2.held PROVE Placed(p2, h, r)
  <2>1. Placed(p, h, r) /\ r \in Region
    BY <1>1 DEF Sound, PoolT
  <2>2. CASE r.blk > 0
    <3>1. r.blk \in 1 .. Len(p.blocks) /\ r.blk \in 1 .. Len(p2.blocks)
      BY <1>0, <2>1, <2>2 DEF Placed
    <3>2. p.blocks[r.blk] \in Block /\ p2.blocks[r.blk] \in Block
      BY <1>0, <3>1 DEF PoolT
    <3>3. r.hi <= p.blocks[r.blk].last /\ p.blocks[r.blk].last <= p2.blocks[r.blk].last
      BY <2>1, <2>2, <3>1 DEF Placed
    <3>4. r.hi <= p2.blocks[r.blk].last
      BY <2>1, <3>2, <3>3, SMTT(30) DEF Region, Block
    <3> QED BY <2>1, <2>2, <3>1, <3>4 DEF Placed
  <2>3. CASE ~(r.blk > 0)
    BY <2>1, <2>3 DEF Placed
  <2> QED BY <2>2, <2>3
<1> QED BY <1>1 DEF Sound

\* A region that nobody has is given to the caller.
LEMMA GiveSound ==
  ASSUME NEW s \in Alloc1, Sound(s.p, s.h), NEW r \in Region,
         r.lo < r.hi => Placed(s.p, s.h, r) /\ \A q \in s.p.held : Apart(r, q) /\ Apart(q, r)
  PROVE  /\ Give(s, r) \in Alloc1 /\ Sound(Give(s, r).p, Give(s, r).h)
         /\ Give(s, r).at = r
         /\ s.p.held \subseteq Give(s, r).p.held
         /\ r.lo < r.hi => r \in Give(s, r).p.held /\ r \notin s.p.held
<1> DEFINE H == IF r.lo < r.hi THEN s.p.held \cup {r} ELSE s.p.held
           t == Give(s, r)
<1>0. s.p \in PoolT /\ s.p.held \subseteq Region
  BY DEF Alloc1, PoolT
<1>1. t = [s EXCEPT !.p = [s.p EXCEPT !.held = H], !.at = r]
  BY DEF Give, Alloc1, PoolT
<1>2. H \subseteq Region
  BY <1>0
<1>3. /\ t \in Alloc1 /\ t.at = r /\ t.h = s.h /\ t.p \in PoolT
      /\ t.p.held = H /\ t.p.blocks = s.p.blocks /\ t.p.current = s.p.current
      /\ t.p.large = s.p.large
  <2> HIDE DEF H
  <2> QED BY <1>1, <1>2 DEF Alloc1, PoolT
<1>4. Sound(t.p, t.h)
  <2>1. \A q \in H : Placed(s.p, s.h, q)
    BY DEF Sound
  <2>2. \A q, w \in H : q = w \/ Apart(q, w)
    BY DEF Sound
  <2> HIDE DEF H, t
  <2>3. \A q \in H : Placed(t.p, t.h, q)
    BY <1>3, <2>1 DEF Placed
  <2> QED BY <1>3, <2>2, <2>3 DEF Sound
<1>5. r.lo < r.hi => r \notin s.p.held
  BY DEF Apart, Region
<1> QED BY <1>3, <1>4, <1>5

\* Whatever is behind the used part of a block is nobody's.
LEMMA BehindIsFree ==
  ASSUME NEW p, NEW h, Sound(p, h), NEW b \in 1 .. Len(p.blocks), NEW m \in Nat, NEW size \in Nat,
         p.blocks[b].last <= m
  PROVE  /\ Reg(b, m, size) \in Region
         /\ \A q \in p.held : Apart(Reg(b, m, size), q) /\ Apart(q, Reg(b, m, size))
<1>0. p \in PoolT /\ b \in Nat \ {0} /\ p.blocks[b] \in Block
  BY DEF Sound, PoolT
<1>1. Reg(b, m, size) \in Region /\ Reg(b, m, size).blk = b /\ Reg(b, m, size).lo = m
  BY <1>0 DEF Reg, Region
<1>2. ASSUME NEW q \in p.held PROVE q.blk # b \/ q.hi <= m
  <2>1. q \in Region /\ Placed(p, h, q)
    BY DEF Sound, PoolT
  <2>2. q.blk = b => q.hi <= p.blocks[b].last
    BY <1>0, <2>1 DEF Placed
  <2> QED BY <1>0, <2>1, <2>2 DEF Region, Block
<1> QED BY <1>1, <1>2 DEF Apart

\* The used part of a block grows.
LEMMA LastMoves ==
  ASSUME NEW p, NEW h, Sound(p, h), NEW b \in 1 .. Len(p.blocks), NEW z \in Nat,
         p.blocks[b].last <= z, z <= Size
  PROVE  LET p2 == [p EXCEPT !.blocks[b].last = z]
         IN  /\ p2 \in PoolT /\ Sound(p2, h) /\ p2.held = p.held
             /\ Len(p2.blocks) = Len(p.blocks) /\ p2.blocks[b].last = z
<1> DEFINE N  == Len(p.blocks)
           x  == [p.blocks[b] EXCEPT !.last = z]
           B  == [p.blocks EXCEPT ![b] = x]
           p2 == [p EXCEPT !.blocks = B]
<1>0. /\ p \in PoolT /\ p.blocks \in Seq(Block) /\ N \in Nat /\ b \in 1 .. N
      /\ p.current \in 1 .. N /\ p.blocks[b] \in Block
      /\ Size \in Nat /\ Hdr \in Nat /\ DataHdr \in Nat
  BY PoolNumbers DEF Sound, PoolT
<1>1. [p EXCEPT !.blocks[b].last = z] = p2
  BY <1>0 DEF PoolT
<1>2. x \in Block /\ x.last = z
  BY <1>0 DEF Block
<1> HIDE DEF x
<1>3. /\ B \in Seq(Block) /\ Len(B) = N /\ B[b] = x
      /\ \A c \in 1 .. N : c # b => B[c] = p.blocks[c]
  BY <1>0, <1>2, ExceptSeq
<1> HIDE DEF B, N
<1>4. /\ p2 \in PoolT /\ p2.blocks = B
      /\ p2.held = p.held /\ p2.large = p.large /\ p2.current = p.current
  BY <1>0, <1>3 DEF PoolT
<1>5. ASSUME NEW c \in 1 .. N
      PROVE  B[c].last \in Start(c) .. Size /\ p.blocks[c].last <= B[c].last
  <2>1. /\ p.blocks[c].last \in Start(c) .. Size /\ p.blocks[c] \in Block
        /\ Start(c) \in Nat
    <3>1. p.blocks[c].last \in Start(c) .. Size
      BY DEF Sound, N
    <3>2. p.blocks[c] \in Block
      BY <1>0 DEF N
    <3> QED BY <1>0, <3>1, <3>2 DEF Start
  <2>2. CASE c = b
    <3>1. p.blocks[b].last \in Nat /\ p.blocks[b].last \in Start(b) .. Size /\ Start(b) \in Nat
      BY <2>1, <2>2 DEF Block
    <3>2. z \in Start(b) .. Size
      BY <1>0, <3>1
    <3>3. B[b].last = z
      BY <1>2, <1>3
    <3> QED BY <2>2, <3>2, <3>3
  <2>3. CASE c # b
    BY <1>3, <2>1, <2>3, SMTT(30) DEF Block
  <2> QED BY <2>2, <2>3
<1>6. Sound(p2, h)
  <2> HIDE DEF p2
  <2>1. Len(p.blocks) <= Len(p2.blocks) /\ p2.current \in 1 .. Len(p2.blocks)
    BY <1>0, <1>3, <1>4 DEF N
  <2> QED BY <1>3, <1>4, <1>5, <2>1, SoundGrows DEF N
<1>7. p2 \in PoolT /\ Sound(p2, h) /\ p2.held = p.held /\ Len(p2.blocks) = N /\ p2.blocks[b].last = z
  BY <1>2, <1>3, <1>4, <1>6
<1> QED BY <1>1, <1>7 DEF N

\* The rest of a block that has room.
LEMMA TakeAnswer ==
  ASSUME NEW s \in Alloc1, Sound(s.p, s.h), NEW b \in 1 .. Len(s.p.blocks),
         NEW m \in Nat, NEW size \in Nat, s.p.blocks[b].last <= m, m + size <= Size
  PROVE  Answer(s, Take(s, b, m, size), size)
<1> DEFINE p2 == [s.p EXCEPT !.blocks[b].last = m + size]
           u == [s EXCEPT !.p = p2]
           r == Reg(b, m, size)
<1>0. /\ s.p \in PoolT /\ s.p.blocks[b] \in Block
      /\ Size \in Nat /\ Hdr \in Nat /\ DataHdr \in Nat /\ b \in Nat \ {0}
  BY PoolNumbers DEF Sound, PoolT
<1>1. Take(s, b, m, size) = Give(u, r)
  BY <1>0 DEF Take, Alloc1, PoolT
<1>2. /\ p2 \in PoolT /\ Sound(p2, s.h) /\ p2.held = s.p.held
      /\ Len(p2.blocks) = Len(s.p.blocks) /\ p2.blocks[b].last = m + size
  <2>1. m + size \in Nat /\ s.p.blocks[b].last <= m + size
    BY <1>0 DEF Block
  <2> QED BY <2>1, LastMoves
<1> HIDE DEF p2
<1>3. u \in Alloc1 /\ u.p = p2 /\ u.h = s.h
  BY <1>2 DEF Alloc1
<1>4. r \in Region /\ \A q \in s.p.held : Apart(r, q) /\ Apart(q, r)
  BY BehindIsFree
<1>5. r.blk = b /\ r.lo = m /\ r.hi = m + size
  BY DEF Reg
<1> HIDE DEF u, r
<1>6. r.lo < r.hi => Placed(p2, s.h, r)
  <2>1. Start(b) <= m
    <3>1. s.p.blocks[b].last \in Start(b) .. Size /\ Start(b) \in Int /\ s.p.blocks[b].last \in Nat
      BY <1>0 DEF Sound, Start, Block
    <3> QED BY <3>1
  <2> QED BY <1>0, <1>2, <1>5, <2>1 DEF Placed
<1>7. /\ Give(u, r) \in Alloc1 /\ Sound(Give(u, r).p, Give(u, r).h) /\ Give(u, r).at = r
      /\ s.p.held \subseteq Give(u, r).p.held
      /\ r.lo < r.hi => r \in Give(u, r).p.held /\ r \notin s.p.held
  <2>1. Sound(u.p, u.h)
    BY <1>2, <1>3
  <2>2. r.lo < r.hi => Placed(u.p, u.h, r) /\ \A q \in u.p.held : Apart(r, q) /\ Apart(q, r)
    BY <1>2, <1>3, <1>4, <1>6
  <2>3. u.p.held = s.p.held
    BY <1>2, <1>3
  <2> QED BY <1>3, <1>4, <2>1, <2>2, <2>3, GiveSound
<1> QED BY <1>0, <1>1, <1>5, <1>7 DEF Answer

\* A function over 1 .. n is a sequence.
LEMMA FunSeq ==
  ASSUME NEW S, NEW n \in Nat, NEW f \in [1 .. n -> S]
  PROVE  f \in Seq(S) /\ Len(f) = n
<1>1. f \in Seq(S)
  BY SeqDef
<1>2. Len(f) \in Nat /\ DOMAIN f = 1 .. Len(f) /\ DOMAIN f = 1 .. n
  BY <1>1, LenProperties
<1> QED BY <1>1, <1>2

\* The chain of blocks after ntg_palloc_block: the failures are counted, the first block to
\* try moves on, and the new block is the last one.
LEMMA ChainGrows ==
  ASSUME NEW p, NEW h, Sound(p, h), NEW new \in Block, new.last \in DataHdr .. Size
  PROVE  LET p2 == [Tired(p) EXCEPT !.blocks = Append(@, new)]
         IN  /\ p2 \in PoolT /\ Sound(p2, h) /\ p2.held = p.held
             /\ Len(p2.blocks) = Len(p.blocks) + 1 /\ p2.blocks[Len(p.blocks) + 1] = new
<1> DEFINE N     == Len(p.blocks)
           tried == p.current .. N - 1
           worn  == {b \in tried : Worn(p, b)}
           cur   == IF worn = {} THEN p.current ELSE Max(worn) + 1
           old   == [b \in DOMAIN p.blocks |->
                       IF b \in tried THEN [p.blocks[b] EXCEPT !.failed = @ + 1] ELSE p.blocks[b]]
           B     == Append(old, new)
           p2    == [p EXCEPT !.current = cur, !.blocks = B]
<1>0. /\ p \in PoolT /\ p.blocks \in Seq(Block) /\ N \in Nat /\ p.current \in 1 .. N
      /\ Size \in Nat /\ Hdr \in Nat /\ DataHdr \in Nat
  BY PoolNumbers DEF Sound, PoolT
<1> HIDE DEF N
<1>1. cur \in 1 .. N /\ cur \in Nat
  <2>1. CASE worn # {}
    <3>1. worn \subseteq Int /\ \A x \in worn : x <= N - 1 /\ x >= 1
      BY <1>0
    <3>2. Max(worn) \in worn
      <4>1. N - 1 \in Int
        BY <1>0
      <4> HIDE DEF worn
      <4> QED BY <2>1, <3>1, <4>1, MaxInt
    <3>3. Max(worn) \in Int /\ Max(worn) <= N - 1 /\ Max(worn) >= 1
      BY <3>1, <3>2
    <3>4. cur = Max(worn) + 1
      BY <2>1
    <3> HIDE DEF worn, cur
    <3> QED BY <1>0, <3>3, <3>4
  <2>2. CASE worn = {}
    BY <1>0, <2>2
  <2> QED BY <2>1, <2>2
<1>2. /\ old \in [1 .. N -> Block]
      /\ \A b \in 1 .. N : old[b].last = p.blocks[b].last
  <2>1. DOMAIN p.blocks = 1 .. N /\ \A b \in 1 .. N : p.blocks[b] \in Block
    BY <1>0 DEF N
  <2> HIDE DEF tried
  <2> QED BY <2>1 DEF Block
<1>3. old \in Seq(Block) /\ Len(old) = N
  <2> HIDE DEF old
  <2> QED BY <1>0, <1>2, FunSeq
<1> HIDE DEF old, cur, worn, tried
<1>4. /\ B \in Seq(Block) /\ Len(B) = N + 1 /\ B[N + 1] = new
      /\ \A b \in 1 .. N : B[b] = old[b]
  BY <1>0, <1>3
<1> HIDE DEF B
<1>5. /\ p2 \in PoolT /\ p2.blocks = B
      /\ p2.held = p.held /\ p2.large = p.large /\ p2.current = cur
  BY <1>0, <1>1, <1>4 DEF PoolT
<1> HIDE DEF p2
<1>6. /\ \A b \in 1 .. Len(B) : B[b].last \in Start(b) .. Size
      /\ \A b \in 1 .. N : p.blocks[b].last <= B[b].last
  <2>1. \A b \in 1 .. N : /\ p.blocks[b].last \in Start(b) .. Size
                          /\ B[b].last = p.blocks[b].last /\ p.blocks[b].last \in Nat
    BY <1>0, <1>2, <1>4 DEF Sound, Block, N
  <2>2. Start(N + 1) = DataHdr
    BY <1>0 DEF Start
  <2>3. \A b \in 1 .. Len(B) : b \in 1 .. N \/ b = N + 1
    BY <1>0, <1>4
  <2> QED BY <1>4, <2>1, <2>2, <2>3
<1>7. Sound(p2, h)
  <2>1. Len(p.blocks) <= Len(p2.blocks) /\ p2.current \in 1 .. Len(p2.blocks)
    BY <1>0, <1>1, <1>4, <1>5 DEF N
  <2> QED BY <1>5, <1>6, <2>1, SoundGrows DEF N
<1>8. /\ p2 \in PoolT /\ Sound(p2, h) /\ p2.held = p.held
      /\ Len(p2.blocks) = N + 1 /\ p2.blocks[N + 1] = new
  BY <1>4, <1>5, <1>7
<1>9. [Tired(p) EXCEPT !.blocks = Append(@, new)] = p2
  <2>1. Tired(p) = [p EXCEPT !.current = cur, !.blocks = old]
    BY <1>0, Zenon DEF Tired, cur, old, worn, tried, N
  <2> QED BY <1>0, <2>1 DEF PoolT, p2, B
<1> QED BY <1>8, <1>9 DEF N

\* ntg_palloc_block: a new block, or NULL.
LEMMA BlockAnswer ==
  ASSUME NEW s \in Alloc1, Sound(s.p, s.h), NEW size \in Nat,
         size <= Size - Hdr
  PROVE  Answer(s, PallocBlock(s, size), size)
<1> DEFINE new   == [last |-> BlockStart + size, failed |-> 0]
           p2    == [Tired(s.p) EXCEPT !.blocks = Append(@, new)]
           u     == [s EXCEPT !.left = @ - 1, !.p = p2]
           N     == Len(s.p.blocks)
           r     == Reg(N + 1, BlockStart, size)
<1>0. /\ s.p \in PoolT /\ s.p.blocks \in Seq(Block) /\ N \in Nat /\ s.p.current \in 1 .. N
      /\ Size \in Nat /\ Hdr \in Nat /\ DataHdr \in Nat /\ DataHdr <= Hdr /\ s.left \in Nat
  BY PoolNumbers DEF Sound, PoolT, Alloc1
<1>1. CASE s.left = 0 \/ N = MaxBlocks
  <2>1. PallocBlock(s, size) = [s EXCEPT !.at = Null]
    BY <1>1 DEF PallocBlock
  <2> QED BY <2>1 DEF Answer, Alloc1, Null, Region
<1>2. CASE ~(s.left = 0 \/ N = MaxBlocks)
  <2>1. PallocBlock(s, size) = Give(u, r)
    BY <1>2, Zenon DEF PallocBlock
  <2>2. BlockStart = DataHdr /\ BlockStart + size \in DataHdr .. Size
    BY <1>0, BlockStartIs
  <2>3. new \in Block /\ new.last = BlockStart + size
    BY <1>0, <2>2 DEF Block
  <2> HIDE DEF new
  <2>4. /\ p2 \in PoolT /\ Sound(p2, s.h) /\ p2.held = s.p.held
        /\ Len(p2.blocks) = N + 1 /\ p2.blocks[N + 1] = new
    BY <2>2, <2>3, ChainGrows
  <2> HIDE DEF p2
  <2>5. u \in Alloc1 /\ u.p = p2 /\ u.h = s.h
    <3>1. s.left - 1 \in Nat
      BY <1>0, <1>2
    <3> QED BY <2>4, <3>1 DEF Alloc1
  <2>6. r \in Region /\ r.blk = N + 1 /\ r.lo = BlockStart /\ r.hi = BlockStart + size
    BY <1>0, <2>2 DEF Reg, Region
  <2> HIDE DEF u, r
  <2>7. \A q \in s.p.held : Apart(r, q) /\ Apart(q, r)
    <3> SUFFICES ASSUME NEW q \in s.p.held PROVE q.blk # N + 1
      BY <2>6 DEF Apart
    <3>1. Placed(s.p, s.h, q) /\ q \in Region
      BY <1>0 DEF Sound, PoolT
    <3> QED BY <1>0, <3>1 DEF Placed, Region
  <2>8. r.lo < r.hi => Placed(p2, s.h, r)
    <3>1. Start(N + 1) = DataHdr /\ N + 1 > 0 /\ N + 1 \in 1 .. Len(p2.blocks)
      BY <1>0, <2>4 DEF Start
    <3> QED BY <1>0, <2>2, <2>3, <2>4, <2>6, <3>1 DEF Placed
  <2>9. /\ Give(u, r) \in Alloc1 /\ Sound(Give(u, r).p, Give(u, r).h) /\ Give(u, r).at = r
        /\ s.p.held \subseteq Give(u, r).p.held
        /\ r.lo < r.hi => r \in Give(u, r).p.held /\ r \notin s.p.held
    BY <2>4, <2>5, <2>6, <2>7, <2>8, GiveSound
  <2> QED BY <1>0, <2>1, <2>2, <2>6, <2>9 DEF Answer
<1> QED BY <1>1, <1>2

\* The search through the blocks for room, aligned or not.
LEMMA SmallAnswer ==
  ASSUME NEW s \in Alloc1, Sound(s.p, s.h), NEW size \in Nat, size <= Size - Hdr,
         NEW aligned \in BOOLEAN
  PROVE  Answer(s, Small(s, size, aligned), size)
<1> DEFINE fit == {b \in s.p.current .. Len(s.p.blocks) : Room(From(s, b, aligned), size)}
           b == Min(fit)
           m == From(s, b, aligned)
<1>0. s.p \in PoolT /\ Len(s.p.blocks) \in Nat /\ s.p.current \in 1 .. Len(s.p.blocks)
  BY DEF Sound, PoolT
<1>1. CASE fit = {}
  BY <1>1, BlockAnswer DEF Small
<1>2. CASE fit # {}
  <2>1. fit \subseteq Nat
    BY <1>0
  <2>2. b \in fit
    <3> HIDE DEF fit
    <3> QED BY <1>2, <2>1, MinNat
  <2>3. Small(s, size, aligned) = Take(s, b, m, size)
    BY <1>2, Zenon DEF Small
  <2>4. b \in 1 .. Len(s.p.blocks) /\ Room(m, size)
    BY <1>0, <2>2
  <2> HIDE DEF b
  <2>5. s.p.blocks[b].last \in Nat /\ s.p.blocks[b].last <= Size
    <3>1. s.p.blocks[b] \in Block /\ s.p.blocks[b].last \in Start(b) .. Size
      BY <1>0, <2>4 DEF Sound, PoolT
    <3>2. Start(b) \in Int /\ Size \in Int
      BY PoolNumbers DEF Start
    <3> QED BY <3>1, <3>2 DEF Block
  <2>6. m \in Nat /\ s.p.blocks[b].last <= m /\ m <= Size
    <3> DEFINE x == s.p.blocks[b].last
    <3>1. m = IF aligned THEN Aligned(x) ELSE x
      BY DEF From
    <3>2. x \in Nat /\ x <= Size
      BY <2>5
    <3> HIDE DEF x
    <3>3. Aligned(x) \in Nat /\ x <= Aligned(x) /\ Aligned(x) <= Size
      BY <3>2, AlignedWithin
    <3> QED BY <3>1, <3>2, <3>3 DEF x
  <2> HIDE DEF m
  <2>7. m + size <= Size
    BY <2>4, <2>6, PoolNumbers DEF Room
  <2> QED BY <2>3, <2>4, <2>6, <2>7, TakeAnswer
<1> QED BY <1>1, <1>2

\* What malloc gives is nobody's yet.
LEMMA FreeIsFree ==
  ASSUME NEW s \in Alloc1, Sound(s.p, s.h), Free(s) # {}
  PROVE  /\ Min(Free(s)) \in 1 .. MaxLarge /\ Min(Free(s)) \notin s.h
<1>1. Free(s) \subseteq Nat
  BY PoolNumbers DEF Free
<1>2. Min(Free(s)) \in Free(s)
  BY <1>1, MinNat
<1> QED BY <1>2 DEF Free

\* A large allocation with the entry that names it.
LEMMA LargeSound ==
  ASSUME NEW s \in Alloc1, Sound(s.p, s.h), NEW id \in 1 .. MaxLarge, id \notin s.h,
         NEW l \in Seq(0 .. MaxLarge), Named(l, s.h \cup {id}), NEW size \in Nat,
         NEW u, u \in Alloc1, u.p = [s.p EXCEPT !.large = l], u.h = s.h \cup {id}
  PROVE  Answer(s, Give(u, Reg(-id, 0, size)), size)
<1> DEFINE r == Reg(-id, 0, size)
           h2 == s.h \cup {id}
           p2 == [s.p EXCEPT !.large = l]
<1>0. s.p \in PoolT /\ id \in Nat \ {0} /\ s.h \subseteq 1 .. MaxLarge
  <2>1. id \in Nat \ {0}
    BY PoolNumbers, SMTT(30)
  <2> QED BY <2>1 DEF Sound
<1>1. /\ p2 \in PoolT /\ p2.blocks = s.p.blocks /\ p2.current = s.p.current
      /\ p2.held = s.p.held /\ p2.large = l
  BY <1>0 DEF PoolT
<1> HIDE DEF p2
<1>2. r \in Region /\ r.blk = -id /\ r.lo = 0 /\ r.hi = size
  BY <1>0 DEF Reg, Region
<1> HIDE DEF r
<1>3. \A q \in s.p.held : Placed(p2, h2, q) /\ q.blk # -id
  <2> SUFFICES ASSUME NEW q \in s.p.held PROVE Placed(p2, h2, q) /\ q.blk # -id
    OBVIOUS
  <2>1. Placed(s.p, s.h, q) /\ q \in Region
    BY <1>0 DEF Sound, PoolT
  <2>2. Placed(p2, h2, q)
    BY <1>1, <2>1 DEF Placed
  <2>3. q.blk # -id
    <3>1. q.blk \in Int
      BY <2>1 DEF Region
    <3>2. CASE q.blk > 0
      BY <1>0, <3>1, <3>2
    <3>3. CASE ~(q.blk > 0)
      <4>1. -q.blk \in s.h
        BY <2>1, <3>3 DEF Placed
      <4>2. q.blk = -id => -q.blk = id
        BY <1>0, <3>1
      <4> QED BY <4>1, <4>2
    <3> QED BY <3>2, <3>3
  <2> QED BY <2>2, <2>3
<1>4. Sound(p2, h2)
  BY <1>0, <1>1, <1>3 DEF Sound
<1>5. \A q \in s.p.held : Apart(r, q) /\ Apart(q, r)
  BY <1>2, <1>3 DEF Apart
<1>6. r.lo < r.hi => Placed(p2, h2, r)
  <2>1. ~(-id > 0) /\ -(-id) = id
    BY <1>0
  <2> QED BY <1>2, <2>1 DEF Placed
<1>7. u.p = p2 /\ u.h = h2 /\ u.p.held = s.p.held
  BY <1>1 DEF p2
<1> HIDE DEF h2
<1>8. /\ Give(u, r) \in Alloc1 /\ Sound(Give(u, r).p, Give(u, r).h) /\ Give(u, r).at = r
      /\ s.p.held \subseteq Give(u, r).p.held
      /\ r.lo < r.hi => r \in Give(u, r).p.held /\ r \notin s.p.held
  <2>1. Sound(u.p, u.h)
    BY <1>4, <1>7
  <2>2. r.lo < r.hi => Placed(u.p, u.h, r) /\ \A q \in u.p.held : Apart(r, q) /\ Apart(q, r)
    BY <1>5, <1>6, <1>7
  <2>3. /\ Give(u, r) \in Alloc1 /\ Sound(Give(u, r).p, Give(u, r).h) /\ Give(u, r).at = r
        /\ u.p.held \subseteq Give(u, r).p.held
        /\ r.lo < r.hi => r \in Give(u, r).p.held /\ r \notin u.p.held
    BY <1>2, <2>1, <2>2, GiveSound
  <2> QED BY <1>7, <2>3
<1>9. -id # 0 /\ size = 0 + size
  BY <1>0
<1> QED BY <1>2, <1>8, <1>9 DEF Answer, r

\* An answer that is new to a later pool is new to an earlier one.
LEMMA AnswerLater ==
  ASSUME NEW s, NEW e, NEW t, NEW size, s.p.held \subseteq e.p.held, Answer(e, t, size)
  PROVE  Answer(s, t, size)
  BY DEF Answer

\* Small requests leave the heap alone.
LEMMA SmallKeepsHeap ==
  ASSUME NEW s \in Alloc1, NEW size, NEW aligned
  PROVE  Small(s, size, aligned).h = s.h
<1>1. ASSUME NEW u, NEW r PROVE Give(u, r).h = u.h
  BY DEF Give
<1>2. ASSUME NEW b, NEW m PROVE Take(s, b, m, size).h = s.h
  BY <1>1 DEF Take, Alloc1
<1>3. PallocBlock(s, size).h = s.h
  <2> DEFINE x == [Tired(s.p) EXCEPT !.blocks = Append(@, [last |-> BlockStart + size, failed |-> 0])]
             u == [s EXCEPT !.left = @ - 1, !.p = x]
  <2>1. u.h = s.h
    <3> HIDE DEF x
    <3> QED BY DEF Alloc1
  <2>2. [s EXCEPT !.at = Null].h = s.h
    BY DEF Alloc1
  <2>3. \/ PallocBlock(s, size) = [s EXCEPT !.at = Null]
        \/ PallocBlock(s, size) = Give(u, Reg(Len(s.p.blocks) + 1, BlockStart, size))
    BY Zenon DEF PallocBlock
  <2> HIDE DEF u
  <2> QED BY <1>1, <2>1, <2>2, <2>3
<1> QED BY <1>2, <1>3 DEF Small

\* ntg_pool_large_t for memory that malloc gave: both, or neither.
LEMMA ListLargeAnswer ==
  ASSUME NEW s \in Alloc1, Sound(s.p, s.h), s.left # 0, NEW id \in 1 .. MaxLarge, id \notin s.h,
         NEW size \in Nat
  PROVE  Answer(s, ListLarge(s, id, size), size)
<1> DEFINE s0 == [s EXCEPT !.left = @ - 1]
           e  == Small(s0, LargeHdr, TRUE)
           l  == <<id>> \o e.p.large
           u  == [e EXCEPT !.h = @ \cup {id}, !.p.large = l]
<1>1. s0 \in Alloc1 /\ s0.p = s.p /\ s0.h = s.h
  BY DEF Alloc1
<1> HIDE DEF s0
<1>2. Answer(s0, e, LargeHdr) /\ e.h = s.h
  BY <1>1, SmallAnswer, SmallKeepsHeap, PoolNumbers
<1> HIDE DEF e
<1>3. e \in Alloc1 /\ Sound(e.p, e.h) /\ s.p.held \subseteq e.p.held
  BY <1>1, <1>2 DEF Answer
<1>4. CASE e.at = Null
  <2>1. ListLarge(s, id, size) = e
    BY <1>4 DEF ListLarge, e, s0
  <2> QED BY <1>3, <1>4, <2>1 DEF Answer
<1>5. CASE e.at # Null
  <2>1. ListLarge(s, id, size) = Give(u, Reg(-id, 0, size))
    <3>1. ListLarge(s, id, size)
            = Give([e EXCEPT !.h = @ \cup {id}, !.p.large = <<id>> \o @], Reg(-id, 0, size))
      BY <1>5, Zenon DEF ListLarge, e, s0
    <3>2. [e EXCEPT !.h = @ \cup {id}, !.p.large = <<id>> \o @] = u
      BY <1>3 DEF Alloc1, PoolT
    <3> QED BY <3>1, <3>2
  <2>2. e.p.large \in Seq(0 .. MaxLarge) /\ Named(e.p.large, e.h) /\ 0 \notin e.h /\ id # 0
        /\ id \in 0 .. MaxLarge
    BY <1>3, PoolNumbers DEF Sound, PoolT
  <2>3. l \in Seq(0 .. MaxLarge) /\ Named(l, e.h \cup {id})
    <3>1. Named(l, IF id = 0 THEN e.h ELSE e.h \cup {id})
      BY <1>2, <2>2, NamedAdd
    <3>2. <<id>> \in Seq(0 .. MaxLarge)
      BY <2>2
    <3> QED BY <2>2, <3>1, <3>2, ConcatProperties
  <2> HIDE DEF l
  <2>4. u \in Alloc1 /\ u.p = [e.p EXCEPT !.large = l] /\ u.h = e.h \cup {id}
    BY <1>3, <2>3 DEF Alloc1, PoolT
  <2> HIDE DEF u
  <2>5. Answer(e, Give(u, Reg(-id, 0, size)), size)
    BY <1>2, <1>3, <2>3, <2>4, LargeSound
  <2> QED BY <1>3, <2>1, <2>5, AnswerLater
<1> QED BY <1>4, <1>5

\* ntg_palloc_large: an empty entry among the first is used, or a new one is made.
LEMMA LargeAnswer ==
  ASSUME NEW s \in Alloc1, Sound(s.p, s.h), NEW size \in Nat
  PROVE  Answer(s, PallocLarge(s, size), size)
<1> DEFINE id == Min(Free(s))
           E  == Empty(s.p)
           k  == Min(E)
           l  == [s.p.large EXCEPT ![k] = id]
           u  == [s EXCEPT !.left = @ - 1, !.h = @ \cup {id}, !.p.large = l]
<1>1. CASE s.left = 0 \/ Free(s) = {}
  <2>1. PallocLarge(s, size) = [s EXCEPT !.at = Null]
    BY <1>1 DEF PallocLarge
  <2> QED BY <2>1 DEF Answer, Alloc1, Null, Region
<1>2. CASE s.left # 0 /\ Free(s) # {}
  <2>1. id \in 1 .. MaxLarge /\ id \notin s.h
    BY <1>2, FreeIsFree
  <2> HIDE DEF id
  <2>2. CASE E = {}
    <3>1. PallocLarge(s, size) = ListLarge(s, id, size)
      BY <1>2, <2>2, Zenon DEF PallocLarge, id
    <3> QED BY <1>2, <2>1, <3>1, ListLargeAnswer
  <2>3. CASE E # {}
    <3>1. s.p.large \in Seq(0 .. MaxLarge) /\ Len(s.p.large) \in Nat
      BY DEF Alloc1, PoolT
    <3>2. E \subseteq 1 .. Len(s.p.large) /\ \A i \in E : s.p.large[i] = 0
      <4> DEFINE M == {Len(s.p.large), LargeTries}
      <4>1. M \subseteq Nat /\ M # {}
        BY <3>1, PoolNumbers
      <4>2. Min(M) \in Nat /\ Min(M) <= Len(s.p.large)
        <5>1. Min(M) \in M /\ \A y \in M : Min(M) <= y
          <6> HIDE DEF M
          <6> QED BY <4>1, MinNat
        <5> QED BY <4>1, <5>1
      <4>3. E = {i \in 1 .. Min(M) : s.p.large[i] = 0}
        BY DEF Empty
      <4> HIDE DEF E, M
      <4> QED BY <3>1, <4>2, <4>3
    <3>3. k \in 1 .. Len(s.p.large) /\ s.p.large[k] = 0
      <4>1. E \subseteq Nat
        BY <3>1, <3>2
      <4>2. k \in E
        <5> HIDE DEF E
        <5> QED BY <2>3, <4>1, MinNat
      <4> QED BY <3>2, <4>2
    <3>4. PallocLarge(s, size) = Give(u, Reg(-id, 0, size))
      <4>1. PallocLarge(s, size)
              = Give([s EXCEPT !.left = @ - 1, !.h = @ \cup {id}, !.p.large[k] = id], Reg(-id, 0, size))
        BY <1>2, <2>3, Zenon DEF PallocLarge, id
      <4>2. [s EXCEPT !.left = @ - 1, !.h = @ \cup {id}, !.p.large[k] = id] = u
        <5> HIDE DEF k
        <5> QED BY DEF Alloc1, PoolT
      <4> QED BY <4>1, <4>2
    <3> HIDE DEF k
    <3>5. l \in Seq(0 .. MaxLarge) /\ Named(l, s.h \cup {id})
      <4>1. id \in 0 .. MaxLarge /\ id # 0 /\ 0 \notin s.h /\ Named(s.p.large, s.h)
        BY <2>1, PoolNumbers DEF Sound
      <4> QED BY <2>1, <3>1, <3>3, <4>1, NamedPut, ExceptSeq
    <3> HIDE DEF l
    <3>6. u \in Alloc1 /\ u.p = [s.p EXCEPT !.large = l] /\ u.h = s.h \cup {id}
      <4>1. s.left - 1 \in Nat
        BY <1>2 DEF Alloc1
      <4> QED BY <2>1, <3>5, <4>1 DEF Alloc1, PoolT
    <3> HIDE DEF u
    <3> QED BY <2>1, <3>4, <3>5, <3>6, LargeSound
  <2> QED BY <2>2, <2>3
<1> QED BY <1>1, <1>2

\* ntg_palloc, ntg_pnalloc: what is asked for, of memory nobody has, or NULL.
LEMMA PallocAnswer ==
  ASSUME NEW s \in Alloc1, Sound(s.p, s.h), NEW size \in Nat
  PROVE  Answer(s, Palloc(s, size), size) /\ Answer(s, Pnalloc(s, size), size)
<1> DEFINE M == {Size - Hdr, PageMax}
<1>1. M \subseteq Nat /\ M # {}
  BY PoolNumbers
<1>2. MaxSmall \in Nat /\ MaxSmall <= Size - Hdr
  <2>1. Min(M) \in M /\ \A y \in M : Min(M) <= y
    <3> HIDE DEF M
    <3> QED BY <1>1, MinNat
  <2> QED BY <1>1, <2>1 DEF MaxSmall
<1>3. CASE size <= MaxSmall
  <2>1. size <= Size - Hdr
    BY <1>2, <1>3, PoolNumbers
  <2> QED BY <1>3, <2>1, SmallAnswer DEF Palloc, Pnalloc
<1>4. CASE ~(size <= MaxSmall)
  BY <1>4, LargeAnswer DEF Palloc, Pnalloc
<1> QED BY <1>3, <1>4

\* A request that follows another: the two answers are different memory.
LEMMA ThenAnswer ==
  ASSUME NEW s \in Alloc1, Sound(s.p, s.h), NEW one \in Nat \ {0}, NEW two \in Nat \ {0}
  PROVE  LET h == Palloc(s, one)
             t == Then(h, two)
         IN  /\ Answer(s, t, two)
             /\ h.at \in Region
             /\ t.at # Null => h.at \in t.p.held /\ h.at \notin s.p.held /\ h.at # t.at
<1> DEFINE h == Palloc(s, one)
           t == Then(h, two)
<1>1. Answer(s, h, one)
  BY PallocAnswer
<1> HIDE DEF h
<1>2. h \in Alloc1 /\ Sound(h.p, h.h) /\ s.p.held \subseteq h.p.held /\ h.at \in Region
  BY <1>1 DEF Answer, Alloc1
<1>3. CASE h.at = Null
  <2>1. t = h
    BY <1>3 DEF Then
  <2> QED BY <1>2, <1>3, <2>1 DEF Answer, h
<1>4. CASE h.at # Null
  <2>1. t = Palloc(h, two)
    BY <1>4 DEF Then
  <2>2. Answer(h, t, two)
    BY <1>2, <2>1, PallocAnswer
  <2> HIDE DEF t
  <2>3. h.at \in h.p.held /\ h.at \notin s.p.held
    BY <1>1, <1>4 DEF Answer
  <2>4. h.p.held \subseteq t.p.held /\ (t.at # Null => t.at \notin h.p.held)
    BY <2>2 DEF Answer
  <2> QED BY <1>2, <2>2, <2>3, <2>4, AnswerLater DEF h, t
<1> QED BY <1>3, <1>4
-----------------------------------------------------------------------------
(***************************************************************************)
(* The containers: what they own of the pool, H being the memory callers   *)
(* have.  The header of an array matters only where ntg_array_destroy may  *)
(* give it back, in the first block; a large one may be freed before.      *)
(***************************************************************************)
ArrT  == [hdr : Region, elts : Region, n : Nat, nalloc : Nat]
PartT == [elts : Region, n : Nat]

ArrayIn(a, H) ==
  /\ a.elts \in H /\ a.nalloc # 0 /\ a.n <= a.nalloc
  /\ a.elts.hi = a.elts.lo + a.nalloc * EltSize
  /\ a.hdr.blk = 1 => a.hdr \in H /\ a.hdr # a.elts

PartIn(q, a, H) ==
  /\ q.elts \in H /\ q.elts # a.elts
  /\ a.hdr.blk = 1 => q.elts # a.hdr
  /\ q.elts.hi = q.elts.lo + FirstN * EltSize /\ q.n <= FirstN

Containers(a, l, H) ==
  /\ a \in ArrT /\ l \in Seq(PartT)
  /\ a # NoArray => ArrayIn(a, H)
  /\ \A i \in 1 .. Len(l) : PartIn(l[i], a, H)
  /\ \A i, j \in 1 .. Len(l) : i # j => l[i].elts # l[j].elts

\* What others are given is of no concern.
LEMMA ContainersGrow ==
  ASSUME NEW a, NEW l, NEW H, NEW H2, Containers(a, l, H), H \subseteq H2
  PROVE  Containers(a, l, H2)
  BY DEF Containers, ArrayIn, PartIn

\* The array gets new elements, at first or when it has moved.
LEMMA ArrayMoves ==
  ASSUME NEW a, NEW l, NEW H, NEW H2, Containers(a, l, H), H \subseteq H2,
         NEW b \in ArrT, b.elts \in H2, b.elts \notin H, b.nalloc # 0, b.n <= b.nalloc,
         b.elts.hi = b.elts.lo + b.nalloc * EltSize,
         b.hdr.blk = 1 => b.hdr \in H2 /\ b.hdr # b.elts,
         b.hdr = a.hdr \/ b.hdr \notin H
  PROVE  Containers(b, l, H2)
<1>1. ArrayIn(b, H2)
  BY DEF ArrayIn
<1>2. ASSUME NEW i \in 1 .. Len(l) PROVE PartIn(l[i], b, H2)
  BY DEF Containers, PartIn
<1> QED BY <1>1, <1>2 DEF Containers

\* A product of naturals.
LEMMA Times == ASSUME NEW i \in Nat, NEW j \in Nat PROVE i * j \in Nat /\ (i # 0 /\ j # 0 => i * j # 0)
  OBVIOUS

\* A part of a list is filled.
LEMMA Counted ==
  ASSUME NEW a, NEW l, NEW H, Containers(a, l, H), l # <<>>, l[Len(l)].n # FirstN
  PROVE  Containers(a, Count(l), H)
<1> DEFINE N == Len(l)
           x == [l[N] EXCEPT !.n = @ + 1]
           c == [l EXCEPT ![N] = x]
<1>0. l \in Seq(PartT) /\ N \in Nat /\ N \in 1 .. N /\ l[N] \in PartT /\ FirstN \in Nat
  <2>1. l \in Seq(PartT)
    BY DEF Containers
  <2>2. N \in Nat /\ N # 0
    BY <2>1, EmptySeq
  <2> QED BY <2>1, <2>2, PoolNumbers
<1>1. Count(l) = c
  BY DEF Count
<1>2. x \in PartT /\ x.elts = l[N].elts /\ x.n <= FirstN
  <2>1. l[N].n \in Nat /\ l[N].n <= FirstN /\ l[N].n # FirstN
    BY <1>0 DEF Containers, PartIn, PartT
  <2>2. l[N].n + 1 <= FirstN /\ l[N].n + 1 \in Nat
    BY <1>0, <2>1
  <2> QED BY <1>0, <2>2 DEF PartT
<1> HIDE DEF x
<1>3. /\ c \in Seq(PartT) /\ Len(c) = N /\ c[N] = x
      /\ \A i \in 1 .. N : i # N => c[i] = l[i]
  BY <1>0, <1>2, ExceptSeq
<1> HIDE DEF c
<1>4. \A i \in 1 .. N : c[i].elts = l[i].elts /\ c[i].n <= FirstN
  BY <1>2, <1>3 DEF Containers, PartIn
<1>5. \A i \in 1 .. N : PartIn(c[i], a, H)
  BY <1>4 DEF Containers, PartIn
<1>6. Containers(a, c, H)
  BY <1>3, <1>4, <1>5 DEF Containers
<1> QED BY <1>1, <1>6

\* A part is added to a list.
LEMMA PartAdded ==
  ASSUME NEW a, NEW l, NEW H, NEW H2, Containers(a, l, H), H \subseteq H2,
         NEW e \in Region, e \in H2, e \notin H, e # Null, e.hi = e.lo + FirstN * EltSize
  PROVE  Containers(a, Append(l, Part(e)), H2)
<1> DEFINE c == Append(l, Part(e))
           N == Len(l)
<1>0. l \in Seq(PartT) /\ N \in Nat /\ a \in ArrT
  BY DEF Containers
<1>1. Part(e) \in PartT /\ Part(e).elts = e /\ Part(e).n = 0
  BY DEF Part, PartT
<1>2. /\ c \in Seq(PartT) /\ Len(c) = N + 1 /\ c[N + 1] = Part(e)
      /\ \A i \in 1 .. N : c[i] = l[i]
  BY <1>0, <1>1
<1>3. \A i \in 1 .. N + 1 : i \in 1 .. N \/ i = N + 1
  BY <1>0
<1> HIDE DEF c, N
<1>4. ASSUME NEW i \in 1 .. N PROVE PartIn(c[i], a, H2) /\ c[i].elts # e
  <2>1. PartIn(l[i], a, H)
    BY DEF Containers, N
  <2> QED BY <1>2, <2>1 DEF PartIn
<1>5. PartIn(c[N + 1], a, H2)
  <2>1. e # a.elts
    BY DEF Containers, ArrayIn, NoArray
  <2>2. a.hdr.blk = 1 => e # a.hdr
    <3>1. CASE a = NoArray
      BY <3>1 DEF NoArray, Null
    <3>2. CASE a # NoArray
      BY <3>2 DEF Containers, ArrayIn
    <3> QED BY <3>1, <3>2
  <2>3. 0 <= FirstN
    BY PoolNumbers
  <2> QED BY <1>1, <1>2, <2>1, <2>2, <2>3 DEF PartIn
<1>6. \A i \in 1 .. N + 1 : PartIn(c[i], a, H2)
  BY <1>3, <1>4, <1>5
<1>7. \A i, j \in 1 .. N + 1 : i # j => c[i].elts # c[j].elts
  <2>1. \A i, j \in 1 .. N : i # j => c[i].elts # c[j].elts
    BY <1>2 DEF Containers, N
  <2>2. c[N + 1].elts = e
    BY <1>1, <1>2
  <2> QED BY <1>3, <1>4, <2>1, <2>2
<1>8. a # NoArray => ArrayIn(a, H2)
  BY DEF Containers, ArrayIn
<1>9. Containers(a, c, H2)
  BY <1>0, <1>2, <1>6, <1>7, <1>8 DEF Containers
<1> QED BY <1>9 DEF c
-----------------------------------------------------------------------------
(***************************************************************************)
(* The end of the first block moves, up or down, under the regions K.      *)
(***************************************************************************)
Ends(p, z, K) == [p EXCEPT !.blocks[1].last = z, !.held = K]

Fits(p, z, K) ==
  /\ \A q \in K : \/ q \in p.held /\ (q.blk # 1 \/ q.hi <= z)
                  \/ q.blk = 1 /\ Hdr <= q.lo /\ q.lo < q.hi /\ q.hi <= z
  /\ \A q, w \in K : q = w \/ Apart(q, w)

LEMMA FirstEnds ==
  ASSUME NEW p, NEW h, Sound(p, h), NEW z \in Nat, Hdr <= z, z <= Size, NEW K \in SUBSET Region,
         Fits(p, z, K)
  PROVE  Sound(Ends(p, z, K), h) /\ Ends(p, z, K).held = K
<1> DEFINE N  == Len(p.blocks)
           x  == [p.blocks[1] EXCEPT !.last = z]
           B  == [p.blocks EXCEPT ![1] = x]
           p2 == Ends(p, z, K)
<1>0. /\ p \in PoolT /\ p.blocks \in Seq(Block) /\ N \in Nat /\ 1 \in 1 .. N
      /\ p.current \in 1 .. N /\ p.blocks[1] \in Block
      /\ Size \in Nat /\ Hdr \in Nat /\ DataHdr \in Nat
  BY PoolNumbers DEF Sound, PoolT
<1>1. p2 = [p EXCEPT !.blocks = B, !.held = K]
  BY <1>0 DEF Ends, PoolT
<1> HIDE DEF p2
<1>2. x \in Block /\ x.last = z
  BY <1>0 DEF Block
<1> HIDE DEF x
<1>3. /\ B \in Seq(Block) /\ Len(B) = N /\ B[1] = x
      /\ \A c \in 1 .. N : c # 1 => B[c] = p.blocks[c]
  BY <1>0, <1>2, ExceptSeq
<1> HIDE DEF B, N
<1>4. /\ p2 \in PoolT /\ p2.blocks = B
      /\ p2.held = K /\ p2.large = p.large /\ p2.current = p.current
  BY <1>0, <1>1, <1>3 DEF PoolT
<1>5. \A c \in 1 .. N : B[c].last \in Start(c) .. Size
  <2> SUFFICES ASSUME NEW c \in 1 .. N PROVE B[c].last \in Start(c) .. Size
    OBVIOUS
  <2>1. CASE c = 1
    BY <1>0, <1>2, <1>3, <2>1 DEF Start
  <2>2. CASE c # 1
    BY <1>3, <2>2 DEF Sound, N
  <2> QED BY <2>1, <2>2
<1>6. ASSUME NEW q \in K PROVE Placed(p2, h, q)
  <2>1. CASE q \in p.held /\ q.blk # 1
    <3>1. Placed(p, h, q)
      BY <2>1 DEF Sound
    <3> QED BY <1>3, <1>4, <2>1, <3>1 DEF Placed, N
  <2>2. CASE q \in p.held /\ q.blk = 1 /\ q.hi <= z
    <3>1. Placed(p, h, q)
      BY <2>2 DEF Sound
    <3> QED BY <1>2, <1>3, <1>4, <2>2, <3>1 DEF Placed, N
  <2>3. CASE q.blk = 1 /\ Hdr <= q.lo /\ q.lo < q.hi /\ q.hi <= z
    BY <1>0, <1>2, <1>3, <1>4, <2>3 DEF Placed, Start
  <2> QED BY <2>1, <2>2, <2>3 DEF Fits
<1>7. Sound(p2, h)
  BY <1>0, <1>3, <1>4, <1>5, <1>6 DEF Sound, N, Fits
<1> QED BY <1>4, <1>7 DEF p2

\* In front of the region that ends the first block are all the others of that block.
LEMMA EndOfFirst ==
  ASSUME NEW p, NEW h, Sound(p, h), NEW r \in p.held, r.blk = 1, r.hi = p.blocks[1].last
  PROVE  /\ r \in Region /\ Hdr <= r.lo /\ r.lo < r.hi /\ r.hi <= Size
         /\ \A q \in p.held : q = r \/ q.blk # 1 \/ q.hi <= r.lo
<1>0. p \in PoolT /\ p.held \subseteq Region /\ Placed(p, h, r) /\ 1 \in 1 .. Len(p.blocks)
  BY DEF Sound, PoolT
<1>1. Hdr <= r.lo /\ r.lo < r.hi /\ p.blocks[1].last <= Size
  <2>1. p.blocks[1].last \in Start(1) .. Size /\ Start(1) = Hdr
    BY <1>0 DEF Sound, Start
  <2>2. p.blocks[1].last <= Size
    BY <2>1, PoolNumbers
  <2> QED BY <1>0, <2>2 DEF Placed, Start
<1>2. ASSUME NEW q \in p.held, q # r, q.blk = 1 PROVE q.hi <= r.lo
  <2>1. Placed(p, h, q) /\ Apart(q, r) /\ q \in Region /\ r \in Region
    BY <1>0, <1>2 DEF Sound
  <2>2. q.hi <= r.hi /\ q.lo < q.hi
    BY <1>2, <2>1 DEF Placed
  <2> QED BY <1>2, <2>1, <2>2 DEF Apart, Region
<1> QED BY <1>0, <1>1, <1>2

\* What ends the first block is given back.
LEMMA BackSound ==
  ASSUME NEW p, NEW h, Sound(p, h), NEW r, r.blk = 1 => r \in p.held
  PROVE  /\ Sound(Back(p, r), h)
         /\ p.held \ {r} \subseteq Back(p, r).held
<1>1. CASE ~(r.blk = 1 /\ r.hi = p.blocks[1].last)
  BY <1>1 DEF Back
<1>2. CASE r.blk = 1 /\ r.hi = p.blocks[1].last
  <2> DEFINE K == p.held \ {r}
  <2>1. p \in PoolT /\ K \in SUBSET Region
    BY DEF Sound, PoolT
  <2>2. /\ r \in Region /\ Hdr <= r.lo /\ r.lo < r.hi /\ r.hi <= Size
        /\ \A q \in p.held : q = r \/ q.blk # 1 \/ q.hi <= r.lo
    BY <1>2, EndOfFirst
  <2>3. r.lo \in Nat /\ r.lo <= Size
    BY <2>2, PoolNumbers DEF Region
  <2>4. Fits(p, r.lo, K)
    BY <2>2 DEF Sound, Fits
  <2>5. Back(p, r) = Ends(p, r.lo, K)
    BY <1>2, <2>1 DEF Back, Ends, PoolT
  <2> HIDE DEF K
  <2>6. Sound(Back(p, r), h) /\ Back(p, r).held = K
    BY <2>1, <2>2, <2>3, <2>4, <2>5, FirstEnds
  <2> QED BY <2>6 DEF K
<1> QED BY <1>1, <1>2

\* The array grows in place.
Longer(r, d)       == [r EXCEPT !.hi = @ + d]
Stretched(p, r, d) == [p EXCEPT !.blocks[1].last = @ + d, !.held = (@ \ {r}) \cup {Longer(r, d)}]

LEMMA ExtendSound ==
  ASSUME NEW p, NEW h, Sound(p, h), NEW r \in p.held, r.blk = 1, r.hi = p.blocks[1].last,
         NEW d \in Nat, r.hi + d <= Size
  PROVE  LET g  == Longer(r, d)
             p2 == Stretched(p, r, d)
         IN  /\ g \in Region /\ g.lo = r.lo /\ g.hi = r.hi + d /\ g.blk = 1
             /\ Sound(p2, h) /\ p2.held = (p.held \ {r}) \cup {g} /\ g \notin p.held \ {r}
<1> DEFINE g == Longer(r, d)
           K == (p.held \ {r}) \cup {g}
           z == r.hi + d
<1>1. p \in PoolT /\ p.held \subseteq Region /\ 1 \in 1 .. Len(p.blocks)
  BY DEF Sound, PoolT
<1>2. /\ r \in Region /\ Hdr <= r.lo /\ r.lo < r.hi /\ r.hi <= Size
      /\ \A q \in p.held : q = r \/ q.blk # 1 \/ q.hi <= r.lo
  BY EndOfFirst
<1>3. g \in Region /\ g.lo = r.lo /\ g.hi = z /\ g.blk = 1 /\ z \in Nat
  BY <1>2 DEF Region, Longer
<1>4. Stretched(p, r, d) = Ends(p, z, K)
  BY <1>1 DEF PoolT, Ends, Stretched
<1> HIDE DEF g
<1>5. Hdr <= z /\ g.lo < z /\ z <= Size /\ r.hi <= z
  BY <1>2, <1>3, PoolNumbers DEF Region
<1> HIDE DEF z
<1>6. ASSUME NEW q \in p.held \ {r}
      PROVE  q \in Region /\ (q.blk # 1 \/ (q.hi <= z /\ q.hi <= g.lo)) /\ q # g
  <2>1. q \in Region /\ (q.blk # 1 \/ q.hi <= r.lo)
    BY <1>1, <1>2
  <2>2. r.lo \in Nat /\ r.hi \in Nat /\ q.hi \in Nat /\ z \in Nat
    BY <1>2, <1>3, <2>1 DEF Region
  <2>3. q.blk # 1 \/ (q.hi <= z /\ q.hi <= g.lo)
    <3>1. CASE q.hi <= r.lo
      <4>1. q.hi <= z
        BY <1>2, <1>5, <2>2, <3>1
      <4> QED BY <1>3, <3>1, <4>1
    <3> QED BY <2>1, <3>1
  <2>4. q # g
    BY <1>2, <1>3, <1>5, <2>2, <2>3
  <2> QED BY <2>1, <2>3, <2>4
<1>7. \A q, w \in K : q = w \/ Apart(q, w)
  <2>1. \A q, w \in p.held : q = w \/ Apart(q, w)
    BY DEF Sound
  <2>2. \A q \in p.held \ {r} : Apart(q, g) /\ Apart(g, q)
    BY <1>3, <1>6 DEF Apart
  <2> QED BY <2>1, <2>2
<1>8. K \in SUBSET Region
  BY <1>1, <1>3
<1>9. \A q \in K : \/ q \in p.held /\ (q.blk # 1 \/ q.hi <= z)
                   \/ q.blk = 1 /\ Hdr <= q.lo /\ q.lo < q.hi /\ q.hi <= z
  <2>1. g.blk = 1 /\ Hdr <= g.lo /\ g.lo < g.hi /\ g.hi <= z
    BY <1>2, <1>3, <1>5
  <2> QED BY <1>6, <2>1
<1> HIDE DEF K
<1>10. Sound(Ends(p, z, K), h) /\ Ends(p, z, K).held = K
  <2>1. Fits(p, z, K)
    BY <1>7, <1>9 DEF Fits
  <2> QED BY <1>3, <1>5, <1>8, <2>1, FirstEnds
<1> QED BY <1>3, <1>4, <1>6, <1>10 DEF g, K, z

\* A large allocation is freed, with the entry that names it.
Without(p, id) == [p EXCEPT !.large = Freed(@, id), !.held = {r \in @ : r.blk # -id}]

LEMMA FreedSound ==
  ASSUME NEW p, NEW h, Sound(p, h), NEW id \in h
  PROVE  /\ Sound(Without(p, id), h \ {id})
         /\ Without(p, id).held = {r \in p.held : r.blk # -id}
<1> DEFINE K == {r \in p.held : r.blk # -id}
           l == Freed(p.large, id)
           p2 == [p EXCEPT !.large = l, !.held = K]
<1>1. /\ p \in PoolT /\ p.held \subseteq Region /\ p.large \in Seq(0 .. MaxLarge)
      /\ h \subseteq 1 .. MaxLarge /\ id \in Nat \ {0} /\ 0 \notin h /\ 0 \in 0 .. MaxLarge
      /\ Named(p.large, h)
  BY PoolNumbers DEF Sound, PoolT
<1>2. Named(l, h \ {id}) /\ l \in Seq(0 .. MaxLarge)
  BY <1>1, NamedDrop DEF Freed
<1>3. Without(p, id) = p2
  BY <1>1 DEF PoolT, Without
<1> HIDE DEF l
<1>4. /\ p2 \in PoolT /\ p2.blocks = p.blocks /\ p2.current = p.current
      /\ p2.held = K /\ p2.large = l
  BY <1>1, <1>2 DEF PoolT
<1> HIDE DEF p2
<1>5. ASSUME NEW q \in K PROVE Placed(p2, h \ {id}, q)
  <2>1. q \in Region /\ Placed(p, h, q) /\ q.blk # -id
    BY <1>1 DEF Sound
  <2>2. CASE q.blk > 0
    BY <1>4, <2>1, <2>2 DEF Placed
  <2>3. CASE ~(q.blk > 0)
    <3>1. q.blk \in Int /\ -q.blk # id
      BY <1>1, <2>1 DEF Region
    <3> QED BY <2>1, <2>3, <3>1 DEF Placed
  <2> QED BY <2>2, <2>3
<1>6. Sound(p2, h \ {id})
  BY <1>1, <1>2, <1>4, <1>5 DEF Sound
<1> QED BY <1>3, <1>4, <1>6
-----------------------------------------------------------------------------
(***************************************************************************)
(* The inductive invariant.  A pool that is not destroyed is sound, which  *)
(* holds Disjoint and LargeOwned; what the containers own of it is needed  *)
(* where they give memory back or let it grow.                             *)
(***************************************************************************)
Gone ==
  pool = Dead /\ heap = {} /\ open = {} /\ deleted = {} /\ cleanup = <<>> /\ arr = NoArray /\ list = <<>>

Files ==
  open \subseteq 1 .. MaxFd /\ deleted \subseteq open /\ cleanup \in Seq(0 .. MaxFd) /\ Named(cleanup, open)

IndInv ==
  /\ Sound(pool, heap) \/ Gone
  /\ Files
  /\ Containers(arr, list, pool.held)

\* A new pool.
LEMMA CreatedSound == Sound(Created, {}) /\ Created.held = {}
<1> DEFINE b == [last |-> Hdr, failed |-> 0]
           p == [blocks |-> <<b>>, current |-> 1, large |-> <<>>, held |-> {}]
<1>1. /\ b \in Block /\ b.last = Hdr /\ <<b>> \in Seq(Block) /\ Len(<<b>>) = 1 /\ <<b>>[1] = b
      /\ Hdr \in Nat /\ Hdr <= Size /\ Size \in Nat /\ MaxLarge \in Nat
  BY PoolNumbers DEF Block
<1> HIDE DEF b
<1>2. ASSUME NEW q, q = Created PROVE q = p
  BY <1>2 DEF Created, Dead, b
<1>3. p \in PoolT
  BY <1>1 DEF PoolT
<1>4. \A i \in 1 .. Len(p.blocks) : p.blocks[i].last \in Start(i) .. Size
  BY <1>1 DEF Start
<1>5. Sound(p, {})
  BY <1>1, <1>3, <1>4 DEF Sound, Named
<1>6. p.held = {}
  OBVIOUS
<1> HIDE DEF p
<1>7. Created = p
  BY <1>2
<1> QED BY <1>5, <1>6, <1>7

LEMMA InitInv == Init => IndInv
<1> SUFFICES ASSUME Init PROVE IndInv
  OBVIOUS
<1>1. Sound(pool, heap) /\ pool.held = {}
  BY CreatedSound DEF Init
<1>2. Files
  BY DEF Init, Files, Named
<1>3. Containers(arr, list, pool.held)
  BY DEF Init, Containers, ArrT, NoArray, Null, Region
<1> QED BY <1>1, <1>2, <1>3 DEF IndInv

\* A pool with a block is sound, one without has been destroyed with all it had.
LEMMA LiveSound ==
  ASSUME IndInv PROVE (Live => Sound(pool, heap)) /\ (~Live => Gone)
<1>1. Gone => ~Live
  BY DEF Gone, Live, Dead
<1>2. Sound(pool, heap) => Live
  <2> SUFFICES ASSUME Sound(pool, heap), pool.blocks = <<>> PROVE FALSE
    BY DEF Live
  <2>1. pool.current \in 1 .. 0
    BY DEF Sound
  <2> QED BY <2>1
<1> QED BY <1>1, <1>2 DEF IndInv

LEMMA BeginIs ==
  ASSUME IndInv, Live, NEW left \in Lefts
  PROVE  /\ Begin(left) \in Alloc1 /\ Begin(left).p = pool /\ Begin(left).h = heap
         /\ Begin(left).left = left /\ Sound(pool, heap)
<1>1. Sound(pool, heap) /\ left \in Nat
  BY LiveSound DEF Lefts
<1>2. Null \in Region
  BY DEF Null, Region
<1> QED BY <1>1, <1>2 DEF Begin, Alloc1, Sound

\* What an allocation changes of the invariant.
LEMMA AllocKeeps ==
  ASSUME IndInv, Live, NEW left \in Lefts, NEW t, NEW size, Answer(Begin(left), t, size), Commit(t)
  PROVE  Sound(pool, heap)' /\ pool.held \subseteq pool'.held /\ pool'.held = t.p.held
<1>1. Sound(t.p, t.h) /\ pool.held \subseteq t.p.held
  BY BeginIs DEF Answer
<1> QED BY <1>1 DEF Commit

LEMMA FilesStay == ASSUME Files, UNCHANGED <<cleanup, open, deleted>> PROVE Files'
  BY DEF Files, Named

LEMMA AllocInv ==
  ASSUME IndInv, NEW size \in Sizes, NEW left \in Lefts, Alloc(size, left) PROVE IndInv'
<1>1. Live /\ UNCHANGED <<cleanup, open, deleted, arr, list>> /\ size \in Nat
  BY PoolNumbers DEF Alloc
<1>2. PICK t : t \in {Palloc(Begin(left), size), Pnalloc(Begin(left), size)} /\ Commit(t)
  BY DEF Alloc
<1>3. Answer(Begin(left), t, size)
  <2>1. Begin(left) \in Alloc1 /\ Sound(Begin(left).p, Begin(left).h)
    BY <1>1, BeginIs
  <2> QED BY <1>1, <1>2, <2>1, PallocAnswer
<1>4. Sound(pool, heap)' /\ pool.held \subseteq pool'.held
  BY <1>1, <1>2, <1>3, AllocKeeps
<1>5. Containers(arr, list, pool.held)'
  BY <1>1, <1>4, ContainersGrow DEF IndInv
<1> QED BY <1>1, <1>4, <1>5, FilesStay DEF IndInv

LEMMA PmemalignInv ==
  ASSUME IndInv, NEW size \in Sizes, NEW left \in Lefts, Pmemalign(size, left) PROVE IndInv'
<1> DEFINE s == Begin(left)
           id == Min(Free(s))
           t == ListLarge(s, id, size)
<1>1. /\ Live /\ UNCHANGED <<cleanup, open, deleted, arr, list>> /\ size \in Nat
      /\ left > 0 /\ Free(s) # {} /\ Commit(t)
  BY PoolNumbers DEF Pmemalign
<1>2. s \in Alloc1 /\ Sound(s.p, s.h) /\ s.left # 0
  BY <1>1, BeginIs DEF Lefts
<1>3. Answer(s, t, size)
  <2>1. id \in 1 .. MaxLarge /\ id \notin s.h
    <3> HIDE DEF s
    <3> QED BY <1>1, <1>2, FreeIsFree
  <2> HIDE DEF s, id
  <2> QED BY <1>1, <1>2, <2>1, ListLargeAnswer
<1> HIDE DEF t
<1>4. Sound(pool, heap)' /\ pool.held \subseteq pool'.held
  BY <1>1, <1>3, AllocKeeps
<1>5. Containers(arr, list, pool.held)'
  BY <1>1, <1>4, ContainersGrow DEF IndInv
<1> QED BY <1>1, <1>4, <1>5, FilesStay DEF IndInv

LEMMA PfreeInv ==
  ASSUME IndInv, NEW id \in heap, Pfree(id) PROVE IndInv'
<1>1. Live /\ ~InUse(id) /\ UNCHANGED <<cleanup, open, deleted, arr, list>> /\ heap' = heap \ {id}
  BY DEF Pfree
<1>2. Sound(pool, heap) /\ id \in Nat \ {0}
  <2>1. Sound(pool, heap)
    BY <1>1, LiveSound
  <2> QED BY <2>1, PoolNumbers DEF Sound
<1>3. Sound(pool, heap)' /\ pool'.held = {r \in pool.held : r.blk # -id}
  <2>1. pool' = Without(pool, id)
    BY DEF Pfree, Without
  <2> QED BY <1>1, <1>2, <2>1, FreedSound
<1>4. Containers(arr, list, pool'.held)
  <2>0. Containers(arr, list, pool.held)
    BY DEF IndInv
  <2>1. arr # NoArray => ArrayIn(arr, pool'.held)
    <3> SUFFICES ASSUME arr # NoArray PROVE ArrayIn(arr, pool'.held)
      OBVIOUS
    <3>1. ArrayIn(arr, pool.held)
      BY <2>0 DEF Containers
    <3>2. arr.elts.blk # -id /\ (arr.hdr.blk = 1 => arr.hdr.blk # -id)
      BY <1>1, <1>2 DEF InUse
    <3> QED BY <1>3, <3>1, <3>2 DEF ArrayIn
  <2>2. ASSUME NEW i \in 1 .. Len(list) PROVE PartIn(list[i], arr, pool'.held)
    <3>1. PartIn(list[i], arr, pool.held)
      BY <2>0 DEF Containers
    <3>2. list[i].elts.blk # -id
      <4>1. list \in Seq(PartT) /\ i \in DOMAIN list
        BY <2>0 DEF Containers
      <4> QED BY <1>1, <4>1 DEF InUse
    <3> QED BY <1>3, <3>1, <3>2 DEF PartIn
  <2> QED BY <2>0, <2>1, <2>2 DEF Containers
<1> QED BY <1>1, <1>3, <1>4, FilesStay DEF IndInv

LEMMA CleanupAddInv ==
  ASSUME IndInv, NEW opened \in BOOLEAN, NEW clean \in BOOLEAN, NEW left \in Lefts,
         CleanupAdd(opened, clean, left)
  PROVE  IndInv'
<1> DEFINE t == Then(Palloc(Begin(left), CleanHdr), FileHdr)
           fd == Min((1 .. MaxFd) \ open)
           x == IF opened THEN fd ELSE 0
<1>1. /\ Live /\ UNCHANGED <<arr, list>> /\ open # 1 .. MaxFd /\ Commit(t)
      /\ cleanup' = IF t.at = Null THEN cleanup ELSE <<x>> \o cleanup
      /\ open' = IF t.at # Null /\ opened THEN open \cup {fd} ELSE open
      /\ deleted' = IF t.at # Null /\ opened /\ clean THEN deleted \cup {fd} ELSE deleted
  BY DEF CleanupAdd
<1>2. Answer(Begin(left), t, FileHdr)
  <2>1. Begin(left) \in Alloc1 /\ Sound(Begin(left).p, Begin(left).h)
    BY <1>1, BeginIs
  <2>2. CleanHdr \in Nat \ {0} /\ FileHdr \in Nat \ {0}
    BY PoolAssumption DEF PoolAssumption
  <2> QED BY <2>1, <2>2, ThenAnswer
<1>3. open \subseteq 1 .. MaxFd /\ cleanup \in Seq(0 .. MaxFd) /\ Named(cleanup, open) /\ MaxFd \in Nat
  BY PoolNumbers DEF IndInv, Files
<1>4. fd \in 1 .. MaxFd /\ fd \notin open
  <2> DEFINE S == (1 .. MaxFd) \ open
  <2>1. S \subseteq Nat /\ S # {}
    <3>1. S # {}
      BY <1>1, <1>3, Zenon
    <3> QED BY <1>3, <3>1
  <2>2. Min(S) \in S
    <3> HIDE DEF S
    <3> QED BY <2>1, MinNat
  <2> QED BY <2>2
<1> HIDE DEF t, fd
<1>5. Sound(pool, heap)' /\ pool.held \subseteq pool'.held
  BY <1>1, <1>2, AllocKeeps
<1>6. Containers(arr, list, pool.held)'
  BY <1>1, <1>5, ContainersGrow DEF IndInv
<1>7. Files'
  <2>0. deleted' \subseteq open'
    BY <1>1 DEF IndInv, Files
  <2>1. CASE t.at = Null
    BY <1>1, <2>1, FilesStay DEF IndInv
  <2>2. CASE t.at # Null
    <3>1. x \in 0 .. MaxFd /\ x \notin open /\ 0 \notin open
      BY <1>3, <1>4
    <3>2. cleanup' = <<x>> \o cleanup /\ open' = IF x = 0 THEN open ELSE open \cup {x}
      <4>1. CASE opened
        <5>1. x = fd /\ x # 0
          BY <1>3, <1>4, <4>1
        <5> QED BY <1>1, <2>2, <4>1, <5>1
      <4>2. CASE ~opened
        BY <1>1, <2>2, <4>2
      <4> QED BY <4>1, <4>2
    <3> HIDE DEF x
    <3>3. Named(cleanup', open')
      BY <1>3, <3>1, <3>2, NamedAdd
    <3>4. cleanup' \in Seq(0 .. MaxFd)
      <4>1. <<x>> \in Seq(0 .. MaxFd)
        BY <3>1
      <4> QED BY <1>3, <3>2, <4>1, ConcatProperties
    <3>5. open' \subseteq 1 .. MaxFd
      BY <1>3, <3>1, <3>2
    <3> QED BY <2>0, <3>3, <3>4, <3>5 DEF Files, Named
  <2> QED BY <2>1, <2>2
<1> QED BY <1>5, <1>6, <1>7 DEF IndInv

LEMMA RunCleanupFileInv ==
  ASSUME IndInv, NEW fd \in open, RunCleanupFile(fd) PROVE IndInv'
<1>1. /\ Live /\ UNCHANGED <<pool, heap, deleted, arr, list>> /\ fd \notin deleted
      /\ cleanup' = Ran(cleanup, fd) /\ open' = open \ {fd}
  BY DEF RunCleanupFile
<1>2. /\ open \subseteq 1 .. MaxFd /\ deleted \subseteq open /\ cleanup \in Seq(0 .. MaxFd) /\ Named(cleanup, open)
      /\ 0 \in 0 .. MaxFd /\ 0 \notin open
  BY PoolNumbers DEF IndInv, Files
<1>3. Named(cleanup', open') /\ cleanup' \in Seq(0 .. MaxFd)
  BY <1>1, <1>2, NamedDrop DEF Ran
<1>4. Files'
  BY <1>1, <1>2, <1>3 DEF Files, Named
<1>5. Sound(pool, heap)'
  BY <1>1, LiveSound
<1> QED BY <1>1, <1>4, <1>5 DEF IndInv

\* Nothing is left when all that is named is gone.
LEMMA AllNamed ==
  ASSUME NEW T, NEW l \in Seq(T), NEW h, Named(l, h) PROVE h \ {l[i] : i \in DOMAIN l} = {}
<1>1. DOMAIN l = 1 .. Len(l)
  OBVIOUS
<1> QED BY <1>1 DEF Named

LEMMA DestroyInv == ASSUME IndInv, Destroy PROVE IndInv'
<1>1. Live /\ pool' = Dead /\ cleanup' = <<>> /\ deleted' = {} /\ arr' = NoArray /\ list' = <<>>
  BY DEF Destroy
<1>2. heap' = {}
  <2>1. pool.large \in Seq(0 .. MaxLarge) /\ Named(pool.large, heap)
    BY <1>1, LiveSound DEF Sound, PoolT
  <2> QED BY <2>1, AllNamed DEF Destroy
<1>3. open' = {}
  BY AllNamed DEF Destroy, IndInv, Files
<1>4. Gone'
  BY <1>1, <1>2, <1>3 DEF Gone
<1>5. Files'
  BY <1>1, <1>3 DEF Files, Named
<1>6. Containers(arr, list, pool.held)'
  BY <1>1 DEF Containers, ArrT, NoArray, Null, Region
<1> QED BY <1>4, <1>5, <1>6 DEF IndInv

LEMMA CreateInv == ASSUME IndInv, Create PROVE IndInv'
<1>1. Gone
  BY LiveSound DEF Create
<1>2. Sound(pool, heap)' /\ pool'.held = {} /\ pool.held = {}
  BY <1>1, CreatedSound DEF Gone, Create, Dead
<1>3. Files'
  BY FilesStay DEF Create, IndInv
<1> QED BY <1>2, <1>3 DEF IndInv, Create

\* A new array, whose header is somewhere in the pool or with the caller.
LEMMA NewArrayInv ==
  ASSUME IndInv, Live, arr = NoArray, NEW left \in Lefts, NEW t, Answer(Begin(left), t, FirstN * EltSize),
         NEW hdr \in Region, Commit(t), NewArray(t, hdr), UNCHANGED <<cleanup, open, deleted, list>>,
         t.at # Null => hdr = Null \/ (hdr \in t.p.held /\ hdr \notin pool.held /\ hdr # t.at)
  PROVE  IndInv'
<1>1. Sound(pool, heap)' /\ pool.held \subseteq pool'.held /\ pool'.held = t.p.held
  BY AllocKeeps
<1>2. Containers(arr, list, pool.held) /\ Files
  BY DEF IndInv
<1>3. Containers(arr, list, pool.held)'
  <2>1. CASE t.at = Null
    <3>1. arr' = arr
      BY <2>1 DEF NewArray
    <3> QED BY <1>1, <1>2, <3>1, ContainersGrow
  <2>2. CASE t.at # Null
    <3> DEFINE b == [hdr |-> hdr, elts |-> t.at, n |-> 0, nalloc |-> FirstN]
    <3>1. arr' = b
      BY <2>2 DEF NewArray
    <3>2. FirstN \in Nat /\ FirstN # 0 /\ 0 <= FirstN /\ FirstN * EltSize \in Nat /\ FirstN * EltSize > 0
      BY PoolNumbers, Times
    <3>3. /\ t.at \in t.p.held /\ t.at \notin pool.held /\ t.at.hi = t.at.lo + FirstN * EltSize
          /\ t.at \in Region
      BY <2>2, <3>2, BeginIs DEF Answer, Alloc1
    <3>4. /\ b \in ArrT /\ b.elts = t.at /\ b.hdr = hdr /\ b.n = 0 /\ b.nalloc = FirstN
      BY <3>2, <3>3 DEF ArrT
    <3> HIDE DEF b
    <3>5. b.hdr.blk = 1 => b.hdr \in pool'.held /\ b.hdr # b.elts
      BY <1>1, <2>2, <3>4 DEF Null
    <3>6. b.hdr = arr.hdr \/ b.hdr \notin pool.held
      BY <2>2, <3>4 DEF NoArray
    <3>7. Containers(b, list, pool'.held)
      BY <1>1, <1>2, <3>2, <3>3, <3>4, <3>5, <3>6, ArrayMoves
    <3> QED BY <3>1, <3>7
  <2> QED BY <2>1, <2>2
<1> QED BY <1>1, <1>2, <1>3, FilesStay DEF IndInv

LEMMA ArrayCreateInv ==
  ASSUME IndInv, NEW left \in Lefts, ArrayCreate(left) \/ ArrayInit(left) PROVE IndInv'
<1> DEFINE sz == FirstN * EltSize
<1>0. /\ Live /\ arr = NoArray /\ UNCHANGED <<cleanup, open, deleted, list>>
      /\ sz \in Nat \ {0} /\ ArrHdr \in Nat \ {0} /\ Null \in Region
  <2>1. sz \in Nat \ {0} /\ ArrHdr \in Nat \ {0}
    BY PoolNumbers, Times
  <2> QED BY <2>1 DEF ArrayCreate, ArrayInit, Null, Region
<1>1. Begin(left) \in Alloc1 /\ Sound(Begin(left).p, Begin(left).h) /\ Begin(left).p = pool
  BY <1>0, BeginIs
<1>2. CASE ArrayCreate(left)
  <2> DEFINE h == Palloc(Begin(left), ArrHdr)
             t == Then(h, sz)
  <2>1. Commit(t) /\ NewArray(t, h.at)
    BY <1>2 DEF ArrayCreate
  <2>2. /\ Answer(Begin(left), t, sz) /\ h.at \in Region
        /\ t.at # Null => h.at \in t.p.held /\ h.at \notin pool.held /\ h.at # t.at
    <3> HIDE DEF sz
    <3> QED BY <1>0, <1>1, ThenAnswer
  <2> HIDE DEF h, t
  <2> QED BY <1>0, <2>1, <2>2, NewArrayInv
<1>3. CASE ArrayInit(left)
  <2> DEFINE t == Palloc(Begin(left), sz)
  <2>1. Commit(t) /\ NewArray(t, Null)
    BY <1>3 DEF ArrayInit
  <2>2. Answer(Begin(left), t, sz)
    <3> HIDE DEF sz
    <3> QED BY <1>0, <1>1, PallocAnswer
  <2> HIDE DEF t
  <2> QED BY <1>0, <2>1, <2>2, NewArrayInv
<1> QED BY <1>2, <1>3

\* An element is stored where there is room.
LEMMA StoreInv ==
  ASSUME IndInv, arr # NoArray, NEW n \in Nat, ~Full(n), Store(n), UNCHANGED <<cleanup, open, deleted, list>>
  PROVE  IndInv'
<1>1. Containers(arr, list, pool.held) /\ Files /\ arr \in ArrT
  BY DEF IndInv, Containers
<1>2. UNCHANGED <<pool, heap>> /\ arr' = [arr EXCEPT !.n = @ + n]
  BY DEF Store
<1>3. /\ arr' \in ArrT /\ arr'.elts = arr.elts /\ arr'.hdr = arr.hdr /\ arr'.nalloc = arr.nalloc
      /\ arr'.n = arr.n + n /\ arr'.n <= arr'.nalloc
  BY <1>1, <1>2 DEF ArrT, Full
<1>4. Containers(arr', list, pool.held)
  <2>1. ArrayIn(arr', pool.held)
    BY <1>1, <1>3 DEF Containers, ArrayIn
  <2>2. \A i \in 1 .. Len(list) : PartIn(list[i], arr', pool.held)
    BY <1>1, <1>3 DEF Containers, PartIn
  <2> QED BY <1>1, <1>3, <2>1, <2>2 DEF Containers
<1>5. Sound(pool, heap)'
  <2>1. Sound(pool, heap)
    BY DEF IndInv, Gone
  <2> QED BY <1>2, <2>1
<1> QED BY <1>1, <1>2, <1>4, <1>5, FilesStay DEF IndInv

\* The array has moved, or stayed because there was no memory.
LEMMA MoveInv ==
  ASSUME IndInv, Live, arr # NoArray, NEW left \in Lefts, NEW nalloc \in Nat \ {0}, NEW n \in Nat,
         arr.n + n <= nalloc, Move(nalloc, n, left), UNCHANGED <<cleanup, open, deleted, list>>
  PROVE  IndInv'
<1> DEFINE sz == nalloc * EltSize
           t == Palloc(Begin(left), sz)
<1>0. sz \in Nat /\ sz # 0
  BY PoolNumbers, Times
<1>1. Begin(left) \in Alloc1 /\ Sound(Begin(left).p, Begin(left).h) /\ Begin(left).p = pool
  BY BeginIs
<1>2. /\ Commit(t)
      /\ arr' = IF t.at = Null THEN arr ELSE [arr EXCEPT !.elts = t.at, !.nalloc = nalloc, !.n = @ + n]
  BY DEF Move
<1>3. Answer(Begin(left), t, sz)
  <2> HIDE DEF sz
  <2> QED BY <1>0, <1>1, PallocAnswer
<1> HIDE DEF t
<1>4. Sound(pool, heap)' /\ pool.held \subseteq pool'.held /\ pool'.held = t.p.held
  BY <1>2, <1>3, AllocKeeps
<1>5. Containers(arr, list, pool.held) /\ Files /\ arr \in ArrT
  BY DEF IndInv, Containers
<1>6. Containers(arr, list, pool.held)'
  <2>1. CASE t.at = Null
    BY <1>2, <1>4, <1>5, <2>1, ContainersGrow
  <2>2. CASE t.at # Null
    <3>1. /\ t.at \in t.p.held /\ t.at \notin pool.held /\ t.at.hi = t.at.lo + sz
          /\ t.at \in Region
      <4>1. sz > 0
        <5> HIDE DEF sz
        <5> QED BY <1>0
      <4> HIDE DEF sz
      <4> QED BY <1>1, <1>3, <2>2, <4>1 DEF Answer, Alloc1
    <3>2. /\ arr' \in ArrT /\ arr'.elts = t.at /\ arr'.hdr = arr.hdr /\ arr'.nalloc = nalloc
          /\ arr'.n = arr.n + n
      <4>1. arr' = [arr EXCEPT !.elts = t.at, !.nalloc = nalloc, !.n = @ + n]
        BY <1>2, <2>2
      <4>2. arr.n \in Nat /\ arr.n + n \in Nat
        BY <1>5 DEF ArrT
      <4> DEFINE k == arr.n + n
      <4>3. arr' = [arr EXCEPT !.elts = t.at, !.nalloc = nalloc, !.n = k] /\ k \in Nat
        BY <1>5, <4>1, <4>2 DEF ArrT
      <4> HIDE DEF k, sz
      <4>4. /\ arr' \in ArrT /\ arr'.elts = t.at /\ arr'.hdr = arr.hdr /\ arr'.nalloc = nalloc
            /\ arr'.n = k
        BY <1>5, <3>1, <4>3 DEF ArrT
      <4> QED BY <4>4 DEF k
    <3>3. arr'.hdr.blk = 1 => arr'.hdr \in pool'.held /\ arr'.hdr # arr'.elts
      <4>1. ArrayIn(arr, pool.held)
        BY <1>5 DEF Containers
      <4> QED BY <1>4, <3>1, <3>2, <4>1 DEF ArrayIn
    <3>4. arr'.elts.hi = arr'.elts.lo + arr'.nalloc * EltSize
      BY <3>1, <3>2
    <3>5. Containers(arr', list, pool'.held)
      BY <1>4, <1>5, <3>1, <3>2, <3>3, <3>4, ArrayMoves
    <3> QED BY <3>5
  <2> QED BY <2>1, <2>2
<1> QED BY <1>4, <1>5, <1>6, FilesStay DEF IndInv

\* The array has grown where it is.
LEMMA ExtendInv ==
  ASSUME IndInv, Live, arr # NoArray, NEW k \in Nat, Extends(k), Extend(k, k),
         UNCHANGED <<cleanup, open, deleted, list>>
  PROVE  IndInv'
<1> DEFINE r == arr.elts
           d == k * EltSize
           g == Longer(r, d)
<1>0. d \in Nat /\ EltSize \in Nat
  BY PoolNumbers, Times
<1>1. Sound(pool, heap) /\ Containers(arr, list, pool.held) /\ Files /\ arr \in ArrT
  BY LiveSound DEF IndInv, Containers
<1>2. ArrayIn(arr, pool.held)
  BY <1>1 DEF Containers
<1>3. /\ r \in pool.held /\ r.blk = 1 /\ r.hi = pool.blocks[1].last /\ r.hi + d <= Size
  BY <1>2 DEF ArrayIn, Extends, Last
<1>4. /\ pool' = Stretched(pool, r, d) /\ UNCHANGED heap
      /\ arr' = [arr EXCEPT !.elts = g, !.nalloc = @ + k, !.n = @ + k]
  BY DEF Extend, Stretched, Grown, Longer
<1> HIDE DEF d
<1>5. /\ g \in Region /\ g.lo = r.lo /\ g.hi = r.hi + d /\ g.blk = 1
      /\ Sound(pool', heap) /\ pool'.held = (pool.held \ {r}) \cup {g} /\ g \notin pool.held \ {r}
  BY <1>0, <1>1, <1>3, <1>4, ExtendSound
<1> HIDE DEF g
<1>6. /\ arr' \in ArrT /\ arr'.elts = g /\ arr'.hdr = arr.hdr /\ arr'.nalloc = arr.nalloc + k
      /\ arr'.n = arr.n + k /\ arr.n \in Nat /\ arr.nalloc \in Nat /\ arr.elts.lo \in Nat
  <2>1. arr.n \in Nat /\ arr.nalloc \in Nat /\ arr.elts.lo \in Nat
    BY <1>1 DEF ArrT, Region
  <2> DEFINE x == arr.n + k
             y == arr.nalloc + k
  <2>2. x \in Nat /\ y \in Nat /\ arr' = [arr EXCEPT !.elts = g, !.nalloc = y, !.n = x]
    BY <1>1, <1>4, <2>1 DEF ArrT
  <2> HIDE DEF x, y
  <2>3. arr' \in ArrT /\ arr'.elts = g /\ arr'.hdr = arr.hdr /\ arr'.nalloc = y /\ arr'.n = x
    BY <1>1, <1>5, <2>2 DEF ArrT
  <2> QED BY <2>1, <2>3 DEF x, y
<1>7. ArrayIn(arr', pool'.held)
  <2>1. g.hi = g.lo + (arr.nalloc + k) * EltSize
    <3>1. (arr.nalloc + k) * EltSize = arr.nalloc * EltSize + d /\ arr.nalloc * EltSize \in Nat
      BY <1>0, <1>6, Times DEF d
    <3>2. r.hi = r.lo + arr.nalloc * EltSize
      BY <1>2 DEF ArrayIn
    <3> DEFINE m == arr.nalloc * EltSize
    <3>3. r.hi = r.lo + m /\ m \in Nat /\ (arr.nalloc + k) * EltSize = m + d
      BY <3>1, <3>2
    <3> DEFINE w == (arr.nalloc + k) * EltSize
    <3>4. w = m + d
      BY <3>3
    <3> HIDE DEF m, w
    <3>5. g.hi = g.lo + w
      BY <1>0, <1>5, <1>6, <3>3, <3>4
    <3> QED BY <3>5 DEF w
  <2>2. arr'.nalloc # 0 /\ arr'.n <= arr'.nalloc
    BY <1>2, <1>6 DEF ArrayIn
  <2>3. arr.hdr.blk = 1 => arr.hdr \in pool.held \ {r}
    BY <1>2 DEF ArrayIn
  <2> QED BY <1>5, <1>6, <2>1, <2>2, <2>3 DEF ArrayIn
<1>8. \A i \in 1 .. Len(list) : PartIn(list[i], arr', pool'.held)
  <2> SUFFICES ASSUME NEW i \in 1 .. Len(list) PROVE PartIn(list[i], arr', pool'.held)
    OBVIOUS
  <2>1. PartIn(list[i], arr, pool.held)
    BY <1>1 DEF Containers
  <2>2. list[i].elts \in pool.held \ {r}
    BY <2>1 DEF PartIn
  <2> QED BY <1>5, <1>6, <2>1, <2>2 DEF PartIn
<1>9. Containers(arr', list, pool'.held)
  BY <1>1, <1>6, <1>7, <1>8 DEF Containers
<1> QED BY <1>1, <1>4, <1>5, <1>9, FilesStay DEF IndInv

LEMMA ArrayPushInv ==
  ASSUME IndInv, NEW left \in Lefts, ArrayPush(left) PROVE IndInv'
<1>1. Live /\ arr # NoArray /\ UNCHANGED <<cleanup, open, deleted, list>>
  BY DEF ArrayPush
<1>2. arr.n \in Nat /\ arr.nalloc \in Nat \ {0} /\ arr.n <= arr.nalloc
  BY <1>1 DEF IndInv, Containers, ArrayIn, ArrT
<1>3. \/ ~Full(1) /\ Store(1)
      \/ Extends(1) /\ Extend(1, 1)
      \/ Full(1) /\ Move(2 * arr.nalloc, 1, left)
  BY DEF ArrayPush
<1>4. CASE ~Full(1) /\ Store(1)
  BY <1>1, <1>4, StoreInv
<1>5. CASE Extends(1) /\ Extend(1, 1)
  BY <1>1, <1>5, ExtendInv
<1>6. CASE Full(1) /\ Move(2 * arr.nalloc, 1, left)
  <2>1. 2 * arr.nalloc \in Nat \ {0} /\ arr.n + 1 <= 2 * arr.nalloc
    BY <1>2
  <2> QED BY <1>1, <1>6, <2>1, MoveInv
<1> QED BY <1>3, <1>4, <1>5, <1>6

LEMMA ArrayPushNInv ==
  ASSUME IndInv, NEW left \in Lefts, NEW n \in 1 .. 2, ArrayPushN(n, left) PROVE IndInv'
<1> DEFINE m == Max({n, arr.nalloc})
<1>1. Live /\ arr # NoArray /\ UNCHANGED <<cleanup, open, deleted, list>> /\ n \in Nat
  BY DEF ArrayPushN
<1>2. arr.n \in Nat /\ arr.nalloc \in Nat \ {0} /\ arr.n <= arr.nalloc
  BY <1>1 DEF IndInv, Containers, ArrayIn, ArrT
<1>3. \/ ~Full(n) /\ Store(n)
      \/ Extends(n) /\ Extend(n, n)
      \/ Full(n) /\ Move(2 * m, n, left)
  BY DEF ArrayPushN
<1>4. CASE ~Full(n) /\ Store(n)
  BY <1>1, <1>4, StoreInv
<1>5. CASE Extends(n) /\ Extend(n, n)
  BY <1>1, <1>5, ExtendInv
<1>6. CASE Full(n) /\ Move(2 * m, n, left)
  <2>1. m \in Nat /\ n <= m /\ arr.nalloc <= m
    <3> DEFINE S == {n, arr.nalloc}
    <3>1. S \subseteq Int /\ S # {} /\ (\A x \in S : x <= n + arr.nalloc) /\ n + arr.nalloc \in Int
      BY <1>1, <1>2
    <3>2. Max(S) \in S /\ \A y \in S : y <= Max(S)
      <4> HIDE DEF S
      <4> QED BY <3>1, MaxInt
    <3> QED BY <1>1, <1>2, <3>2
  <2> HIDE DEF m
  <2>2. 2 * m \in Nat \ {0} /\ arr.n + n <= 2 * m
    BY <1>1, <1>2, <2>1
  <2> QED BY <1>1, <1>6, <2>2, MoveInv
<1> QED BY <1>3, <1>4, <1>5, <1>6

LEMMA ArrayDestroyInv == ASSUME IndInv, ArrayDestroy PROVE IndInv'
<1> DEFINE p1 == Back(pool, arr.elts)
<1>1. /\ Live /\ arr # NoArray /\ UNCHANGED <<heap, cleanup, open, deleted, list>>
      /\ pool' = Back(p1, arr.hdr) /\ arr' = NoArray
  BY DEF ArrayDestroy
<1>2. Sound(pool, heap) /\ Containers(arr, list, pool.held) /\ Files /\ ArrayIn(arr, pool.held)
  BY <1>1, LiveSound DEF IndInv, Containers
<1>3. Sound(p1, heap) /\ pool.held \ {arr.elts} \subseteq p1.held
  <2>1. arr.elts \in pool.held
    BY <1>2 DEF ArrayIn
  <2> QED BY <1>2, <2>1, BackSound
<1>4. arr.hdr.blk = 1 => arr.hdr \in p1.held
  BY <1>2, <1>3 DEF ArrayIn
<1>5. Sound(pool', heap) /\ p1.held \ {arr.hdr} \subseteq pool'.held
  <2> HIDE DEF p1
  <2> QED BY <1>1, <1>3, <1>4, BackSound
<1>6. \A i \in 1 .. Len(list) : PartIn(list[i], NoArray, pool'.held)
  <2> SUFFICES ASSUME NEW i \in 1 .. Len(list) PROVE PartIn(list[i], NoArray, pool'.held)
    OBVIOUS
  <2>1. PartIn(list[i], arr, pool.held)
    BY <1>2 DEF Containers
  <2>2. list[i].elts \in p1.held /\ list[i].elts # Null
    <3>1. Placed(pool, heap, list[i].elts)
      BY <1>2, <2>1 DEF PartIn, Sound
    <3>2. list[i].elts # Null
      BY <3>1 DEF Placed, Null
    <3> QED BY <1>3, <2>1, <3>2 DEF PartIn
  <2>3. list[i].elts \in pool'.held
    <3>1. CASE arr.hdr.blk = 1
      BY <1>5, <2>1, <2>2, <3>1 DEF PartIn
    <3>2. CASE arr.hdr.blk # 1
      BY <1>1, <2>2, <3>2 DEF Back
    <3> QED BY <3>1, <3>2
  <2> QED BY <2>1, <2>2, <2>3 DEF PartIn, NoArray, Null
<1>7. Containers(NoArray, list, pool'.held)
  BY <1>2, <1>6 DEF Containers, NoArray, ArrT, Null, Region
<1> QED BY <1>1, <1>2, <1>5, <1>7, FilesStay DEF IndInv

\* What an answer is when it is memory for the elements of a part.
LEMMA PartAnswer ==
  ASSUME IndInv, Live, NEW left \in Lefts, NEW t, Answer(Begin(left), t, FirstN * EltSize),
         Commit(t), t.at # Null
  PROVE  Containers(arr, Append(list, Part(t.at)), pool'.held)
<1>1. pool.held \subseteq pool'.held /\ pool'.held = t.p.held
  BY AllocKeeps
<1>2. FirstN * EltSize \in Nat /\ FirstN * EltSize > 0
  BY PoolNumbers, Times
<1>3. /\ t.at \in t.p.held /\ t.at \notin pool.held /\ t.at.hi = t.at.lo + FirstN * EltSize
      /\ t.at \in Region
  BY <1>2, BeginIs DEF Answer, Alloc1
<1> QED BY <1>1, <1>3, PartAdded DEF IndInv

LEMMA ListInitInv ==
  ASSUME IndInv, NEW created \in BOOLEAN, NEW left \in Lefts, ListInit(created, left) PROVE IndInv'
<1> DEFINE sz == FirstN * EltSize
           t == IF created THEN Then(Palloc(Begin(left), ListHdr), sz) ELSE Palloc(Begin(left), sz)
<1>0. /\ Live /\ list = <<>> /\ UNCHANGED <<cleanup, open, deleted, arr>> /\ Commit(t)
      /\ list' = IF t.at = Null THEN <<>> ELSE <<Part(t.at)>>
  BY DEF ListInit
<1>1. Begin(left) \in Alloc1 /\ Sound(Begin(left).p, Begin(left).h)
  BY <1>0, BeginIs
<1>2. Answer(Begin(left), t, sz)
  <2>1. sz \in Nat \ {0} /\ ListHdr \in Nat \ {0}
    <3>1. ListHdr \in Nat \ {0}
      BY PoolAssumption DEF PoolAssumption
    <3> QED BY <3>1, PoolNumbers, Times
  <2> HIDE DEF sz
  <2>2. CASE created
    <3>1. Answer(Begin(left), Then(Palloc(Begin(left), ListHdr), sz), sz)
      BY <1>1, <2>1, ThenAnswer
    <3> QED BY <2>2, <3>1
  <2>3. CASE ~created
    <3>1. Answer(Begin(left), Palloc(Begin(left), sz), sz)
      BY <1>1, <2>1, PallocAnswer
    <3> QED BY <2>3, <3>1
  <2> QED BY <2>2, <2>3
<1> HIDE DEF t
<1>3. Sound(pool, heap)' /\ pool.held \subseteq pool'.held
  BY <1>0, <1>2, AllocKeeps
<1>4. Containers(arr, list, pool.held)'
  <2>1. CASE t.at = Null
    BY <1>0, <1>3, <2>1, ContainersGrow DEF IndInv
  <2>2. CASE t.at # Null
    <3>1. list' = Append(list, Part(t.at))
      BY <1>0, <2>2
    <3> QED BY <1>0, <1>2, <2>2, <3>1, PartAnswer
  <2> QED BY <2>1, <2>2
<1> QED BY <1>0, <1>3, <1>4, FilesStay DEF IndInv

LEMMA ListPushInv ==
  ASSUME IndInv, NEW left \in Lefts, ListPush(left) PROVE IndInv'
<1> DEFINE sz == FirstN * EltSize
           t == Then(Palloc(Begin(left), PartHdr), sz)
<1>0. Live /\ list # <<>> /\ UNCHANGED <<cleanup, open, deleted, arr>>
  BY DEF ListPush
<1>1. Containers(arr, list, pool.held) /\ list \in Seq(PartT)
  BY DEF IndInv, Containers
<1>2. CASE list[Len(list)].n # FirstN /\ list' = Count(list) /\ UNCHANGED <<pool, heap>>
  <2>1. Containers(arr, list, pool.held)'
    BY <1>0, <1>1, <1>2, Counted
  <2>2. Sound(pool, heap)'
    BY <1>0, <1>2, LiveSound
  <2> QED BY <1>0, <2>1, <2>2, FilesStay DEF IndInv
<1>3. CASE Commit(t) /\ list' = IF t.at = Null THEN list ELSE Count(Append(list, Part(t.at)))
  <2>1. Begin(left) \in Alloc1 /\ Sound(Begin(left).p, Begin(left).h)
    BY <1>0, BeginIs
  <2>2. Answer(Begin(left), t, sz)
    <3>1. sz \in Nat \ {0} /\ PartHdr \in Nat \ {0}
      <4>1. PartHdr \in Nat \ {0}
        BY PoolAssumption DEF PoolAssumption
      <4> QED BY <4>1, PoolNumbers, Times
    <3> HIDE DEF sz
    <3> QED BY <2>1, <3>1, ThenAnswer
  <2> HIDE DEF t
  <2>3. Sound(pool, heap)' /\ pool.held \subseteq pool'.held
    BY <1>0, <1>3, <2>2, AllocKeeps
  <2>4. Containers(arr, list, pool.held)'
    <3>1. CASE t.at = Null
      BY <1>0, <1>1, <1>3, <2>3, <3>1, ContainersGrow
    <3>2. CASE t.at # Null
      <4> DEFINE l == Append(list, Part(t.at))
      <4>1. Containers(arr, l, pool'.held)
        BY <1>0, <1>3, <2>2, <3>2, PartAnswer
      <4>2. Len(l) = Len(list) + 1 /\ l[Len(list) + 1] = Part(t.at) /\ l # <<>> /\ Len(list) \in Nat
        BY <1>1
      <4>3. l[Len(l)].n # FirstN
        BY <4>2, PoolNumbers DEF Part
      <4>4. list' = Count(l)
        BY <1>3, <3>2
      <4> HIDE DEF l
      <4> QED BY <1>0, <4>1, <4>2, <4>3, <4>4, Counted
    <3> QED BY <3>1, <3>2
  <2> QED BY <1>0, <2>3, <2>4, FilesStay DEF IndInv
<1> QED BY <1>2, <1>3 DEF ListPush

LEMMA NextInv == IndInv /\ [Next]_vars => IndInv'
<1> SUFFICES ASSUME IndInv, [Next]_vars PROVE IndInv'
  OBVIOUS
<1>1. CASE Destroy
  BY <1>1, DestroyInv
<1>2. CASE Create
  BY <1>2, CreateInv
<1>3. CASE ArrayDestroy
  BY <1>3, ArrayDestroyInv
<1>4. CASE \E id \in heap : Pfree(id)
  BY <1>4, PfreeInv
<1>5. CASE \E fd \in open : RunCleanupFile(fd)
  BY <1>5, RunCleanupFileInv
<1>6. ASSUME NEW left \in Lefts, NEW size \in Sizes, Alloc(size, left) \/ Pmemalign(size, left)
      PROVE  IndInv'
  BY <1>6, AllocInv, PmemalignInv
<1>7. ASSUME NEW left \in Lefts, NEW b \in BOOLEAN, NEW d \in BOOLEAN, CleanupAdd(b, d, left) \/ ListInit(b, left)
      PROVE  IndInv'
  BY <1>7, CleanupAddInv, ListInitInv
<1>8. ASSUME NEW left \in Lefts,
             ArrayCreate(left) \/ ArrayInit(left) \/ ArrayPush(left) \/ ListPush(left)
      PROVE  IndInv'
  BY <1>8, ArrayCreateInv, ArrayPushInv, ListPushInv
<1>9. ASSUME NEW left \in Lefts, NEW n \in 1 .. 2, ArrayPushN(n, left)
      PROVE  IndInv'
  BY <1>9, ArrayPushNInv
<1>10. CASE UNCHANGED vars
  <2>1. UNCHANGED <<pool, heap, cleanup, open, deleted, arr, list>>
    BY <1>10 DEF vars
  <2>2. Files'
    BY <2>1, FilesStay DEF IndInv
  <2>3. (Sound(pool, heap) \/ Gone)'
    BY <2>1 DEF IndInv, Gone, Sound, Placed, Named
  <2>4. Containers(arr, list, pool.held)'
    BY <2>1 DEF IndInv, Containers
  <2> QED BY <2>2, <2>3, <2>4 DEF IndInv
<1> QED BY <1>1, <1>2, <1>3, <1>4, <1>5, <1>6, <1>7, <1>8, <1>9, <1>10 DEF Next

LEMMA Inductive == Spec => []IndInv
<1> QED BY InitInv, NextInv, PTL DEF Spec
-----------------------------------------------------------------------------
(***************************************************************************)
(* The theorems.                                                           *)
(***************************************************************************)

\* Whatever is asked of a pool, in whatever order and with whatever allocations failing, no two
\* regions that callers have share a byte, none reaches into the header of its block or behind its
\* used part, and none lies in memory that was given back (ntg_palloc, ntg_palloc_block, ntg_pfree).
THEOREM RegionsDisjoint == Spec => []Disjoint
<1>1. IndInv => Disjoint
  <2> SUFFICES ASSUME IndInv PROVE Disjoint
    OBVIOUS
  <2>1. CASE Gone
    BY <2>1 DEF Gone, Dead, Disjoint, TypeOK, Live
  <2>2. CASE Sound(pool, heap)
    <3>0. ASSUME NEW T, NEW l \in Seq(T) PROVE DOMAIN l = 1 .. Len(l) /\ \A i \in DOMAIN l : l[i] \in T
      OBVIOUS
    <3>1. /\ pool \in PoolT /\ pool.blocks \in Seq(Block) /\ DOMAIN pool.blocks = 1 .. Len(pool.blocks)
          /\ pool.large \in Seq(0 .. MaxLarge)
      BY <2>2 DEF Sound, PoolT
    <3>2. ASSUME NEW b \in DOMAIN pool.blocks
          PROVE  pool.blocks[b].last \in Start(b) .. Size /\ pool.blocks[b].failed \in Nat
      <4>1. pool.blocks[b] \in Block
        BY <3>0, <3>1
      <4>2. pool.blocks[b].failed \in Nat
        BY <4>1 DEF Block
      <4> QED BY <2>2, <3>1, <4>2 DEF Sound
    <3>3. \A i \in DOMAIN pool.large : pool.large[i] \in 0 .. MaxLarge
      BY <3>0, <3>1
    <3>4. TypeOK
      BY <2>2, <3>1, <3>2, <3>3 DEF TypeOK, Sound, IndInv, Files
    <3> QED BY <2>2, <3>4 DEF Disjoint, Sound, Placed
  <2> QED BY <2>1, <2>2 DEF IndInv
<1> QED BY <1>1, Inductive, PTL

\* The elements of an array, also after it grew in place or moved, and those of the parts of a list
\* lie in memory that was allocated for them and for nothing else (ntg_array_push, ntg_list_push).
THEOREM ElementsFit == Spec => []ElementsInside
<1>1. IndInv => ElementsInside
  <2> SUFFICES ASSUME IndInv PROVE ElementsInside
    OBVIOUS
  <2>1. Containers(arr, list, pool.held) /\ arr \in ArrT /\ list \in Seq(PartT)
    BY DEF IndInv, Containers
  <2>2. DOMAIN list = 1 .. Len(list)
    BY <2>1
  <2>3. arr # NoArray => /\ arr.elts \in pool.held /\ arr.n <= arr.nalloc
                         /\ arr.elts.hi - arr.elts.lo = arr.nalloc * EltSize
    <3> SUFFICES ASSUME arr # NoArray
                 PROVE  /\ arr.elts \in pool.held /\ arr.n <= arr.nalloc
                        /\ arr.elts.hi - arr.elts.lo = arr.nalloc * EltSize
      OBVIOUS
    <3> DEFINE m == arr.nalloc * EltSize
    <3>1. m \in Nat /\ arr.elts.lo \in Nat
      BY <2>1, PoolNumbers, Times DEF ArrT, Region
    <3>2. arr.elts \in pool.held /\ arr.n <= arr.nalloc /\ arr.elts.hi = arr.elts.lo + m
      BY <2>1 DEF Containers, ArrayIn
    <3> HIDE DEF m
    <3>3. arr.elts.hi - arr.elts.lo = m
      BY <3>1, <3>2
    <3> QED BY <3>2, <3>3 DEF m
  <2>4. ASSUME NEW i \in DOMAIN list
        PROVE  /\ list[i].elts \in pool.held /\ list[i].elts # arr.elts
               /\ list[i].elts.hi - list[i].elts.lo >= list[i].n * EltSize
               /\ \A j \in DOMAIN list : i # j => list[i].elts # list[j].elts
    <3>1. PartIn(list[i], arr, pool.held) /\ list[i] \in PartT
      BY <2>1, <2>2 DEF Containers
    <3> DEFINE m == FirstN * EltSize
               w == list[i].n * EltSize
    <3>2. m \in Nat /\ w \in Nat /\ list[i].elts.lo \in Nat /\ w <= m
      <4>1. list[i].n \in Nat /\ list[i].n <= FirstN /\ EltSize \in Nat /\ FirstN \in Nat
        BY <3>1, PoolNumbers DEF PartIn, PartT
      <4>2. EltSize * list[i].n <= EltSize * FirstN
        BY <4>1, Monotone
      <4>3. EltSize * list[i].n = w /\ EltSize * FirstN = m
        BY <4>1
      <4>4. list[i].elts.lo \in Nat
        BY <3>1 DEF PartT, Region
      <4> QED BY <4>1, <4>2, <4>3, <4>4, Times
    <3>3. list[i].elts.hi = list[i].elts.lo + m
      BY <3>1 DEF PartIn
    <3> HIDE DEF m, w
    <3>4. list[i].elts.hi - list[i].elts.lo >= w
      BY <3>2, <3>3
    <3> QED BY <2>1, <2>2, <3>1, <3>4 DEF w, PartIn, Containers
  <2> QED BY <2>3, <2>4 DEF ElementsInside
<1> QED BY <1>1, Inductive, PTL

\* Every large allocation is named by one entry of the pool and no entry names one that was freed, so
\* ntg_destroy_pool frees each once (ntg_palloc_large, ntg_pfree).
THEOREM LargeFreedOnce == Spec => []LargeOwned
<1>1. IndInv => LargeOwned
  <2> SUFFICES ASSUME IndInv PROVE LargeOwned
    OBVIOUS
  <2>1. CASE Gone
    BY <2>1 DEF Gone, Dead, LargeOwned
  <2>2. CASE Sound(pool, heap)
    <3>1. pool.large \in Seq(0 .. MaxLarge) /\ Named(pool.large, heap)
      BY <2>2 DEF Sound, PoolT
    <3> QED BY <3>1, NamedOnce DEF LargeOwned
  <2> QED BY <2>1, <2>2 DEF IndInv
<1> QED BY <1>1, Inductive, PTL

\* Every open file of the pool is closed by one clean-up and none closes what was closed before
\* (ntg_pool_run_cleanup_file, ntg_destroy_pool).
THEOREM FilesClosedOnce == Spec => []ClosedOnce
<1>1. IndInv => ClosedOnce
  BY NamedOnce DEF IndInv, Files, ClosedOnce
<1> QED BY <1>1, Inductive, PTL

=============================================================================
