-------------------------------- MODULE Pool --------------------------------
(***************************************************************************)
(* A memory pool (utils/ntg_palloc.c) and the containers that grow in it   *)
(* (ntg_array.c, ntg_list.c).  A pool is a chain of blocks of one size:    *)
(* `last' is where the free part of a block begins.  The first block       *)
(* starts with the pool's header, the others with the smaller ntg_pool_    *)
(* data_t.  What is too large for a block comes from malloc and is listed  *)
(* in `large', whose entries are themselves taken from the pool.           *)
(*                                                                         *)
(* A region is the memory a caller was given: positions lo .. hi - 1 of    *)
(* block blk, or of the allocation -blk when blk is negative.  ntg_reset_  *)
(* pool, which nothing calls, is left out.                                 *)
(***************************************************************************)
EXTENDS Integers, Sequences, FiniteSets, FiniteSetsExt

CONSTANTS
  Size, Align,                   \* of a block; of an address
  Hdr, DataHdr,                  \* ntg_pool_t and the ntg_pool_data_t in front of it
  LargeHdr, CleanHdr, FileHdr,   \* ntg_pool_large_t, ntg_pool_cleanup_t, ntg_pool_cleanup_file_t
  ArrHdr, ListHdr, PartHdr,      \* ntg_array_t, ntg_list_t, ntg_list_part_t
  PageMax,                       \* NTG_MAX_ALLOC_FROM_POOL
  FailLimit, LargeTries,         \* 4 and 5 in the code
  Sizes,                         \* what callers ask for
  EltSize, FirstN,               \* of an element, and of the containers when they are made
  MaxBlocks, MaxLarge, MaxFd, MaxHeld, MaxElts   \* bounds: memory, descriptors, regions, elements of the array

ASSUME PoolAssumption ==
  /\ Size \in Nat /\ Align \in Nat \ {0} /\ Size % Align = 0
  /\ {DataHdr, LargeHdr, CleanHdr, FileHdr, ArrHdr, ListHdr, PartHdr, PageMax} \subseteq Nat \ {0}
  /\ DataHdr % Align = 0 /\ Hdr \in DataHdr .. Size /\ LargeHdr <= Size - Hdr /\ LargeHdr <= PageMax
  /\ FailLimit \in Nat /\ LargeTries \in Nat \ {0}
  /\ Sizes \subseteq Nat /\ EltSize \in Nat \ {0} /\ FirstN \in Nat \ {0}
  /\ MaxBlocks \in Nat \ {0} /\ MaxLarge \in Nat /\ MaxFd \in Nat

VARIABLES
  pool,      \* blocks, current, large, and `held', the regions that callers have
  heap,      \* what malloc handed out for large requests and was not given back
  cleanup,   \* the registered clean-ups: a descriptor to close, or 0 for none
  open,      \* open descriptors of the pool's files
  deleted,   \* of these, the ones whose clean-up deletes the file too (ntg_pool_delete_file)
  arr,       \* an array in the pool
  list       \* the parts of a list in the pool

vars == <<pool, heap, cleanup, open, deleted, arr, list>>

Null        == [blk |-> 0, lo |-> 0, hi |-> 0]
Reg(b,lo,n) == [blk |-> b, lo |-> lo, hi |-> lo + n]
NoArray     == [hdr |-> Null, elts |-> Null, n |-> 0, nalloc |-> 0]
Dead        == [blocks |-> <<>>, current |-> 1, large |-> <<>>, held |-> {}]
Created     == [Dead EXCEPT !.blocks = <<[last |-> Hdr, failed |-> 0]>>]
MaxSmall    == Min({Size - Hdr, PageMax})    \* pool->max
Aligned(x)  == x + ((-x) % Align)            \* ntg_align_ptr
Start(b)    == IF b = 1 THEN Hdr ELSE DataHdr
Live        == pool.blocks # <<>>

Init == pool = Created /\ heap = {} /\ cleanup = <<>> /\ open = {} /\ deleted = {} /\ arr = NoArray /\ list = <<>>
-----------------------------------------------------------------------------
(* Allocation.  s is the pool together with heap (h), the number of system *)
(* allocations that still succeed (left) and the answer (at).              *)
-----------------------------------------------------------------------------
Begin(left) == [p |-> pool, h |-> heap, left |-> left, at |-> Null]

From(s, b, aligned) == IF aligned THEN Aligned(s.p.blocks[b].last) ELSE s.p.blocks[b].last

\* The difference is unsigned: a position behind the end would look like a lot of room.
Room(m, size) == m > Size \/ Size - m >= size

\* r is the answer; a region without a byte is nobody's memory.
Give(s, r) == [s EXCEPT !.p.held = IF r.lo < r.hi THEN @ \cup {r} ELSE @, !.at = r]

Take(s, b, m, size) == Give([s EXCEPT !.p.blocks[b].last = m + size], Reg(b, m, size))

\* p->d.failed++ > 4
Worn(p, b) == p.blocks[b].failed > FailLimit

\* Mutant: the header of the new block is not left free.
BlockStartAtZero == 0

\* Where the first region of a further block begins.
BlockStart == Aligned(DataHdr)

\* A search that failed is counted in the blocks tried, and those that were tried too often are left out.
Tired(p) ==
  LET tried == p.current .. Len(p.blocks) - 1
      worn  == {b \in tried : Worn(p, b)}
      counted(b) == IF b \in tried THEN [p.blocks[b] EXCEPT !.failed = @ + 1] ELSE p.blocks[b]
  IN [p EXCEPT !.current = IF worn = {} THEN p.current ELSE Max(worn) + 1,
               !.blocks  = [b \in DOMAIN p.blocks |-> counted(b)]]

PallocBlock(s, size) ==
  LET new == [last |-> BlockStart + size, failed |-> 0]
  IN IF s.left = 0 \/ Len(s.p.blocks) = MaxBlocks THEN [s EXCEPT !.at = Null]
     ELSE Give([s EXCEPT !.left = @ - 1, !.p = [Tired(s.p) EXCEPT !.blocks = Append(@, new)]],
               Reg(Len(s.p.blocks) + 1, BlockStart, size))

Small(s, size, aligned) ==
  LET fit == {b \in s.p.current .. Len(s.p.blocks) : Room(From(s, b, aligned), size)}
  IN IF fit = {} THEN PallocBlock(s, size)
     ELSE Take(s, Min(fit), From(s, Min(fit), aligned), size)

Free(s) == (1 .. MaxLarge) \ s.h

\* The entry of a new large allocation; without it the allocation is given back.
ListLarge(s, id, size) ==
  LET e == Small([s EXCEPT !.left = @ - 1], LargeHdr, TRUE)
  IN IF e.at = Null THEN e
     ELSE Give([e EXCEPT !.h = @ \cup {id}, !.p.large = <<id>> \o @], Reg(-id, 0, size))

\* The entries that are looked at and have nothing.
Empty(p) == {i \in 1 .. Min({Len(p.large), LargeTries}) : p.large[i] = 0}

PallocLarge(s, size) ==
  LET id == Min(Free(s)) IN
  IF s.left = 0 \/ Free(s) = {} THEN [s EXCEPT !.at = Null]
  ELSE IF Empty(s.p) = {} THEN ListLarge(s, id, size)
  ELSE Give([s EXCEPT !.left = @ - 1, !.h = @ \cup {id}, !.p.large[Min(Empty(s.p))] = id], Reg(-id, 0, size))

Palloc(s, size)  == IF size <= MaxSmall THEN Small(s, size, TRUE) ELSE PallocLarge(s, size)
Pnalloc(s, size) == IF size <= MaxSmall THEN Small(s, size, FALSE) ELSE PallocLarge(s, size)

\* A second request is made only after the first succeeded.
Then(s, size) == IF s.at = Null THEN s ELSE Palloc(s, size)

Commit(s) == pool' = s.p /\ heap' = s.h

Lefts == 0 .. 3      \* no operation makes more system allocations
-----------------------------------------------------------------------------
Alloc(size, left) ==
  /\ Live /\ (Commit(Palloc(Begin(left), size)) \/ Commit(Pnalloc(Begin(left), size)))
  /\ UNCHANGED <<cleanup, open, deleted, arr, list>>

Pmemalign(size, left) ==
  /\ Live /\ left > 0 /\ Free(Begin(left)) # {}
  /\ Commit(ListLarge(Begin(left), Min(Free(Begin(left))), size))
  /\ UNCHANGED <<cleanup, open, deleted, arr, list>>

\* Mutant: the entry still names what was freed.
FreedKept(l, id) == l

\* l->alloc = NULL in the first entry that names it.
Freed(l, id) == [l EXCEPT ![Min({i \in DOMAIN l : l[i] = id})] = 0]

InUse(id) == arr.elts.blk = -id \/ \E i \in DOMAIN list : list[i].elts.blk = -id

Pfree(id) ==
  /\ Live /\ id \in heap /\ ~InUse(id)
  /\ pool' = [pool EXCEPT !.large = Freed(@, id), !.held = {r \in @ : r.blk # -id}]
  /\ heap' = heap \ {id}
  /\ UNCHANGED <<cleanup, open, deleted, arr, list>>

\* A temporary file: the clean-up is registered first, its handler set when the
\* file is open: ntg_pool_cleanup_file, or ntg_pool_delete_file if the caller wants it deleted.
CleanupAdd(opened, clean, left) ==
  LET s == Then(Palloc(Begin(left), CleanHdr), FileHdr)
      fd == Min((1 .. MaxFd) \ open)
  IN /\ Live /\ open # 1 .. MaxFd /\ Commit(s)
     /\ cleanup' = IF s.at = Null THEN cleanup ELSE <<IF opened THEN fd ELSE 0>> \o cleanup
     /\ open' = IF s.at # Null /\ opened THEN open \cup {fd} ELSE open
     /\ deleted' = IF s.at # Null /\ opened /\ clean THEN deleted \cup {fd} ELSE deleted
     /\ UNCHANGED <<arr, list>>

\* Mutant: the handler stays.
RanKept(c, fd) == c

\* c->handler = NULL in the first entry for the descriptor.
Ran(c, fd) == [c EXCEPT ![Min({i \in DOMAIN c : c[i] = fd})] = 0]

\* Only an entry whose handler is ntg_pool_cleanup_file is run early.
RunCleanupFile(fd) ==
  /\ Live /\ fd \notin deleted /\ \E i \in DOMAIN cleanup : cleanup[i] = fd
  /\ cleanup' = Ran(cleanup, fd) /\ open' = open \ {fd}
  /\ UNCHANGED <<pool, heap, deleted, arr, list>>

\* The handlers run, then the large allocations and the blocks are freed.
Destroy ==
  /\ Live
  /\ open' = open \ {cleanup[i] : i \in DOMAIN cleanup}
  /\ heap' = heap \ {pool.large[i] : i \in DOMAIN pool.large}
  /\ pool' = Dead /\ cleanup' = <<>> /\ deleted' = {} /\ arr' = NoArray /\ list' = <<>>

Create == ~Live /\ pool' = Created /\ UNCHANGED <<heap, cleanup, open, deleted, arr, list>>
-----------------------------------------------------------------------------
(* Arrays.                                                                 *)
-----------------------------------------------------------------------------
NewArray(s, hdr) ==
  arr' = IF s.at = Null THEN NoArray ELSE [hdr |-> hdr, elts |-> s.at, n |-> 0, nalloc |-> FirstN]

ArrayCreate(left) ==
  LET h == Palloc(Begin(left), ArrHdr)
      s == Then(h, FirstN * EltSize)
  IN Live /\ arr = NoArray /\ Commit(s) /\ NewArray(s, h.at) /\ UNCHANGED <<cleanup, open, deleted, list>>

\* The ntg_array_t belongs to the caller.
ArrayInit(left) ==
  LET s == Palloc(Begin(left), FirstN * EltSize)
  IN Live /\ arr = NoArray /\ Commit(s) /\ NewArray(s, Null) /\ UNCHANGED <<cleanup, open, deleted, list>>

\* The array ends where the free part of the first block begins.
Last(r) == r.blk = 1 /\ r.hi = pool.blocks[1].last

\* ... and k more elements fit behind it.
Extends(k) == Last(arr.elts) /\ pool.blocks[1].last + k * EltSize <= Size

Grown(r, k) == [r EXCEPT !.hi = @ + k * EltSize]

Extend(k, used) ==
  /\ pool' = [pool EXCEPT !.blocks[1].last = @ + k * EltSize, !.held = (@ \ {arr.elts}) \cup {Grown(arr.elts, k)}]
  /\ arr' = [arr EXCEPT !.elts = Grown(@, k), !.nalloc = @ + k, !.n = @ + used]
  /\ UNCHANGED heap

\* A new place for nalloc elements; the old one stays allocated.
Move(nalloc, used, left) ==
  LET s == Palloc(Begin(left), nalloc * EltSize)
  IN /\ Commit(s)
     /\ arr' = IF s.at = Null THEN arr ELSE [arr EXCEPT !.elts = s.at, !.nalloc = nalloc, !.n = @ + used]

Store(used) == arr' = [arr EXCEPT !.n = @ + used] /\ UNCHANGED <<pool, heap>>

\* Mutant: one more element than there is room for.
FullTooLate(n) == arr.n + n > arr.nalloc + 1

\* The array has no room for n more elements.
Full(n) == arr.n + n > arr.nalloc

ArrayPush(left) ==
  /\ Live /\ arr # NoArray /\ arr.n < MaxElts
  /\ CASE ~Full(1)              -> Store(1)
       [] Full(1) /\ Extends(1)  -> Extend(1, 1)
       [] Full(1) /\ ~Extends(1) -> Move(2 * arr.nalloc, 1, left)
  /\ UNCHANGED <<cleanup, open, deleted, list>>

ArrayPushN(n, left) ==
  /\ Live /\ arr # NoArray /\ arr.n + n <= MaxElts
  /\ CASE ~Full(n)              -> Store(n)
       [] Full(n) /\ Extends(n)  -> Extend(n, n)
       [] Full(n) /\ ~Extends(n) -> Move(2 * Max({n, arr.nalloc}), n, left)
  /\ UNCHANGED <<cleanup, open, deleted, list>>

\* Gives r back if nothing was taken from the first block after it.
Back(p, r) ==
  IF r.blk = 1 /\ r.hi = p.blocks[1].last THEN [p EXCEPT !.blocks[1].last = r.lo, !.held = @ \ {r}] ELSE p

ArrayDestroy ==
  /\ Live /\ arr # NoArray
  /\ pool' = Back(Back(pool, arr.elts), arr.hdr)
  /\ arr' = NoArray /\ UNCHANGED <<heap, cleanup, open, deleted, list>>
-----------------------------------------------------------------------------
(* Lists.                                                                  *)
-----------------------------------------------------------------------------
Part(r) == [elts |-> r, n |-> 0]

ListInit(created, left) ==
  LET s == IF created THEN Then(Palloc(Begin(left), ListHdr), FirstN * EltSize)
                      ELSE Palloc(Begin(left), FirstN * EltSize)
  IN /\ Live /\ list = <<>> /\ Commit(s)
     /\ list' = IF s.at = Null THEN <<>> ELSE <<Part(s.at)>>
     /\ UNCHANGED <<cleanup, open, deleted, arr>>

Count(l) == [l EXCEPT ![Len(l)].n = @ + 1]

ListPush(left) ==
  LET s == Then(Palloc(Begin(left), PartHdr), FirstN * EltSize)
  IN /\ Live /\ list # <<>>
     /\ \/ /\ list[Len(list)].n # FirstN
           /\ list' = Count(list) /\ UNCHANGED <<pool, heap>>
        \/ /\ list[Len(list)].n = FirstN
           /\ Commit(s) /\ list' = IF s.at = Null THEN list ELSE Count(Append(list, Part(s.at)))
     /\ UNCHANGED <<cleanup, open, deleted, arr>>

Next ==
  \/ Destroy \/ Create \/ ArrayDestroy
  \/ \E id \in heap : Pfree(id)
  \/ \E fd \in open : RunCleanupFile(fd)
  \/ /\ Cardinality(pool.held) < MaxHeld
     /\ \E left \in Lefts :
          \/ \E size \in Sizes : Alloc(size, left) \/ Pmemalign(size, left)
          \/ \E opened, clean \in BOOLEAN : CleanupAdd(opened, clean, left)
          \/ \E created \in BOOLEAN : ListInit(created, left)
          \/ ArrayCreate(left) \/ ArrayInit(left) \/ ArrayPush(left) \/ ListPush(left)
          \/ \E n \in 1 .. 2 : ArrayPushN(n, left)

Spec == Init /\ [][Next]_vars
-----------------------------------------------------------------------------
\* The blocks, the entries and the containers have their types, and `current' is a block of the chain.
TypeOK ==
  /\ \A b \in DOMAIN pool.blocks : pool.blocks[b].last \in Start(b) .. Size /\ pool.blocks[b].failed \in Nat
  /\ Live => pool.current \in DOMAIN pool.blocks
  /\ heap \subseteq 1 .. MaxLarge /\ open \subseteq 1 .. MaxFd /\ deleted \subseteq open
  /\ \A i \in DOMAIN pool.large : pool.large[i] \in 0 .. MaxLarge

Apart(r, q) == r.blk # q.blk \/ r.hi <= q.lo \/ q.hi <= r.lo

\* ntg_palloc, ntg_palloc_block and the growth of an array in place never hand out memory that somebody
\* has, nor the header of a block, nor anything behind the end of the used part.
Disjoint ==
  /\ TypeOK
  /\ \A r \in pool.held : IF r.blk > 0 THEN Start(r.blk) <= r.lo /\ r.hi <= pool.blocks[r.blk].last
                                       ELSE -r.blk \in heap
  /\ \A r, q \in pool.held : r = q \/ Apart(r, q)

\* The elements of an array and of a list lie in memory that was allocated for them and for nothing else:
\* ntg_array_push and ntg_list_push answer with the address of an element that fits.
ElementsInside ==
  /\ arr # NoArray => /\ arr.elts \in pool.held /\ arr.n <= arr.nalloc
                      /\ arr.elts.hi - arr.elts.lo = arr.nalloc * EltSize
  /\ \A i \in DOMAIN list : /\ list[i].elts \in pool.held /\ list[i].elts # arr.elts
                            /\ list[i].elts.hi - list[i].elts.lo >= list[i].n * EltSize
                            /\ \A j \in DOMAIN list : i # j => list[i].elts # list[j].elts

Once(f, x) == Cardinality({i \in DOMAIN f : f[i] = x}) = 1

\* ntg_destroy_pool frees every large allocation once: each is named by one entry, and an entry names
\* nothing that ntg_pfree or a failed request has given back.
LargeOwned ==
  /\ \A id \in heap : Once(pool.large, id)
  /\ \A i \in DOMAIN pool.large : pool.large[i] \in heap \cup {0}

\* Each open file has one clean-up that will close it, and no clean-up closes a descriptor that was closed
\* before and may be somebody else's by now (ntg_pool_run_cleanup_file, ntg_destroy_pool).
ClosedOnce ==
  /\ \A fd \in open : Once(cleanup, fd)
  /\ \A i \in DOMAIN cleanup : cleanup[i] \in open \cup {0}
=============================================================================
