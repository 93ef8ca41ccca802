----------------------------- MODULE HashTable -----------------------------
(***************************************************************************)
(* The chained hash table of utils/ntg_table.c, with its pool of nodes.    *)
(* The master keeps the connections of the front end in one, the virtual-  *)
(* user process its consumers.  A table is a record: `chain' has, for each *)
(* bucket, the objects of its list, head first, and `free' is free_node_n. *)
(* Objects are pointers; their key and the comparison both use the id the  *)
(* object has now, so every operator takes the function `id' as well.      *)
(* Nodes are alike: of the free list only the length is kept.              *)
(***************************************************************************)
EXTENDS Integers, Sequences, SequencesExt

CONSTANTS
  Size,   \* table->size, buckets
  NodeN   \* table->node_n, nodes in the pool

ASSUME HashTableAssumption == Size \in Nat \ {0} /\ NodeN \in Nat

Bucket == 0 .. Size - 1

\* ntg_hash_table_init
EmptyTable == [chain |-> [b \in Bucket |-> <<>>], free |-> NodeN]

Objects(t) == UNION {Range(t.chain[b]) : b \in Bucket}

\* Positions in the chain of k whose object has the id k now.
Hits(t, id, k) == {j \in DOMAIN t.chain[k % Size] : id[t.chain[k % Size][j]] = k}

\* ntg_hash_find_node: the first of them.
Found(t, id, k)   == Hits(t, id, k) # {}
FindNode(t, id, k) == t.chain[k % Size][Min(Hits(t, id, k))]

\* ntg_hash_insert_node of an object whose id is k and not in the table: NTG_ERROR if the
\* pool is empty.
CanInsert(t) == t.free > 0

InsertNode(t, k, obj) ==
  [chain |-> [t.chain EXCEPT ![k % Size] = <<obj>> \o @], free |-> t.free - 1]

\* Mutant: the node is not given back to the pool.
DeleteKeepsNode(t, id, k) ==
  LET ch == t.chain[k % Size]
      j  == Min(Hits(t, id, k))
  IN  IF ~Found(t, id, k)
        THEN t
        ELSE [chain |-> [t.chain EXCEPT ![k % Size] =
                           IF j = 1 THEN <<>> ELSE RemoveAt(ch, j)],
              free  |-> t.free]

\* ntg_hash_delete_node.  Deleting the head of a list sets the bucket to NULL: the nodes
\* behind it leave the table with it and never come back to the pool.
DeleteNode(t, id, k) ==
  LET ch == t.chain[k % Size]
      j  == Min(Hits(t, id, k))
  IN  IF ~Found(t, id, k)
        THEN t
        ELSE [chain |-> [t.chain EXCEPT ![k % Size] =
                           IF j = 1 THEN <<>> ELSE RemoveAt(ch, j)],
              free  |-> t.free + 1]
=============================================================================
