---------------------------- MODULE KeyvalsBtree ----------------------------
(***************************************************************************)
(* Metis's buckets are B+ trees (metis/lib/keyvals_btree.c).  A tree owns  *)
(* its nodes, named by the order of their allocation; 0 is the null        *)
(* pointer.  The array arr of a node is split in two here: its keys, each  *)
(* with the number of values stored for it, and its children, which a leaf *)
(* does not have.                                                          *)
(***************************************************************************)
EXTENDS Bsearch, SequencesExt

CONSTANT Order     \* order: a leaf has at most 2 * Order + 1 keys

ASSUME OrderAssumption == Order \in Nat \ {0}

Node(arr, kids, parent, next) == [arr |-> arr, kids |-> kids, parent |-> parent, next |-> next]

Tree ==
  [root : Nat, nlevel : Nat, nkeys : Nat,
   node : Seq([arr : Seq([key : Nat, n : Nat]), kids : Seq(Nat), parent : Nat, next : Nat])]

pch_init == [root |-> 0, nlevel |-> 0, nkeys |-> 0, node |-> <<>>]

Index(key) == [key |-> key, n |-> 0]

\* Bug: only the first of the children that a split moves gets its new parent.
MovedToFirst(kids, j) == j = kids[1]

\* Whether j is one of the children.
MovedTo(kids, j) == j \in {kids[i] : i \in DOMAIN kids}

\* right becomes the sibling after left, which key separates: their parent takes
\* the key and the child, and when that fills it, is split and has its own parent
\* take the middle key.  Without a parent there is a new root.  The parent
\* pointers of the children that a split (btree_split_internal) moves are set at
\* once: the rest of the recursion is not about them.
btree_insert_index(tree, sepkey, leaf, newleaf) ==
  LET insert[bt \in Tree, key \in Nat, left \in Nat, right \in Nat] ==
    LET new == Len(bt.node) + 1
        p == bt.node[left].parent IN
    IF p = 0
    THEN [bt EXCEPT !.node = Append([@ EXCEPT ![left].parent = new, ![right].parent = new],
                                    Node(<<Index(key)>>, <<left, right>>, 0, 0)),
                    !.root = new, !.nlevel = @ + 1]
    ELSE LET ikey == bsearch_lar(key, bt.node[p].arr, 0, Len(bt.node[p].arr))
             arr == InsertAt(bt.node[p].arr, ikey + 1, Index(key))
             kids == InsertAt(bt.node[p].kids, ikey + 2, right)
             moved == SubSeq(kids, Order + 2, 2 * Order + 2) IN
         IF Len(arr) < 2 * Order + 1
         THEN [bt EXCEPT !.node[right].parent = p, !.node[p].arr = arr, !.node[p].kids = kids]
         ELSE insert[
           [bt EXCEPT !.node = Append(
              [j \in DOMAIN @ |->
                 [@[j] EXCEPT !.parent = IF MovedTo(moved, j) THEN new ELSE IF j = right THEN p ELSE @,
                              !.arr = IF j = p THEN SubSeq(arr, 1, Order) ELSE @,
                              !.kids = IF j = p THEN SubSeq(kids, 1, Order + 1) ELSE @]],
              Node(SubSeq(arr, Order + 2, 2 * Order + 1), moved, 0, 0))],
           arr[Order + 1].key, p, new] IN
  insert[tree, sepkey, leaf, newleaf]

\* The leaf for a key; a tree without nodes gets its first leaf.
WithLeaf(bt) ==
  IF bt.nlevel = 0
  THEN [root |-> 1, nlevel |-> 1, nkeys |-> 0, node |-> <<Node(<<>>, <<>>, 0, 0)>>]
  ELSE bt

get_leaf(bt, key) ==
  LET descend[x \in Nat, level \in Nat] ==
        IF level = 1 THEN x
        ELSE LET node == bt.node[x] IN
             descend[node.kids[bsearch_lar(key, node.arr, 0, Len(node.arr)) + 1], level - 1] IN
  descend[bt.root, bt.nlevel]

insert_key(bt, leaf, kv, pos) ==
  [bt EXCEPT !.node[leaf].arr = InsertAt(@, pos + 1, kv), !.nkeys = @ + 1]

\* The right half of a full leaf becomes a leaf of its own.
split_leaf(bt, leaf) ==
  LET kvs == bt.node[leaf].arr
      right == Len(bt.node) + 1
      halved == [bt EXCEPT !.node = Append(
                   [@ EXCEPT ![leaf].arr = SubSeq(kvs, 1, Order + 1), ![leaf].next = right],
                   Node(SubSeq(kvs, Order + 2, 2 * Order + 2), <<>>, 0, bt.node[leaf].next))] IN
  btree_insert_index(halved, kvs[Order + 2].key, leaf, right)

SplitIfFull(bt, leaf) ==
  IF Len(bt.node[leaf].arr) = 2 * Order + 2 THEN split_leaf(bt, leaf) ELSE bt

\* A value for a key, which may be there already.
pch_insert_kv(coll, key) ==
  LET bt == WithLeaf(coll)
      leaf == get_leaf(bt, key)
      at == bsearch_eq(key, bt.node[leaf].arr, 0, Len(bt.node[leaf].arr)) IN
  SplitIfFull(IF at.found THEN [bt EXCEPT !.node[leaf].arr[at.pos + 1].n = @ + 1]
                          ELSE insert_key(bt, leaf, [key |-> key, n |-> 1], at.pos), leaf)

\* Bug: a leaf that a whole key fills is not split.
pch_insert_kvsNoSplit(coll, kv) ==
  LET bt == WithLeaf(coll)
      leaf == get_leaf(bt, kv.key)
      at == bsearch_eq(kv.key, bt.node[leaf].arr, 0, Len(bt.node[leaf].arr)) IN
  insert_key(bt, leaf, kv, at.pos)

\* A key with all its values, which must not be there (the code asserts it; it
\* would be there twice).
pch_insert_kvs(coll, kv) ==
  LET bt == WithLeaf(coll)
      leaf == get_leaf(bt, kv.key)
      at == bsearch_eq(kv.key, bt.node[leaf].arr, 0, Len(bt.node[leaf].arr)) IN
  SplitIfFull(insert_key(bt, leaf, kv, at.pos), leaf)

\* The nodes go; a stale root and nkeys stay, nlevel says that the tree is empty.
pch_shallow_free(bt) ==
  IF bt.nlevel = 0 THEN bt ELSE [bt EXCEPT !.nlevel = 0, !.node = <<>>]

\* pch_iter_begin and pch_iter_next_kvs, and pch_copy_kvs: the leaves in the
\* order of their chain, from the leftmost one on.
pch_copy_kvs(bt) ==
  LET leftmost[x \in Nat, level \in Nat] ==
        IF level = 1 THEN x ELSE leftmost[bt.node[x].kids[1], level - 1]
      chain[x \in Nat] == IF x = 0 THEN <<>> ELSE bt.node[x].arr \o chain[bt.node[x].next] IN
  IF bt.nlevel = 0 THEN <<>> ELSE chain[leftmost[bt.root, bt.nlevel]]

-----------------------------------------------------------------------------
(* What a tree must be. *)

IsLeaf(x) == x.kids = <<>>

\* The chain of leaves holds nkeys keys in ascending order, a search for any of
\* them ends in its leaf, nodes are filled as far as they may be, and parent
\* pointers lead where the children came from.
TreeSound(bt) == bt.nlevel > 0 =>
  LET kvs == pch_copy_kvs(bt) IN
  /\ Len(kvs) = bt.nkeys
  /\ \A i \in 1 .. Len(kvs) - 1 : kvs[i].key < kvs[i + 1].key
  /\ \A i \in DOMAIN kvs :
       LET leaf == bt.node[get_leaf(bt, kvs[i].key)] IN
       IsLeaf(leaf) /\ \E j \in DOMAIN leaf.arr : leaf.arr[j] = kvs[i]
  /\ \A x \in DOMAIN bt.node :
       LET node == bt.node[x] IN
       /\ Len(node.arr) <= 2 * Order + (IF IsLeaf(node) THEN 1 ELSE 0)
       /\ x # bt.root => Len(node.arr) >= Order + (IF IsLeaf(node) THEN 1 ELSE 0)
       /\ ~IsLeaf(node) => Len(node.kids) = Len(node.arr) + 1
       /\ \A i \in DOMAIN node.kids : bt.node[node.kids[i]].parent = x
       /\ node.parent = 0 <=> x = bt.root

\* The trees that inserting the keys of a set, in any order, builds.
Built(Keys) ==
  LET trees[S \in SUBSET Keys] ==
        IF S = {} THEN {pch_init}
        ELSE UNION {{pch_insert_kv(t, k) : t \in trees[S \ {k}]} : k \in S} IN
  trees

\* In whatever order keys arrive, the tree is sound and holds just these keys.
BtreeExact(Keys) ==
  \A S \in SUBSET Keys : \A t \in Built(Keys)[S] :
    TreeSound(t) /\ {t2.key : t2 \in {pch_copy_kvs(t)[i] : i \in 1 .. t.nkeys}} = S
=============================================================================
