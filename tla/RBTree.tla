------------------------------- MODULE RBTree -------------------------------
(***************************************************************************)
(* The red-black tree of FreeListAllocator under every sequence of the     *)
(* calls allocate and deallocate make on it: insert_node, delete_node and  *)
(* the growth of a node that has absorbed its neighbour.                   *)
(***************************************************************************)
EXTENDS RBTreeOps

CONSTANTS
  Sizes,     \* block sizes
  MaxLarge   \* bound: blocks above the smallest size at a time

ASSUME SizesAssumption == Sizes \subseteq Nat \ {0} /\ MaxLarge \in Nat

VARIABLES
  t,      \* the tree
  held    \* history: address -> size of the block inserted there, 0 for none

vars == <<t, held>>

Init == t = Empty /\ held = [a \in Addr |-> 0]

\* Within the bound, a block may become n bytes long.
MayBe(n) == n = Min(Sizes) \/ Cardinality({a \in Addr : held[a] > Min(Sizes)}) < MaxLarge

Insert(z, n) ==
  /\ held[z] = 0 /\ MayBe(n)
  /\ t' = insert_node(t, z, n)
  /\ held' = [held EXCEPT ![z] = n]

Delete(z) ==
  /\ held[z] # 0
  /\ t' = delete_node(t, z)
  /\ held' = [held EXCEPT ![z] = 0]

Coalesce(z, n) ==
  /\ held[z] # 0 /\ held[z] < n /\ MayBe(n)
  /\ t' = Grow(t, z, n)
  /\ held' = [held EXCEPT ![z] = n]

Next ==
  \E z \in Addr :
    \/ Delete(z)
    \/ \E n \in Sizes : Insert(z, n) \/ Coalesce(z, n)

Spec == Init /\ [][Next]_vars

-----------------------------------------------------------------------------
\* The tree holds the blocks put into it and no others: no rotation or
\* transplant loses a subtree.
HoldsBlocks == Content(t) = {[off |-> a, size |-> held[a]] : a \in {b \in Addr : held[b] # 0}}

\* The abort calls of verify_tree, run after every operation, are never reached.
NeverAborts == verify_tree(t)

\* Nodes are ordered by address.
Ordered ==
  \A x \in Nodes(t) :
    /\ \A y \in Subtree(t, t.kid["left"][x]) : y < x
    /\ \A y \in Subtree(t, t.kid["right"][x]) : y > x

RECURSIVE BlackHeights(_)
BlackHeights(x) ==
  IF x = Nil THEN {0}
  ELSE {h + (IF t.color[x] = "black" THEN 1 ELSE 0) :
          h \in UNION {BlackHeights(t.kid[s][x]) : s \in Sides}}

\* A search takes logarithmic time: no red node has a red child, and every
\* path down has the same number of black nodes; the sentinel stays black.
Balanced ==
  /\ t.color[Nil] = "black" /\ t.color[t.root] = "black"
  /\ \A x \in Nodes(t) : t.color[x] = "red" => \A s \in Sides : t.color[t.kid[s][x]] = "black"
  /\ Cardinality(BlackHeights(t.root)) = 1

\* find_first_fit returns the lowest block that is long enough, and nil_ only
\* when there is none.
FirstFit ==
  \A n \in Sizes :
    LET fits == {a \in Addr : held[a] >= n}
    IN  find_first_fit(t, n) = IF fits = {} THEN Nil ELSE Min(fits)

\* successor and predecessor, by which deallocate finds what to coalesce with,
\* return the nearest block above and below.
Neighbours ==
  \A x \in Nodes(t) :
    LET above == {a \in Addr : held[a] # 0 /\ a > x}
        below == {a \in Addr : held[a] # 0 /\ a < x}
    IN  /\ successor(t, x) = IF above = {} THEN Nil ELSE Min(above)
        /\ predecessor(t, x) = IF below = {} THEN Nil ELSE Max(below)
=============================================================================
