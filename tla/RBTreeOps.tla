----------------------------- MODULE RBTreeOps -----------------------------
(***************************************************************************)
(* The red-black tree of FreeListAllocator (allocator/free_list.cpp):      *)
(* FreeBlock nodes ordered by address, each with the largest block size in *)
(* its subtree.  A tree is a record of the fields of all nodes, nil_       *)
(* included; the operators are the member functions, as functions from a   *)
(* tree to a tree.  left_rotate and right_rotate, and the two branches of  *)
(* each fixup, are mirror images and take the side as a parameter.         *)
(***************************************************************************)
EXTENDS Integers, FiniteSets, FiniteSetsExt

CONSTANTS
  Addr,   \* addresses a node can have
  Nil     \* the sentinel nil_

ASSUME AddrAssumption == Addr \subseteq Nat /\ Nil \notin Addr

Sides == {"left", "right"}
Other(s) == IF s = "left" THEN "right" ELSE "left"

\* The constructor's tree before its insert_node: only the sentinel.
Empty ==
  [ root   |-> Nil,
    kid    |-> [s \in Sides |-> [a \in Addr \cup {Nil} |-> Nil]],
    parent |-> [a \in Addr \cup {Nil} |-> Nil],
    color  |-> [a \in Addr \cup {Nil} |-> "black"],
    size   |-> [a \in Addr \cup {Nil} |-> 0],
    max    |-> [a \in Addr \cup {Nil} |-> 0] ]

\* The child of its parent that x is.
SideOf(t, x) == IF t.kid["left"][t.parent[x]] = x THEN "left" ELSE "right"

-----------------------------------------------------------------------------
update_max(t, x) ==
  IF x = Nil THEN t
  ELSE [t EXCEPT !.max[x] = Max({t.size[x]} \cup {t.max[t.kid[s][x]] : s \in Sides})]

\* Mutant: stop at the first node whose maximum does not change.
RECURSIVE UpdateMaxStopsEarly(_, _)
UpdateMaxStopsEarly(t, x) ==
  LET u == update_max(t, x)
  IN  IF u.max = t.max THEN t ELSE UpdateMaxStopsEarly(u, t.parent[x])

RECURSIVE update_max_upwards(_, _)
update_max_upwards(t, x) ==
  IF x = Nil THEN t ELSE update_max_upwards(update_max(t, x), t.parent[x])

\* What hangs below p at x's place is y from now on.
Replace(t, x, y) ==
  LET p == t.parent[x]
  IN  IF p = Nil THEN [t EXCEPT !.root = y]
                 ELSE [t EXCEPT !.kid[SideOf(t, x)][p] = y]

SetParent(t, x, p) == IF x = Nil THEN t ELSE [t EXCEPT !.parent[x] = p]

\* Mutant: the inner subtree is not handed over.
RotateDropsInner(t, x, s) ==
  LET y == t.kid[Other(s)][x]
  IN  [Replace(t, x, y) EXCEPT !.kid[Other(s)][x] = Nil, !.kid[s][y] = x,
                               !.parent[y] = t.parent[x], !.parent[x] = y]

\* left_rotate for s = "left", right_rotate for s = "right".
Rotate(t, x, s) ==
  LET y     == t.kid[Other(s)][x]
      inner == t.kid[s][y]
      up    == Replace(t, x, y)
      down  == [up EXCEPT !.kid[Other(s)][x] = inner, !.kid[s][y] = x,
                          !.parent[y] = t.parent[x], !.parent[x] = y]
  IN  update_max(update_max(SetParent(down, inner, x), x), y)

-----------------------------------------------------------------------------
\* Mutant: larger addresses to the left on the way down.
RECURSIVE DescendBackwards(_, _, _, _)
DescendBackwards(t, z, x, y) ==
  IF x = Nil THEN y ELSE DescendBackwards(t, z, t.kid[IF z > x THEN "left" ELSE "right"][x], x)

\* The node below which insert_node hangs z.
RECURSIVE Descend(_, _, _, _)
Descend(t, z, x, y) ==
  IF x = Nil THEN y ELSE Descend(t, z, t.kid[IF z < x THEN "left" ELSE "right"][x], x)

Paint(t, x, c) == [t EXCEPT !.color[x] = c]

RECURSIVE rb_insert_fixup(_, _)
rb_insert_fixup(t, z) ==
  LET p     == t.parent[z]
      g     == t.parent[p]
      s     == SideOf(t, p)
      uncle == t.kid[Other(s)][g]
      bent  == t.kid[Other(s)][p] = z
      t1    == IF bent THEN Rotate(t, p, s) ELSE t
      z1    == IF bent THEN p ELSE z
      p1    == t1.parent[z1]
      g1    == t1.parent[p1]
  IN  IF t.color[p] # "red" THEN Paint(t, t.root, "black")
      ELSE IF t.color[uncle] = "red"
           THEN rb_insert_fixup(Paint(Paint(Paint(t, p, "black"), uncle, "black"), g, "red"), g)
           ELSE rb_insert_fixup(Rotate(Paint(Paint(t1, p1, "black"), g1, "red"), g1, Other(s)), z1)

\* insert_node of a block of n bytes at z.
insert_node(t, z, n) ==
  LET y      == Descend(t, z, t.root, Nil)
      placed == [t EXCEPT !.parent[z] = y, !.color[z] = "red", !.size[z] = n, !.max[z] = n]
      linked == IF y = Nil THEN [placed EXCEPT !.root = z]
                ELSE [placed EXCEPT !.kid[IF z < y THEN "left" ELSE "right"][y] = z]
  IN  rb_insert_fixup(update_max_upwards(linked, z), z)

-----------------------------------------------------------------------------
\* minimum for s = "left", maximum for s = "right".
RECURSIVE Outermost(_, _, _)
Outermost(t, x, s) == IF t.kid[s][x] = Nil THEN x ELSE Outermost(t, t.kid[s][x], s)

\* Mutant: up one level only.
ClimbOnce(t, x, s) == t.parent[x]

\* Up to the first ancestor on whose other side x is.
RECURSIVE Climb(_, _, _)
Climb(t, x, s) ==
  LET y == t.parent[x] IN IF y # Nil /\ t.kid[s][y] = x THEN Climb(t, y, s) ELSE y

\* The neighbour of x on side s in address order.
Neighbour(t, x, s) ==
  IF t.kid[s][x] # Nil THEN Outermost(t, t.kid[s][x], Other(s)) ELSE Climb(t, x, s)

predecessor(t, x) == Neighbour(t, x, "left")
successor(t, x)   == Neighbour(t, x, "right")

rb_transplant(t, u, v) == SetParent(Replace(t, u, v), v, t.parent[u])

\* Mutant: the sibling's subtree is recoloured and never rotated.
RECURSIVE DeleteFixupRecolours(_, _, _)
DeleteFixupRecolours(t, x, x_parent) ==
  IF x = t.root \/ t.color[x] = "red" THEN IF x = Nil THEN t ELSE Paint(t, x, "black")
  ELSE LET w == t.kid[Other(IF t.kid["left"][x_parent] = x THEN "left" ELSE "right")][x_parent]
       IN  DeleteFixupRecolours(IF w = Nil THEN t ELSE Paint(t, w, "red"), x_parent, t.parent[x_parent])

\* Mutant: a black node that is reached on the way up ends the loop.
DeleteFixupOneLevel(t, x, x_parent) ==
  LET s  == IF t.kid["left"][x_parent] = x THEN "left" ELSE "right"
      o  == Other(s)
      w  == t.kid[o][x_parent]
      t1 == IF t.color[w] = "red"
            THEN Rotate(Paint(Paint(t, w, "black"), x_parent, "red"), x_parent, s) ELSE t
      w1 == t1.kid[o][x_parent]
      t2 == IF t1.color[t1.kid[o][w1]] = "black"
            THEN Rotate(Paint(Paint(t1, t1.kid[s][w1], "black"), w1, "red"), w1, o) ELSE t1
      w2 == t2.kid[o][x_parent]
      t3 == Rotate(Paint(Paint(Paint(t2, w2, t2.color[x_parent]), x_parent, "black"),
                         t2.kid[o][w2], "black"), x_parent, s)
  IN  IF x = t.root \/ t.color[x] = "red"
      THEN IF x = Nil THEN t ELSE Paint(t, x, "black")
      ELSE IF \A i \in Sides : t1.color[t1.kid[i][w1]] = "black"
           THEN Paint(IF w1 = Nil THEN t1 ELSE Paint(t1, w1, "red"), x_parent, "black")
           ELSE Paint(t3, t3.root, "black")

RECURSIVE rb_delete_fixup(_, _, _)
rb_delete_fixup(t, x, x_parent) ==
  LET s  == IF t.kid["left"][x_parent] = x THEN "left" ELSE "right"
      o  == Other(s)
      w  == t.kid[o][x_parent]
      t1 == IF t.color[w] = "red"
            THEN Rotate(Paint(Paint(t, w, "black"), x_parent, "red"), x_parent, s) ELSE t
      w1 == t1.kid[o][x_parent]
      t2 == IF t1.color[t1.kid[o][w1]] = "black"
            THEN Rotate(Paint(Paint(t1, t1.kid[s][w1], "black"), w1, "red"), w1, o) ELSE t1
      w2 == t2.kid[o][x_parent]
      t3 == Rotate(Paint(Paint(Paint(t2, w2, t2.color[x_parent]), x_parent, "black"),
                         t2.kid[o][w2], "black"), x_parent, s)
  IN  IF x = t.root \/ t.color[x] = "red"
      THEN IF x = Nil THEN t ELSE Paint(t, x, "black")
      ELSE IF \A i \in Sides : t1.color[t1.kid[i][w1]] = "black"
           THEN rb_delete_fixup(IF w1 = Nil THEN t1 ELSE Paint(t1, w1, "red"),
                                x_parent, t1.parent[x_parent])
           ELSE Paint(t3, t3.root, "black")

\* delete_node, z having at most one child, on side s.
SpliceOut(t, z, s) ==
  [ tree |-> update_max_upwards(rb_transplant(t, z, t.kid[s][z]), t.parent[z]),
    black |-> t.color[z] = "black", x |-> t.kid[s][z], x_parent |-> t.parent[z] ]

\* delete_node, z having two children: its successor y takes its place.
PutInPlace(t, z) ==
  LET y     == Outermost(t, t.kid["right"][z], "left")
      x     == t.kid["right"][y]
      near  == t.parent[y] = z
      freed == IF near THEN t
               ELSE SetParent([rb_transplant(t, y, x) EXCEPT !.kid["right"][y] = t.kid["right"][z]],
                              t.kid["right"][z], y)
      moved == [rb_transplant(freed, z, y) EXCEPT !.kid["left"][y] = t.kid["left"][z],
                                                  !.color[y] = t.color[z]]
      from  == IF near THEN y ELSE t.parent[y]
  IN  [ tree |-> update_max_upwards(update_max(SetParent(moved, t.kid["left"][z], y), y), from),
        black |-> t.color[y] = "black", x |-> x, x_parent |-> from ]

\* The memory of a removed node is no longer a node.
Forget(t, z) ==
  [t EXCEPT !.kid["left"][z] = Nil, !.kid["right"][z] = Nil, !.parent[z] = Nil,
            !.color[z] = "black", !.size[z] = 0, !.max[z] = 0]

delete_node(t, z) ==
  LET cut == IF t.kid["left"][z] = Nil THEN SpliceOut(t, z, "right")
             ELSE IF t.kid["right"][z] = Nil THEN SpliceOut(t, z, "left")
             ELSE PutInPlace(t, z)
  IN  Forget(IF cut.black THEN rb_delete_fixup(cut.tree, cut.x, cut.x_parent) ELSE cut.tree, z)

\* A coalescing deallocate lets a node grow where it is.
Grow(t, x, n) == update_max_upwards([t EXCEPT !.size[x] = n], x)

-----------------------------------------------------------------------------
\* Mutant: the node itself is looked at before its left subtree.
RECURSIVE FitRootFirst(_, _, _)
FitRootFirst(t, x, size) ==
  IF x = Nil \/ t.size[x] >= size THEN x
  ELSE FitRootFirst(t, t.kid[IF t.max[t.kid["left"][x]] >= size THEN "left" ELSE "right"][x], size)

\* The loop of find_first_fit, from node x.  The sizes asked for are positive
\* and nil_'s subtree_max is zero, so comparing it stands for the nil_ tests.
RECURSIVE FitBelow(_, _, _)
FitBelow(t, x, size) ==
  IF x = Nil THEN Nil
  ELSE IF t.max[t.kid["left"][x]] >= size THEN FitBelow(t, t.kid["left"][x], size)
  ELSE IF t.size[x] >= size THEN x
  ELSE IF t.max[t.kid["right"][x]] >= size THEN FitBelow(t, t.kid["right"][x], size)
  ELSE Nil

find_first_fit(t, size) == FitBelow(t, t.root, size)

-----------------------------------------------------------------------------
RECURSIVE Subtree(_, _)
Subtree(t, x) ==
  IF x = Nil THEN {} ELSE {x} \cup UNION {Subtree(t, t.kid[s][x]) : s \in Sides}

\* The nodes of a tree, and the blocks they are.
Nodes(t)   == Subtree(t, t.root)
Content(t) == {[off |-> x, size |-> t.size[x]] : x \in Nodes(t)}

\* verify_tree(root_) returns: children know their parent, and every
\* subtree_max is what update_max would make it.
verify_tree(t) ==
  \A x \in Nodes(t) :
    /\ \A s \in Sides : t.kid[s][x] # Nil => t.parent[t.kid[s][x]] = x
    /\ update_max(t, x) = t
=============================================================================
