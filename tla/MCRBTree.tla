------------------------------ MODULE MCRBTree ------------------------------
(***************************************************************************)
(* Bounded instances of RBTree.  Eight nodes, of either size each, reach   *)
(* every case of both fixups on both sides.  A delete fixup that moves up  *)
(* past a black parent takes ten nodes, of which one at a time is large.   *)
(***************************************************************************)
EXTENDS RBTree
=============================================================================
