--------------------------- MODULE MCFreeListTree ---------------------------
(***************************************************************************)
(* Bounded instances of FreeListTree: requests above 128 bytes, so that    *)
(* the tree and not the small lists is at work.                            *)
(***************************************************************************)
EXTENDS FreeListTree
=============================================================================
