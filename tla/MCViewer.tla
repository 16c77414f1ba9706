------------------------------ MODULE MCViewer ------------------------------
(***************************************************************************)
(* Bounded instances of Viewer.                                            *)
(***************************************************************************)
EXTENDS Viewer
=============================================================================
