------------------------ MODULE MCVisualizationArena ------------------------
(***************************************************************************)
(* Bounded instances of VisualizationArena.  Threads and objects are       *)
(* interchangeable, and no property checked here is a liveness property.   *)
(***************************************************************************)
EXTENDS VisualizationArena, TLC

Symmetry == Permutations(Threads) \cup Permutations(Handles)
=============================================================================
