--------------------------- MODULE MCLocalTracker ---------------------------
(***************************************************************************)
(* Bounded instances of LocalTracker: a ring of three slots goes round     *)
(* more than once within MaxEvents.                                        *)
(***************************************************************************)
EXTENDS LocalTracker
=============================================================================
