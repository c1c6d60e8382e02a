--------------------------- MODULE MCKhanListings ----------------------------
(***************************************************************************)
(* A small instance of KhanListings: two tokens that do not overlap and    *)
(* may be swapped.                                                         *)
(***************************************************************************)
EXTENDS KhanListings, TLC

MCCut(t, w) == IF t = w THEN Empty ELSE t
Swaps == Permutations(Listable)
==============================================================================
