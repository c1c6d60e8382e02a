------------------------------ MODULE MCRecords ------------------------------
(***************************************************************************)
(* A small instance of Records: two columns and two values, five calls.    *)
(***************************************************************************)
EXTENDS Records, TLC

CONSTANTS c1, c2, v1, v2

MCIds == <<"0", "1", "2", "3", "4", "5">>

Swaps == Permutations({c1, c2}) \cup Permutations({v1, v2})
==============================================================================
