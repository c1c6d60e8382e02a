--------------------------- MODULE MCContentCache ----------------------------
(***************************************************************************)
(* A small instance of ContentCache: the texts of up to two tokens.        *)
(***************************************************************************)
EXTENDS ContentCache

MCCut(t, w) == IF t = w THEN Empty ELSE t
MCTexts == [1..1 -> Tokens] \cup [1..2 -> Tokens]
==============================================================================
