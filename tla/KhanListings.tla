---------------------------- MODULE KhanListings -----------------------------
(***************************************************************************)
(* Two fields of a column's hash, changed by redis_setval and              *)
(* redis_remove_val in any order, and what khan.cpp computes from the      *)
(* texts they come to hold: empty tokens where something was removed,      *)
(* tokens listed twice, "null" written back as a token.                    *)
(***************************************************************************)
EXTENDS KhanText

CONSTANTS
    Listable,   \* the tokens that are listed: file ids, or attribute names
    MaxTokens   \* bound: tokens in a field

ASSUME ListingsAssumption ==
    /\ Listable \subseteq Tokens \ {Empty, Null}
    /\ MaxTokens \in Nat

VARIABLES
    left,    \* the text of one field, e.g. of one attribute and value
    right    \* the text of another one

texts == <<left, right>>

ListingsInit == left = <<>> /\ right = <<>>

Changed(s) ==
    {Joined(s, w) : w \in Listable} \cup {Erased(GetVal(s), w) : w \in Listable}

ChangeLeft ==
    /\ left' \in Changed(left)
    /\ Len(left') <= MaxTokens
    /\ UNCHANGED right

ChangeRight ==
    /\ right' \in Changed(right)
    /\ Len(right') <= MaxTokens
    /\ UNCHANGED left

ListingsNext == ChangeLeft \/ ChangeRight

ListingsSpec == ListingsInit /\ [][ListingsNext]_texts
------------------------------------------------------------------------------
\* What redis_getval returns for the two fields.
leftVal == GetVal(left)
rightVal == GetVal(right)

Listed(s) == TokensOf(Split(s))

(***************************************************************************)
(* What a directory offers below itself: readdir subtracts the attributes  *)
(* on the path from all attributes, and exactly those go, wherever empty   *)
(* tokens stand in either text.                                            *)
(***************************************************************************)
SubtractRight == Listed(Subtract(leftVal, rightVal)) = Listed(leftVal) \ Listed(rightVal)

(***************************************************************************)
(* khan_getattr intersects with str_intersect and readdir with intersect,  *)
(* and each goes on with its own result at the next level of the path:     *)
(* they still agree on which files are there.                              *)
(***************************************************************************)
IntersectionsAgree ==
    /\ Listed(StrIntersect(leftVal, rightVal)) = Listed(leftVal) \cap Listed(rightVal)
    /\ Listed(Intersect(leftVal, rightVal)) = Listed(leftVal) \cap Listed(rightVal)
    /\ Listed(Intersect(Intersect(leftVal, rightVal), leftVal)) =
           Listed(StrIntersect(StrIntersect(leftVal, rightVal), leftVal))

(***************************************************************************)
(* The link count khan_getattr gives a directory is the number of entries  *)
(* that readdir lists in it, except that the text "null" counts as none.   *)
(***************************************************************************)
LinksMatchEntries ==
    CountString(leftVal) = IF leftVal = <<Null>> THEN 0 ELSE Len(Split(leftVal))
==============================================================================
