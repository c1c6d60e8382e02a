------------------------------ MODULE MCFileIds ------------------------------
(***************************************************************************)
(* Small instances of FileIds.  Ids are natural numbers and every other    *)
(* string is a model value.                                                *)
(***************************************************************************)
EXTENDS FileIds

MCEntities == {LastId} \cup 1..(MaxIds + 1)
MCAttrs == {ValCol, NameCol}
MCVals == Files \cup 1..(MaxIds + 1)
MCTokens == MCEntities \cup MCVals \cup {Empty, Null}
MCCut(t, w) == IF t = w THEN Empty ELSE t

ASSUME CutAssumption == ErasesItself
==============================================================================
