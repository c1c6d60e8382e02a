------------------------------ MODULE MCIngest -------------------------------
(***************************************************************************)
(* A small instance of Ingest.  One sender's server has a name of 24       *)
(* characters, and below it a short name in the root, two regular names in *)
(* the directory a, a short and a long one in a/b, and a regular one in    *)
(* a/c; the short one's path without its last ten characters is a's.       *)
(* Another sender's server has a short name.                               *)
(***************************************************************************)
EXTENDS Ingest

CONSTANTS s1, s2

MCFiles == 1..7
MCServes == [s \in {s1, s2} |-> IF s = s1 THEN 1..6 ELSE {7}]
MCDir == <<"", "/a", "/a", "/a/b", "/a/b", "/a/c", "/x">>
MCDepth == <<0, 1, 1, 2, 2, 2, 0>>
MCAbove == [d \in {"", "/a", "/a/b", "/a/c", "/x"} |->
    CASE d \in {"", "/x"} -> {} [] d = "/a" -> {""} [] OTHER -> {"", "/a"}]
MCDirLen == <<25, 27, 27, 29, 29, 29, 5>>
MCNameLen == <<8, 10, 10, 8, 11, 10, 10>>
MCFull == MCFiles \ {3}

MCShared(f, g) ==
    CASE f = g -> MCDirLen[f] + MCNameLen[f]
      [] f # g /\ MCDir[f] = MCDir[g] -> MCDirLen[f] + 2
      [] {f, g} \subseteq 2..6 /\ MCDir[f] # MCDir[g] -> 27
      [] 7 \in {f, g} /\ f # g -> 1
      [] OTHER -> 25
==============================================================================
