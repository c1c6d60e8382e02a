---------------------------- MODULE MCKhanFiles ------------------------------
(***************************************************************************)
(* A small instance of KhanFiles: a file of the registered type and one of *)
(* another type; clients name the root, the selector "@v", the location    *)
(* test2, and the first file's name, which a path can then give to another.*)
(***************************************************************************)
EXTENDS KhanFiles, TLC

MCFiles == {"a.im7", "b.txt"}
MCType == [n \in MCFiles |-> IF n = "a.im7" THEN "im7" ELSE "txt"]
MCValue == [n \in MCFiles |-> "0.58"]
MCDirs == {<<>>, <<Selectors(<<"v">>)>>, <<Name("location"), Name("test2")>>,
           <<Name("name"), Name("a.im7")>>}
MCIds == <<"1", "2", "3">>
MCTokens == MCFiles \cup TokensOf(MCIds) \cup
    {"im7", "txt", "0.58", "v", "vtags", "name", "ext", "file_path", "tags", "S", "attrs",
     "server", "location", "experiment_id", "test1", "test2", "7", "all", "", "null"}
MCCut(t, w) == IF t = w THEN "" ELSE t
Swaps == Permutations(Threads)
==============================================================================
