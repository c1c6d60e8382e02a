----------------------------- MODULE MCLocalize ------------------------------
(***************************************************************************)
(* A small instance of Localize: two servers, winter.mp3 and one more      *)
(* file, each with nothing, one count or two counts stored for a server.   *)
(* winter.mp3 may be unknown to the index, and all_mp3s may list none, one *)
(* or both of the files, or a name that is no file's.                      *)
(***************************************************************************)
EXTENDS Localize

MCServers == <<"s0", "s1">>
MCServerIds == <<"i0", "i1">>
MCFiles == {"winter.mp3", "a.mp3"}
MCUnder(s, n) == s \o "/" \o n[1]
MCIds == <<"3", "4", "5", "6", "7", "8">>
MCDirs == {"/x", "location"}
MCTokens ==
    MCFiles \cup {"s0", "s1", "i0", "i1", "1", "2", "3", "4", "5", "6", "7", "8", "attrs", "name", "server",
        "location", "all_mp3s", "alldirs", "paths", "/x", "", "null", "v", "s0/winter.mp3",
        "s1/winter.mp3", "s0/a.mp3", "s1/a.mp3", "s0/null", "s1/null", "im7", "b.mp3"}
MCNum == [t \in MCTokens |-> CASE t = "1" -> 1 [] t = "2" -> 2 [] t = "3" -> 3
                               [] t = "4" -> 4 [] t = "5" -> 5 [] OTHER -> 0]
MCCut(t, w) == IF t = w THEN "" ELSE t

Id == [f \in MCFiles \cup {"b.mp3"} |-> IF f = "a.mp3" THEN "1" ELSE "2"]
Fact(f, c, v) == <<<<Id[f]>>, <<c>>, <<v>>>>
Created(f) == <<Fact(f, "name", f), Fact(f, "server", "s0")>>
Counted(f, j, us) == [k \in DOMAIN us |-> Fact(f, MCServerIds[j], us[k])]
Counts == {<<>>, <<"2">>, <<"1", "3">>}

MCHistories ==
    {<<<<<<"im7">>, <<"attrs">>, <<"location">>>>>> \o Created("a.mp3")
       \o (IF known THEN Created("winter.mp3") ELSE <<>>)
       \o [i \in 1..Cardinality(l) |-> Fact(Seqs!SetToSeq(l)[i], "all_mp3s", Seqs!SetToSeq(l)[i])]
       \o Counted("a.mp3", 1, u) \o Counted("a.mp3", 2, v)
       \o (IF known THEN Counted("winter.mp3", 1, v) \o Counted("winter.mp3", 2, w) ELSE <<>>) :
     known \in BOOLEAN, l \in SUBSET MCFiles \cup {{"winter.mp3", "b.mp3"}}, u \in Counts, v \in Counts, w \in Counts}
==============================================================================
