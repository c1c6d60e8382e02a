----------------------------- MODULE MCRedisStore ----------------------------
(***************************************************************************)
(* Small instances of RedisStore: the values the configurations give to    *)
(* its constants.                                                          *)
(***************************************************************************)
EXTENDS RedisStore

MCEntities == {"2", "3"}
MCAttrs == {"ext"}
MCVals == {"mp3", "2", ""}
MCTokens == MCEntities \cup MCVals \cup {"", "null"}

\* No token lies inside another one.  A value may read like a file id, as the
\* counter's does.
MCCut(t, w) == IF t = w THEN "" ELSE t

\* File ids 2 and 12: the string "12" holds the string "2".
OverlapEntities == {"2", "12"}
OverlapVals == {"mp3"}
OverlapTokens == {"1", "2", "12", "mp3", "", "null"}
OverlapCut(t, w) ==
    IF t = "12" /\ w \in {"1", "2"} THEN IF w = "1" THEN "2" ELSE "1"
    ELSE IF t = w THEN "" ELSE t
==============================================================================
