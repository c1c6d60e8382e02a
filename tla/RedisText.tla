------------------------------ MODULE RedisText ------------------------------
(***************************************************************************)
(* The strings src/src/redis.cpp keeps in redis.  A stored value is a      *)
(* string of tokens separated by ':', modelled as the sequence of its      *)
(* tokens: <<>> stands for an absent hash field and <<Empty>> for "".      *)
(* Tokens contain no ':' themselves.                                       *)
(***************************************************************************)
EXTENDS Naturals, Sequences, FiniteSets, FiniteSetsExt

CONSTANTS
    Tokens,     \* the ':'-free strings
    Empty,      \* the empty string
    Null,       \* the string "null"
    Cut(_, _)   \* Cut(t, w): t without the first occurrence of w inside it

ASSUME TokensAssumption ==
    /\ Empty \in Tokens
    /\ Null \in Tokens
    /\ Empty # Null
    /\ \A t, w \in Tokens : Cut(t, w) \in Tokens

Text == Seq(Tokens)

\* reply->len == 0, for a missing field as well as for an empty one.
NoReply(s) == s \in {<<>>, <<Empty>>}

\* cleanup_str: strip one leading ':'.
Cleanup(s) == IF Len(s) > 1 /\ Head(s) = Empty THEN Tail(s) ELSE s

\* redis_getval, on the text of the field it reads.
GetVal(s) == Cleanup(IF NoReply(s) THEN <<Null>> ELSE s)

\* A variant that overwrites the text instead of adding to it.
Overwritten(s, w) == <<w>>

\* "rep_str + ":" + val", or val alone when the field held nothing.
Joined(s, w) == IF NoReply(s) THEN <<w>> ELSE Append(s, w)

\* source.find(w) and source.erase(found, w.length()).
Holding(s, w) == {i \in DOMAIN s : Cut(s[i], w) # s[i]}
Erased(s, w) ==
    IF Holding(s, w) = {} THEN s
    ELSE LET i == Min(Holding(s, w)) IN [s EXCEPT ![i] = Cut(s[i], w)]

\* How often w is listed in s, read the way split(.., ":") reads it.
Occ(s, w) == Cardinality({i \in DOMAIN s : s[i] = w})

\* No token lies inside another one: erasing w only ever clears whole tokens.
WholeTokens == \A t, w \in Tokens : Cut(t, w) = IF t = w THEN Empty ELSE t
==============================================================================
