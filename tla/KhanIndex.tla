------------------------------ MODULE KhanIndex ------------------------------
(***************************************************************************)
(* The metadata index as the file operations see it: the calls of          *)
(* database.cpp on the hashes of redis.  A hash, a field, a value and an   *)
(* id are texts in the sense of RedisText: an id that was read from a name *)
(* with two entities is the text "1:2".  (RedisStore says what happens     *)
(* within a call, FileIds how ids are made.)                               *)
(***************************************************************************)
EXTENDS KhanText

VARIABLE db     \* the fields that exist, by <<hash, field>>

\* The database's calls on an index d.
At(d, h, f) == IF <<h, f>> \in DOMAIN d THEN d[<<h, f>>] ELSE <<>>
Put(d, h, f, s) ==
    [k \in DOMAIN d \cup {<<h, f>>} |-> IF k = <<h, f>> THEN s ELSE d[k]]
Drop(d, h, f) == [k \in DOMAIN d \ {<<h, f>>} |-> d[k]]

\* database_getval and database_getvals (the latter in no order).
Lookup(h, f) == GetVal(At(db, h, f))
\* The keys of a hash that does not exist read as the one key "null".
KeysOf(h) ==
    LET fields == {k[2] : k \in {j \in DOMAIN db : j[1] = h}}
    IN  IF fields = {} THEN {Null} ELSE UNION {TokensOf(f) \ {Empty} : f \in fields}

AddTo(s, w) == IF NoReply(s) THEN w ELSE s \o w

Set(d, f, c, v) ==
    LET e == Put(d, f, c, AddTo(At(d, f, c), v))
    IN  Put(e, c, v, AddTo(At(e, c, v), f))

\* source.find(w) and source.erase(..) for a w of several tokens.
Places(s, w) == {i \in 1..(Len(s) + 1 - Len(w)) : SubSeq(s, i, i + Len(w) - 1) = w}

\* A variant that takes the separators away as well.
EraseClean(s, w) ==
    IF Places(s, w) = {} THEN s
    ELSE LET i == Min(Places(s, w))
         IN  SubSeq(s, 1, i - 1) \o SubSeq(s, i + Len(w), Len(s))

EraseFrom(s, w) ==
    IF Places(s, w) = {} THEN s
    ELSE LET i == Min(Places(s, w))
         IN  SubSeq(s, 1, i - 1) \o <<Empty>> \o SubSeq(s, i + Len(w), Len(s))

Remove(d, f, c, v) ==
    LET source == At(d, f, c)
        left == EraseFrom(source, v)
        e == IF NoReply(source) THEN d
             ELSE IF left = <<Empty>> THEN Drop(d, f, c) ELSE Put(d, f, c, left)
    IN  Put(e, c, v, EraseFrom(GetVal(At(e, c, v)), f))
==============================================================================
