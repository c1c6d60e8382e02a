------------------------------ MODULE KhanText -------------------------------
(***************************************************************************)
(* The algorithms of utils.cpp and khan.cpp on the texts that the database *)
(* returns: lists of tokens with a ':' in between, modelled as in          *)
(* RedisText.  strtok_r skips empty tokens; getline yields them, except    *)
(* after the last ':'.                                                     *)
(***************************************************************************)
EXTENDS RedisText

TokensOf(s) == {s[i] : i \in DOMAIN s}

\* The tokens of s that are in S, as a loop over s collects them.
Kept(s, S) ==
    LET kept[i \in 0..Len(s)] ==
            IF i = 0 THEN <<>>
            ELSE IF s[i] \in S THEN Append(kept[i - 1], s[i]) ELSE kept[i - 1]
    IN  kept[Len(s)]

\* split(.., ":")
Split(s) == Kept(s, Tokens \ {Empty})

\* join(.., ":")
Join(v) == IF v = <<>> THEN <<Empty>> ELSE v

\* The tokens of a loop over getline(.., ':').
Lines(s) == IF s[Len(s)] = Empty THEN SubSeq(s, 1, Len(s) - 1) ELSE s

\* A variant that compares with the last token of files2 only.
SubtractLast(files1, files2) ==
    <<Empty>> \o Kept(Lines(files1),
        IF Lines(files2) = <<>> THEN Tokens ELSE Tokens \ {Lines(files2)[Len(Lines(files2))]})

\* Every token kept is put behind a ':' of its own.
Subtract(files1, files2) ==
    <<Empty>> \o Kept(Lines(files1), Tokens \ TokensOf(Lines(files2)))

\* A variant that starts after the first token.
IntersectRest(files1, files2) ==
    LET rest == IF files1 = <<Empty>> THEN <<>> ELSE Tail(Lines(files1))
    IN  <<Empty>> \o Kept(rest, TokensOf(Lines(files2)))

\* Once for every pair of equal tokens.
Intersect(files1, files2) ==
    LET found[i \in 0..Len(Lines(files1))] ==
            IF i = 0 THEN <<>>
            ELSE found[i - 1] \o Kept(Lines(files2), {Lines(files1)[i]})
    IN  <<Empty>> \o found[Len(Lines(files1))]

\* Every common token once, in the order of the first text.
StrIntersect(str1, str2) ==
    LET ret[i \in 0..Len(Split(str1))] ==
            IF i = 0 THEN <<>>
            ELSE LET t == Split(str1)[i]
                 IN  IF t \in TokensOf(Split(str2)) \ TokensOf(ret[i - 1])
                     THEN Append(ret[i - 1], t) ELSE ret[i - 1]
    IN  Join(ret[Len(Split(str1))])

\* A variant that counts the empty tokens as well.
CountAll(s) == IF s = <<Null>> THEN 0 ELSE Len(Lines(s))

\* count_string: what st_nlink is computed from.
CountString(s) ==
    IF s = <<Null>> THEN 0
    ELSE Cardinality({i \in DOMAIN Lines(s) : Lines(s)[i] # Empty})

ContentHas(vals, val) == val \in TokensOf(Split(vals))
==============================================================================
