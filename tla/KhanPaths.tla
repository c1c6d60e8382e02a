------------------------------ MODULE KhanPaths ------------------------------
(***************************************************************************)
(* What a path means to khan_getattr and to xmp_readdir, on a given index. *)
(* A path is the sequence of its names, attr/val/attr/val/..; level k is   *)
(* its k-th pair.  Both go down level by level, each with a text of its    *)
(* own of the ids below the values passed so far.                          *)
(*                                                                         *)
(* What a client writes is a sequence of pieces: a name, or selectors      *)
(* ("@x@y") that resolve_selectors turns into pairs of attribute and value.*)
(***************************************************************************)
EXTENDS KhanIndex

CONSTANT Glued  \* a name with "tags" stuck to its end

AttrAt(path, k) == path[2 * k - 1]
ValAt(path, k) == path[2 * k]
After(path, k) == path[2 * k + 1]

AllAttrs == KeysOf(<<"attrs">>)
HasValue(attr, val) == val \in KeysOf(<<attr>>) \/ attr = "tags"

\* dir_content at each level, as khan_getattr and as xmp_readdir combine it with
\* the last level's.
Here(path, k) == Lookup(<<AttrAt(path, k)>>, <<ValAt(path, k)>>)

Content(path) ==
    LET c[k \in 1..(Len(path) \div 2)] ==
            IF k = 1 THEN Here(path, k) ELSE StrIntersect(c[k - 1], Here(path, k))
    IN  c

ContentListed(path) ==
    LET c[k \in 1..(Len(path) \div 2)] ==
            IF k = 1 THEN Here(path, k) ELSE Intersect(c[k - 1], Here(path, k))
    IN  c
------------------------------------------------------------------------------
(* resolve_selectors *)

Name(t) == [selectors |-> FALSE, names |-> <<t>>]
Selectors(ts) == [selectors |-> TRUE, names |-> ts]

\* A variant without the separator.
SelectedGlued(before, x) ==
    LET having == {a \in AllAttrs : x \in KeysOf(<<a>>)}
        stem == IF before = <<>> THEN <<>> ELSE [before EXCEPT ![Len(before)] = Glued]
    IN  IF having # {} THEN {IF stem = <<>> THEN <<a, x>> ELSE Append(stem, x) : a \in having}
        ELSE {IF stem = <<>> THEN <<"tags", x>> ELSE Append(stem, x)}

\* One selector after what the ones before it in the piece gave: an attribute
\* that has this value (which one depends on the order of the keys), else a tag;
\* only the former is separated from what stands there.
Selected(before, x) ==
    LET having == {a \in AllAttrs : x \in KeysOf(<<a>>)}
    IN  IF having # {} THEN {before \o <<a, x>> : a \in having}
        ELSE IF before = <<>> THEN {<<"tags", x>>}
        ELSE {[before EXCEPT ![Len(before)] = Glued] \o <<x>>}

Expanded(piece) ==
    IF ~piece.selectors THEN {piece.names}
    ELSE LET e[j \in 0..Len(piece.names)] ==
                 IF j = 0 THEN {<<>>}
                 ELSE UNION {Selected(r, piece.names[j]) : r \in e[j - 1]}
         IN  e[Len(piece.names)]

Resolve(pieces) ==
    LET p[i \in 0..Len(pieces)] ==
            IF i = 0 THEN {<<>>}
            ELSE UNION {{r \o q : q \in Expanded(pieces[i])} : r \in p[i - 1]}
    IN  p[Len(pieces)]
------------------------------------------------------------------------------
(* khan_getattr *)

AttrKnown(path, k) == Lookup(<<"attrs">>, <<AttrAt(path, k)>>) # <<Null>>
ValKnown(path, k) == AttrKnown(path, k) /\ HasValue(AttrAt(path, k), ValAt(path, k))

\* A variant that looks for the name among the ids.
FileByName(path, k) == ContentHas(Content(path)[k], After(path, k))

\* The name after level k is one of a file of that level.
FileAt(path, k) ==
    LET fileid == Lookup(<<"name">>, <<After(path, k)>>)
    IN  Len(fileid) = 1 /\ ContentHas(Content(path)[k], fileid[1])

\* The loop goes on to level k: every level before leads to an attribute.
Gets(path, k) ==
    \A j \in 1..(k - 1) :
        ValKnown(path, j) /\ ~FileAt(path, j) /\ After(path, j) \in AllAttrs

IsFile(path) ==
    LET k == Len(path) \div 2
    IN  Len(path) = 2 * k + 1 /\ k > 0 /\ Gets(path, k) /\ ValKnown(path, k) /\ FileAt(path, k)

IsDir(path) ==
    LET k == (Len(path) + 1) \div 2
    IN  \/ path = <<>>
        \/ Gets(path, k) /\ IF Len(path) = 2 * k THEN ValKnown(path, k) ELSE AttrKnown(path, k)

Getattr(path) ==
    IF IsFile(path) THEN "file" ELSE IF IsDir(path) THEN "dir" ELSE "none"
------------------------------------------------------------------------------
(* xmp_readdir; the names of the files in a directory are texts *)

Lists(path, k) ==
    \A j \in 1..k :
        /\ AttrAt(path, j) \in AllAttrs
        /\ j < k => HasValue(AttrAt(path, j), ValAt(path, j)) /\ After(path, j) \in AllAttrs

\* The values of an attribute that some file listed so far has.
ValuesBelow(path, k) ==
    LET attr == AttrAt(path, k)
        sofar == ContentListed(path)
    IN  {v \in KeysOf(<<attr>>) :
            k = 1 \/ StrIntersect(sofar[k - 1], Lookup(<<attr>>, <<v>>)) # <<Empty>>}

DirsIn(path) ==
    LET k == (Len(path) + 1) \div 2
    IN  IF path = <<>> THEN AllAttrs
        ELSE IF ~Lists(path, k) THEN {}
        ELSE IF Len(path) = 2 * k - 1 THEN ValuesBelow(path, k)
        ELSE IF HasValue(AttrAt(path, k), ValAt(path, k))
        THEN AllAttrs \ ({AttrAt(path, j) : j \in 1..k} \cup {"none"})
        ELSE {}

FilesIn(path) ==
    LET k == Len(path) \div 2
    IN  IF k > 0 /\ Len(path) = 2 * k /\ Lists(path, k) /\ HasValue(AttrAt(path, k), ValAt(path, k))
        THEN {Lookup(<<i>>, <<"name">>) : i \in TokensOf(Split(ContentListed(path)[k]))}
        ELSE {}
==============================================================================
