------------------------------ MODULE KhanFiles ------------------------------
(***************************************************************************)
(* Files over the metadata index: what arrives over EVPath                 *)
(* (extract_attr_init) and the FUSE operations that change the index or    *)
(* the disk (fuseapi.cpp).  Every operation looks the file's id up by its  *)
(* name and then makes several calls of the database; each call is one     *)
(* step, and the calls of different threads interleave.                    *)
(*                                                                         *)
(* On the disk stand the files that arrived, under the path they have at   *)
(* the sender, and whatever an operation makes under the relative path     *)
(* "null", which append_path2 gives for a name without a file_path.        *)
(***************************************************************************)
EXTENDS KhanPaths

CONSTANTS
    Threads,     \* the EVPath thread and FUSE workers
    Files,       \* base names; also stands for the path a file arrived under
    Type,        \* Type[n]: the extension of n
    Known,       \* the type that transducers.txt registers
    Value,       \* Value[n]: what the script extracts from the path of n
    Experiment,  \* the experiment of the files that arrive
    Server, ServerId,   \* the one line of stores.txt
    Dirs,        \* the directories clients name: sequences of pieces
    Ids,         \* the ids in the order they are handed out
    MaxOps,      \* bound: operations, one that overlaps counting twice
    MaxOverlaps  \* bound: operations started while another one is under way

ASSUME FilesAssumption ==
    /\ Files \subseteq Tokens \ {Empty, Null}
    /\ Type \in [Files -> Tokens] /\ Value \in [Files -> Tokens]
    /\ {Known, Server, ServerId, Glued, "name", "ext", "file_path", "tags", "S", "attrs", "all"}
          \subseteq Tokens
    /\ {"server", "location", "experiment_id", "test1", "test2", Experiment}
          \subseteq Tokens
    /\ \A dir \in Dirs : dir \in Seq([selectors : BOOLEAN, names : Seq(Tokens)])
    /\ Ids \in Seq(Tokens \ (Files \cup {"name"})) /\ "name" \notin {Empty, Null, Known}
    /\ MaxOps \in Nat /\ MaxOverlaps \in Nat

\* The columns that the program itself names.
Words == {"name", "ext", "server", "location", "file_path", "experiment_id", "tags", "S",
          "attrs", "all"}

\* Ids are numbers, each handed out once, and no column of the program is called
\* like one; nothing but the list of a type's attributes is called "attrs"; no type
\* is called "null".  Of the clients: no directory they name is called like an id or
\* "attrs", which the code does not refuse.
ASSUME NamesAssumption ==
    /\ \A j, k \in DOMAIN Ids : Ids[j] = Ids[k] => j = k
    /\ TokensOf(Ids) \cap (Words \cup {Empty, Null, Glued}) = {}
    /\ Empty \notin Words /\ Null \notin Words
    /\ "attrs" \notin Files \cup {Type[n] : n \in Files} \cup {Value[n] : n \in Files}
    /\ "attrs" \notin {Known, Glued, Experiment, Server} /\ Known # Null
    /\ \A dir \in Dirs : \A k \in DOMAIN dir :
          TokensOf(dir[k].names) \cap (TokensOf(Ids) \cup {"attrs"}) = {}

\* Of the clients, for what files are read under: no file or directory they name is
\* called "file_path", which map_path would write for them, and no selector is one of
\* the values of that attribute, or "null", which stands for those of any empty one.
ASSUME PathsAssumption ==
    /\ Glued # "file_path" /\ "file_path" \notin Files
    /\ \A dir \in Dirs : \A k \in DOMAIN dir :
          /\ "file_path" \notin TokensOf(dir[k].names)
          /\ dir[k].selectors => TokensOf(dir[k].names) \cap (Files \cup {Null}) = {}

\* The attributes of the registered type; "S" is the one the script extracts.
AttrNames ==
    <<"name", "tags", "location", "ext", "experiment_id", "file_path", "S">>
Builtin == {"name", "ext", "location", "experiment_id", "file_path", "tags"}

VARIABLES
    disk,     \* what stands under each path that exists
    next,     \* the place in Ids of the next id
    id,       \* fileid in each thread's operation
    todo,     \* the database calls each thread's operation is still to make
    ops,      \* operations so far
    overlaps, \* operations so far that were started while another was under way
    named,    \* history: the name last given to each id, Null for none
    shared,   \* history: names given while already taken, or by a path
    mixed,    \* history: ids that a path named, or that were taken for one id with
              \* others, and the names removed from several ids at once
    unlinked, \* history: the ids xmp_unlink was called for
    stray     \* history: a link or a node was put under "null"

vars == <<db, disk, next, id, todo, ops, overlaps, named, shared, mixed, unlinked,
          stray>>

Paths == Files \cup {Null}
Node == "node"      \* what mkfifo and mknod make
------------------------------------------------------------------------------
\* process_transducers has registered the type and its attributes.
Init ==
    /\ LET loaded[i \in 0..Len(AttrNames)] ==
               IF i = 0 THEN << >>
               ELSE Set(loaded[i - 1], <<Known>>, <<"attrs">>, <<AttrNames[i]>>)
       IN  db = loaded[Len(AttrNames)]
    /\ disk = [p \in Files |-> p]
    /\ next = 1
    /\ id = [t \in Threads |-> <<Null>>]
    /\ todo = [t \in Threads |-> <<>>]
    /\ ops = 0 /\ overlaps = 0
    /\ named = [i \in TokensOf(Ids) |-> Null]
    /\ shared = {} /\ mixed = {}
    /\ unlinked = {} /\ stray = FALSE

\* The calls that give a file the attributes and values of a path (map_path).
MapPath(path) ==
    LET q == Kept(path, Tokens \ {Null})
        calls[k \in 0..(Len(q) \div 2)] ==
            IF k = 0 THEN <<>>
            ELSE calls[k - 1] \o <<<<"set", AttrAt(q, k), ValAt(q, k)>>>> \o
                 IF AttrAt(q, k) = "location" /\ ValAt(q, k) = ServerId
                 THEN <<<<"set", "server", Server>>>> ELSE <<>>
    IN  calls[Len(q) \div 2]

\* append_path2, on the base name of a path.
PathOf(n) ==
    LET path == Lookup(Lookup(<<"name">>, <<n>>), <<"file_path">>)
    IN  IF Len(path) = 1 THEN path[1] ELSE Empty

\* What xmp_read and xmp_write of a name reach; Empty when they cannot open it.
Reached(n) == IF PathOf(n) \in DOMAIN disk THEN disk[PathOf(n)] ELSE Empty

\* The kernel looks every directory of a path up before it passes the call on.
Walkable(dir) == \A k \in 1..Len(dir) :
    \E path \in Resolve(SubSeq(dir, 1, k)) : Getattr(path) = "dir"
Absent(dir, n) == \E path \in Resolve(Append(dir, Name(n))) : Getattr(path) = "none"

\* Names that operations under way are about to give.
Giving == {n \in Files : \E t \in Threads : \E i \in DOMAIN todo[t] :
    todo[t][i] \in {<<"make", "name", n>>, <<"set", "name", n>>}}
Given(calls) == {n \in Files : <<"set", "name", n>> \in TokensOf(calls)}
GivesName(calls) == \E i \in DOMAIN calls : calls[i][1] = "set" /\ calls[i][2] = "name"
Holders(n) == TokensOf(Split(At(db, <<"name">>, <<n>>))) \ {Null}
Taken(n) == n \in Giving \/ Holders(n) # {}

\* An operation starts: it has looked up fileid and knows what calls to make.
\* (For the kernel's part: a name that is not in the index is found as a file in
\* /tags/x for a fresh x, and a shared one may still be in the kernel's cache.)
Start(t, fileid, calls) ==
    /\ todo[t] = <<>>
    /\ ops' = ops + 1
    /\ overlaps' = IF \E u \in Threads : todo[u] # <<>> THEN overlaps + 1 ELSE overlaps
    /\ overlaps' <= MaxOverlaps /\ ops' + overlaps' <= MaxOps
    /\ id' = [id EXCEPT ![t] = fileid]
    /\ todo' = [todo EXCEPT ![t] = calls]
    /\ UNCHANGED <<db, next, named, mixed>>

\* extract_attr_init of a file that the sender has just read under its path.
Receive(t, n) ==
    /\ Start(t, <<Null>>,
             <<<<"make", "name", n>>, <<"set", "ext", Type[n]>>,
               <<"set", "server", "test1">>, <<"set", "location", "test2">>,
               <<"set", "file_path", n>>, <<"set", "experiment_id", Experiment>>,
               <<"process", n>>>>)
    /\ shared' = IF Taken(n) THEN shared \cup {n} ELSE shared
    /\ disk' = [p \in DOMAIN disk \cup {n} |-> IF p \in DOMAIN disk THEN disk[p] ELSE n]
    /\ UNCHANGED <<unlinked, stray>>

\* A variant of khan_create that does not look the name up.
CreateAlways(t, dir, n) ==
    /\ Start(t, <<Null>>,
             <<<<"make", "name", n>>, <<"set", "server", Server>>,
               <<"set", "ext", Type[n]>>, <<"process", Empty>>, <<"map", dir, n>>>>)
    /\ Walkable(dir) /\ Absent(dir, n)
    /\ UNCHANGED <<disk, shared, unlinked, stray>>

\* khan_create of n in dir
Create(t, dir, n) ==
    LET fileid == Lookup(<<"name">>, <<n>>)
        made == <<<<"make", "name", n>>, <<"set", "server", Server>>,
                  <<"set", "ext", Type[n]>>>>
    IN  /\ Start(t, fileid, (IF fileid = <<Null>> THEN made ELSE <<>>)
                                \o <<<<"process", Empty>>, <<"map", dir, n>>>>)
        /\ Walkable(dir) /\ Absent(dir, n)
        /\ shared' = IF fileid = <<Null>> /\ Taken(n) THEN shared \cup {n} ELSE shared
        /\ UNCHANGED <<disk, unlinked, stray>>

Flush(t, n) ==
    /\ Start(t, Lookup(<<"name">>, <<n>>), <<<<"flush">>>>)
    /\ UNCHANGED <<disk, shared, unlinked, stray>>

\* A variant of xmp_rename that keeps the old name as well.
RenameKeep(t, n, dir, m) ==
    LET fileid == Lookup(<<"name">>, <<n>>)
    IN  /\ n # m
        /\ Start(t, fileid, <<<<"set", "name", m>>, <<"locate", n, dir, m>>>>)
        /\ Walkable(dir)
        /\ shared' = IF Taken(m) \/ Len(fileid) > 1 THEN shared \cup {m} ELSE shared
        /\ UNCHANGED <<disk, unlinked, stray>>

\* xmp_rename of n to m in dir
Rename(t, n, dir, m) ==
    LET fileid == Lookup(<<"name">>, <<n>>)
    IN  /\ n # m
        /\ Start(t, fileid, <<<<"remove", "name", n>>, <<"set", "name", m>>,
                              <<"locate", n, dir, m>>>>)
        /\ Walkable(dir)
        /\ shared' = IF Taken(m) \/ Len(fileid) > 1 THEN shared \cup {m} ELSE shared
        /\ UNCHANGED <<disk, unlinked, stray>>

Unlink(t, n) ==
    LET fileid == Lookup(<<"name">>, <<n>>)
    IN  /\ Start(t, fileid, <<<<"unlink", n>>, <<"delete", n>>>>)
        /\ unlinked' = unlinked \cup TokensOf(fileid)
        /\ UNCHANGED <<disk, shared, stray>>

\* xmp_link of n to a name m, and xmp_mknod of n: the index is only read.  Both
\* fail when the path exists already.
PutOnDisk(t, path, inode) ==
    /\ Start(t, id[t], <<>>)
    /\ disk' = IF path \in Paths \ DOMAIN disk
               THEN [p \in DOMAIN disk \cup {path} |-> IF p = path THEN inode ELSE disk[p]]
               ELSE disk
    /\ stray' = (stray \/ Null \in DOMAIN disk')
    /\ UNCHANGED <<shared, unlinked>>

Link(t, n, m) == Reached(n) # Empty /\ PutOnDisk(t, PathOf(m), Reached(n))

Mknod(t, n) == PutOnDisk(t, PathOf(n), Node)
------------------------------------------------------------------------------
\* The next call of a thread's operation; `more` comes before the others.
Due(t, call) == todo[t] # <<>> /\ Head(todo[t])[1] = call
Turn(t, call, more) ==
    /\ Due(t, call)
    /\ todo' = [todo EXCEPT ![t] = more \o Tail(@)]
    /\ shared' = shared \cup Given(more)
    /\ mixed' = IF GivesName(more) THEN mixed \cup TokensOf(id[t])
                ELSE IF call = "remove" /\ Len(id[t]) > 1
                THEN mixed \cup TokensOf(id[t]) \cup {Head(todo[t])[3]} ELSE mixed
    /\ UNCHANGED <<ops, overlaps, unlinked, stray>>

\* The same; fileid is kept until the operation returns.
Proceed(t, call, more) ==
    /\ Turn(t, call, more)
    /\ id' = IF todo'[t] = <<>> THEN [id EXCEPT ![t] = <<Null>>] ELSE id

\* database_setval("null", ..): a new entity, whose id the operation keeps in
\* extract_attr_init and khan_create ("make") and drops elsewhere ("set").
NewEntity(t, c, v) ==
    /\ next <= Len(Ids)
    /\ db' = Set(db, <<Ids[next]>>, <<c>>, <<v>>)
    /\ next' = next + 1
    /\ named' = IF c = "name" THEN [named EXCEPT ![Ids[next]] = v] ELSE named

MakeEntity(t) ==
    /\ Turn(t, "make", <<>>) /\ UNCHANGED disk
    /\ NewEntity(t, "name", Head(todo[t])[3])
    /\ id' = [id EXCEPT ![t] = <<Ids[next]>>]

SetVal(t) ==
    LET c == Head(todo[t])[2]
        v == Head(todo[t])[3]
    IN  /\ Proceed(t, "set", <<>>) /\ UNCHANGED disk
        /\ IF id[t] = <<Null>> THEN NewEntity(t, c, v)
           ELSE /\ db' = Set(db, id[t], <<c>>, <<v>>)
                /\ named' = IF c = "name" /\ Len(id[t]) = 1
                            THEN [named EXCEPT ![id[t][1]] = v] ELSE named
                /\ UNCHANGED next

RemoveVal(t) ==
    /\ Proceed(t, "remove", <<>>)
    /\ db' = Remove(db, id[t], <<Head(todo[t])[2]>>, <<Head(todo[t])[3]>>)
    /\ UNCHANGED <<disk, next, named>>

\* What the script says of a path: nothing, when it is not one of a file.
Extracted(path) == IF path \in Files THEN Value[path] ELSE Empty

\* process_file: one call for every attribute of the type that is extracted.
Extractions(t, path) ==
    LET attrs == Lookup(Lookup(id[t], <<"ext">>), <<"attrs">>)
        wanted == Kept(attrs, Tokens \ (Builtin \cup {Null}))
    IN  [i \in DOMAIN wanted |-> <<"set", wanted[i], Extracted(path)>>]

ProcessFile(t) ==
    /\ Proceed(t, "process", Extractions(t, Head(todo[t])[2]))
    /\ UNCHANGED <<db, disk, next, named>>

FlushFile(t) ==
    LET path == Lookup(id[t], <<"file_path">>)
    IN  /\ Proceed(t, "flush", Extractions(t, IF Len(path) = 1 THEN path[1] ELSE Null))
        /\ UNCHANGED <<db, disk, next, named>>

\* xmp_unlink: of the attributes of the type only "name" has a command that
\* prints something, the base name of the path the file arrived under.
UnlinkFile(t) ==
    LET path == Lookup(Lookup(<<"name">>, <<Head(todo[t])[2]>>), <<"file_path">>)
        attrs == Lookup(Lookup(id[t], <<"ext">>), <<"attrs">>)
        base == <<"remove", "name", path[Len(path)]>>
    IN  /\ Proceed(t, "unlink", <<<<"remove", "attrs", "all">>>> \o
                                IF "name" \in TokensOf(attrs) THEN <<base>> ELSE <<>>)
        /\ UNCHANGED <<db, disk, next, named>>

\* map_path(resolve_selectors(path), fileid)
MapFile(t) == Due(t, "map") /\
    \E path \in Resolve(Append(Head(todo[t])[2], Name(Head(todo[t])[3]))) :
        /\ Proceed(t, "map", MapPath(path))
        /\ UNCHANGED <<db, disk, next, named>>

\* xmp_rename keeps the path of the old name and the location, maps the new path
\* and then moves the file if the location is another one.
LocateFile(t) ==
    LET call == Head(todo[t])
    IN  /\ Proceed(t, "locate", <<<<"map", call[3], call[4]>>,
            <<"move", PathOf(call[2]), Lookup(id[t], <<"location">>), call[4]>>>>)
        /\ UNCHANGED <<db, disk, next, named>>

Moved(from, to) ==
    IF from \notin DOMAIN disk \/ to \notin Paths
       \/ (to \in DOMAIN disk /\ disk[to] = disk[from]) THEN disk
    ELSE [p \in (DOMAIN disk \cup {to}) \ {from} |-> IF p = to THEN disk[from] ELSE disk[p]]

MoveFile(t) ==
    LET orig_path == Head(todo[t])[2]
        orig_loc == Head(todo[t])[3]
        new_loc == Lookup(id[t], <<"location">>)
    IN  /\ Proceed(t, "move", <<>>)
        /\ disk' = IF new_loc # orig_loc /\ <<"google_music">> \notin {new_loc, orig_loc}
                   THEN Moved(orig_path, PathOf(Head(todo[t])[4])) ELSE disk
        /\ UNCHANGED <<db, next, named>>

\* A variant that takes the name itself for the path when there is none.
DeleteByName(t) ==
    LET n == Head(todo[t])[2]
    IN  /\ Proceed(t, "delete", <<>>)
        /\ disk' = [p \in DOMAIN disk \ {IF PathOf(n) = Null THEN n ELSE PathOf(n)} |-> disk[p]]
        /\ UNCHANGED <<db, next, named>>

\* The end of xmp_unlink, which resolves the name once more.
DeleteFile(t) ==
    LET n == Head(todo[t])[2]
    IN  /\ Proceed(t, "delete", <<>>)
        /\ disk' = [p \in DOMAIN disk \ {PathOf(n)} |-> disk[p]]
        /\ UNCHANGED <<db, next, named>>

Call(t) ==
    \/ MakeEntity(t) \/ SetVal(t) \/ RemoveVal(t)
    \/ ProcessFile(t) \/ FlushFile(t) \/ UnlinkFile(t)
    \/ MapFile(t) \/ LocateFile(t) \/ MoveFile(t) \/ DeleteFile(t)

Next == \E t \in Threads :
    \/ \E n \in Files :
        \/ Receive(t, n) \/ Flush(t, n) \/ Unlink(t, n) \/ Mknod(t, n)
        \/ \E dir \in Dirs :
            \/ Create(t, dir, n)
            \/ \E m \in Files : Rename(t, n, dir, m)
        \/ \E m \in Files : Link(t, n, m)
    \/ Call(t)

Spec == Init /\ [][Next]_vars
------------------------------------------------------------------------------
TypeOK ==
    /\ DOMAIN db \subseteq Text \X Text /\ \A k \in DOMAIN db : db[k] \in Text \ {<<>>}
    /\ DOMAIN disk \subseteq Paths /\ \A p \in DOMAIN disk : disk[p] \in Files \cup {Node}
    /\ next \in 1..(Len(Ids) + 1)
    /\ id \in [Threads -> Text \ {<<>>}]
    /\ ops \in 0..MaxOps /\ overlaps \in 0..MaxOverlaps
    /\ named \in [TokensOf(Ids) -> Tokens]
    /\ shared \subseteq Files
    /\ mixed \subseteq Tokens /\ unlinked \subseteq Tokens /\ stray \in BOOLEAN

Quiet == \A t \in Threads : todo[t] = <<>>

\* Names whose entry "null" was written into by the removal of something that
\* was not there.
Spoiled == {n \in Files : Null \in TokensOf(At(db, <<"name">>, <<n>>))}

(***************************************************************************)
(* khan_create looks a name up before it makes an entity for it: a name    *)
(* belongs to several entities only when it was given while taken, by an   *)
(* arriving file, a rename or an overlapping operation, or by map_path,    *)
(* from a path that says "name" before it.                                 *)
(***************************************************************************)
OneEntityPerName ==
    \A n \in Files \ shared : Cardinality(Holders(n)) <= 1

\* Names that lead to the one entity they were given to.
Clear == Files \ (shared \cup Spoiled \cup mixed)

(***************************************************************************)
(* Between operations that do not overlap an entity has the name last given *)
(* to it, or none once it is unlinked, and no name but that one leads to   *)
(* it.  Set apart are entities that a path gave a second name, or that an  *)
(* operation took for one with others.                                     *)
(***************************************************************************)
NameCurrent ==
    Quiet /\ overlaps = 0 => \A i \in {j \in TokensOf(Ids) \ mixed : named[j] \in Clear} :
        /\ At(db, <<i>>, <<"name">>) \in {<<named[i]>>, <<>>}
        /\ \A n \in Files : i \in Holders(n) => n = named[i]
        /\ At(db, <<i>>, <<"name">>) # <<>> => Lookup(<<"name">>, <<named[i]>>) = <<i>>

(***************************************************************************)
(* Between operations khan_getattr finds every entry that readdir lists,   *)
(* as what it was listed: walking from / through directories that readdir  *)
(* lists, down to the values of a second attribute.  Set apart are files   *)
(* whose name is shared or spoiled, and where a removal of something       *)
(* absent has left the text "null": the entries it makes, and what lies    *)
(* below a value listed for it.                                            *)
(***************************************************************************)
Residue == {Null, "all"}
Tidy(path) == \A k \in 1..(Len(path) \div 2) :
    ValAt(path, k) \in KeysOf(<<AttrAt(path, k)>>) =>
        Null \notin TokensOf(Lookup(<<AttrAt(path, k)>>, <<ValAt(path, k)>>))
ListedFound(path) ==
    /\ \A d \in DirsIn(path) \ Residue : Getattr(Append(path, d)) = "dir"
    /\ \A n \in Clear :
          <<n>> \in FilesIn(path) => Getattr(Append(path, n)) = "file"

WalkFinds ==
    Quiet /\ overlaps = 0 =>
        LET Below(paths) ==
                {p \in UNION {{Append(q, d) : d \in DirsIn(q) \ Residue} : q \in paths} : Tidy(p)}
            attrs == Below({<<>>})
            vals == Below(attrs)
        IN  \A path \in {<<>>} \cup attrs \cup vals \cup Below(vals) : ListedFound(path)

(***************************************************************************)
(* Two selectors of values that files have, in one piece of a path, lead   *)
(* to a directory that khan_getattr finds, whichever attributes the order  *)
(* of the keys makes of them (except through a value listed for "null").   *)
(***************************************************************************)
SelectorsLead ==
    Quiet /\ overlaps = 0 =>
        LET values == UNION {KeysOf(<<a>>) : a \in AllAttrs \ Residue} \ {Null}
        IN  \A x, y \in values : \A path \in Resolve(<<Selectors(<<x, y>>)>>) :
                Tidy(path) => Getattr(path) = "dir"

(***************************************************************************)
(* What arrived can be read under the current name of its entity, through  *)
(* all renames and moves of others and of itself, until it or another one  *)
(* that arrived under the same path is unlinked; as long as nothing ever   *)
(* stood under "null", which a rename to a location would move over it,    *)
(* and clients name no path in a directory (PathsAssumption).              *)
(***************************************************************************)
Readable ==
    Quiet /\ overlaps = 0 /\ ~stray => \A i \in TokensOf(Ids) :
        LET path == At(db, <<i>>, <<"file_path">>)
            same == {j \in TokensOf(Ids) : At(db, <<j>>, <<"file_path">>) = path}
        IN  path # <<>> /\ same \cap unlinked = {} /\ i \notin mixed /\ named[i] \in Clear
                => Reached(named[i]) = path[1]
==============================================================================
